--------------------------- MODULE AuthSessionsProofs ---------------------------
(***************************************************************************)
(* For any number of sessions and requests, any recovery codes and any     *)
(* limits: the counters keep to their columns, a code is accepted once, a  *)
(* secret that was shown is the one that counts, wrong codes end a session *)
(* and wrong passwords lock the user.                                      *)
(***************************************************************************)
EXTENDS AuthSessions, TLAPS

---------------------------------------------------------------------------
(* The inductive invariant                                                  *)

\* A request is on a session that was there when it was resolved; a session that
\* was once there leaves its row.
RequestsHaveSessions ==
    /\ DOMAIN call = Calls
    /\ \A c \in Calls : call[c].at = "resolved" =>
          call[c] \in Requests /\ sess[call[c].session].at # "none"

\* An accepted code is spent as long as the user is there: off the list, or not
\* after the last one.  Nothing was accepted before there was an enrolment, or
\* any session.
AcceptedIsSpent ==
    /\ user.exists /\ ~user.enabled => \A code \in Codes : uses[code] = 0
    /\ user.exists => /\ \A code \in Recovery : uses[code] = 0 \/ code \notin user.recovery
                      /\ \A n \in Counters : uses[n] = 0 \/ n <= user.last
    /\ (\A s \in Sessions : sess[s].at = "none") => \A code \in Codes : uses[code] = 0

\* Zero is no secret, and nothing shown outlives the user.
ShownAreSecrets == 0 \notin shown /\ (~user.exists => shown = {})

AuthInv ==
    /\ TypeOK /\ RequestsHaveSessions
    /\ AcceptedIsSpent /\ SingleUse
    /\ ShownAreSecrets /\ SecretsShownAreKept

---------------------------------------------------------------------------
(* What a request does to its session                                       *)

\* Both ends of a request keep the sessions' rows to their columns, and no session
\* to nothing.
LEMMA RowsKeep ==
    ASSUME AuthInv, NEW c \in Calls, call[c].at = "resolved",
           CompleteMfa(c) \/ RejectMfa(c)
    PROVE  /\ sess' \in [Sessions -> Rows]
           /\ \A s \in Sessions : sess'[s].at = "none" <=> sess[s].at = "none"
PROOF
<1> DEFINE s == call[c].session
<1>1. /\ s \in Sessions /\ sess[s] \in Rows /\ sess[s].at = "open"
      /\ MaxMfaFailed \in Nat /\ sess \in [Sessions -> Rows]
  BY AuthAssumption
     DEF AuthInv, TypeOK, RequestsHaveSessions, Requests, CompleteMfa, RejectMfa, StillOpen
<1>2. CASE CompleteMfa(c)
  <2> DEFINE first == [sess[s] EXCEPT !.verified = TRUE]
             row == [first EXCEPT !.attempts = 0]
  <2>1. sess' = [sess EXCEPT ![s] = row]
    BY <1>2 DEF CompleteMfa
  <2>2. first \in Rows /\ first.at = "open"
    BY <1>1 DEF Rows
  <2>3. row \in Rows /\ row.at = "open"
    <3> HIDE DEF first, s
    <3> QED
      BY <1>1, <2>2 DEF Rows
  <2> HIDE DEF row, s
  <2> QED
    BY <1>1, <2>1, <2>3
<1>3. CASE RejectMfa(c)
  <2> DEFINE n == sess[s].attempts + 1
             first == [sess[s] EXCEPT !.attempts = IF n > MaxMfaFailed THEN MaxMfaFailed ELSE n]
             row == [first EXCEPT !.at = IF TooMany(n) THEN "revoked" ELSE "open"]
  <2>1. sess' = [sess EXCEPT ![s] = row]
    BY <1>3 DEF RejectMfa
  <2>2. first \in Rows /\ first.at = "open"
    BY <1>1 DEF Rows
  <2>3. row \in Rows /\ row.at # "none"
    <3> HIDE DEF first, s, n
    <3> QED
      BY <1>1, <2>2 DEF Rows
  <2> HIDE DEF row, s
  <2> QED
    BY <1>1, <2>1, <2>3
<1> QED
  BY <1>2, <1>3

\* A request that is done, with whatever it did to the user and the sessions.
LEMMA RequestsEnd ==
    ASSUME AuthInv, NEW c \in Calls, Done(c),
           \A s \in Sessions : sess'[s].at = "none" <=> sess[s].at = "none"
    PROVE  /\ RequestsHaveSessions'
           /\ \A d \in Calls : call'[d].at = "resolved" => call'[d] \in Requests
PROOF
<1>1. \A d \in Calls : call'[d] = IF d = c THEN [at |-> "done"] ELSE call[d]
  BY DEF Done, AuthInv, RequestsHaveSessions
<1>2. \A d \in Calls : call'[d].at = "resolved" =>
          d # c /\ call[d].at = "resolved" /\ call'[d] = call[d]
  BY <1>1
<1>3. DOMAIN call' = Calls
  BY DEF Done, AuthInv, RequestsHaveSessions
<1>4. \A d \in Calls : call[d].at = "resolved" => call[d].session \in Sessions
  BY DEF AuthInv, RequestsHaveSessions, Requests
<1> QED
  BY <1>2, <1>3, <1>4 DEF AuthInv, RequestsHaveSessions

---------------------------------------------------------------------------
(* The steps                                                                *)

\* A request that is done, if it keeps the rows, the codes and the secrets right.
LEMMA DecidedWell ==
    ASSUME AuthInv, NEW c \in Calls, Done(c), UNCHANGED <<now, tries>>,
           user' \in Users, shown' \subseteq Nat,
           sess' \in [Sessions -> Rows],
           \A s \in Sessions : sess'[s].at = "none" <=> sess[s].at = "none",
           uses' \in [Codes -> Nat], wrong' \in [Sessions -> Nat],
           AcceptedIsSpent', SingleUse', ShownAreSecrets', SecretsShownAreKept'
    PROVE  AuthInv'
PROOF
<1>1. RequestsHaveSessions' /\ \A d \in Calls : call'[d].at = "resolved" => call'[d] \in Requests
  BY RequestsEnd
<1>2. TypeOK'
  BY <1>1 DEF AuthInv, TypeOK
<1> QED
  BY <1>1, <1>2 DEF AuthInv

\* What a code that is not taken leaves behind.
LEMMA RejectStep ==
    ASSUME AuthInv, NEW c \in Calls, Done(c), UNCHANGED <<now, tries, shown>>,
           call[c].at = "resolved", RejectMfa(c)
    PROVE  AuthInv'
PROOF
<1>1. /\ sess' \in [Sessions -> Rows]
      /\ \A s \in Sessions : sess'[s].at = "none" <=> sess[s].at = "none"
  BY RowsKeep
<1>2. UNCHANGED <<user, uses>> /\ wrong' \in [Sessions -> Nat]
  <2>1. call[c].session \in Sessions
    BY DEF AuthInv, RequestsHaveSessions, Requests
  <2>2. UNCHANGED <<user, uses>> /\ wrong' = [wrong EXCEPT ![call[c].session] = wrong[call[c].session] + 1]
    BY DEF RejectMfa
  <2> QED
    BY <2>1, <2>2 DEF AuthInv, TypeOK
<1>3. AcceptedIsSpent' /\ SingleUse' /\ ShownAreSecrets' /\ SecretsShownAreKept'
  BY <1>1, <1>2 DEF AuthInv, AcceptedIsSpent, SingleUse, ShownAreSecrets, SecretsShownAreKept
<1> QED
  BY <1>1, <1>2, <1>3, DecidedWell DEF AuthInv, TypeOK

\* What a code that is taken leaves behind, if it was not spent and is now.
LEMMA AcceptStep ==
    ASSUME AuthInv, NEW c \in Calls, Done(c), UNCHANGED <<now, tries, shown>>,
           call[c].at = "resolved", AcceptMfa(c),
           user.exists, user' \in Users, user'.exists, user'.enabled,
           user'.secret = user.secret,
           uses[call[c].code] = 0,
           \A code \in Recovery : uses'[code] = 0 \/ code \notin user'.recovery,
           \A n \in Counters : uses'[n] = 0 \/ n <= user'.last
    PROVE  AuthInv'
PROOF
<1>1. /\ sess' \in [Sessions -> Rows]
      /\ \A s \in Sessions : sess'[s].at = "none" <=> sess[s].at = "none"
  BY RowsKeep DEF AcceptMfa
<1>2. call[c].session \in Sessions /\ sess[call[c].session].at # "none" /\ call[c].code \in Codes
  BY DEF AuthInv, RequestsHaveSessions, Requests
<1>3. uses' = [uses EXCEPT ![call[c].code] = 1]
  BY <1>2 DEF AcceptMfa, AuthInv, TypeOK
<1>4. uses' \in [Codes -> Nat] /\ SingleUse'
  BY <1>2, <1>3 DEF AuthInv, TypeOK, SingleUse
<1>5. wrong' \in [Sessions -> Nat]
  BY <1>2 DEF AcceptMfa, AuthInv, TypeOK
<1>6. AcceptedIsSpent'
  BY <1>1, <1>2 DEF AuthInv, AcceptedIsSpent
<1>7. ShownAreSecrets' /\ SecretsShownAreKept'
  BY DEF AuthInv, ShownAreSecrets, SecretsShownAreKept
<1> QED
  BY <1>1, <1>4, <1>5, <1>6, <1>7, DecidedWell DEF AuthInv, TypeOK

\* The first setup makes the secret, and those that follow show it again.
LEMMA SetupStep ==
    ASSUME AuthInv, NEW c \in Calls, Done(c), UNCHANGED <<now, tries>>,
           user.exists, Setup(c)
    PROVE  AuthInv'
PROOF
<1>1. UNCHANGED <<sess, uses, wrong>>
  BY DEF Setup
<1>2. /\ user' \in Users /\ user'.exists
      /\ user'.enabled = user.enabled /\ user'.recovery = user.recovery /\ user'.last = user.last
      /\ shown' \subseteq Nat
      /\ ShownAreSecrets' /\ SecretsShownAreKept'
  <2>1. CASE user.enabled
    BY <2>1 DEF Setup, AuthInv, TypeOK, ShownAreSecrets, SecretsShownAreKept
  <2>2. CASE ~user.enabled
    <3> DEFINE secret == IF user.secret = 0 THEN user.secret + 1 ELSE user.secret
    <3>1. user' = [user EXCEPT !.secret = secret] /\ shown' = shown \cup {secret}
      BY <2>2 DEF Setup, NeedsSecret
    <3>2. user \in Users /\ secret \in Nat /\ secret # 0
      BY DEF AuthInv, TypeOK, Users
    <3>3. shown \subseteq {secret}
      BY <3>2 DEF AuthInv, ShownAreSecrets, SecretsShownAreKept
    <3> HIDE DEF secret
    <3>4. user' \in Users /\ user'.exists = user.exists /\ user'.secret = secret
          /\ user'.enabled = user.enabled /\ user'.recovery = user.recovery /\ user'.last = user.last
      BY <3>1, <3>2 DEF Users
    <3> QED
      BY <3>1, <3>2, <3>3, <3>4 DEF ShownAreSecrets, SecretsShownAreKept
  <2> QED
    BY <2>1, <2>2
<1>3. AcceptedIsSpent' /\ SingleUse'
  BY <1>1, <1>2 DEF AuthInv, AcceptedIsSpent, SingleUse
<1> QED
  BY <1>1, <1>2, <1>3, DecidedWell DEF AuthInv, TypeOK

\* Before there is an enrolment nothing was accepted; the code that confirms it is the
\* last one from then on.
LEMMA ConfirmStep ==
    ASSUME AuthInv, NEW c \in Calls, Done(c), UNCHANGED <<now, tries>>,
           call[c].at = "resolved", user.exists, Confirm(c)
    PROVE  AuthInv'
PROOF
<1>1. UNCHANGED shown
  BY DEF Confirm
<1>2. CASE UNCHANGED <<user, sess, uses, wrong>>
  BY <1>1, <1>2, DecidedWell
     DEF AuthInv, TypeOK, AcceptedIsSpent, SingleUse, ShownAreSecrets, SecretsShownAreKept
<1>3. CASE RejectMfa(c)
  BY <1>1, <1>3, RejectStep
<1>4. CASE ~user.enabled /\ Matches(call[c].code) /\ AcceptMfa(c)
           /\ user' = [user EXCEPT !.enabled = TRUE, !.recovery = Recovery, !.last = call[c].code]
  <2>1. call[c].code \in Counters /\ call[c].code \notin Recovery /\ Counters \subseteq Int
    BY <1>4, AuthAssumption DEF Matches, Counters
  <2>2. user \in Users /\ user' \in Users /\ user'.exists /\ user'.enabled
        /\ user'.secret = user.secret /\ user'.recovery = Recovery /\ user'.last = call[c].code
    BY <1>4, <2>1 DEF AuthInv, TypeOK, Users
  <2>3. \A code \in Codes : uses[code] = 0
    BY <1>4 DEF AuthInv, AcceptedIsSpent
  <2>4. \A code \in Codes : code # call[c].code => uses'[code] = 0
    BY <1>4, <2>3 DEF AcceptMfa, AuthInv, TypeOK
  <2>5. \A code \in Recovery : uses'[code] = 0
    BY <2>1, <2>4 DEF Codes
  <2>6. \A n \in Counters : uses'[n] = 0 \/ n <= user'.last
    <3>1. TAKE n \in Counters
    <3>2. CASE n = call[c].code
      BY <2>1, <2>2, <3>2
    <3>3. CASE n # call[c].code
      BY <2>4, <3>3 DEF Codes
    <3> QED
      BY <3>2, <3>3
  <2>7. uses[call[c].code] = 0
    BY <2>1, <2>3 DEF Codes
  <2> QED
    BY <1>1, <1>4, <2>2, <2>5, <2>6, <2>7, AcceptStep
<1> QED
  BY <1>2, <1>3, <1>4 DEF Confirm

\* A code that passes is on the list or after the last one: it was not accepted before.
LEMMA VerifyStep ==
    ASSUME AuthInv, NEW c \in Calls, Done(c), UNCHANGED <<now, tries>>,
           call[c].at = "resolved", user.exists, Verify(c)
    PROVE  AuthInv'
PROOF
<1>1. UNCHANGED shown
  BY DEF Verify
<1>2. CASE UNCHANGED <<user, sess, uses, wrong>>
  BY <1>1, <1>2, DecidedWell
     DEF AuthInv, TypeOK, AcceptedIsSpent, SingleUse, ShownAreSecrets, SecretsShownAreKept
<1>3. CASE RejectMfa(c)
  BY <1>1, <1>3, RejectStep
<1>4. CASE user.enabled /\ Acceptable(call[c].code) /\ user' = Spent(call[c].code) /\ AcceptMfa(c)
  <2> DEFINE code == call[c].code
  <2>1. user \in Users /\ user.recovery \subseteq Recovery /\ user.last \in Int /\ Counters \subseteq Int
    BY AuthAssumption DEF AuthInv, TypeOK, Users, Counters
  <2>2. code \in Codes /\ Recovery \subseteq Codes /\ Counters \subseteq Codes
    BY DEF AuthInv, RequestsHaveSessions, Requests, Codes
  <2>3. /\ \A r \in Recovery : uses[r] = 0 \/ r \notin user.recovery
        /\ \A n \in Counters : uses[n] = 0 \/ n <= user.last
    BY DEF AuthInv, AcceptedIsSpent
  <2>4. \A other \in Codes : other # code => uses'[other] = uses[other]
    BY <1>4 DEF AcceptMfa, AuthInv, TypeOK
  <2>5. CASE code \in user.recovery
    <3>1. user' = [user EXCEPT !.recovery = user.recovery \ {code}]
      BY <1>4, <2>5 DEF Spent
    <3>2. user' \in Users /\ user'.exists /\ user'.enabled /\ user'.secret = user.secret
          /\ user'.recovery = user.recovery \ {code} /\ user'.last = user.last
      BY <1>4, <2>1, <3>1 DEF Users
    <3>3. uses[code] = 0 /\ code \notin Counters
      BY <2>1, <2>3, <2>5, AuthAssumption
    <3>4. \A r \in Recovery : uses'[r] = 0 \/ r \notin user'.recovery
      BY <2>2, <2>3, <2>4, <3>2
    <3>5. \A n \in Counters : uses'[n] = 0 \/ n <= user'.last
      BY <2>2, <2>3, <2>4, <3>2, <3>3
    <3> QED
      BY <1>1, <1>4, <3>2, <3>3, <3>4, <3>5, AcceptStep
  <2>6. CASE code \notin user.recovery
    <3>1. code \in Counters /\ ~(code <= user.last) /\ code \notin Recovery
      BY <1>4, <2>6, AuthAssumption DEF Acceptable, Matches, Replayed
    <3>2. user' = [user EXCEPT !.last = code]
      BY <1>4, <2>6 DEF Spent
    <3>3. user' \in Users /\ user'.exists /\ user'.enabled /\ user'.secret = user.secret
          /\ user'.recovery = user.recovery /\ user'.last = code
      BY <1>4, <2>1, <3>1, <3>2 DEF Users
    <3>4. uses[code] = 0
      BY <2>3, <3>1
    <3>5. \A r \in Recovery : uses'[r] = 0 \/ r \notin user'.recovery
      BY <2>2, <2>3, <2>4, <3>1, <3>3
    <3>6. \A n \in Counters : uses'[n] = 0 \/ n <= user'.last
      <4>1. TAKE n \in Counters
      <4>2. CASE n = code
        BY <2>1, <3>1, <3>3, <4>2
      <4>3. CASE n # code
        <5>1. uses'[n] = uses[n]
          BY <2>2, <2>4, <4>3
        <5>2. uses[n] = 0 \/ n <= user.last
          BY <2>3
        <5> HIDE DEF code
        <5> QED
          BY <2>1, <3>1, <3>3, <5>1, <5>2
      <4> QED
        BY <4>2, <4>3
    <3> QED
      BY <1>1, <1>4, <3>3, <3>4, <3>5, <3>6, AcceptStep
  <2> QED
    BY <2>5, <2>6
<1> QED
  BY <1>2, <1>3, <1>4 DEF Verify

\* The rows that are written whole have the shape of their tables.
LEMMA NewRows ==
    /\ NewUser \in Users /\ NewUser.exists /\ NewUser.secret = 0
    /\ [NewUser EXCEPT !.exists = FALSE] \in Users
    /\ ~[NewUser EXCEPT !.exists = FALSE].exists
    /\ [NewUser EXCEPT !.exists = FALSE].secret = 0
    /\ Enrolled \in Users /\ Enrolled.exists /\ Enrolled.secret = 1
    /\ NoRow \in Rows /\ NoRow.at = "none"
    /\ [NoRow EXCEPT !.at = "gone"] \in Rows /\ [NoRow EXCEPT !.at = "gone"].at = "gone"
PROOF
<1>1. /\ 0 \in 0..MaxFailed /\ 0 \in 0..MaxMfaFailed /\ {} \in SUBSET Recovery
      /\ -1 \in Counters \cup {-1} /\ 0 \in Nat /\ 1 \in Nat
  BY AuthAssumption
<1>2. NewUser \in Users /\ NewUser.exists /\ NewUser.secret = 0
  BY <1>1 DEF NewUser, Users
<1>3. /\ [NewUser EXCEPT !.exists = FALSE] \in Users
      /\ ~[NewUser EXCEPT !.exists = FALSE].exists
      /\ [NewUser EXCEPT !.exists = FALSE].secret = 0
  BY <1>2 DEF Users
<1>4. Enrolled \in Users /\ Enrolled.exists /\ Enrolled.secret = 1
  <2> DEFINE first == [NewUser EXCEPT !.secret = 1]
             second == [first EXCEPT !.enabled = TRUE]
  <2>1. first \in Users /\ first.exists /\ first.secret = 1
    BY <1>1, <1>2 DEF Users
  <2>2. Enrolled = [second EXCEPT !.recovery = Recovery]
    BY DEF Enrolled
  <2> HIDE DEF first
  <2>3. second \in Users /\ second.exists /\ second.secret = 1
    BY <2>1 DEF Users
  <2> HIDE DEF second
  <2> QED
    BY <2>2, <2>3 DEF Users
<1>5. NoRow \in Rows /\ NoRow.at = "none"
  BY <1>1 DEF NoRow, Rows
<1>6. [NoRow EXCEPT !.at = "gone"] \in Rows /\ [NoRow EXCEPT !.at = "gone"].at = "gone"
  BY <1>5 DEF Rows
<1> QED
  BY <1>2, <1>3, <1>4, <1>5, <1>6

\* A request is resolved on a session that is there.
LEMMA ResolveStep ==
    ASSUME AuthInv, NEW c \in Calls, Resolve(c)
    PROVE  AuthInv'
PROOF
<1>1. UNCHANGED <<user, sess, now, shown, uses, tries, wrong>>
  BY DEF Resolve
<1>2. DOMAIN call' = Calls /\ \A d \in Calls \ {c} : call'[d] = call[d]
  BY DEF Resolve, Done, AuthInv, RequestsHaveSessions
<1>3. call'[c].at = "resolved" => call'[c] \in Requests /\ sess[call'[c].session].at # "none"
  <2>1. PICK s \in Sessions, op \in {"setup", "confirm", "verify"}, code \in Codes :
            /\ sess[s].at # "none"
            /\ \/ call' = [call EXCEPT ![c] = [at |-> "resolved", op |-> op, session |-> s,
                                                code |-> code]]
               \/ Done(c)
    BY DEF Resolve
  <2>2. CASE Done(c)
    BY <2>2 DEF Done, AuthInv, RequestsHaveSessions
  <2>3. CASE ~Done(c)
    <3> DEFINE row == [at |-> "resolved", op |-> op, session |-> s, code |-> code]
    <3>1. call'[c] = row
      BY <2>1, <2>3 DEF AuthInv, RequestsHaveSessions
    <3>2. row \in Requests /\ row.session = s
      BY DEF Requests
    <3> HIDE DEF row
    <3> QED
      BY <2>1, <3>1, <3>2
  <2> QED
    BY <2>2, <2>3
<1>4. \A d \in Calls : call'[d].at = "resolved" =>
          call'[d] \in Requests /\ sess[call'[d].session].at # "none"
  BY <1>2, <1>3 DEF AuthInv, RequestsHaveSessions
<1> QED
  BY <1>1, <1>2, <1>4 DEF AuthInv, TypeOK, RequestsHaveSessions, AcceptedIsSpent, SingleUse,
                          ShownAreSecrets, SecretsShownAreKept

LEMMA DecideStep ==
    ASSUME AuthInv, NEW c \in Calls, Decide(c)
    PROVE  AuthInv'
PROOF
<1>1. call[c].at = "resolved" /\ Done(c) /\ UNCHANGED <<now, tries>>
  BY DEF Decide
<1>2. CASE UNCHANGED <<user, sess, shown, uses, wrong>>
  BY <1>1, <1>2, DecidedWell
     DEF AuthInv, TypeOK, AcceptedIsSpent, SingleUse, ShownAreSecrets, SecretsShownAreKept
<1>3. CASE user.exists /\ (Setup(c) \/ Confirm(c) \/ Verify(c))
  BY <1>1, <1>3, SetupStep, ConfirmStep, VerifyStep
<1> QED
  BY <1>2, <1>3 DEF Decide

\* A step that leaves the requests, the codes and the secrets alone.
LEMMA PasswordStep ==
    ASSUME AuthInv, UNCHANGED <<call, shown, uses, wrong>>,
           now' \in 0..MaxNow, tries' \in Nat,
           user' \in Users, user'.exists = user.exists, user'.secret = user.secret,
           user'.enabled = user.enabled, user'.recovery = user.recovery, user'.last = user.last,
           sess' \in [Sessions -> Rows],
           \A s \in Sessions : sess'[s].at = "none" => sess[s].at = "none"
    PROVE  AuthInv'
PROOF
<1>1. TypeOK'
  BY DEF AuthInv, TypeOK
<1>2. RequestsHaveSessions'
  <2>1. \A c \in Calls : call[c].at = "resolved" => call[c].session \in Sessions
    BY DEF AuthInv, RequestsHaveSessions, Requests
  <2> QED
    BY <2>1 DEF AuthInv, RequestsHaveSessions
<1>3. AcceptedIsSpent' /\ SingleUse' /\ ShownAreSecrets' /\ SecretsShownAreKept'
  BY DEF AuthInv, AcceptedIsSpent, SingleUse, ShownAreSecrets, SecretsShownAreKept
<1> QED
  BY <1>1, <1>2, <1>3 DEF AuthInv

\* A wrong password counts up to the limit, a right one starts over; sessions come
\* and end, and time passes.
LEMMA LoginStep ==
    ASSUME AuthInv,
           WrongPassword \/ Tick \/ \E s \in Sessions : Login(s) \/ Logout(s)
    PROVE  AuthInv'
PROOF
<1>1. /\ user \in Users /\ sess \in [Sessions -> Rows] /\ now \in 0..MaxNow /\ tries \in Nat
      /\ \A s \in Sessions : sess[s] \in Rows
  BY DEF AuthInv, TypeOK
<1>2. CASE WrongPassword
  <2> DEFINE failed == Capped(user.failed + 1)
             locked == IF user.failed + 1 >= MaxFailed THEN now + Lock ELSE user.locked
  <2>1. user' = [user EXCEPT !.failed = failed, !.locked = locked]
    BY <1>2 DEF WrongPassword, Failed
  <2>2. failed \in 0..MaxFailed /\ locked \in Nat
    BY <1>1, AuthAssumption DEF Users, Capped
  <2> HIDE DEF failed, locked
  <2>3. /\ user' \in Users /\ user'.exists = user.exists /\ user'.secret = user.secret
        /\ user'.enabled = user.enabled /\ user'.recovery = user.recovery /\ user'.last = user.last
    BY <1>1, <2>1, <2>2 DEF Users
  <2> QED
    BY <1>1, <1>2, <2>3, PasswordStep DEF WrongPassword
<1>3. CASE Tick
  BY <1>1, <1>3, PasswordStep, AuthAssumption DEF Tick
<1>4. ASSUME NEW s \in Sessions, Login(s) PROVE AuthInv'
  <2>1. /\ user' = [user EXCEPT !.failed = 0, !.locked = 0]
        /\ sess' = [sess EXCEPT ![s] = Created]
        /\ tries' = 0 /\ UNCHANGED <<call, now, shown, uses, wrong>>
    BY <1>4 DEF Login
  <2>2. /\ user' \in Users /\ user'.exists = user.exists /\ user'.secret = user.secret
        /\ user'.enabled = user.enabled /\ user'.recovery = user.recovery /\ user'.last = user.last
    <3>1. 0 \in 0..MaxFailed /\ 0 \in Nat
      BY AuthAssumption
    <3> QED
      BY <1>1, <2>1, <3>1 DEF Users
  <2>3. Created \in Rows /\ Created.at = "open"
    <3> DEFINE opened == [NoRow EXCEPT !.at = "open"]
               until == now + Ttl
    <3>1. opened \in Rows /\ opened.at = "open"
      BY NewRows DEF Rows
    <3>2. until \in Nat
      BY <1>1, AuthAssumption
    <3>3. Created = [opened EXCEPT !.until = until]
      BY DEF Created
    <3> HIDE DEF opened, until
    <3> QED
      BY <3>1, <3>2, <3>3 DEF Rows
  <2> QED
    BY <1>1, <2>1, <2>2, <2>3, PasswordStep
<1>5. ASSUME NEW s \in Sessions, Logout(s) PROVE AuthInv'
  <2>1. sess' = [sess EXCEPT ![s] = Revoked(s)] /\ UNCHANGED <<user, call, now, shown, uses, tries, wrong>>
    BY <1>5 DEF Logout
  <2>2. Revoked(s) \in Rows /\ Revoked(s).at = "revoked"
    BY <1>1 DEF Revoked, Rows
  <2> QED
    BY <1>1, <2>1, <2>2, PasswordStep
<1> QED
  BY <1>2, <1>3, <1>4, <1>5

\* A user begins with nothing, and ends with every session.
LEMMA UserStep ==
    ASSUME AuthInv, Register \/ DeleteUser
    PROVE  AuthInv'
PROOF
<1>1. /\ NewUser \in Users /\ NewUser.exists /\ NewUser.secret = 0
      /\ [NewUser EXCEPT !.exists = FALSE] \in Users
      /\ ~[NewUser EXCEPT !.exists = FALSE].exists
  BY NewRows
<1>2. [NoRow EXCEPT !.at = "gone"] \in Rows /\ [NoRow EXCEPT !.at = "gone"].at = "gone"
  BY NewRows
<1>3. \A c \in Calls : call[c].at = "resolved" => call[c].session \in Sessions
  BY DEF AuthInv, RequestsHaveSessions, Requests
<1>4. CASE Register
  <2>1. /\ user' = NewUser /\ UNCHANGED <<sess, call, now, shown, uses, tries, wrong>>
        /\ ~user.exists /\ \A s \in Sessions : sess[s].at = "none"
    BY <1>4 DEF Register
  <2>2. \A code \in Codes : uses[code] = 0
    BY <2>1 DEF AuthInv, AcceptedIsSpent
  <2>3. shown = {}
    BY <2>1 DEF AuthInv, ShownAreSecrets
  <2>4. AcceptedIsSpent'
    BY <2>1, <2>2 DEF AcceptedIsSpent, Codes
  <2> QED
    BY <1>1, <2>1, <2>3, <2>4 DEF AuthInv, TypeOK, RequestsHaveSessions, SingleUse,
                                  ShownAreSecrets, SecretsShownAreKept
<1>5. CASE DeleteUser
  <2>1. /\ user' = [NewUser EXCEPT !.exists = FALSE]
        /\ sess' = [s \in Sessions |-> [NoRow EXCEPT !.at = "gone"]]
        /\ shown' = {} /\ UNCHANGED <<call, now, uses, tries, wrong>>
    BY <1>5 DEF DeleteUser
  <2>2. sess' \in [Sessions -> Rows] /\ \A s \in Sessions : sess'[s].at = "gone"
    BY <1>2, <2>1
  <2>3. TypeOK'
    BY <1>1, <2>1, <2>2 DEF AuthInv, TypeOK
  <2>4. RequestsHaveSessions'
    BY <1>3, <2>1, <2>2 DEF AuthInv, RequestsHaveSessions
  <2>5. AcceptedIsSpent'
    BY <1>1, <2>1, <2>2, AuthAssumption DEF AcceptedIsSpent
  <2> QED
    BY <2>1, <2>3, <2>4, <2>5 DEF AuthInv, SingleUse, ShownAreSecrets, SecretsShownAreKept
<1> QED
  BY <1>4, <1>5

---------------------------------------------------------------------------
(* Theorems                                                                 *)

\* The invariant above, of every behaviour.
THEOREM AuthInvariant == Spec => []AuthInv
PROOF
<1>1. Init => AuthInv
  <2> SUFFICES ASSUME Init PROVE AuthInv
    OBVIOUS
  <2>1. user = [NewUser EXCEPT !.exists = FALSE] \/ user = Enrolled
    BY DEF Init
  <2>2. shown = {user.secret} \ {0}
    BY DEF Init
  <2>3. user \in Users /\ (~user.exists => user.secret = 0)
    BY <2>1, NewRows
  <2>4. user.secret \in Nat
    BY <2>3 DEF Users
  <2>5. \A code \in Codes : uses[code] = 0
    BY DEF Init
  <2>6. AcceptedIsSpent
    BY <2>5 DEF AcceptedIsSpent, Codes
  <2>7. TypeOK
    BY <2>2, <2>3, <2>4, NewRows, AuthAssumption DEF Init, TypeOK
  <2>8. RequestsHaveSessions
    BY DEF Init, RequestsHaveSessions
  <2> QED
    BY <2>2, <2>3, <2>5, <2>6, <2>7, <2>8 DEF AuthInv, SingleUse, ShownAreSecrets, SecretsShownAreKept
<1>2. AuthInv /\ [Next]_vars => AuthInv'
  <2> SUFFICES ASSUME AuthInv, [Next]_vars PROVE AuthInv'
    OBVIOUS
  <2>1. CASE UNCHANGED vars
    BY <2>1 DEF vars, AuthInv, TypeOK, RequestsHaveSessions, AcceptedIsSpent, SingleUse,
                ShownAreSecrets, SecretsShownAreKept
  <2> QED
    BY <2>1, LoginStep, UserStep, ResolveStep, DecideStep DEF Next
<1> QED
  BY <1>1, <1>2, PTL DEF Spec

\* The counters of users and auth_sessions keep within their check constraints,
\* whatever requests overlap.
THEOREM CountersKeepToTheirColumns == Spec => []TypeOK
PROOF
<1>1. AuthInv => TypeOK
  BY DEF AuthInv
<1> QED
  BY <1>1, AuthInvariant, PTL

\* A one-time or recovery code is accepted once, on whatever sessions it is sent.
THEOREM CodesAreSpentOnce == Spec => []SingleUse
PROOF
<1>1. AuthInv => SingleUse
  BY DEF AuthInv
<1> QED
  BY <1>1, AuthInvariant, PTL

\* However many setups are asked for at once, all have answered with the one secret.
THEOREM OneSecretIsShown == Spec => []SecretsShownAreKept
PROOF
<1>1. AuthInv => SecretsShownAreKept
  BY DEF AuthInv
<1> QED
  BY <1>1, AuthInvariant, PTL

---------------------------------------------------------------------------
(* The wrong codes on a session                                            *)

\* The counter of an open session is the number of wrong codes in a row, and below
\* the limit; nothing is counted on a session that is over.
CountInv ==
    \A s \in Sessions :
        /\ sess[s].at = "none" => wrong[s] = 0
        /\ wrong[s] <= MaxMfaFailed
        /\ sess[s].at = "open" => wrong[s] = sess[s].attempts /\ wrong[s] < MaxMfaFailed

\* A step by which sessions open and close, and nothing is counted.
LEMMA NothingCounted ==
    ASSUME CountInv, UNCHANGED wrong,
           \A s \in Sessions :
               /\ sess'[s].at = "none" => sess[s].at = "none"
               /\ sess'[s].at = "open" =>
                     \/ sess[s].at = "open" /\ sess'[s].attempts = sess[s].attempts
                     \/ sess[s].at = "none" /\ sess'[s].attempts = 0
    PROVE  CountInv'
PROOF
<1>1. 0 < MaxMfaFailed
  BY AuthAssumption
<1> QED
  BY <1>1 DEF CountInv

\* Whoever comes first of the requests on a session, the next counts on from there.
LEMMA CountedDecision ==
    ASSUME AuthInv, CountInv, NEW c \in Calls, call[c].at = "resolved",
           RejectMfa(c) \/ AcceptMfa(c)
    PROVE  CountInv'
PROOF
<1> DEFINE s == call[c].session
<1>1. /\ s \in Sessions /\ sess[s] \in Rows /\ sess[s].at = "open"
      /\ MaxMfaFailed \in Nat /\ 0 < MaxMfaFailed
      /\ sess \in [Sessions -> Rows] /\ sess[s].attempts \in 0..MaxMfaFailed
      /\ wrong \in [Sessions -> Nat]
  BY AuthAssumption DEF AuthInv, TypeOK, RequestsHaveSessions, Requests, Rows,
                        RejectMfa, AcceptMfa, CompleteMfa, StillOpen
<1>2. \A t \in Sessions : t # s => sess'[t] = sess[t] /\ wrong'[t] = wrong[t]
  BY <1>1 DEF RejectMfa, AcceptMfa, CompleteMfa
<1>3. wrong[s] = sess[s].attempts /\ wrong[s] < MaxMfaFailed
  BY <1>1 DEF CountInv
<1>4. /\ sess'[s].at # "none" /\ wrong'[s] <= MaxMfaFailed
      /\ sess'[s].at = "open" => wrong'[s] = sess'[s].attempts /\ wrong'[s] < MaxMfaFailed
  <2>1. CASE AcceptMfa(c)
    <3>1. wrong'[s] = 0 /\ sess'[s].at = "open" /\ sess'[s].attempts = 0
      BY <1>1, <2>1 DEF AcceptMfa, CompleteMfa, Rows
    <3> QED
      BY <1>1, <3>1
  <2>2. CASE RejectMfa(c)
    <3> DEFINE n == sess[s].attempts + 1
    <3>1. wrong'[s] = wrong[s] + 1
      BY <1>1, <2>2 DEF RejectMfa
    <3>2. /\ sess'[s].at = IF n >= MaxMfaFailed THEN "revoked" ELSE "open"
          /\ sess'[s].attempts = IF n > MaxMfaFailed THEN MaxMfaFailed ELSE n
      BY <1>1, <2>2 DEF RejectMfa, TooMany, Rows
    <3> HIDE DEF s
    <3> QED
      BY <1>1, <1>3, <3>1, <3>2
  <2> QED
    BY <2>1, <2>2
<1> HIDE DEF s
<1> QED
  BY <1>1, <1>2, <1>4 DEF CountInv

\* For any number of requests on a session at once, and any limit: no more wrong
\* codes in a row are compared than the limit, and the last of them ends the session.
THEOREM FailuresEndASession == Spec => []WrongCodesEndASession
PROOF
<1>1. Init => CountInv
  <2>1. 0 <= MaxMfaFailed
    BY AuthAssumption
  <2> QED
    BY <2>1 DEF Init, CountInv, NoRow
<1>2. AuthInv /\ CountInv /\ [Next]_vars => CountInv'
  <2> SUFFICES ASSUME AuthInv, CountInv, [Next]_vars PROVE CountInv'
    OBVIOUS
  <2>1. sess \in [Sessions -> Rows]
    BY DEF AuthInv, TypeOK
  <2>2. ASSUME UNCHANGED <<sess, wrong>> PROVE CountInv'
    BY <2>2 DEF CountInv
  <2>3. ASSUME NEW c \in Calls, Decide(c) PROVE CountInv'
    <3>1. call[c].at = "resolved"
      BY <2>3 DEF Decide
    <3>2. UNCHANGED <<sess, wrong>> \/ RejectMfa(c) \/ AcceptMfa(c)
      BY <2>3 DEF Decide, Setup, Confirm, Verify
    <3> QED
      BY <2>2, <3>1, <3>2, CountedDecision
  <2>4. ASSUME NEW s \in Sessions, Login(s) PROVE CountInv'
    <3>1. Created.at = "open" /\ Created.attempts = 0
      BY DEF Created, NoRow
    <3> QED
      BY <2>1, <2>4, <3>1, NothingCounted DEF Login
  <2>5. ASSUME NEW s \in Sessions, Logout(s) PROVE CountInv'
    <3>1. Revoked(s).at = "revoked"
      BY <2>1 DEF Revoked, Rows
    <3> QED
      BY <2>1, <2>5, <3>1, NothingCounted DEF Logout
  <2>6. CASE DeleteUser
    <3>1. [NoRow EXCEPT !.at = "gone"].at = "gone"
      BY NewRows
    <3> QED
      BY <2>6, <3>1, NothingCounted DEF DeleteUser
  <2>7. CASE Register \/ WrongPassword \/ Tick \/ UNCHANGED vars
    BY <2>2, <2>7 DEF Register, WrongPassword, Tick, vars
  <2>8. ASSUME NEW c \in Calls, Resolve(c) PROVE CountInv'
    BY <2>2, <2>8 DEF Resolve
  <2> QED
    BY <2>3, <2>4, <2>5, <2>6, <2>7, <2>8 DEF Next
<1>3. AuthInv /\ CountInv => WrongCodesEndASession
  <2> SUFFICES ASSUME AuthInv, CountInv, NEW s \in Sessions
               PROVE  /\ wrong[s] <= MaxMfaFailed
                      /\ wrong[s] = MaxMfaFailed => sess[s].at # "open"
    BY DEF WrongCodesEndASession
  <2>1. wrong[s] \in Nat /\ MaxMfaFailed \in Nat
    BY AuthAssumption DEF AuthInv, TypeOK
  <2> QED
    BY <2>1 DEF CountInv
<1> QED
  BY <1>1, <1>2, <1>3, AuthInvariant, PTL DEF Spec

---------------------------------------------------------------------------
(* The wrong passwords before the right one                                 *)

\* Below the limit every one is counted.  At the limit each one locks the user for
\* a while, and none is compared before the lock has expired: the end of the last
\* lock tells how many there can have been.  A user who registers has none.
GuessInv ==
    /\ user.exists =>
          /\ user.failed < MaxFailed => tries <= user.failed
          /\ user.failed = MaxFailed => tries + 1 <= MaxFailed + user.locked \div Lock
          /\ user.locked <= now + Lock
    /\ ~user.exists /\ (\A s \in Sessions : sess[s].at = "none") => tries = 0
    /\ GuessesAreBounded

LEMMA LocksAreCounted ==
    ASSUME NEW n \in Nat, NEW m \in Nat, n <= m
    PROVE  /\ n \div Lock \in Nat
           /\ n \div Lock <= m \div Lock
           /\ (n + Lock) \div Lock = (n \div Lock) + 1
  BY AuthAssumption

\* A wrong password is compared when the last lock has expired.
LEMMA GuessStep ==
    ASSUME AuthInv, GuessInv, WrongPassword
    PROVE  GuessInv'
PROOF
<1> DEFINE failed == Capped(user.failed + 1)
           locked == IF user.failed + 1 >= MaxFailed THEN now + Lock ELSE user.locked
<1>1. /\ user' = [user EXCEPT !.failed = failed, !.locked = locked]
      /\ user.exists /\ user.locked <= now /\ tries' = tries + 1
      /\ UNCHANGED <<sess, now>>
  BY DEF WrongPassword, Failed
<1>2. /\ user \in Users /\ user.failed \in 0..MaxFailed /\ user.locked \in Nat
      /\ now \in Nat /\ tries \in Nat /\ Lock \in Nat /\ MaxFailed \in Nat \ {0}
  BY AuthAssumption DEF AuthInv, TypeOK, Users
<1>3. /\ failed = IF user.failed + 1 >= MaxFailed THEN MaxFailed ELSE user.failed + 1
      /\ locked \in Nat /\ locked <= now + Lock
  BY <1>1, <1>2 DEF Capped
<1> DEFINE before == user.locked \div Lock
           here == now \div Lock
           after == (now + Lock) \div Lock
<1>4. /\ before \in Nat /\ here \in Nat
      /\ before <= here /\ after = here + 1
  BY <1>1, <1>2, LocksAreCounted
<1>5. locked = now + Lock => locked \div Lock = after
  OBVIOUS
<1>6. /\ user.failed < MaxFailed => tries <= user.failed
      /\ user.failed = MaxFailed => tries + 1 <= MaxFailed + before
  BY <1>1 DEF GuessInv
<1>7. user.failed + 1 >= MaxFailed => locked = now + Lock
  OBVIOUS
<1> DEFINE bound == locked \div Lock
<1>8. user.failed + 1 >= MaxFailed => bound = after
  BY <1>5, <1>7
<1> HIDE DEF failed, locked, before, here, after, bound
<1>9. user'.failed = failed /\ user'.locked = locked /\ user'.exists
  BY <1>1, <1>2 DEF Users
<1>10. /\ failed < MaxFailed => tries' <= failed
       /\ failed = MaxFailed => tries' + 1 <= MaxFailed + bound
       /\ tries' <= MaxFailed + here
  <2>1. CASE user.failed = MaxFailed
    BY <1>1, <1>2, <1>3, <1>4, <1>6, <1>8, <2>1
  <2>2. CASE user.failed < MaxFailed
    BY <1>1, <1>2, <1>3, <1>4, <1>6, <1>8, <2>2
  <2> QED
    BY <1>2, <2>1, <2>2
<1> QED
  BY <1>1, <1>3, <1>9, <1>10 DEF GuessInv, GuessesAreBounded, bound, here

\* A request to the second factor leaves the passwords alone.
LEMMA GuessDecide ==
    ASSUME AuthInv, GuessInv, NEW c \in Calls, Decide(c)
    PROVE  GuessInv'
PROOF
<1>1. UNCHANGED <<now, tries>> /\ call[c].at = "resolved"
  BY DEF Decide
<1>2. user \in Users
  BY DEF AuthInv, TypeOK
<1>3. user'.failed = user.failed /\ user'.locked = user.locked /\ user'.exists = user.exists
  <2>1. CASE Setup(c)
    BY <1>2, <2>1 DEF Setup, Users
  <2>2. CASE Confirm(c)
    BY <1>2, <2>2 DEF Confirm, RejectMfa, Users
  <2>3. CASE Verify(c)
    BY <1>2, <2>3 DEF Verify, RejectMfa, Spent, Users
  <2> QED
    BY <2>1, <2>2, <2>3 DEF Decide
<1>4. \A s \in Sessions : sess'[s].at = "none" <=> sess[s].at = "none"
  <2>1. sess' = sess \/ CompleteMfa(c) \/ RejectMfa(c)
    BY DEF Decide, Setup, Confirm, Verify, AcceptMfa
  <2> QED
    BY <1>1, <2>1, RowsKeep
<1> QED
  BY <1>1, <1>3, <1>4 DEF GuessInv, GuessesAreBounded

\* Before the right password, no more wrong ones are compared than the limit and
\* one for every lock that has expired since, for any limit and any lock.
THEOREM FewPasswordsAreTried == Spec => []GuessesAreBounded
PROOF
<1> DEFINE MayBe(u) == u = NewUser \/ u = [NewUser EXCEPT !.exists = FALSE] \/ u = Enrolled
<1>1. \A u : MayBe(u) => u.failed = 0 /\ u.locked = 0
  <2>1. /\ NewUser.failed = 0 /\ NewUser.locked = 0
        /\ [NewUser EXCEPT !.exists = FALSE].failed = 0
        /\ [NewUser EXCEPT !.exists = FALSE].locked = 0
    BY DEF NewUser
  <2>2. Enrolled.failed = 0 /\ Enrolled.locked = 0
    BY DEF NewUser, Enrolled
  <2> QED
    BY <2>1, <2>2
<1>2. 0 < MaxFailed /\ MaxFailed \in Nat /\ Lock \in Nat
  BY AuthAssumption
<1>3. Init => GuessInv
  <2> SUFFICES ASSUME Init PROVE GuessInv
    OBVIOUS
  <2>1. MayBe(user) /\ tries = 0 /\ now = 0
    BY DEF Init
  <2>2. 0 \div Lock \in Nat
    BY LocksAreCounted
  <2> QED
    BY <1>1, <1>2, <2>1, <2>2 DEF GuessInv, GuessesAreBounded
<1>4. AuthInv /\ GuessInv /\ [Next]_vars => GuessInv'
  <2> SUFFICES ASSUME AuthInv, GuessInv, [Next]_vars PROVE GuessInv'
    OBVIOUS
  <2>1. /\ user \in Users /\ user.locked \in Nat /\ now \in Nat /\ tries \in Nat
        /\ sess \in [Sessions -> Rows]
    BY DEF AuthInv, TypeOK, Users
  <2>2. now \div Lock \in Nat
    BY <2>1, LocksAreCounted
  <2>3. CASE Register
    BY <1>1, <1>2, <2>1, <2>2, <2>3 DEF Register, GuessInv, GuessesAreBounded
  <2>4. ASSUME NEW s \in Sessions, Login(s) PROVE GuessInv'
    <3>1. /\ user' = [user EXCEPT !.failed = 0, !.locked = 0]
          /\ tries' = 0 /\ now' = now /\ user.exists
      BY <2>4 DEF Login
    <3>2. user'.failed = 0 /\ user'.locked = 0 /\ user'.exists
      BY <2>1, <3>1 DEF Users
    <3> QED
      BY <1>2, <2>1, <2>2, <3>1, <3>2 DEF GuessInv, GuessesAreBounded
  <2>5. CASE DeleteUser
    <3>1. ~user'.exists /\ \A s \in Sessions : sess'[s].at = "gone"
      BY <2>5, NewRows DEF DeleteUser
    <3>2. \E s \in Sessions : sess'[s].at # "none"
      BY <3>1, AuthAssumption
    <3> QED
      BY <2>5, <3>1, <3>2 DEF DeleteUser, GuessInv, GuessesAreBounded
  <2>6. CASE Tick
    <3>1. now' = now + 1 /\ now' \in Nat /\ UNCHANGED <<user, sess, tries>>
      BY <2>1, <2>6 DEF Tick
    <3>2. now \div Lock <= now' \div Lock /\ now' \div Lock \in Nat
      <4> DEFINE later == now'
      <4>1. later \in Nat /\ now <= later
        BY <2>1, <3>1
      <4> HIDE DEF later
      <4>2. now \div Lock <= later \div Lock /\ later \div Lock \in Nat
        BY <2>1, <4>1, LocksAreCounted
      <4> QED
        BY <4>2 DEF later
    <3> QED
      BY <1>2, <2>1, <2>2, <3>1, <3>2 DEF GuessInv, GuessesAreBounded
  <2>7. ASSUME NEW s \in Sessions, Logout(s) PROVE GuessInv'
    <3>1. Revoked(s).at = "revoked" /\ sess[s].at = "open"
      BY <2>1, <2>7 DEF Revoked, Rows, Logout, Active
    <3>2. \A t \in Sessions : sess'[t].at = "none" <=> sess[t].at = "none"
      BY <2>1, <2>7, <3>1 DEF Logout
    <3> QED
      BY <2>7, <3>2 DEF Logout, GuessInv, GuessesAreBounded
  <2>8. ASSUME UNCHANGED <<user, sess, now, tries>> PROVE GuessInv'
    BY <2>8 DEF GuessInv, GuessesAreBounded
  <2> QED
    BY <2>3, <2>4, <2>5, <2>6, <2>7, <2>8, GuessStep, GuessDecide DEF Next, Resolve, vars
<1>5. GuessInv => GuessesAreBounded
  BY DEF GuessInv
<1> QED
  BY <1>3, <1>4, <1>5, AuthInvariant, PTL DEF Spec
=================================================================================
