------------------------------ MODULE AuthSessions ------------------------------
(***************************************************************************)
(* The sessions of one user and their second factor (api/auth.py,          *)
(* services/auth_session_service.py, login_abuse_service.py,               *)
(* mfa_service.py).  A login holds the user's row throughout and is one    *)
(* action.  A request to /mfa/* resolves its session first and locks the   *)
(* user later: nothing of the session but its id is kept until then, and   *)
(* what the request writes to it is computed from the row read again.      *)
(***************************************************************************)
EXTENDS Integers, FiniteSets

CONSTANTS
    Sessions, Calls,
    Recovery,      \* the recovery codes of an enrolment
    Wrong,         \* a code that matches nothing
    MaxFailed,     \* MAX_FAILED_LOGIN_ATTEMPTS
    MaxMfaFailed,  \* wrong codes that end a session
    Lock,          \* LOGIN_LOCK_MINUTES, in periods of a one-time code
    Ttl,           \* of a session
    MaxNow         \* bound: the clock stops here

Counters == 0..MaxNow + 1

ASSUME AuthAssumption ==
    /\ MaxFailed \in Nat \ {0} /\ MaxMfaFailed \in Nat \ {0}
    /\ Lock \in Nat \ {0} /\ Ttl \in Nat \ {0} /\ MaxNow \in Nat
    /\ Sessions # {}
    /\ Wrong \notin Recovery \cup Counters /\ Recovery \cap Counters = {}

VARIABLES
    user,    \* the user's row
    sess,    \* the auth_sessions rows
    call,    \* per request to /mfa/*: where it is
    now,
    shown,   \* history: the secrets that setups have answered with
    uses,    \* history: how often a code was accepted
    tries,   \* history: wrong passwords since the last login
    wrong    \* history: wrong codes on a session since the last right one

vars == <<user, sess, call, now, shown, uses, tries, wrong>>

---------------------------------------------------------------------------
(* Rows                                                                     *)

\* locked is 0 and last -1 when they are not set; secret 0 is no secret.
Users == [exists : BOOLEAN, failed : 0..MaxFailed, locked : Nat, secret : Nat,
          enabled : BOOLEAN, recovery : SUBSET Recovery, last : Counters \cup {-1}]

NewUser == [exists |-> TRUE, failed |-> 0, locked |-> 0, secret |-> 0,
            enabled |-> FALSE, recovery |-> {}, last |-> -1]

Rows == [at : {"none", "open", "revoked", "gone"}, until : Nat, verified : BOOLEAN,
         attempts : 0..MaxMfaFailed]

NoRow == [at |-> "none", until |-> 0, verified |-> FALSE, attempts |-> 0]

Codes == Counters \cup Recovery \cup {Wrong}

Requests == [at : {"new", "resolved", "done"}, op : {"setup", "confirm", "verify"},
             session : Sessions, code : Codes]

\* Nobody yet, or a user who has enrolled some time ago.
Enrolled == [NewUser EXCEPT !.secret = 1, !.enabled = TRUE, !.recovery = Recovery]

Init ==
    /\ user \in {[NewUser EXCEPT !.exists = FALSE], Enrolled}
    /\ sess = [s \in Sessions |-> NoRow]
    /\ call = [c \in Calls |-> [at |-> "new"]]
    /\ now = 0
    /\ shown = {user.secret} \ {0}
    /\ tries = 0
    /\ uses = [code \in Codes |-> 0]
    /\ wrong = [s \in Sessions |-> 0]

\* get_session_for_csrf: a session that was revoked is one still.
Known(s) == sess[s].at \in {"open", "revoked"} /\ sess[s].until > now

\* validate_session
Active(s) == Known(s) /\ sess[s].at = "open"

\* CookieCsrfMiddleware: cookie and header repeat the token of the session, which is
\* named here after the session, and the origin is one of ours.
PassesCsrf(s, token, ours) == Known(s) /\ token = s /\ ours

Done(c) == call' = [call EXCEPT ![c] = [at |-> "done"]]

---------------------------------------------------------------------------
(* Passwords                                                                *)

Register ==
    /\ ~user.exists /\ now = 0 /\ \A s \in Sessions : sess[s].at = "none"
    /\ user' = NewUser
    /\ UNCHANGED <<sess, call, now, shown, uses, tries, wrong>>

\* Mutant of Capped: the counter runs on when the lock has expired.
Uncapped(n) == n

Capped(n) == IF n >= MaxFailed THEN MaxFailed ELSE n

\* Mutant of Failed: a lock wipes the slate.
FailedAndForgotten(u) ==
    IF u.failed + 1 >= MaxFailed
    THEN [u EXCEPT !.failed = 0, !.locked = now + Lock]
    ELSE [u EXCEPT !.failed = @ + 1]

\* What a wrong password does to the user.
Failed(u) ==
    [u EXCEPT !.failed = Capped(@ + 1),
              !.locked = IF u.failed + 1 >= MaxFailed THEN now + Lock ELSE @]

\* verify_credentials; a locked user is refused before the password is looked at.
WrongPassword ==
    /\ user.exists /\ user.locked <= now
    /\ user' = Failed(user)
    /\ tries' = tries + 1
    /\ UNCHANGED <<sess, call, now, shown, uses, wrong>>

\* create_session: it still lacks the second factor.
Created == [NoRow EXCEPT !.at = "open", !.until = now + Ttl]

\* revoke_session
Revoked(s) == [sess[s] EXCEPT !.at = "revoked"]

\* login, from one of our origins.
Login(s) ==
    /\ user.exists /\ user.locked <= now
    /\ sess[s].at = "none"
    /\ user' = [user EXCEPT !.failed = 0, !.locked = 0]
    /\ sess' = [sess EXCEPT ![s] = Created]
    /\ tries' = 0
    /\ UNCHANGED <<call, now, shown, uses, wrong>>

\* The cookie of an expired session does not decode.
Logout(s) ==
    /\ PassesCsrf(s, s, TRUE) /\ Active(s)
    /\ sess' = [sess EXCEPT ![s] = Revoked(s)]
    /\ UNCHANGED <<user, call, now, shown, uses, tries, wrong>>

---------------------------------------------------------------------------
(* The second factor                                                        *)

\* The middleware, and get_mfa_pending_user: the session is loaded, and not locked.
Resolve(c) ==
    /\ call[c].at = "new"
    /\ \E s, token \in Sessions, ours \in BOOLEAN, op \in {"setup", "confirm", "verify"},
         code \in Codes :
          /\ sess[s].at # "none"
          /\ op = "setup" => code = Wrong
          /\ op = "confirm" => code \notin Recovery
          /\ IF PassesCsrf(s, token, ours) /\ Active(s)
             THEN call' = [call EXCEPT ![c] = [at |-> "resolved", op |-> op, session |-> s,
                                               code |-> code]]
             ELSE Done(c)
    /\ UNCHANGED <<user, sess, now, shown, uses, tries, wrong>>

\* matching_totp_counter: one period early or late will do.
Matches(code) == code \in {n \in Counters : n \in now - 1 .. now + 1}

\* Mutant of StillOpen: one that was revoked will do.
StillThere(s) == sess[s].at # "gone"

\* The row as record_mfa_failure and mark_mfa_verified load it, under the user's lock.
\* If it is over they raise, and nothing of the request is committed.
StillOpen(s) == sess[s].at = "open"

\* mark_mfa_verified
CompleteMfa(c) ==
    LET s == call[c].session
    IN  /\ StillOpen(s)
        /\ sess' = [sess EXCEPT ![s] = [@ EXCEPT !.verified = TRUE, !.attempts = 0]]

TooMany(n) == n >= MaxMfaFailed

\* record_mfa_failure
RejectMfa(c) ==
    LET s == call[c].session
        n == sess[s].attempts + 1
    IN  /\ StillOpen(s)
        /\ sess' = [sess EXCEPT ![s] = [@ EXCEPT
                       !.attempts = IF n > MaxMfaFailed THEN MaxMfaFailed ELSE n,
                       !.at = IF TooMany(n) THEN "revoked" ELSE "open"]]
        /\ wrong' = [wrong EXCEPT ![s] = @ + 1]
        /\ UNCHANGED <<user, uses>>

\* What both requests do with a code they take.
AcceptMfa(c) ==
    /\ CompleteMfa(c)
    /\ uses' = [uses EXCEPT ![call[c].code] = @ + 1]
    /\ wrong' = [wrong EXCEPT ![call[c].session] = 0]

\* Mutant of NeedsSecret: a setup that is asked for again starts over.
NeedsSecretAgain == TRUE

NeedsSecret == user.secret = 0

\* Under the user's lock, with the user as it is now, as Confirm and Verify.
Setup(c) ==
    /\ call[c].op = "setup"
    /\ IF user.enabled
       THEN UNCHANGED <<user, shown>>
       ELSE LET secret == IF NeedsSecret THEN user.secret + 1 ELSE user.secret
            IN  user' = [user EXCEPT !.secret = secret] /\ shown' = shown \cup {secret}
    /\ UNCHANGED <<sess, uses, wrong>>

Confirm(c) ==
    /\ call[c].op = "confirm"
    /\ \/ /\ user.enabled \/ user.secret = 0
          /\ UNCHANGED <<user, sess, uses, wrong>>
       \/ /\ ~user.enabled /\ user.secret # 0
          /\ \/ ~Matches(call[c].code) /\ RejectMfa(c)
             \/ /\ Matches(call[c].code)
                /\ user' = [user EXCEPT !.enabled = TRUE, !.recovery = Recovery, !.last = call[c].code]
                /\ AcceptMfa(c)
    /\ UNCHANGED shown

\* Mutant of Replayed: the very last counter passes.
ReplayedBefore(code) == code < user.last

Replayed(code) == code <= user.last

Acceptable(code) ==
    \/ code \in user.recovery
    \/ Matches(code) /\ ~Replayed(code)

\* A recovery code is taken off the list, a one-time code becomes the last.
Spent(code) ==
    IF code \in user.recovery THEN [user EXCEPT !.recovery = @ \ {code}]
                              ELSE [user EXCEPT !.last = code]

Verify(c) ==
    /\ call[c].op = "verify"
    /\ \/ ~user.enabled /\ UNCHANGED <<user, sess, uses, wrong>>
       \/ user.enabled /\ ~Acceptable(call[c].code) /\ RejectMfa(c)
       \/ /\ user.enabled /\ Acceptable(call[c].code)
          /\ user' = Spent(call[c].code)
          /\ AcceptMfa(c)
    /\ UNCHANGED shown

\* _pending_user, then the handler and its commit; or it fails, as when the session is
\* over by now, and changes nothing.
Decide(c) ==
    /\ call[c].at = "resolved"
    /\ Done(c)
    /\ \/ user.exists /\ (Setup(c) \/ Confirm(c) \/ Verify(c))
       \/ UNCHANGED <<user, sess, shown, uses, wrong>>
    /\ UNCHANGED <<now, tries>>

---------------------------------------------------------------------------
(* The user goes, with every session; time passes                           *)

DeleteUser ==
    /\ user.exists
    /\ user' = [NewUser EXCEPT !.exists = FALSE]
    /\ sess' = [s \in Sessions |-> [NoRow EXCEPT !.at = "gone"]]
    /\ shown' = {}
    /\ UNCHANGED <<call, now, uses, tries, wrong>>

Tick ==
    /\ now < MaxNow
    /\ now' = now + 1
    /\ UNCHANGED <<user, sess, call, shown, uses, tries, wrong>>

Next ==
    \/ Register \/ WrongPassword
    \/ \E s \in Sessions : Login(s) \/ Logout(s)
    \/ \E c \in Calls : Resolve(c) \/ Decide(c)
    \/ DeleteUser \/ Tick

Spec == Init /\ [][Next]_vars

---------------------------------------------------------------------------
(* Properties                                                               *)

\* The counters stay within the check constraints of users and auth_sessions.
TypeOK ==
    /\ user \in Users
    /\ sess \in [Sessions -> Rows]
    /\ \A c \in Calls : call[c].at = "resolved" => call[c] \in Requests
    /\ now \in 0..MaxNow /\ tries \in Nat
    /\ uses \in [Codes -> Nat] /\ wrong \in [Sessions -> Nat]
    /\ shown \subseteq Nat

\* A code, one-time or recovery, is accepted once, whatever sessions it is sent on
\* at the same time, and one that confirmed the enrolment is spent as well.
SingleUse == \A code \in Codes : uses[code] <= 1

\* Every secret a setup has answered with is the one that counts in the end: who
\* asks twice, or on two sessions, can enrol with either answer.
SecretsShownAreKept == shown \subseteq {user.secret}

\* Before it gets the right one, no more wrong passwords are compared than the limit
\* and one for every lock that has expired since.
GuessesAreBounded == tries <= MaxFailed + now \div Lock

\* However many requests are on a session at once, no more wrong codes in a row are
\* compared on it than the limit, and the last of them ends it: also those that were
\* resolved before, and waited for the user, are counted or refused.
WrongCodesEndASession ==
    \A s \in Sessions :
        /\ wrong[s] <= MaxMfaFailed
        /\ wrong[s] = MaxMfaFailed => sess[s].at # "open"
=================================================================================
