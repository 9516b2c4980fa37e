--------------------------- MODULE AmazonSyncProofs ---------------------------
(***************************************************************************)
(* For any number of syncs and lookups, any answers of Amazon, any         *)
(* duration of a lease and any number of faults: at most one log of the    *)
(* account is processing, the one of the sync on the lease; an account is  *)
(* blamed for the token it has; nothing is written while it is disabled;   *)
(* and the listings are all that was listed to the last sync that wrote.   *)
(***************************************************************************)
EXTENDS AmazonSync, FiniteSetTheorems, SequenceTheorems, WellFoundedInduction, TLAPS

---------------------------------------------------------------------------
(* The inductive invariant                                                  *)

\* As much of the types as the lease needs, and that no lease is left of an account
\* that is gone; what syncs collect is left open.
LeaseTyped ==
    /\ acct.id = 0 => acct.holder = {}
    /\ DOMAIN acct = {"id", "status", "token", "holder", "until"}
    /\ DOMAIN log = Syncs
    /\ DOMAIN syn = Syncs
    /\ \A s \in Syncs : {"at", "id", "token", "verdict"} \subseteq DOMAIN syn[s]
    /\ now \in Nat
    /\ acct.until \in Nat

\* Who owns the lease and has read a token has read the one the account has: a new
\* token is refused while the lease is active, and a lost lease stays lost.
OwnersUseItsToken ==
    \A s \in Syncs :
        syn[s].at \in {"fetch", "prepare", "finish", "fail"} /\ ValidOwner(s)
            => syn[s].token = acct.token

LeaseInv == LeaseTyped /\ LogMatchesLease /\ OwnersUseItsToken /\ BlamedForItsToken

---------------------------------------------------------------------------
(* The steps                                                                *)

\* A run that ends, from whatever place, keeps what the lease needs to know.
LEMMA RunsEnd ==
    ASSUME LeaseTyped, NEW s \in Syncs, End(s)
    PROVE  /\ DOMAIN syn' = Syncs
           /\ \A t \in Syncs : {"at", "id", "token", "verdict"} \subseteq DOMAIN syn'[t]
           /\ syn'[s].at = "done"
           /\ \A t \in Syncs \ {s} : syn'[t] = syn[t]
PROOF
<1> DEFINE row == [NewRun(syn[s].kind) EXCEPT !.at = "done", !.no = syn[s].no]
<1>1. syn' = [syn EXCEPT ![s] = row]
  BY DEF End
<1>2. DOMAIN row = DOMAIN NewRun(syn[s].kind) /\ row.at = "done"
  BY DEF NewRun
<1>3. {"at", "id", "token", "verdict"} \subseteq DOMAIN row
  BY <1>2 DEF NewRun
<1> HIDE DEF row
<1> QED
  BY <1>1, <1>2, <1>3 DEF LeaseTyped

\* A step of a run that writes nothing of the account moves the run alone; where it
\* may go on to use a token, it owns the lease and has the account's.
LEMMA RunMoves ==
    ASSUME LeaseInv, NEW s \in Syncs,
           UNCHANGED <<acct, log, now, blamed>>,
           DOMAIN syn' = Syncs,
           {"at", "id", "token", "verdict"} \subseteq DOMAIN syn'[s],
           \A t \in Syncs \ {s} : syn'[t] = syn[t],
           syn'[s].at \in {"fetch", "prepare", "finish", "fail"} /\ ValidOwner(s)'
               => syn'[s].token = acct.token
    PROVE  LeaseInv'
PROOF
<1>1. LeaseTyped'
  BY DEF LeaseInv, LeaseTyped
<1>2. LogMatchesLease' /\ BlamedForItsToken'
  BY DEF LeaseInv, LogMatchesLease, BlamedForItsToken, Processing
<1>3. OwnersUseItsToken'
  BY DEF LeaseInv, OwnersUseItsToken, ValidOwner
<1> QED
  BY <1>1, <1>2, <1>3 DEF LeaseInv

LEMMA RunStops ==
    ASSUME LeaseInv, NEW s \in Syncs, End(s), UNCHANGED <<acct, log, now, blamed>>
    PROVE  LeaseInv'
PROOF
  BY RunsEnd, RunMoves DEF LeaseInv

LEMMA AcquireStep ==
    ASSUME LeaseInv, NEW s \in Syncs, Acquire(s)
    PROVE  LeaseInv'
PROOF
<1>1. CASE ~MayBegin(s)
  BY <1>1, RunStops DEF Acquire, outside
<1>2. CASE MayBegin(s)
  <2>1. /\ acct' = [acct EXCEPT !.holder = {s}, !.until = now + Duration]
        /\ log' = [t \in Syncs |-> IF t = s THEN "processing"
                                    ELSE IF t \in Abandoned THEN "failed" ELSE log[t]]
        /\ UNCHANGED <<now, blamed>>
    BY <1>2 DEF Acquire, outside
  <2>2. /\ acct'.holder = {s} /\ acct'.until = now + Duration
        /\ acct.id # 0 /\ acct'.status = acct.status /\ acct'.token = acct.token /\ acct'.id = acct.id
        /\ DOMAIN acct' = DOMAIN acct
    BY <1>2, <2>1 DEF MayBegin, LeaseInv, LeaseTyped
  <2>3. /\ DOMAIN syn' = Syncs
        /\ {"at", "id", "token", "verdict"} \subseteq DOMAIN syn'[s]
        /\ syn'[s].at \in {"load", "done"}
        /\ \A t \in Syncs \ {s} : syn'[t] = syn[t]
    <3> DEFINE no == Cardinality({t \in Syncs : syn[t].no > 0}) + 1
    <3> HIDE DEF no
    <3> DEFINE run == [syn[s] EXCEPT !.id = acct.id, !.no = no]
               going == [run EXCEPT !.at = "load"]
               gone == [NewRun(run.kind) EXCEPT !.at = "done", !.no = run.no]
    <3>1. syn' = [syn EXCEPT ![s] = going] \/ syn' = [syn EXCEPT ![s] = gone]
      BY <1>2 DEF Acquire, no
    <3>2. /\ DOMAIN run = DOMAIN syn[s]
          /\ DOMAIN going = DOMAIN run
      OBVIOUS
    <3>3. {"at", "id", "token", "verdict"} \subseteq DOMAIN going /\ going.at = "load"
      BY <3>2 DEF LeaseInv, LeaseTyped
    <3>4. {"at", "id", "token", "verdict"} \subseteq DOMAIN gone /\ gone.at = "done"
      <4> HIDE DEF run
      <4> QED
        BY DEF NewRun
    <3> HIDE DEF going, gone
    <3> QED
      BY <3>1, <3>3, <3>4 DEF LeaseInv, LeaseTyped
  <2>4. LeaseTyped'
    BY <2>1, <2>2, <2>3, SyncAssumption DEF LeaseInv, LeaseTyped
  <2>5. LogMatchesLease'
    BY <2>1, <2>2 DEF LeaseInv, LogMatchesLease, Processing, Abandoned
  <2>6. OwnersUseItsToken'
    BY <2>2, <2>3 DEF LeaseInv, OwnersUseItsToken, ValidOwner
  <2>7. BlamedForItsToken'
    BY <2>1, <2>2 DEF LeaseInv, BlamedForItsToken
  <2> QED
    BY <2>4, <2>5, <2>6, <2>7 DEF LeaseInv
<1> QED
  BY <1>1, <1>2

LEMMA LoadStep ==
    ASSUME LeaseInv, NEW s \in Syncs, LoadCredentials(s) \/ LoadEncryptedToken(s) \/ LoadFails(s)
    PROVE  LeaseInv'
PROOF
<1>1. UNCHANGED <<acct, log, now, blamed>>
  BY DEF LoadCredentials, LoadEncryptedToken, LoadFails, outside
<1>2. CASE End(s)
  BY <1>1, <1>2, RunStops
<1>3. CASE ~End(s)
  <2>1. \/ syn' = [syn EXCEPT ![s].at = "fetch", ![s].token = acct.token]
        \/ syn' = [syn EXCEPT ![s].at = "fail", ![s].token = acct.token, ![s].verdict = "error"]
    BY <1>3 DEF LoadCredentials, LoadEncryptedToken, LoadFails
  <2>2. /\ DOMAIN syn' = Syncs
        /\ DOMAIN syn'[s] = DOMAIN syn[s] /\ syn'[s].token = acct.token
        /\ \A t \in Syncs \ {s} : syn'[t] = syn[t]
    BY <2>1 DEF LeaseInv, LeaseTyped
  <2> QED
    BY <1>1, <2>2, RunMoves DEF LeaseInv, LeaseTyped
<1> QED
  BY <1>2, <1>3

\* What Amazon answers goes to the run alone, and changes neither its token nor
\* its account.
LEMMA FetchStep ==
    ASSUME LeaseInv, NEW s \in Syncs, FetchListings(s) \/ FetchParticipations(s)
    PROVE  LeaseInv'
PROOF
<1>1. UNCHANGED <<acct, log, now, blamed>> /\ syn[s].at = "fetch"
  BY DEF FetchListings, FetchParticipations, outside
<1>2. /\ DOMAIN syn' = Syncs /\ DOMAIN syn'[s] = DOMAIN syn[s]
      /\ syn'[s].token = syn[s].token /\ syn'[s].id = syn[s].id
      /\ \A t \in Syncs \ {s} : syn'[t] = syn[t]
  <2>1. CASE FetchListings(s)
    <3>1. PICK outcome \in ListingOutcomes :
              syn' = [syn EXCEPT ![s].at = outcome.at, ![s].items = outcome.items,
                                 ![s].listed = outcome.listed, ![s].verdict = outcome.verdict]
      BY <2>1 DEF FetchListings
    <3> QED
      BY <3>1 DEF LeaseInv, LeaseTyped
  <2>2. CASE FetchParticipations(s)
    <3>1. PICK outcome \in RefreshOutcomes :
              syn' = [syn EXCEPT ![s].at = outcome.at, ![s].participation = outcome.participation,
                                 ![s].verdict = outcome.verdict]
      BY <2>2 DEF FetchParticipations
    <3> QED
      BY <3>1 DEF LeaseInv, LeaseTyped
  <2> QED
    BY <2>1, <2>2
<1>3. ValidOwner(s)' => ValidOwner(s)
  BY <1>1, <1>2 DEF ValidOwner
<1>4. ValidOwner(s)' => syn'[s].token = acct.token
  BY <1>1, <1>2, <1>3 DEF LeaseInv, OwnersUseItsToken
<1>5. {"at", "id", "token", "verdict"} \subseteq DOMAIN syn'[s]
  BY <1>2 DEF LeaseInv, LeaseTyped
<1> QED
  BY <1>1, <1>2, <1>4, <1>5, RunMoves

LEMMA PrepareStep ==
    ASSUME LeaseInv, NEW s \in Syncs, Prepare(s)
    PROVE  LeaseInv'
PROOF
<1>1. UNCHANGED <<acct, log, now, blamed>> /\ syn[s].at = "prepare"
  BY DEF Prepare, outside
<1>2. CASE End(s)
  BY <1>1, <1>2, RunStops
<1>3. CASE ~End(s)
  <2>1. syn' = [syn EXCEPT ![s].at = "finish", ![s].since = now]
    BY <1>3 DEF Prepare
  <2>2. /\ DOMAIN syn' = Syncs /\ DOMAIN syn'[s] = DOMAIN syn[s]
        /\ syn'[s].token = syn[s].token /\ syn'[s].id = syn[s].id
        /\ \A t \in Syncs \ {s} : syn'[t] = syn[t]
    BY <2>1 DEF LeaseInv, LeaseTyped
  <2>3. ValidOwner(s)' => syn'[s].token = acct.token
    BY <1>1, <2>2 DEF LeaseInv, OwnersUseItsToken, ValidOwner
  <2>4. {"at", "id", "token", "verdict"} \subseteq DOMAIN syn'[s]
    BY <2>2 DEF LeaseInv, LeaseTyped
  <2> QED
    BY <1>1, <2>2, <2>3, <2>4, RunMoves
<1> QED
  BY <1>2, <1>3

\* Whoever clears the lease owns it and closes its log; the account is then active,
\* or judged for the token it has, or as it was.
LEMMA LeaseEnds ==
    ASSUME LeaseInv, NEW s \in Syncs,
           acct.holder = {s},
           DOMAIN acct' = DOMAIN acct, acct'.holder = {}, acct'.until = 0,
           acct'.token = acct.token,
           DOMAIN log' = Syncs, log'[s] # "processing",
           \A t \in Syncs \ {s} : log'[t] = log[t],
           UNCHANGED now,
           DOMAIN syn' = Syncs,
           \A t \in Syncs : {"at", "id", "token", "verdict"} \subseteq DOMAIN syn'[t],
           \/ acct'.status = "active"
           \/ acct'.status = acct.status /\ blamed' = blamed
           \/ blamed' = acct.token
    PROVE  LeaseInv'
PROOF
<1>1. LeaseTyped'
  BY DEF LeaseInv, LeaseTyped
<1>2. LogMatchesLease'
  BY DEF LeaseInv, LogMatchesLease, Processing
<1>3. OwnersUseItsToken'
  BY DEF OwnersUseItsToken, ValidOwner
<1>4. BlamedForItsToken'
  BY DEF LeaseInv, BlamedForItsToken
<1> QED
  BY <1>1, <1>2, <1>3, <1>4 DEF LeaseInv

\* The run that finishes either writes, and clears the lease, or goes on to fail with
\* the token it had.
LEMMA FinishStep ==
    ASSUME LeaseInv, NEW s \in Syncs, Finish(s)
    PROVE  LeaseInv'
PROOF
<1>1. UNCHANGED <<now, blamed>> /\ syn[s].at = "finish"
  BY DEF Finish, outside
<1>2. \/ End(s)
      \/ Goto(s, "fail")
      \/ syn' = [syn EXCEPT ![s].at = "fail", ![s].verdict = "error"]
  BY DEF Finish
<1>3. /\ DOMAIN syn' = Syncs
      /\ \A t \in Syncs : {"at", "id", "token", "verdict"} \subseteq DOMAIN syn'[t]
      /\ \A t \in Syncs \ {s} : syn'[t] = syn[t]
  <2>1. CASE End(s)
    BY <2>1, RunsEnd DEF LeaseInv
  <2>2. CASE Goto(s, "fail")
    BY <2>2 DEF Goto, LeaseInv, LeaseTyped
  <2>3. CASE syn' = [syn EXCEPT ![s].at = "fail", ![s].verdict = "error"]
    BY <2>3 DEF LeaseInv, LeaseTyped
  <2> QED
    BY <1>2, <2>1, <2>2, <2>3
<1>4. CASE UNCHANGED <<acct, log>>
  <2>1. CASE End(s)
    BY <1>1, <1>4, <2>1, RunStops
  <2>2. CASE ~End(s)
    <3>1. syn'[s].token = syn[s].token /\ syn'[s].id = syn[s].id
      BY <1>2, <2>2 DEF Goto, LeaseInv, LeaseTyped
    <3>2. ValidOwner(s)' => syn'[s].token = acct.token
      BY <1>1, <1>4, <3>1 DEF LeaseInv, OwnersUseItsToken, ValidOwner
    <3> QED
      BY <1>1, <1>3, <1>4, <3>2, RunMoves
  <2> QED
    BY <2>1, <2>2
<1>5. CASE MayFinish(s) /\ (WriteListings(s) \/ WriteParticipations(s))
  <2>1. acct.holder = {s}
    BY <1>5 DEF MayFinish
  <2>2. log' = [log EXCEPT ![s] = "succeeded"]
    BY <1>5 DEF WriteListings, WriteParticipations, LogSucceeded
  <2>3. DOMAIN log' = Syncs /\ log'[s] # "processing" /\ \A t \in Syncs \ {s} : log'[t] = log[t]
    BY <2>2 DEF LeaseInv, LeaseTyped
  <2>4. /\ DOMAIN acct' = DOMAIN acct /\ acct'.holder = {} /\ acct'.until = 0
        /\ acct'.token = acct.token /\ acct'.status \in {acct.status, "active"}
    BY <1>5 DEF WriteListings, WriteParticipations, LeaseInv, LeaseTyped
  <2> QED
    BY <1>1, <1>3, <2>1, <2>3, <2>4, LeaseEnds
<1>6. UNCHANGED <<acct, log>> \/ (MayFinish(s) /\ (WriteListings(s) \/ WriteParticipations(s)))
  BY DEF Finish
<1> QED
  BY <1>4, <1>5, <1>6

LEMMA FailStep ==
    ASSUME LeaseInv, NEW s \in Syncs, Fail(s)
    PROVE  LeaseInv'
PROOF
<1>1. End(s) /\ UNCHANGED now /\ syn[s].at = "fail"
  BY DEF Fail, outside
<1>2. CASE UNCHANGED <<acct, log, blamed>>
  BY <1>1, <1>2, RunStops
<1>3. CASE ValidOwner(s) /\ Closable(s)
  <2>1. /\ acct' = [acct EXCEPT !.status = StatusAfter(s), !.holder = {}, !.until = 0]
        /\ log' = [log EXCEPT ![s] = "failed"]
        /\ blamed' = IF syn[s].verdict = "" THEN blamed ELSE syn[s].token
    BY <1>3 DEF Fail, Judged, LogFailed
  <2>2. acct.holder = {s} /\ syn[s].token = acct.token
    BY <1>1, <1>3 DEF ValidOwner, LeaseInv, OwnersUseItsToken
  <2>3. DOMAIN log' = Syncs /\ log'[s] # "processing" /\ \A t \in Syncs \ {s} : log'[t] = log[t]
    BY <2>1 DEF LeaseInv, LeaseTyped
  <2>4. /\ DOMAIN acct' = DOMAIN acct /\ acct'.holder = {} /\ acct'.until = 0
        /\ acct'.token = acct.token /\ acct'.status = StatusAfter(s)
    <3> HIDE DEF StatusAfter
    <3> QED
      BY <2>1 DEF LeaseInv, LeaseTyped
  <2>5. (acct'.status = acct.status /\ blamed' = blamed) \/ blamed' = acct.token
    BY <2>1, <2>2, <2>4 DEF StatusAfter
  <2>6. /\ DOMAIN syn' = Syncs
        /\ \A t \in Syncs : {"at", "id", "token", "verdict"} \subseteq DOMAIN syn'[t]
    BY <1>1, RunsEnd DEF LeaseInv
  <2> QED
    BY <1>1, <2>2, <2>3, <2>4, <2>5, <2>6, LeaseEnds
<1> QED
  BY <1>2, <1>3 DEF Fail

\* A step outside the runs leaves the runs where they are.  A new token comes with
\* no active lease, and the clock takes a lease away but gives none.
LEMMA AccountStep ==
    ASSUME LeaseInv, Connect \/ Reauthorize \/ Disable \/ Disconnect \/ Tick
    PROVE  LeaseInv'
PROOF
<1>1. syn' = syn
  BY DEF Connect, Reauthorize, Disable, Disconnect, Tick
<1>2. CASE Connect
  <2>1. acct.holder = {}
    BY <1>2 DEF Connect, LeaseInv, LeaseTyped
  <2> QED
    BY <1>1, <1>2, <2>1 DEF Connect, LeaseInv, LeaseTyped, LogMatchesLease, Processing,
                            OwnersUseItsToken, ValidOwner, BlamedForItsToken
<1>3. CASE Reauthorize
  <2>1. acct' = [acct EXCEPT !.token = issued + 1, !.status = "active"] /\ UNCHANGED <<log, now>>
    BY <1>3 DEF Reauthorize
  <2>2. /\ DOMAIN acct' = DOMAIN acct /\ acct'.holder = acct.holder /\ acct'.until = acct.until
        /\ acct'.status = "active"
    BY <2>1 DEF LeaseInv, LeaseTyped
  <2>3. \A s \in Syncs : ~ValidOwner(s)'
    BY <1>3, <2>1, <2>2 DEF Reauthorize, LeaseActive, ValidOwner
  <2> QED
    BY <1>1, <2>1, <2>2, <2>3 DEF LeaseInv, LeaseTyped, LogMatchesLease, Processing,
                                  OwnersUseItsToken, BlamedForItsToken
<1>4. CASE Disable
  <2>1. /\ acct' = [acct EXCEPT !.status = "disabled", !.holder = {}, !.until = 0]
        /\ log' = [s \in Syncs |-> IF s \in Processing THEN "failed" ELSE log[s]]
        /\ UNCHANGED now
    BY <1>4 DEF Disable
  <2>2. /\ DOMAIN acct' = DOMAIN acct /\ acct'.holder = {} /\ acct'.until = 0
        /\ acct'.status = "disabled"
    BY <2>1 DEF LeaseInv, LeaseTyped
  <2> QED
    BY <1>1, <2>1, <2>2 DEF LeaseInv, LeaseTyped, LogMatchesLease, Processing,
                            OwnersUseItsToken, ValidOwner, BlamedForItsToken
<1>5. CASE Disconnect
  <2>1. /\ acct' = [id |-> 0, status |-> "active", token |-> 0, holder |-> {}, until |-> 0]
        /\ log' = [s \in Syncs |-> "none"]
        /\ UNCHANGED now
    BY <1>5 DEF Disconnect
  <2> QED
    BY <1>1, <2>1 DEF LeaseInv, LeaseTyped, LogMatchesLease, Processing,
                      OwnersUseItsToken, ValidOwner, BlamedForItsToken
<1>6. CASE Tick
  <2>1. now' = now + 1 /\ UNCHANGED <<acct, log, blamed>>
    BY <1>6 DEF Tick
  <2> QED
    BY <1>1, <2>1 DEF LeaseInv, LeaseTyped, LogMatchesLease, Processing,
                      OwnersUseItsToken, ValidOwner, BlamedForItsToken
<1> QED
  BY <1>2, <1>3, <1>4, <1>5, <1>6

---------------------------------------------------------------------------
(* Theorems                                                                 *)

\* The invariant above, of every behaviour.
THEOREM LeaseInvariant == Spec => []LeaseInv
PROOF
<1>1. Init => LeaseInv
  <2> SUFFICES ASSUME Init PROVE LeaseInv
    OBVIOUS
  <2>1. PICK plan \in Plans : syn = [s \in Syncs |-> NewRun(plan[s])]
    BY DEF Init
  <2>2. /\ DOMAIN syn = Syncs
        /\ \A s \in Syncs : /\ {"at", "id", "token", "verdict"} \subseteq DOMAIN syn[s]
                             /\ syn[s].at = "new"
    BY <2>1 DEF NewRun
  <2> QED
    BY <2>2 DEF Init, LeaseInv, LeaseTyped, LogMatchesLease, Processing,
                OwnersUseItsToken, BlamedForItsToken
<1>2. LeaseInv /\ [Next]_vars => LeaseInv'
  <2> SUFFICES ASSUME LeaseInv, [Next]_vars PROVE LeaseInv'
    OBVIOUS
  <2>1. ASSUME NEW s \in Syncs, Crash(s) PROVE LeaseInv'
    BY <2>1, RunStops DEF Crash, outside
  <2>2. ASSUME NEW s \in Syncs, Run(s) PROVE LeaseInv'
    BY <2>2, AcquireStep, LoadStep, FetchStep, PrepareStep, FinishStep, FailStep
       DEF Run, ReadAmazonListings, ReadAmazonMarketplaces
  <2>3. ASSUME UNCHANGED <<acct, log, syn, now, blamed>> PROVE LeaseInv'
    BY <2>3 DEF LeaseInv, LeaseTyped, LogMatchesLease, Processing,
                OwnersUseItsToken, ValidOwner, BlamedForItsToken
  <2>4. ASSUME NEW c \in Lookups, Enrich(c) PROVE LeaseInv'
    BY <2>3, <2>4 DEF Enrich, LookUp, Persist
  <2>5. CASE UNCHANGED vars
    BY <2>3, <2>5 DEF vars
  <2> QED
    BY <2>1, <2>2, <2>4, <2>5, AccountStep DEF Next
<1> QED
  BY <1>1, <1>2, PTL DEF Spec

\* At most one log of the account is processing, and it is the one of the sync
\* on the lease, however leases expire and are taken over.
THEOREM LogsFollowTheLease == Spec => []LogMatchesLease
PROOF
<1>1. LeaseInv => LogMatchesLease
  BY DEF LeaseInv
<1> QED
  BY <1>1, LeaseInvariant, PTL

\* A sync that fails with an old token does not undo a reauthorisation.
THEOREM OldTokensAreNotBlamed == Spec => []BlamedForItsToken
PROOF
<1>1. LeaseInv => BlamedForItsToken
  BY DEF LeaseInv
<1> QED
  BY <1>1, LeaseInvariant, PTL

\* While an account is disabled, neither a sync nor an enrichment begun before
\* writes what it has fetched.
THEOREM DisabledStaysAlone == Spec => DisabledIsLeftAlone
PROOF
<1> DEFINE Alone == acct.status = "disabled" /\ acct'.status = "disabled" /\ acct'.id = acct.id
                        => UNCHANGED <<mirror, log>>
<1>1. [Next]_vars => [Alone]_vars
  <2> SUFFICES ASSUME Next, acct.status = "disabled", acct'.status = "disabled",
                      acct'.id = acct.id
               PROVE  UNCHANGED <<mirror, log>>
    OBVIOUS
  <2>1. ASSUME NEW s \in Syncs, Acquire(s) PROVE UNCHANGED <<mirror, log>>
    BY <2>1 DEF Acquire, MayBegin, MaySync, MayRefresh
  <2>2. ASSUME NEW s \in Syncs, Finish(s) PROVE UNCHANGED <<mirror, log>>
    BY <2>2 DEF Finish, MayFinish, ValidOwner, mirror
  <2>3. ASSUME NEW s \in Syncs, Fail(s) PROVE UNCHANGED <<mirror, log>>
    BY <2>3 DEF Fail, ValidOwner
  <2>4. ASSUME NEW s \in Syncs, Run(s) \/ Crash(s) PROVE UNCHANGED <<mirror, log>>
    BY <2>1, <2>2, <2>3, <2>4
       DEF Run, Crash, ReadAmazonListings, ReadAmazonMarketplaces, LoadCredentials,
           LoadEncryptedToken, LoadFails, FetchListings, FetchParticipations, Prepare
  <2>5. ASSUME NEW c \in Lookups, Enrich(c) PROVE UNCHANGED <<mirror, log>>
    BY <2>5 DEF Enrich, LookUp, Persist, StillActive, mirror
  <2>6. CASE Connect \/ Reauthorize \/ Tick
    BY <2>6 DEF Connect, Reauthorize, Tick
  <2>7. CASE Disable
    BY <2>7 DEF Disable
  <2>8. CASE Disconnect
    <3>1. acct'.id = 0
      BY <2>8 DEF Disconnect
    <3> QED
      BY <2>8, <3>1 DEF Disconnect
  <2> QED
    BY <2>4, <2>5, <2>6, <2>7, <2>8 DEF Next
<1> QED
  BY <1>1, PTL DEF Spec, DisabledIsLeftAlone

---------------------------------------------------------------------------
(* Induction on the rounds of a reading, by the least number of a set       *)

LEMMA LessIsWellFounded ==
    \E R : IsWellFoundedOn(R, Nat) /\ \A m, n \in Nat : <<m, n>> \in R <=> m < n
PROOF
<1>1. IsWellFoundedOn(OpToRel(<, Nat), Nat)
  BY NatLessThanWellFounded, Zenon
<1>2. \A m, n \in Nat : <<m, n>> \in OpToRel(<, Nat) <=> m < n
  BY DEF OpToRel
<1> QED
  BY <1>1, <1>2, Zenon

LEMMA MinimalElement ==
    ASSUME NEW R, NEW S, IsWellFoundedOn(R, S), NEW T, \A n \in T : n \in S, T # {}
    PROVE  \E m \in T : \A n \in T : <<n, m>> \notin R
PROOF
<1>1. T \subseteq S
  OBVIOUS
<1> QED
  BY <1>1, WFMin, Zenon

LEMMA LeastNumber ==
    ASSUME NEW T, \A n \in T : n \in Nat, T # {}
    PROVE  \E m \in T : \A n \in T : m <= n
PROOF
<1>1. PICK R : IsWellFoundedOn(R, Nat) /\ \A m, n \in Nat : <<m, n>> \in R <=> m < n
  BY LessIsWellFounded
<1>2. IsWellFoundedOn(R, Nat)
  BY <1>1
<1>3. \E m \in T : \A n \in T : <<n, m>> \notin R
  BY <1>2, MinimalElement, Zenon
<1>4. PICK m \in T : \A n \in T : <<n, m>> \notin R
  BY <1>3
<1>5. ASSUME NEW n \in T PROVE m <= n
  <2>1. m \in Nat /\ n \in Nat /\ <<n, m>> \notin R
    BY <1>4
  <2>2. ~(n < m)
    BY <1>1, <2>1
  <2> QED
    BY <2>1, <2>2
<1> QED
  BY <1>5

\* A set of numbers that holds 0, and with a number the next, holds every number up
\* to a bound.
LEMMA CountingUp ==
    ASSUME NEW N \in Nat, NEW S, 0 \in S,
           \A n \in 0..N - 1 : n \in S => n + 1 \in S
    PROVE  \A n \in 0..N : n \in S
PROOF
<1> DEFINE T == {n \in 0..N : n \notin S}
<1>1. SUFFICES ASSUME T # {} PROVE FALSE
  OBVIOUS
<1>2. \A n \in T : n \in Nat
  OBVIOUS
<1> HIDE DEF T
<1>3. PICK m \in T : \A n \in T : m <= n
  BY <1>1, <1>2, LeastNumber
<1>4. m \in 0..N /\ m \notin S /\ m # 0
  BY <1>3 DEF T
<1>5. m - 1 \in 0..N - 1 /\ m - 1 \notin T
  BY <1>3, <1>4
<1>6. m - 1 \in S
  BY <1>4, <1>5 DEF T
<1>7. (m - 1) + 1 = m
  BY <1>4
<1> QED
  BY <1>4, <1>5, <1>6, <1>7

---------------------------------------------------------------------------
(* What a reading of Amazon comes to                                        *)

\* The rounds are what they were meant to be.
IsProgress(got, reading) ==
    got = [n \in 0..Len(reading) |->
              IF n = 0 THEN NothingRead ELSE ReadRound(got[n - 1], reading[n])]

\* The first n rounds can be read.
CanRead(n, reading) ==
    \E got : /\ got[0] = NothingRead
             /\ \A i \in 1..n : got[i] = ReadRound(got[i - 1], reading[i])

LEMMA ProgressIsMade ==
    ASSUME NEW reading, Len(reading) \in Nat
    PROVE  IsProgress(Progress(reading), reading)
PROOF
<1> DEFINE N == Len(reading)
           S == {n \in 0..N : CanRead(n, reading)}
<1>1. CanRead(0, reading)
  <2> DEFINE got == [n \in {0} |-> NothingRead]
  <2>1. got[0] = NothingRead /\ \A i \in 1..0 : got[i] = ReadRound(got[i - 1], reading[i])
    OBVIOUS
  <2> QED
    BY <2>1 DEF CanRead
<1>2. ASSUME NEW n \in 0..N - 1, CanRead(n, reading)
      PROVE  CanRead(n + 1, reading)
  <2>1. PICK got : /\ got[0] = NothingRead
                   /\ \A i \in 1..n : got[i] = ReadRound(got[i - 1], reading[i])
    BY <1>2 DEF CanRead
  <2> DEFINE next == ReadRound(got[n], reading[n + 1])
  <2> HIDE DEF next
  <2> DEFINE more == [i \in 0..n + 1 |-> IF i = n + 1 THEN next ELSE got[i]]
  <2>2. more[0] = NothingRead
    BY <2>1
  <2>3. ASSUME NEW i \in 1..n + 1
        PROVE  more[i] = ReadRound(more[i - 1], reading[i])
    <3>1. CASE i = n + 1
      <4>1. more[i] = next /\ i - 1 = n /\ more[i - 1] = got[n]
        BY <3>1
      <4> QED
        BY <3>1, <4>1 DEF next
    <3>2. CASE i # n + 1
      <4>1. i \in 1..n /\ more[i] = got[i] /\ more[i - 1] = got[i - 1]
        BY <3>2
      <4> QED
        BY <2>1, <4>1
    <3> QED
      BY <3>1, <3>2
  <2> HIDE DEF more
  <2> QED
    BY <2>2, <2>3 DEF CanRead
<1>3. \A n \in 0..N : CanRead(n, reading)
  <2>1. 0 \in S /\ \A n \in 0..N - 1 : n \in S => n + 1 \in S
    BY <1>1, <1>2
  <2> HIDE DEF S
  <2>2. \A n \in 0..N : n \in S
    BY <2>1, CountingUp
  <2> QED
    BY <2>2 DEF S
<1>4. \E got : IsProgress(got, reading)
  <2>1. PICK got : /\ got[0] = NothingRead
                   /\ \A i \in 1..N : got[i] = ReadRound(got[i - 1], reading[i])
    BY <1>3 DEF CanRead
  <2> DEFINE all == [n \in 0..N |-> got[n]]
  <2>2. ASSUME NEW n \in 0..N
        PROVE  all[n] = IF n = 0 THEN NothingRead ELSE ReadRound(all[n - 1], reading[n])
    <3>1. CASE n = 0
      BY <2>1, <3>1
    <3>2. CASE n # 0
      <4>1. n \in 1..N /\ n - 1 \in 0..N
        BY <3>2
      <4>2. all[n] = got[n] /\ all[n - 1] = got[n - 1]
        BY <4>1
      <4> QED
        BY <2>1, <3>2, <4>1, <4>2
    <3> QED
      BY <3>1, <3>2
  <2>3. all = [n \in 0..N |-> all[n]]
    OBVIOUS
  <2> HIDE DEF all
  <2>4. all = [n \in 0..N |-> IF n = 0 THEN NothingRead ELSE ReadRound(all[n - 1], reading[n])]
    BY <2>2, <2>3
  <2> QED
    BY <2>4 DEF IsProgress
<1>5. Progress(reading) = CHOOSE got : IsProgress(got, reading)
  BY DEF Progress, IsProgress
<1> QED
  BY <1>4, <1>5

\* An error is never taken for the end of the pages, nor for one more.
LEMMA ErrorsAreErrors ==
    ASSUME NEW round
    PROVE  FirstError(LwaError(round.token), SpApiError(round.page.reply), PageError(round.page))
              \notin {"more", "done"}
PROOF
<1>1. \A reply, other : TransportError(reply, other) \in {"response_too_large", other}
  BY DEF TransportError
<1>2. \A status : LwaStatusError(status) \in {"lwa_rate_limited", "lwa_unavailable", "lwa_token_invalid"}
  BY DEF LwaStatusError
<1>3. \A status : SpApiStatusError(status) \in {"sp_api_unauthorized", "sp_api_forbidden",
                      "sp_api_rate_limited", "sp_api_server_error", "sp_api_client_error"}
  BY DEF SpApiStatusError
<1>4. LwaError(round.token) \notin {"more", "done"}
  BY <1>1, <1>2 DEF LwaError
<1>5. SpApiError(round.page.reply) \notin {"more", "done"}
  BY <1>1, <1>3 DEF SpApiError
<1>6. PageError(round.page) \notin {"more", "done"}
  BY DEF PageError
<1> QED
  BY <1>4, <1>5, <1>6 DEF FirstError

\* A round after the last changes nothing; one that is more, or the last, adds its
\* page.
LEMMA RoundAddsItsPage ==
    ASSUME NEW got, NEW round
    PROVE  /\ got.end # "more" => ReadRound(got, round) = got
           /\ got.end = "more" /\ ReadRound(got, round).end \in {"more", "done"} =>
                 ReadRound(got, round).items = got.items \o round.page.items
PROOF
<1> DEFINE failure == FirstError(LwaError(round.token), SpApiError(round.page.reply),
                                 PageError(round.page))
           failed == [NothingRead EXCEPT !.end = failure]
           read == [end |-> After(got, round.page), items |-> Gathered(got, round.page),
                    pages |-> got.pages + 1, tokens |-> got.tokens \cup round.page.next]
<1>1. failure \notin {"more", "done"}
  BY ErrorsAreErrors
<1>2. ReadRound(got, round) = IF got.end # "more" THEN got
                            ELSE IF failure # "" THEN failed ELSE read
  BY DEF ReadRound
<1>3. failed.end = failure
  BY DEF NothingRead
<1>4. read.items = got.items \o round.page.items
  BY DEF Gathered
<1> HIDE DEF failed, read, failure
<1>5. CASE got.end # "more"
  BY <1>2, <1>5
<1>6. CASE got.end = "more" /\ failure = ""
  BY <1>2, <1>4, <1>6
<1>7. CASE got.end = "more" /\ failure # ""
  BY <1>1, <1>2, <1>3, <1>7
<1> QED
  BY <1>5, <1>6, <1>7

LEMMA ItemsJoin ==
    ASSUME NEW S, NEW a \in Seq(S), NEW b \in Seq(S)
    PROVE  a \o b \in Seq(S) /\ ToSet(a \o b) = ToSet(a) \cup ToSet(b)
PROOF
<1>1. /\ a \o b \in Seq(S) /\ Len(a) \in Nat /\ Len(b) \in Nat
      /\ DOMAIN a = 1..Len(a) /\ DOMAIN b = 1..Len(b)
      /\ DOMAIN (a \o b) = 1..Len(a) + Len(b)
      /\ \A i \in 1..Len(a) + Len(b) : (a \o b)[i] = IF i <= Len(a) THEN a[i] ELSE b[i - Len(a)]
  BY ConcatProperties, LenProperties
<1>2. ASSUME NEW i \in DOMAIN a PROVE a[i] \in ToSet(a \o b)
  BY <1>1 DEF ToSet
<1>3. ASSUME NEW i \in DOMAIN b PROVE b[i] \in ToSet(a \o b)
  <2> DEFINE j == Len(a) + i
  <2>1. j \in DOMAIN (a \o b) /\ ~(j <= Len(a)) /\ j - Len(a) = i
    BY <1>1
  <2>2. (a \o b)[j] = b[i]
    BY <1>1, <2>1
  <2> QED
    BY <2>1, <2>2 DEF ToSet
<1>4. ASSUME NEW i \in DOMAIN (a \o b) PROVE (a \o b)[i] \in ToSet(a) \cup ToSet(b)
  <2>1. CASE i <= Len(a)
    BY <1>1, <2>1 DEF ToSet
  <2>2. CASE ~(i <= Len(a))
    <3>1. i - Len(a) \in DOMAIN b /\ (a \o b)[i] = b[i - Len(a)]
      BY <1>1, <2>2
    <3> QED
      BY <3>1 DEF ToSet
  <2> QED
    BY <2>1, <2>2
<1> QED
  BY <1>1, <1>2, <1>3, <1>4 DEF ToSet

\* The rounds of a reading that comes to its end, which the last one is.
LEMMA RoundsOfAReading ==
    ASSUME NEW reading \in Readable, ReadListings(reading).end = "done"
    PROVE  LET got == Progress(reading)
               N == Len(reading)
           IN  /\ N \in Nat /\ N # 0 /\ DOMAIN reading = 1..N
               /\ got[0] = NothingRead
               /\ \A n \in 1..N : got[n] = ReadRound(got[n - 1], reading[n])
               /\ got[N - 1].end = "more" /\ got[N].end = "done"
PROOF
<1> DEFINE N == Len(reading)
           got == Progress(reading)
<1>1. /\ reading \in Readings /\ reading \in Seq(ToSet(reading))
      /\ got[N - 1].end = "more" /\ got[N].end = "done"
  BY ResponseAssumption DEF Readable, ReadListings
<1>2. N \in Nat /\ DOMAIN reading = 1..N
  BY <1>1, LenProperties
<1>3. /\ got[0] = NothingRead
      /\ \A n \in 1..N : got[n] = ReadRound(got[n - 1], reading[n])
  <2>1. got = [n \in 0..N |-> IF n = 0 THEN NothingRead ELSE ReadRound(got[n - 1], reading[n])]
    BY <1>2, ProgressIsMade DEF IsProgress
  <2> HIDE DEF got
  <2> QED
    BY <1>2, <2>1
<1> HIDE DEF got
<1>4. NothingRead.end = "more"
  BY DEF NothingRead
<1>5. N # 0
  BY <1>1, <1>3, <1>4
<1> QED
  BY <1>1, <1>2, <1>3, <1>5 DEF got

\* No SKU is collected twice.
LEMMA CollectedIsDistinct ==
    ASSUME NEW reading \in Readable, ReadListings(reading).end = "done"
    PROVE  Distinct(ReadListings(reading).items)
PROOF
<1> DEFINE N == Len(reading)
           got == Progress(reading)
           before == got[N - 1]
           round == reading[N]
           after == ReadRound(before, round)
           failure == FirstError(LwaError(round.token), SpApiError(round.page.reply),
                                 PageError(round.page))
           failed == [NothingRead EXCEPT !.end = failure]
           read == [end |-> After(before, round.page), items |-> Gathered(before, round.page),
                    pages |-> before.pages + 1, tokens |-> before.tokens \cup round.page.next]
<1>1. before.end = "more" /\ after.end = "done" /\ ReadListings(reading) = after
  <2>1. /\ N \in Nat /\ N # 0 /\ got[N - 1].end = "more" /\ got[N].end = "done"
        /\ \A n \in 1..N : got[n] = ReadRound(got[n - 1], reading[n])
    BY RoundsOfAReading
  <2>2. N \in 1..N
    BY <2>1
  <2>3. got[N] = after
    BY <2>1, <2>2
  <2>4. ReadListings(reading) = got[N]
    BY DEF ReadListings
  <2> QED
    BY <2>1, <2>3, <2>4
<1> HIDE DEF before, round
<1>2. failure \notin {"more", "done"}
  BY ErrorsAreErrors
<1>3. failed.end = failure
  BY DEF NothingRead
<1>4. after = IF before.end # "more" THEN before ELSE IF failure # "" THEN failed ELSE read
  BY DEF ReadRound
<1>5. read.end = "done" => Distinct(read.items)
  BY DEF After
<1> HIDE DEF after, failure, failed, read
<1>6. after = read
  BY <1>1, <1>2, <1>3, <1>4
<1> QED
  BY <1>1, <1>5, <1>6

\* A reading that comes to its end has collected every item listed on its pages, and
\* nothing else.
LEMMA CollectedIsListed ==
    ASSUME NEW reading \in Readable, ReadListings(reading).end = "done"
    PROVE  ToSet(ReadListings(reading).items) = Listed(reading)
PROOF
<1> DEFINE N == Len(reading)
           got == Progress(reading)
           Page(r) == ToSet(reading[r].page.items)
           Pages(n) == UNION {Page(r) : r \in 1..n}
           Items == Listed(reading)
<1>1. \A round \in ToSet(reading) : round.page.items \in Seq(ToSet(round.page.items))
  BY ResponseAssumption DEF Readable
<1>2. N \in Nat /\ N # 0 /\ DOMAIN reading = 1..N
  BY RoundsOfAReading
<1>3. got[N - 1].end = "more" /\ got[N].end = "done"
  BY RoundsOfAReading
<1>4. /\ got[0] = NothingRead
      /\ \A n \in 1..N : got[n] = ReadRound(got[n - 1], reading[n])
  BY RoundsOfAReading
<1> HIDE DEF got
<1>5. NothingRead.items = <<>>
  BY DEF NothingRead
<1>6. ASSUME NEW r \in 1..N
      PROVE  /\ reading[r].page.items \in Seq(Items)
             /\ Page(r) \subseteq Items
  <2>1. Page(r) \subseteq Items
    BY <1>2 DEF Listed
  <2>2. reading[r] \in ToSet(reading)
    BY <1>2 DEF ToSet
  <2>3. reading[r].page.items \in Seq(Page(r))
    BY <1>1, <2>2
  <2> HIDE DEF Items, Page
  <2> QED
    BY <2>1, <2>3, SeqMonotonic
\* Nothing ended before the last round.
<1>7. \A n \in 0..N - 1 : got[n].end = "more"
  <2> DEFINE T == {j \in 0..N - 1 : got[N - 1 - j].end = "more"}
  <2>1. 0 \in T
    BY <1>2, <1>3
  <2>2. ASSUME NEW j \in 0..(N - 1) - 1, j \in T
        PROVE  j + 1 \in T
    <3> DEFINE n == N - 1 - j
    <3>1. n \in 1..N /\ N - 1 - (j + 1) = n - 1 /\ j + 1 \in 0..N - 1 /\ n - 1 \in Nat
      BY <1>2
    <3>2. got[n].end = "more"
      BY <2>2
    <3> HIDE DEF n
    <3>3. got[n - 1].end = "more"
      BY <1>4, <3>1, <3>2, RoundAddsItsPage
    <3> QED
      BY <3>1, <3>3
  <2>3. N - 1 \in Nat
    BY <1>2
  <2> HIDE DEF T
  <2>4. \A j \in 0..N - 1 : j \in T
    BY <2>1, <2>2, <2>3, CountingUp
  <2>5. ASSUME NEW n \in 0..N - 1 PROVE got[n].end = "more"
    <3>1. N - 1 - n \in 0..N - 1 /\ N - 1 - (N - 1 - n) = n
      BY <1>2
    <3> QED
      BY <2>4, <3>1 DEF T
  <2> QED
    BY <2>5
<1> HIDE DEF N
<1>8. \A n \in 0..N : /\ got[n].items \in Seq(Items)
                      /\ ToSet(got[n].items) = Pages(n)
  <2> DEFINE Good(n) == /\ got[n].items \in Seq(Items)
                        /\ ToSet(got[n].items) = Pages(n)
             T == {n \in 0..N : Good(n)}
  <2>1. 0 \in T
    <3>1. got[0].items \in Seq(Items) /\ ToSet(got[0].items) = {}
      BY <1>4, <1>5 DEF ToSet
    <3>2. Pages(0) = {}
      OBVIOUS
    <3> QED
      BY <1>2, <3>1, <3>2
  <2>2. ASSUME NEW n \in 0..N - 1, Good(n)
        PROVE  Good(n + 1)
    <3>1. n + 1 \in 1..N /\ (n + 1) - 1 = n /\ n \in Nat
      BY <1>2
    <3>2. got[n].end = "more" /\ got[n + 1].end \in {"more", "done"}
      <4>1. got[n].end = "more"
        BY <1>7
      <4>2. CASE n + 1 = N
        BY <1>3, <4>1, <4>2
      <4>3. CASE n + 1 # N
        <5>1. n + 1 \in 0..N - 1
          BY <1>2, <4>3
        <5>2. got[n + 1].end = "more"
          BY <1>7, <5>1
        <5> QED
          BY <4>1, <5>2
      <4> QED
        BY <4>2, <4>3
    <3>3. got[n + 1] = ReadRound(got[n], reading[n + 1])
      BY <1>4, <3>1
    <3>4. got[n + 1].items = got[n].items \o reading[n + 1].page.items
      <4> DEFINE old == got[n]
                 round == reading[n + 1]
      <4>1. old.end = "more" /\ ReadRound(old, round).end \in {"more", "done"}
        BY <3>2, <3>3
      <4> HIDE DEF old, round
      <4>2. ReadRound(old, round).items = old.items \o round.page.items
        BY <4>1, RoundAddsItsPage
      <4> QED
        BY <3>3, <4>2 DEF old, round
    <3>5. got[n].items \in Seq(Items) /\ reading[n + 1].page.items \in Seq(Items)
      BY <1>6, <2>2, <3>1
    <3> HIDE DEF Items
    <3>6. /\ got[n + 1].items \in Seq(Items)
          /\ ToSet(got[n + 1].items) = ToSet(got[n].items) \cup Page(n + 1)
      BY <3>4, <3>5, ItemsJoin
    <3>7. Pages(n + 1) = Pages(n) \cup Page(n + 1)
      <4>1. \A r : r \in 1..n + 1 <=> r \in 1..n \/ r = n + 1
        BY <3>1
      <4> HIDE DEF Page
      <4>2. ASSUME NEW x
            PROVE  x \in Pages(n + 1) <=> x \in Pages(n) \/ x \in Page(n + 1)
        BY <4>1, Zenon
      <4> HIDE DEF Pages
      <4> QED
        BY <4>2
    <3> QED
      BY <2>2, <3>6, <3>7
  <2>3. \A n \in 0..N : n \in T
    <3>1. \A n \in 0..N - 1 : n \in T => n + 1 \in T
      <4>1. ASSUME NEW n \in 0..N - 1, n \in T PROVE n + 1 \in T
        <5>1. Good(n) /\ n + 1 \in 0..N
          BY <1>2, <4>1
        <5>2. Good(n + 1)
          BY <2>2, <5>1
        <5> QED
          BY <5>1, <5>2
      <4> QED
        BY <4>1
    <3> HIDE DEF T
    <3> QED
      BY <1>2, <2>1, <3>1, CountingUp
  <2> QED
    BY <2>3
<1>9. Listed(reading) = Pages(N)
  BY <1>2 DEF Listed
<1>10. ReadListings(reading) = got[N]
  BY DEF ReadListings, got, N
<1> HIDE DEF Pages, Items
<1>11. ToSet(got[N].items) = Pages(N)
  BY <1>2, <1>8
<1> QED
  BY <1>9, <1>10, <1>11

---------------------------------------------------------------------------
(* The listings are those of the last sync                                  *)

\* The runs that have had the lease.
Begun == {s \in Syncs : syn[s].no > 0}

\* As much of the types as the ranks and the listings need.
RowsTyped ==
    /\ \A s \in Syncs : {"kind", "at", "no", "items", "listed"} \subseteq DOMAIN syn[s]
    /\ DOMAIN listing = Skus
    /\ \A k \in Skus : DOMAIN listing[k] = {"asin", "active", "seen"}
    /\ last.no \in Nat

\* A rank is one of as many as runs have had the lease.
RanksCount ==
    /\ IsFiniteSet(Begun)
    /\ \A s \in Syncs : /\ syn[s].no \in 0..Cardinality(Begun)
                        /\ syn[s].at = "new" => syn[s].no = 0

\* Who is on the lease had it last.
HolderIsNewest ==
    \A s \in Syncs : acct.holder = {s} => \A t \in Syncs : syn[t].no <= syn[s].no

Writing == {"new", "load", "fetch", "prepare", "finish"}

\* A run that has yet to write has marked no listing, and will write what was listed.
WritersAreFresh ==
    \A s \in Syncs :
        /\ syn[s].at \in Writing => \A k \in Skus : listing[k].seen # {s}
        /\ syn[s].at \in {"prepare", "finish"} /\ syn[s].kind = "product_sync" =>
              syn[s].items = syn[s].listed

SyncInv ==
    /\ RowsTyped /\ RanksCount /\ HolderIsNewest /\ WritersAreFresh
    /\ ListingsAreOfTheLastSync

\* A reading comes to an error or to what Amazon listed.
LEMMA OutcomesAreListed ==
    ASSUME NEW outcome \in ListingOutcomes
    PROVE  /\ outcome.at \in {"prepare", "fail"}
           /\ outcome.items = outcome.listed
PROOF
<1>1. PICK reading \in Readable :
         outcome = IF ReadListings(reading).end = "done"
                   THEN [at |-> "prepare", items |-> BySku(ToSet(ReadListings(reading).items)),
                         listed |-> BySku(Listed(reading)), verdict |-> ""]
                   ELSE [at |-> "fail", items |-> BySku({}), listed |-> BySku({}),
                         verdict |-> ProductVerdict(ReadListings(reading).end)]
  BY DEF ListingOutcomes
<1>2. CASE ReadListings(reading).end = "done"
  <2>1. ToSet(ReadListings(reading).items) = Listed(reading)
    BY <1>2, CollectedIsListed
  <2> QED
    BY <1>1, <1>2, <2>1
<1>3. CASE ReadListings(reading).end # "done"
  BY <1>1, <1>3
<1> QED
  BY <1>2, <1>3

\* A step of a run that is not one that takes the lease or writes listings keeps the
\* invariant: the run keeps its rank, and nothing of the other runs changes.
LEMMA RunKeepsItsRank ==
    ASSUME SyncInv, NEW s \in Syncs,
           UNCHANGED <<listing, last>>,
           {"kind", "at", "no", "items", "listed"} \subseteq DOMAIN syn'[s],
           syn'[s].no = syn[s].no, syn'[s].kind = syn[s].kind, syn'[s].at # "new",
           \A t \in Syncs \ {s} : syn'[t] = syn[t],
           acct'.holder \in {acct.holder, {}},
           \A t \in Syncs : log'[t] = "succeeded" /\ syn[t].kind = "product_sync"
                               => log[t] = "succeeded",
           syn'[s].at \in Writing => syn[s].at \in Writing,
           syn'[s].at \in {"prepare", "finish"} /\ syn[s].kind = "product_sync"
               => syn'[s].items = syn'[s].listed
    PROVE  SyncInv'
PROOF
<1>1. \A t \in Syncs : syn'[t].no = syn[t].no /\ syn'[t].kind = syn[t].kind
  OBVIOUS
<1>2. Begun' = Begun
  BY <1>1 DEF Begun
<1>3. RowsTyped'
  BY DEF SyncInv, RowsTyped
<1>4. RanksCount'
  BY <1>1, <1>2 DEF SyncInv, RanksCount
<1>5. HolderIsNewest'
  BY <1>1 DEF SyncInv, HolderIsNewest
<1>6. WritersAreFresh'
  BY DEF SyncInv, WritersAreFresh
<1>7. ListingsAreOfTheLastSync'
  BY <1>1 DEF SyncInv, ListingsAreOfTheLastSync
<1> QED
  BY <1>3, <1>4, <1>5, <1>6, <1>7 DEF SyncInv

\* Neither does a step of no run, if it takes no lease and lets no log succeed.
LEMMA RunsStay ==
    ASSUME SyncInv, UNCHANGED <<listing, last, syn>>, acct'.holder \in {acct.holder, {}},
           \A t \in Syncs : log'[t] = "succeeded" => log[t] = "succeeded"
    PROVE  SyncInv'
PROOF
<1>1. Begun' = Begun
  BY DEF Begun
<1>2. RowsTyped' /\ RanksCount'
  BY <1>1 DEF SyncInv, RowsTyped, RanksCount
<1>3. HolderIsNewest' /\ WritersAreFresh'
  BY DEF SyncInv, HolderIsNewest, WritersAreFresh
<1>4. ListingsAreOfTheLastSync'
  BY DEF SyncInv, ListingsAreOfTheLastSync
<1> QED
  BY <1>2, <1>3, <1>4 DEF SyncInv

\* A run that ends keeps its rank.
LEMMA EndedRunKeepsItsRank ==
    ASSUME LeaseTyped, SyncInv, NEW s \in Syncs, End(s), UNCHANGED <<listing, last>>,
           acct'.holder \in {acct.holder, {}},
           \A t \in Syncs : log'[t] = "succeeded" /\ syn[t].kind = "product_sync"
                               => log[t] = "succeeded"
    PROVE  SyncInv'
PROOF
<1> DEFINE row == [NewRun(syn[s].kind) EXCEPT !.at = "done", !.no = syn[s].no]
<1>1. syn' = [syn EXCEPT ![s] = row]
  BY DEF End
<1>2. /\ {"kind", "at", "no", "items", "listed"} \subseteq DOMAIN row
      /\ row.at = "done" /\ row.no = syn[s].no /\ row.kind = syn[s].kind
  BY DEF NewRun
<1> HIDE DEF row
<1>3. syn'[s] = row /\ \A t \in Syncs \ {s} : syn'[t] = syn[t]
  BY <1>1 DEF LeaseTyped
<1>4. syn'[s].at \notin Writing
  BY <1>2, <1>3 DEF Writing
<1> QED
  BY <1>2, <1>3, <1>4, RunKeepsItsRank

\* Who takes the lease gets the highest rank.
LEMMA AcquireRanks ==
    ASSUME LeaseTyped, SyncInv, NEW s \in Syncs, Acquire(s)
    PROVE  SyncInv'
PROOF
<1>1. CASE ~MayBegin(s)
  BY <1>1, EndedRunKeepsItsRank DEF Acquire, mirror
<1>2. CASE MayBegin(s)
  <2> DEFINE no == Cardinality(Begun) + 1
  <2>1. /\ acct'.holder = {s} /\ UNCHANGED <<listing, last>>
        /\ syn[s].at = "new"
        /\ \A t \in Syncs : log'[t] = "succeeded" => t # s /\ log[t] = "succeeded"
    BY <1>2 DEF Acquire, mirror, LeaseTyped
  <2>2. /\ {"kind", "at", "no", "items", "listed"} \subseteq DOMAIN syn'[s]
        /\ syn'[s].no = no /\ syn'[s].kind = syn[s].kind
        /\ syn'[s].at \in {"load", "done"}
        /\ \A t \in Syncs \ {s} : syn'[t] = syn[t]
    <3> HIDE DEF no
    <3> DEFINE run == [syn[s] EXCEPT !.id = acct.id, !.no = no]
               going == [run EXCEPT !.at = "load"]
               gone == [NewRun(run.kind) EXCEPT !.at = "done", !.no = run.no]
    <3>1. syn' = [syn EXCEPT ![s] = going] \/ syn' = [syn EXCEPT ![s] = gone]
      BY <1>2 DEF Acquire, no, Begun
    <3>2. /\ DOMAIN run = DOMAIN syn[s] /\ DOMAIN going = DOMAIN run
          /\ run.no = no /\ run.kind = syn[s].kind
      BY DEF SyncInv, RowsTyped
    <3>3. /\ {"kind", "at", "no", "items", "listed"} \subseteq DOMAIN going
          /\ going.at = "load" /\ going.no = no /\ going.kind = syn[s].kind
      BY <3>2 DEF SyncInv, RowsTyped
    <3>4. /\ {"kind", "at", "no", "items", "listed"} \subseteq DOMAIN gone
          /\ gone.at = "done" /\ gone.no = no /\ gone.kind = syn[s].kind
      <4> HIDE DEF run
      <4> QED
        BY <3>2 DEF NewRun
    <3> HIDE DEF going, gone
    <3> QED
      BY <3>1, <3>3, <3>4 DEF LeaseTyped
  <2>3. /\ IsFiniteSet(Begun) /\ Cardinality(Begun) \in Nat
        /\ \A t \in Syncs : syn[t].no \in 0..Cardinality(Begun)
        /\ syn[s].no = 0
    BY <2>1, FS_CardinalityType DEF SyncInv, RanksCount
  <2>4. Begun' = Begun \cup {s} /\ s \notin Begun
    BY <2>2, <2>3 DEF Begun
  <2>5. IsFiniteSet(Begun') /\ Cardinality(Begun') = no
    BY <2>3, <2>4, FS_AddElement
  <2>6. RowsTyped'
    BY <2>1, <2>2 DEF SyncInv, RowsTyped
  <2>7. RanksCount'
    <3>1. ASSUME NEW t \in Syncs
          PROVE  syn'[t].no \in 0..no /\ (syn'[t].at = "new" => syn'[t].no = 0)
      BY <2>2, <2>3, <3>1 DEF SyncInv, RanksCount
    <3> QED
      BY <2>5, <3>1 DEF RanksCount
  <2>8. HolderIsNewest'
    <3>1. \A t \in Syncs : syn'[t].no <= syn'[s].no
      BY <2>2, <2>3
    <3> QED
      BY <2>1, <3>1 DEF HolderIsNewest
  <2>9. WritersAreFresh'
    BY <2>1, <2>2 DEF SyncInv, WritersAreFresh, Writing
  <2>10. ListingsAreOfTheLastSync'
    BY <2>1, <2>2 DEF SyncInv, ListingsAreOfTheLastSync
  <2> QED
    BY <2>6, <2>7, <2>8, <2>9, <2>10 DEF SyncInv
<1> QED
  BY <1>1, <1>2

LEMMA LoadRanks ==
    ASSUME LeaseTyped, SyncInv, NEW s \in Syncs,
           LoadCredentials(s) \/ LoadEncryptedToken(s) \/ LoadFails(s)
    PROVE  SyncInv'
PROOF
<1>1. UNCHANGED <<acct, log, listing, last>> /\ syn[s].at = "load"
  BY DEF LoadCredentials, LoadEncryptedToken, LoadFails, mirror
<1>2. CASE End(s)
  BY <1>1, <1>2, EndedRunKeepsItsRank
<1>3. CASE ~End(s)
  <2>1. \/ syn' = [syn EXCEPT ![s].at = "fetch", ![s].token = acct.token]
        \/ syn' = [syn EXCEPT ![s].at = "fail", ![s].token = acct.token, ![s].verdict = "error"]
    BY <1>3 DEF LoadCredentials, LoadEncryptedToken, LoadFails
  <2>2. /\ DOMAIN syn'[s] = DOMAIN syn[s] /\ syn'[s].at \in {"fetch", "fail"}
        /\ syn'[s].no = syn[s].no /\ syn'[s].kind = syn[s].kind
        /\ \A t \in Syncs \ {s} : syn'[t] = syn[t]
    BY <2>1 DEF LeaseTyped, SyncInv, RowsTyped
  <2> QED
    BY <1>1, <2>2, RunKeepsItsRank DEF SyncInv, RowsTyped, Writing
<1> QED
  BY <1>2, <1>3

LEMMA FetchRanks ==
    ASSUME LeaseTyped, SyncInv, NEW s \in Syncs, FetchListings(s) \/ FetchParticipations(s)
    PROVE  SyncInv'
PROOF
<1>1. UNCHANGED <<acct, log, listing, last>> /\ syn[s].at = "fetch"
  BY DEF FetchListings, FetchParticipations, mirror
<1>2. CASE FetchListings(s)
  <2>1. PICK outcome \in ListingOutcomes :
           syn' = [syn EXCEPT ![s].at = outcome.at, ![s].items = outcome.items,
                              ![s].listed = outcome.listed, ![s].verdict = outcome.verdict]
    BY <1>2 DEF FetchListings
  <2>2. outcome.at \in {"prepare", "fail"} /\ outcome.items = outcome.listed
    BY OutcomesAreListed, Zenon
  <2>3. /\ DOMAIN syn'[s] = DOMAIN syn[s] /\ syn'[s].at = outcome.at
        /\ syn'[s].items = outcome.items /\ syn'[s].listed = outcome.listed
        /\ syn'[s].no = syn[s].no /\ syn'[s].kind = syn[s].kind
        /\ \A t \in Syncs \ {s} : syn'[t] = syn[t]
    BY <2>1 DEF LeaseTyped, SyncInv, RowsTyped
  <2> QED
    BY <1>1, <2>2, <2>3, RunKeepsItsRank DEF SyncInv, RowsTyped, Writing
<1>3. CASE FetchParticipations(s)
  <2>1. PICK outcome \in RefreshOutcomes :
           syn' = [syn EXCEPT ![s].at = outcome.at, ![s].participation = outcome.participation,
                              ![s].verdict = outcome.verdict]
    BY <1>3 DEF FetchParticipations
  <2>2. PICK reply \in MarketReplies :
           outcome = IF ParticipationError(reply) = ""
                     THEN [at |-> "prepare", participation |-> Participation(reply), verdict |-> ""]
                     ELSE [at |-> "fail", participation |-> "none",
                           verdict |-> RefreshVerdict(ParticipationError(reply))]
    BY DEF RefreshOutcomes
  <2>3. outcome.at \in {"prepare", "fail"}
    BY <2>2
  <2>4. /\ DOMAIN syn'[s] = DOMAIN syn[s] /\ syn'[s].at = outcome.at
        /\ syn'[s].no = syn[s].no /\ syn'[s].kind = syn[s].kind
        /\ \A t \in Syncs \ {s} : syn'[t] = syn[t]
    BY <2>1 DEF LeaseTyped, SyncInv, RowsTyped
  <2>5. syn[s].kind # "product_sync"
    BY <1>3 DEF FetchParticipations
  <2> QED
    BY <1>1, <2>3, <2>4, <2>5, RunKeepsItsRank DEF SyncInv, RowsTyped, Writing
<1> QED
  BY <1>2, <1>3

LEMMA PrepareRanks ==
    ASSUME LeaseTyped, SyncInv, NEW s \in Syncs, Prepare(s)
    PROVE  SyncInv'
PROOF
<1>1. UNCHANGED <<acct, log, listing, last>> /\ syn[s].at = "prepare"
  BY DEF Prepare, mirror
<1>2. CASE End(s)
  BY <1>1, <1>2, EndedRunKeepsItsRank
<1>3. CASE ~End(s)
  <2>1. syn' = [syn EXCEPT ![s].at = "finish", ![s].since = now]
    BY <1>3 DEF Prepare
  <2>2. /\ DOMAIN syn'[s] = DOMAIN syn[s] /\ syn'[s].at = "finish"
        /\ syn'[s].items = syn[s].items /\ syn'[s].listed = syn[s].listed
        /\ syn'[s].no = syn[s].no /\ syn'[s].kind = syn[s].kind
        /\ \A t \in Syncs \ {s} : syn'[t] = syn[t]
    BY <2>1 DEF LeaseTyped, SyncInv, RowsTyped
  <2>3. syn[s].kind = "product_sync" => syn[s].items = syn[s].listed
    BY <1>1 DEF SyncInv, WritersAreFresh
  <2> QED
    BY <1>1, <2>2, <2>3, RunKeepsItsRank DEF SyncInv, RowsTyped, Writing
<1> QED
  BY <1>2, <1>3

\* A sync that writes puts what was listed in place of the listings, at the rank of
\* who had the lease last.
LEMMA WritingRanks ==
    ASSUME LeaseTyped, SyncInv, NEW s \in Syncs,
           syn[s].at = "finish", MayFinish(s), WriteListings(s),
           {"kind", "at", "no", "items", "listed"} \subseteq DOMAIN syn'[s],
           syn'[s].no = syn[s].no, syn'[s].kind = syn[s].kind,
           syn'[s].at \in {"fail", "done"},
           \A t \in Syncs \ {s} : syn'[t] = syn[t]
    PROVE  SyncInv'
PROOF
<1>1. \A t \in Syncs : syn'[t].no = syn[t].no /\ syn'[t].kind = syn[t].kind
  OBVIOUS
<1>2. Begun' = Begun
  BY <1>1 DEF Begun
<1>3. /\ acct'.holder = {}
      /\ last' = [no |-> syn[s].no, items |-> syn[s].listed]
      /\ listing' = Synced(s)
  BY DEF WriteListings, LeaseTyped
<1>4. \A t \in Syncs \ {s} : log'[t] = "succeeded" => log[t] = "succeeded"
  BY DEF WriteListings, LogSucceeded, LeaseTyped
<1>5. DOMAIN listing' = Skus
  BY <1>3 DEF Synced
<1>6. ASSUME NEW k \in Skus
      PROVE  /\ DOMAIN listing'[k] = {"asin", "active", "seen"}
             /\ listing'[k].seen \in {listing[k].seen, {s}}
             /\ listing'[k].active = (syn[s].items[k] # {})
             /\ listing'[k].active => listing'[k].asin = syn[s].items[k]
  <2>1. DOMAIN listing[k] = {"asin", "active", "seen"} /\ listing[k].seen # {s}
    BY DEF SyncInv, RowsTyped, WritersAreFresh, Writing
  <2> DEFINE row == IF syn[s].items[k] = {} THEN listing[k]
                    ELSE [asin |-> syn[s].items[k], active |-> TRUE, seen |-> {s}]
  <2>2. DOMAIN row = {"asin", "active", "seen"}
    BY <2>1
  <2>3. syn[s].items[k] = {} => row.seen = listing[k].seen
    OBVIOUS
  <2>4. syn[s].items[k] # {} => row.seen = {s} /\ row.active = TRUE /\ row.asin = syn[s].items[k]
    OBVIOUS
  <2>5. listing'[k] = IF row.seen # {s} THEN [row EXCEPT !.active = FALSE] ELSE row
    BY <1>3 DEF Synced, Unseen
  <2> HIDE DEF row
  <2>6. CASE syn[s].items[k] = {}
    <3>1. listing'[k] = [row EXCEPT !.active = FALSE]
      BY <2>1, <2>3, <2>5, <2>6
    <3> QED
      BY <2>2, <2>3, <2>6, <3>1
  <2>7. CASE syn[s].items[k] # {}
    <3>1. listing'[k] = row
      BY <2>4, <2>5, <2>7
    <3> QED
      BY <2>2, <2>4, <2>7, <3>1
  <2> QED
    BY <2>6, <2>7
<1>7. syn[s].no \in Nat /\ \A t \in Syncs : syn[t].no <= syn[s].no
  <2>1. Cardinality(Begun) \in Nat
    BY FS_CardinalityType DEF SyncInv, RanksCount
  <2>2. acct.holder = {s}
    BY DEF MayFinish
  <2> QED
    BY <2>1, <2>2 DEF SyncInv, RanksCount, HolderIsNewest
<1>8. syn[s].items = syn[s].listed
  BY DEF WriteListings, SyncInv, WritersAreFresh
<1>9. RowsTyped'
  <2>1. last'.no \in Nat
    BY <1>3, <1>7
  <2> QED
    BY <1>5, <1>6, <2>1 DEF SyncInv, RowsTyped
<1>10. RanksCount'
  BY <1>1, <1>2 DEF SyncInv, RanksCount
<1>11. HolderIsNewest'
  BY <1>3 DEF HolderIsNewest
<1>12. WritersAreFresh'
  <2>1. ASSUME NEW t \in Syncs, syn'[t].at \in Writing, NEW k \in Skus
        PROVE  listing'[k].seen # {t}
    <3>1. t # s /\ syn'[t] = syn[t]
      BY <2>1 DEF Writing
    <3>2. listing[k].seen # {t}
      BY <2>1, <3>1 DEF SyncInv, WritersAreFresh
    <3> QED
      BY <1>6, <3>1, <3>2
  <2> QED
    BY <2>1 DEF SyncInv, WritersAreFresh
<1>13. ListingsAreOfTheLastSync'
  <2>1. last'.items = syn[s].items /\ last'.no = syn[s].no
    BY <1>3, <1>8
  <2> QED
    BY <1>1, <1>6, <1>7, <2>1 DEF ListingsAreOfTheLastSync
<1> QED
  BY <1>9, <1>10, <1>11, <1>12, <1>13 DEF SyncInv

LEMMA FinishRanks ==
    ASSUME LeaseTyped, SyncInv, NEW s \in Syncs, Finish(s)
    PROVE  SyncInv'
PROOF
<1>1. syn[s].at = "finish"
  BY DEF Finish
<1>2. \/ End(s)
      \/ Goto(s, "fail")
      \/ syn' = [syn EXCEPT ![s].at = "fail", ![s].verdict = "error"]
  BY DEF Finish
<1>3. /\ {"kind", "at", "no", "items", "listed"} \subseteq DOMAIN syn'[s]
      /\ syn'[s].no = syn[s].no /\ syn'[s].kind = syn[s].kind
      /\ syn'[s].at \in {"fail", "done"}
      /\ \A t \in Syncs \ {s} : syn'[t] = syn[t]
  <2>1. CASE End(s)
    <3> DEFINE row == [NewRun(syn[s].kind) EXCEPT !.at = "done", !.no = syn[s].no]
    <3>1. syn' = [syn EXCEPT ![s] = row]
      BY <2>1 DEF End
    <3>2. /\ {"kind", "at", "no", "items", "listed"} \subseteq DOMAIN row
          /\ row.at = "done" /\ row.no = syn[s].no /\ row.kind = syn[s].kind
      BY DEF NewRun
    <3> HIDE DEF row
    <3> QED
      BY <3>1, <3>2 DEF LeaseTyped
  <2>2. CASE Goto(s, "fail")
    BY <2>2 DEF Goto, LeaseTyped, SyncInv, RowsTyped
  <2>3. CASE syn' = [syn EXCEPT ![s].at = "fail", ![s].verdict = "error"]
    BY <2>3 DEF LeaseTyped, SyncInv, RowsTyped
  <2> QED
    BY <1>2, <2>1, <2>2, <2>3
<1>4. syn'[s].at # "new" /\ syn'[s].at \notin Writing /\ syn'[s].at \notin {"prepare", "finish"}
  BY <1>3 DEF Writing
<1>5. CASE UNCHANGED <<acct, log, mirror, last>>
  BY <1>3, <1>4, <1>5, RunKeepsItsRank DEF mirror
<1>6. CASE MayFinish(s) /\ WriteListings(s)
  BY <1>1, <1>3, <1>6, WritingRanks
<1>7. CASE WriteParticipations(s)
  <2>1. /\ UNCHANGED <<listing, last>> /\ syn[s].kind # "product_sync"
        /\ acct'.holder = {}
        /\ \A t \in Syncs \ {s} : log'[t] = log[t]
    BY <1>7 DEF WriteParticipations, LogSucceeded, LeaseTyped
  <2>2. \A t \in Syncs : log'[t] = "succeeded" /\ syn[t].kind = "product_sync"
                            => log[t] = "succeeded"
    BY <2>1
  <2> QED
    BY <1>3, <1>4, <2>1, <2>2, RunKeepsItsRank
<1>8. \/ UNCHANGED <<acct, log, mirror, last>>
      \/ MayFinish(s) /\ WriteListings(s)
      \/ WriteParticipations(s)
  BY DEF Finish
<1> QED
  BY <1>5, <1>6, <1>7, <1>8

LEMMA FailRanks ==
    ASSUME LeaseTyped, SyncInv, NEW s \in Syncs, Fail(s)
    PROVE  SyncInv'
PROOF
<1>1. End(s) /\ UNCHANGED <<listing, last>>
  BY DEF Fail, mirror
<1>2. CASE UNCHANGED <<acct, log>>
  BY <1>1, <1>2, EndedRunKeepsItsRank
<1>3. CASE acct' = Judged(s) /\ log' = LogFailed(s)
  <2>1. acct'.holder = {}
    <3> HIDE DEF StatusAfter
    <3> QED
      BY <1>3 DEF Judged, LeaseTyped
  <2>2. \A t \in Syncs : log'[t] = "succeeded" => log[t] = "succeeded"
    BY <1>3 DEF LogFailed, LeaseTyped
  <2> QED
    BY <1>1, <2>1, <2>2, EndedRunKeepsItsRank
<1> QED
  BY <1>2, <1>3 DEF Fail

\* Disconnecting takes the listings, the logs and what was written with it.
LEMMA OutsideRanks ==
    ASSUME LeaseTyped, SyncInv,
           \/ \E c \in Lookups : Enrich(c)
           \/ Connect \/ Reauthorize \/ Disable \/ Disconnect \/ Tick
           \/ UNCHANGED vars
    PROVE  SyncInv'
PROOF
<1>1. CASE UNCHANGED <<listing, last, syn, acct, log>>
  BY <1>1, RunsStay
<1>2. CASE Connect
  BY <1>2, RunsStay DEF Connect, mirror
<1>3. CASE Reauthorize
  BY <1>3, RunsStay DEF Reauthorize, mirror, LeaseTyped
<1>4. CASE Disable
  BY <1>4, RunsStay DEF Disable, mirror, LeaseTyped
<1>5. CASE Disconnect
  <2>1. /\ acct'.holder = {} /\ UNCHANGED syn
        /\ listing' = [k \in Skus |-> NoListing]
        /\ \A t \in Syncs : log'[t] = "none"
        /\ last'.no = 0
    BY <1>5 DEF Disconnect, NoWrites
  <2>2. /\ DOMAIN listing' = Skus
        /\ \A k \in Skus : /\ DOMAIN listing'[k] = {"asin", "active", "seen"}
                           /\ listing'[k].seen = {}
    BY <2>1 DEF NoListing
  <2>3. Begun' = Begun
    BY <2>1 DEF Begun
  <2>4. RowsTyped' /\ RanksCount'
    BY <2>1, <2>2, <2>3 DEF SyncInv, RowsTyped, RanksCount
  <2>5. HolderIsNewest' /\ ListingsAreOfTheLastSync'
    BY <2>1 DEF HolderIsNewest, ListingsAreOfTheLastSync
  <2>6. WritersAreFresh'
    BY <2>1, <2>2 DEF SyncInv, WritersAreFresh
  <2> QED
    BY <2>4, <2>5, <2>6 DEF SyncInv
<1>6. \/ UNCHANGED <<listing, last, syn, acct, log>>
      \/ Connect \/ Reauthorize \/ Disable \/ Disconnect
  BY DEF Enrich, LookUp, Persist, Tick, mirror, vars
<1> QED
  BY <1>1, <1>2, <1>3, <1>4, <1>5, <1>6

\* The invariant above, of every behaviour.
THEOREM SyncInvariant == Spec => []SyncInv
PROOF
<1>1. Init => SyncInv
  <2> SUFFICES ASSUME Init PROVE SyncInv
    OBVIOUS
  <2>1. PICK plan \in Plans : syn = [s \in Syncs |-> NewRun(plan[s])]
    BY DEF Init
  <2>2. \A s \in Syncs : /\ {"kind", "at", "no", "items", "listed"} \subseteq DOMAIN syn[s]
                         /\ syn[s].at = "new" /\ syn[s].no = 0
    BY <2>1 DEF NewRun
  <2>3. Begun = {}
    BY <2>2 DEF Begun
  <2>4. RanksCount
    BY <2>2, <2>3, FS_EmptySet DEF RanksCount
  <2>5. /\ DOMAIN listing = Skus /\ acct.holder = {} /\ last.no = 0
        /\ \A s \in Syncs : log[s] = "none"
        /\ \A k \in Skus : /\ DOMAIN listing[k] = {"asin", "active", "seen"}
                           /\ listing[k].seen = {}
    BY DEF Init, NoListing, NoWrites
  <2>6. RowsTyped /\ HolderIsNewest /\ WritersAreFresh
    BY <2>2, <2>5 DEF RowsTyped, HolderIsNewest, WritersAreFresh
  <2>7. ListingsAreOfTheLastSync
    BY <2>5 DEF ListingsAreOfTheLastSync
  <2> QED
    BY <2>4, <2>6, <2>7 DEF SyncInv
<1>2. LeaseInv /\ SyncInv /\ [Next]_vars => SyncInv'
  <2> SUFFICES ASSUME LeaseTyped, SyncInv, [Next]_vars PROVE SyncInv'
    BY DEF LeaseInv
  <2>1. ASSUME NEW s \in Syncs, Crash(s) PROVE SyncInv'
    BY <2>1, EndedRunKeepsItsRank DEF Crash, mirror
  <2>2. ASSUME NEW s \in Syncs, Run(s) PROVE SyncInv'
    BY <2>2, AcquireRanks, LoadRanks, FetchRanks, PrepareRanks, FinishRanks, FailRanks
       DEF Run, ReadAmazonListings, ReadAmazonMarketplaces
  <2> QED
    BY <2>1, <2>2, OutsideRanks DEF Next
<1> QED
  BY <1>1, <1>2, LeaseInvariant, PTL DEF Spec

\* The active listings are what Amazon's pages listed to the product sync that wrote
\* last, and no sync that succeeded took its lease after that one: a run that has lost
\* its lease to another never writes after it, and no page of a reading is lost.
THEOREM ListingsFollowTheLastSync == Spec => []ListingsAreOfTheLastSync
PROOF
<1>1. SyncInv => ListingsAreOfTheLastSync
  BY DEF SyncInv
<1> QED
  BY <1>1, SyncInvariant, PTL

---------------------------------------------------------------------------
(* Types                                                                    *)

\* A seller's item has one ASIN.
LEMMA OneAsinPerSku ==
    ASSUME NEW items, \A i \in items : i.asin \in Asins,
           \A i, j \in items : i.sku = j.sku => i = j
    PROVE  BySku(items) \in [Skus -> OneOf(Asins)]
PROOF
<1>1. ASSUME NEW k \in Skus
      PROVE  {i.asin : i \in {j \in items : j.sku = k}} \in OneOf(Asins)
  <2>1. CASE {j \in items : j.sku = k} = {}
    BY <2>1 DEF OneOf
  <2>2. CASE {j \in items : j.sku = k} # {}
    <3>1. PICK i \in items : i.sku = k
      BY <2>2
    <3>2. {j \in items : j.sku = k} = {i}
      BY <3>1
    <3>3. {j.asin : j \in {l \in items : l.sku = k}} = {i.asin}
      BY <3>2
    <3> QED
      BY <3>3 DEF OneOf
  <2> QED
    BY <2>1, <2>2
<1> QED
  BY <1>1 DEF BySku

\* What Amazon lists to a sync that ends well has one ASIN per SKU.
LEMMA OutcomesAreTyped ==
    ASSUME NEW outcome \in ListingOutcomes
    PROVE  /\ outcome.items \in [Skus -> OneOf(Asins)]
           /\ outcome.verdict \in Statuses \cup {""}
PROOF
<1>1. PICK reading \in Readable :
         outcome = IF ReadListings(reading).end = "done"
                   THEN [at |-> "prepare", items |-> BySku(ToSet(ReadListings(reading).items)),
                         listed |-> BySku(Listed(reading)), verdict |-> ""]
                   ELSE [at |-> "fail", items |-> BySku({}), listed |-> BySku({}),
                         verdict |-> ProductVerdict(ReadListings(reading).end)]
  BY DEF ListingOutcomes
<1>2. CASE ReadListings(reading).end = "done"
  <2> DEFINE items == ReadListings(reading).items
  <2>1. outcome.items = BySku(ToSet(items)) /\ outcome.verdict = ""
    BY <1>1, <1>2
  <2>2. ToSet(items) = Listed(reading) /\ Distinct(items)
    BY <1>2, CollectedIsListed, CollectedIsDistinct
  <2> HIDE DEF items
  <2>3. \A i \in ToSet(items) : i.asin \in Asins
    BY <2>2, SyncAssumption DEF Readable
  <2>4. \A i, j \in ToSet(items) : i.sku = j.sku => i = j
    BY <2>2 DEF Distinct, ToSet
  <2>5. BySku(ToSet(items)) \in [Skus -> OneOf(Asins)]
    BY <2>3, <2>4, OneAsinPerSku
  <2> QED
    BY <2>1, <2>5
<1>3. CASE ReadListings(reading).end # "done"
  <2>1. outcome.items = BySku({}) /\ outcome.verdict = ProductVerdict(ReadListings(reading).end)
    BY <1>1, <1>3
  <2>2. BySku({}) \in [Skus -> OneOf(Asins)]
    BY OneAsinPerSku
  <2>3. \A error : ProductVerdict(error) \in Statuses \cup {""}
    BY DEF ProductVerdict, Statuses
  <2> QED
    BY <2>1, <2>2, <2>3
<1> QED
  BY <1>2, <1>3

LEMMA NewRunsAreTyped ==
    ASSUME NEW kind \in {"product_sync", "marketplace_refresh"}
    PROVE  NewRun(kind) \in Runs
PROOF
<1>1. [k \in Skus |-> {}] \in [Skus -> OneOf(Asins)]
  BY DEF OneOf
<1> QED
  BY <1>1 DEF NewRun, Runs, Participations

LEMMA EndedRunsAreTyped ==
    ASSUME TypeOK, NEW s \in Syncs, End(s)
    PROVE  syn' \in [Syncs -> Runs]
PROOF
<1> DEFINE row == [NewRun(syn[s].kind) EXCEPT !.at = "done", !.no = syn[s].no]
<1>1. syn' = [syn EXCEPT ![s] = row]
  BY DEF End
<1>2. syn[s].kind \in {"product_sync", "marketplace_refresh"} /\ syn[s].no \in Nat
  BY DEF TypeOK, Runs
<1>3. NewRun(syn[s].kind) \in Runs
  BY <1>2, NewRunsAreTyped
<1>4. row \in Runs
  BY <1>2, <1>3 DEF Runs
<1> HIDE DEF row
<1> QED
  BY <1>1, <1>4 DEF TypeOK

\* A step of a run that writes nothing of the account.
LEMMA TypedRun ==
    ASSUME TypeOK, syn' \in [Syncs -> Runs], UNCHANGED <<acct, log, mirror, outside>>,
           faults' \in 0..MaxFaults
    PROVE  TypeOK'
PROOF
  BY DEF TypeOK, mirror, outside

LEMMA AcquireTypes ==
    ASSUME TypeOK, RanksCount, NEW s \in Syncs, Acquire(s)
    PROVE  TypeOK'
PROOF
<1>1. faults' \in 0..MaxFaults /\ UNCHANGED <<mirror, outside>>
  BY SyncAssumption DEF Acquire, TypeOK
<1>2. CASE ~MayBegin(s)
  BY <1>1, <1>2, EndedRunsAreTyped, TypedRun DEF Acquire
<1>3. CASE MayBegin(s)
  <2>1. acct' \in Accounts
    <3>1. acct' = [acct EXCEPT !.holder = {s}, !.until = now + Duration]
      BY <1>3 DEF Acquire
    <3>2. {s} \in OneOf(Syncs) /\ now + Duration \in Nat /\ acct \in Accounts
      BY SyncAssumption DEF OneOf, TypeOK
    <3> QED
      BY <3>1, <3>2 DEF Accounts
  <2>2. log' \in [Syncs -> {"none", "processing", "succeeded", "failed"}]
    BY <1>3 DEF Acquire, TypeOK
  <2>3. syn' \in [Syncs -> Runs]
    <3> DEFINE no == Cardinality({t \in Syncs : syn[t].no > 0}) + 1
    <3>1. no \in Nat
      BY FS_CardinalityType DEF RanksCount, Begun
    <3> HIDE DEF no
    <3> DEFINE run == [syn[s] EXCEPT !.id = acct.id, !.no = no]
               going == [run EXCEPT !.at = "load"]
               gone == [NewRun(run.kind) EXCEPT !.at = "done", !.no = run.no]
    <3>2. syn' = [syn EXCEPT ![s] = going] \/ syn' = [syn EXCEPT ![s] = gone]
      BY <1>3 DEF Acquire, no
    <3>3. syn[s] \in Runs /\ acct.id \in Nat
      BY DEF TypeOK, Accounts
    <3>4. run \in Runs
      BY <3>1, <3>3 DEF Runs
    <3> HIDE DEF run
    <3>5. going \in Runs
      BY <3>4 DEF Runs
    <3>6. gone \in Runs
      <4>1. run.kind \in {"product_sync", "marketplace_refresh"} /\ run.no \in Nat
        BY <3>4 DEF Runs
      <4>2. NewRun(run.kind) \in Runs
        BY <4>1, NewRunsAreTyped
      <4> QED
        BY <4>1, <4>2 DEF Runs
    <3> HIDE DEF going, gone
    <3> QED
      BY <3>2, <3>5, <3>6 DEF TypeOK
  <2> QED
    BY <1>1, <2>1, <2>2, <2>3 DEF TypeOK, mirror, outside
<1> QED
  BY <1>2, <1>3

LEMMA LoadTypes ==
    ASSUME TypeOK, NEW s \in Syncs, LoadCredentials(s) \/ LoadEncryptedToken(s) \/ LoadFails(s)
    PROVE  TypeOK'
PROOF
<1>1. UNCHANGED <<acct, log, mirror, outside>> /\ faults' \in 0..MaxFaults
  BY SyncAssumption DEF LoadCredentials, LoadEncryptedToken, LoadFails, TypeOK
<1>2. syn' \in [Syncs -> Runs]
  <2>1. CASE End(s)
    BY <2>1, EndedRunsAreTyped
  <2>2. CASE ~End(s)
    <3> DEFINE loaded == [syn[s] EXCEPT !.at = "fetch", !.token = acct.token]
               failed == [syn[s] EXCEPT !.at = "fail", !.token = acct.token, !.verdict = "error"]
    <3>1. syn' = [syn EXCEPT ![s] = loaded] \/ syn' = [syn EXCEPT ![s] = failed]
      BY <2>2 DEF LoadCredentials, LoadEncryptedToken, LoadFails
    <3>2. syn[s] \in Runs /\ acct.token \in Nat
      BY DEF TypeOK, Accounts
    <3>3. loaded \in Runs /\ failed \in Runs
      BY <3>2 DEF Runs, Statuses
    <3> HIDE DEF loaded, failed
    <3> QED
      BY <3>1, <3>3 DEF TypeOK
  <2> QED
    BY <2>1, <2>2
<1> QED
  BY <1>1, <1>2, TypedRun

LEMMA FetchTypes ==
    ASSUME TypeOK, NEW s \in Syncs, FetchListings(s) \/ FetchParticipations(s)
    PROVE  TypeOK'
PROOF
<1>1. UNCHANGED <<acct, log, mirror, outside, faults>> /\ faults \in 0..MaxFaults
  BY DEF FetchListings, FetchParticipations, TypeOK
<1>2. syn[s] \in Runs
  BY DEF TypeOK
<1>3. CASE FetchListings(s)
  <2>1. PICK outcome \in ListingOutcomes :
           syn' = [syn EXCEPT ![s].at = outcome.at, ![s].items = outcome.items,
                              ![s].listed = outcome.listed, ![s].verdict = outcome.verdict]
    BY <1>3 DEF FetchListings
  <2> DEFINE run == [syn[s] EXCEPT !.at = outcome.at, !.items = outcome.items,
                                   !.listed = outcome.listed, !.verdict = outcome.verdict]
  <2>2. syn' = [syn EXCEPT ![s] = run]
    BY <2>1
  <2>3. /\ outcome.at \in {"prepare", "fail"} /\ outcome.items = outcome.listed
        /\ outcome.items \in [Skus -> OneOf(Asins)] /\ outcome.verdict \in Statuses \cup {""}
    BY OutcomesAreListed, OutcomesAreTyped, Zenon
  <2>4. run \in Runs
    BY <1>2, <2>3 DEF Runs
  <2> HIDE DEF run
  <2>5. syn' \in [Syncs -> Runs]
    BY <2>2, <2>4 DEF TypeOK
  <2> QED
    BY <1>1, <2>5, TypedRun
<1>4. CASE FetchParticipations(s)
  <2>1. PICK outcome \in RefreshOutcomes :
           syn' = [syn EXCEPT ![s].at = outcome.at, ![s].participation = outcome.participation,
                              ![s].verdict = outcome.verdict]
    BY <1>4 DEF FetchParticipations
  <2>2. PICK reply \in MarketReplies :
           outcome = IF ParticipationError(reply) = ""
                     THEN [at |-> "prepare", participation |-> Participation(reply), verdict |-> ""]
                     ELSE [at |-> "fail", participation |-> "none",
                           verdict |-> RefreshVerdict(ParticipationError(reply))]
    BY DEF RefreshOutcomes
  <2>3. Participation(reply) \in Participations
    BY DEF Participation, Participations
  <2>4. \A error : RefreshVerdict(error) \in Statuses
    BY DEF RefreshVerdict, Statuses
  <2>5. /\ outcome.at \in {"prepare", "fail"} /\ outcome.participation \in Participations
        /\ outcome.verdict \in Statuses \cup {""}
    BY <2>2, <2>3, <2>4 DEF Participations
  <2> DEFINE run == [syn[s] EXCEPT !.at = outcome.at, !.participation = outcome.participation,
                                   !.verdict = outcome.verdict]
  <2>6. syn' = [syn EXCEPT ![s] = run]
    BY <2>1
  <2>7. run \in Runs
    BY <1>2, <2>5 DEF Runs
  <2> HIDE DEF run
  <2>8. syn' \in [Syncs -> Runs]
    BY <2>6, <2>7 DEF TypeOK
  <2> QED
    BY <1>1, <2>8, TypedRun
<1> QED
  BY <1>3, <1>4

LEMMA PrepareTypes ==
    ASSUME TypeOK, NEW s \in Syncs, Prepare(s)
    PROVE  TypeOK'
PROOF
<1>1. UNCHANGED <<acct, log, mirror, outside, faults>> /\ faults \in 0..MaxFaults
  BY DEF Prepare, TypeOK
<1>2. syn' \in [Syncs -> Runs]
  <2>1. CASE End(s)
    BY <2>1, EndedRunsAreTyped
  <2>2. CASE ~End(s)
    <3> DEFINE run == [syn[s] EXCEPT !.at = "finish", !.since = now]
    <3>1. syn' = [syn EXCEPT ![s] = run]
      BY <2>2 DEF Prepare
    <3>2. syn[s] \in Runs /\ now \in Nat
      BY SyncAssumption DEF TypeOK
    <3>3. run \in Runs
      BY <3>2 DEF Runs
    <3> HIDE DEF run
    <3> QED
      BY <3>1, <3>3 DEF TypeOK
  <2> QED
    BY <2>1, <2>2
<1> QED
  BY <1>1, <1>2, TypedRun

LEMMA FinishTypes ==
    ASSUME TypeOK, NEW s \in Syncs, Finish(s)
    PROVE  TypeOK'
PROOF
<1>1. faults' \in 0..MaxFaults /\ UNCHANGED outside
  BY SyncAssumption DEF Finish, TypeOK
<1>2. syn' \in [Syncs -> Runs]
  <2>1. CASE End(s)
    BY <2>1, EndedRunsAreTyped
  <2>2. CASE Goto(s, "fail") \/ syn' = [syn EXCEPT ![s].at = "fail", ![s].verdict = "error"]
    <3> DEFINE gone == [syn[s] EXCEPT !.at = "fail"]
               failed == [syn[s] EXCEPT !.at = "fail", !.verdict = "error"]
    <3>1. syn' = [syn EXCEPT ![s] = gone] \/ syn' = [syn EXCEPT ![s] = failed]
      BY <2>2 DEF Goto
    <3>2. syn[s] \in Runs
      BY DEF TypeOK
    <3>3. gone \in Runs /\ failed \in Runs
      BY <3>2 DEF Runs, Statuses
    <3> HIDE DEF gone, failed
    <3> QED
      BY <3>1, <3>3 DEF TypeOK
  <2> QED
    BY <2>1, <2>2 DEF Finish
<1>3. CASE UNCHANGED <<acct, log, mirror>>
  BY <1>1, <1>2, <1>3, TypedRun
<1>4. CASE WriteListings(s) \/ WriteParticipations(s)
  <2>1. log' \in [Syncs -> {"none", "processing", "succeeded", "failed"}]
    BY <1>4 DEF WriteListings, WriteParticipations, LogSucceeded, TypeOK
  <2>2. acct' \in Accounts
    <3> DEFINE cleared == [acct EXCEPT !.holder = {}, !.until = 0]
               active == [acct EXCEPT !.holder = {}, !.until = 0, !.status = "active"]
    <3>1. acct' = cleared \/ acct' = active
      BY <1>4 DEF WriteListings, WriteParticipations
    <3>2. cleared \in Accounts /\ active \in Accounts
      BY DEF TypeOK, Accounts, OneOf, Statuses
    <3> HIDE DEF cleared, active
    <3> QED
      BY <3>1, <3>2
  <2>3. CASE WriteListings(s)
    <3>1. ASSUME NEW k \in Skus
          PROVE  Synced(s)[k] \in Listings
      <4> DEFINE row == IF syn[s].items[k] = {} THEN listing[k]
                        ELSE [asin |-> syn[s].items[k], active |-> TRUE, seen |-> {s}]
      <4>1. listing[k] \in Listings /\ syn[s].items[k] \in OneOf(Asins) /\ {s} \in OneOf(Syncs)
        <5>1. {s} \in OneOf(Syncs)
          BY DEF OneOf
        <5>2. syn[s] \in Runs /\ listing[k] \in Listings
          BY DEF TypeOK
        <5> QED
          BY <5>1, <5>2 DEF Runs
      <4>2. row \in Listings
        BY <4>1 DEF Listings
      <4>3. Synced(s)[k] = IF Unseen(row, s) THEN [row EXCEPT !.active = FALSE] ELSE row
        BY DEF Synced, Unseen
      <4> HIDE DEF row
      <4>4. [row EXCEPT !.active = FALSE] \in Listings
        BY <4>2 DEF Listings
      <4> QED
        BY <4>2, <4>3, <4>4
    <3>2. listing' \in [Skus -> Listings]
      <4>1. listing' = [k \in Skus |-> Synced(s)[k]]
        BY <2>3 DEF WriteListings, Synced
      <4> QED
        BY <3>1, <4>1
    <3> QED
      BY <1>1, <1>2, <2>1, <2>2, <2>3, <3>2 DEF WriteListings, TypeOK, outside
  <2>4. CASE WriteParticipations(s)
    <3>1. Refreshed(s) \in Participations
      BY DEF TypeOK, Runs, Refreshed, Participations
    <3> QED
      BY <1>1, <1>2, <2>1, <2>2, <2>4, <3>1 DEF WriteParticipations, TypeOK, outside
  <2> QED
    BY <1>4, <2>3, <2>4
<1>5. UNCHANGED <<acct, log, mirror>> \/ WriteListings(s) \/ WriteParticipations(s)
  BY DEF Finish
<1> QED
  BY <1>3, <1>4, <1>5

LEMMA FailTypes ==
    ASSUME TypeOK, NEW s \in Syncs, Fail(s)
    PROVE  TypeOK'
PROOF
<1>1. syn' \in [Syncs -> Runs] /\ UNCHANGED <<mirror, outside, faults>> /\ faults \in 0..MaxFaults
  BY EndedRunsAreTyped DEF Fail, TypeOK
<1>2. CASE UNCHANGED <<acct, log>>
  BY <1>1, <1>2, TypedRun
<1>3. CASE acct' = Judged(s) /\ log' = LogFailed(s)
  <2>1. StatusAfter(s) \in Statuses
    BY DEF StatusAfter, TypeOK, Runs, Accounts
  <2>2. acct' \in Accounts
    <3> HIDE DEF StatusAfter
    <3> QED
      BY <1>3, <2>1 DEF Judged, TypeOK, Accounts, OneOf
  <2>3. log' \in [Syncs -> {"none", "processing", "succeeded", "failed"}]
    BY <1>3 DEF LogFailed, TypeOK
  <2> QED
    BY <1>1, <2>2, <2>3 DEF TypeOK, mirror, outside
<1> QED
  BY <1>2, <1>3 DEF Fail

LEMMA EnrichTypes ==
    ASSUME TypeOK, NEW c \in Lookups, Enrich(c)
    PROVE  TypeOK'
PROOF
<1>1. Unasked("done") \in Calls
  BY DEF Unasked, Calls, OneOf
<1>2. CASE LookUp(c)
  <2>1. PICK k \in Skus : \/ look' = [look EXCEPT ![c] = [at |-> "persist", id |-> acct.id, sku |-> {k},
                                                            asin |-> listing[k].asin]]
                          \/ look' = [look EXCEPT ![c] = Unasked("done")]
    BY <1>2 DEF LookUp
  <2>2. [at |-> "persist", id |-> acct.id, sku |-> {k}, asin |-> listing[k].asin] \in Calls
    BY DEF TypeOK, Accounts, Listings, Calls, OneOf
  <2>3. look' \in [Lookups -> Calls]
    BY <1>1, <2>1, <2>2 DEF TypeOK
  <2> QED
    BY <1>2, <2>3 DEF LookUp, TypeOK, mirror
<1>3. CASE Persist(c)
  <2>1. look' \in [Lookups -> Calls]
    BY <1>1, <1>3 DEF Persist, TypeOK
  <2>2. PICK k \in look[c].sku, a \in look[c].asin :
           snap' = [snap EXCEPT ![k][a] = now + Ttl] \/ UNCHANGED snap
    BY <1>3 DEF Persist
  <2>3. k \in Skus /\ a \in Asins
    BY DEF TypeOK, Calls, OneOf
  <2>4. now + Ttl \in Nat
    BY SyncAssumption DEF TypeOK
  <2>5. snap' \in [Skus -> [Asins -> Nat]]
    BY <2>2, <2>3, <2>4 DEF TypeOK
  <2> QED
    BY <1>3, <2>1, <2>5 DEF Persist, TypeOK
<1> QED
  BY <1>2, <1>3 DEF Enrich

LEMMA NoListingIsTyped == NoListing \in Listings
  BY DEF NoListing, Listings, OneOf

LEMMA AccountTypes ==
    ASSUME TypeOK, Connect \/ Reauthorize \/ Disable \/ Disconnect \/ Tick
    PROVE  TypeOK'
PROOF
<1>1. /\ acct \in Accounts /\ issued \in Nat /\ (issued < MaxIssued => issued + 1 \in 0..MaxIssued)
      /\ (now < MaxNow => now + 1 \in 0..MaxNow)
  BY SyncAssumption DEF TypeOK
<1>2. \A n \in Nat : [id |-> n, status |-> "active", token |-> n, holder |-> {}, until |-> 0] \in Accounts
  BY DEF Accounts, OneOf, Statuses
<1>3. CASE Connect
  <2>1. acct' \in Accounts
    BY <1>1, <1>2, <1>3 DEF Connect
  <2> QED
    BY <1>1, <1>3, <2>1 DEF Connect, TypeOK, mirror
<1>4. CASE Reauthorize
  <2>1. acct' = [acct EXCEPT !.token = issued + 1, !.status = "active"] /\ issued + 1 \in Nat
    BY <1>1, <1>4 DEF Reauthorize
  <2>2. acct' \in Accounts
    BY <1>1, <2>1 DEF Accounts, Statuses
  <2> QED
    BY <1>1, <1>4, <2>2 DEF Reauthorize, TypeOK, mirror
<1>5. CASE Disable
  <2>1. acct' = [acct EXCEPT !.status = "disabled", !.holder = {}, !.until = 0]
    BY <1>5 DEF Disable
  <2>2. acct' \in Accounts
    BY <1>1, <2>1 DEF Accounts, Statuses, OneOf
  <2>3. log' \in [Syncs -> {"none", "processing", "succeeded", "failed"}]
    BY <1>5 DEF Disable, TypeOK
  <2> QED
    BY <1>5, <2>2, <2>3 DEF Disable, TypeOK, mirror
<1>6. CASE Disconnect
  <2>1. acct' \in Accounts
    BY <1>2, <1>6 DEF Disconnect
  <2>2. /\ listing' \in [Skus -> Listings] /\ snap' \in [Skus -> [Asins -> Nat]]
        /\ log' \in [Syncs -> {"none", "processing", "succeeded", "failed"}]
        /\ market' \in Participations
    BY <1>6, NoListingIsTyped DEF Disconnect, Participations
  <2> QED
    BY <1>6, <2>1, <2>2 DEF Disconnect, TypeOK
<1>7. CASE Tick
  BY <1>1, <1>7 DEF Tick, TypeOK, mirror
<1> QED
  BY <1>3, <1>4, <1>5, <1>6, <1>7

\* The rows of an account and what the syncs and enrichments carry have their types: an
\* account has one of its statuses whatever error a sync ends in, and a SKU has one ASIN
\* however many pages it was listed on.
THEOREM SyncTypes == Spec => []TypeOK
PROOF
<1>1. Init => TypeOK
  <2> SUFFICES ASSUME Init PROVE TypeOK
    OBVIOUS
  <2>1. PICK plan \in Plans : syn = [s \in Syncs |-> NewRun(plan[s])]
    BY DEF Init
  <2>2. syn \in [Syncs -> Runs]
    <3>1. \A s \in Syncs : plan[s] \in {"product_sync", "marketplace_refresh"}
      BY SyncAssumption
    <3>2. \A s \in Syncs : NewRun(plan[s]) \in Runs
      BY <3>1, NewRunsAreTyped
    <3> QED
      BY <2>1, <3>2
  <2>3. Unasked("new") \in Calls
    BY DEF Unasked, Calls, OneOf
  <2>4. acct \in Accounts /\ market \in Participations
    BY DEF Init, Accounts, OneOf, Statuses, Participations
  <2>5. /\ listing \in [Skus -> Listings] /\ snap \in [Skus -> [Asins -> Nat]]
        /\ log \in [Syncs -> {"none", "processing", "succeeded", "failed"}]
        /\ look \in [Lookups -> Calls]
    BY <2>3, NoListingIsTyped DEF Init
  <2>6. now \in 0..MaxNow /\ issued \in 0..MaxIssued /\ faults \in 0..MaxFaults
    BY SyncAssumption DEF Init
  <2> QED
    BY <2>2, <2>4, <2>5, <2>6 DEF TypeOK
<1>2. TypeOK /\ RanksCount /\ [Next]_vars => TypeOK'
  <2> SUFFICES ASSUME TypeOK, RanksCount, [Next]_vars PROVE TypeOK'
    OBVIOUS
  <2>1. ASSUME NEW s \in Syncs, Crash(s) PROVE TypeOK'
    <3>1. syn' \in [Syncs -> Runs] /\ UNCHANGED <<acct, log, mirror, outside>>
      BY <2>1, EndedRunsAreTyped DEF Crash
    <3>2. faults' \in 0..MaxFaults
      BY <2>1, SyncAssumption DEF Crash, TypeOK
    <3> QED
      BY <3>1, <3>2, TypedRun
  <2>2. ASSUME NEW s \in Syncs, Run(s) PROVE TypeOK'
    BY <2>2, AcquireTypes, LoadTypes, FetchTypes, PrepareTypes, FinishTypes, FailTypes
       DEF Run, ReadAmazonListings, ReadAmazonMarketplaces
  <2>3. CASE UNCHANGED vars
    BY <2>3 DEF vars, TypeOK
  <2> QED
    BY <2>1, <2>2, <2>3, EnrichTypes, AccountTypes DEF Next
<1>3. SyncInv => RanksCount
  BY DEF SyncInv
<1> QED
  BY <1>1, <1>2, <1>3, SyncInvariant, PTL DEF Spec
=================================================================================
