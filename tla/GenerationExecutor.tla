--------------------------- MODULE GenerationExecutor ---------------------------
(***************************************************************************)
(* The generation executor and the token quota of one user                 *)
(* (services/generation_executor.py, services/quota.py).  An attempt is    *)
(* one HTTP request to a generate endpoint, served with a database session *)
(* of its own.  Attempts interleave between their transactions: two        *)
(* workers serve them, and each worker serves others while one awaits the  *)
(* model.  Every writing transaction takes the user's row lock first and   *)
(* touches nothing before it, so a transaction is one step.                *)
(*                                                                         *)
(* The session keeps the User object that the handler loaded before the    *)
(* lock.  SELECT ... FOR UPDATE locks the row and hands back that same     *)
(* object without reloading its columns (no query asks for                 *)
(* populate_existing), and a flush writes only the columns that differ     *)
(* from what was loaded.  att[a].user is that object.                      *)
(***************************************************************************)
EXTENDS Naturals, FiniteSets

CONSTANTS
    Attempts,       \* HTTP requests
    Keys,           \* idempotency keys (of one user and one request type)
    Payloads,       \* request payloads, as the request hash tells them apart
    NoPayload,      \* the payload of a key that has no request row
    Reserve,        \* Reserve[p]: estimate_reserve_tokens of payload p
    Consumptions,   \* tokens_used values the model may report
    MonthlyTokens,  \* users.monthly_tokens, which nothing in the code changes
    QuotaPeriod,    \* QUOTA_PERIOD_DAYS, in clock ticks
    MaxNow,         \* bound: the clock stops here
    MaxFaults,      \* bound: worker crashes and commits that raise
    Overlap         \* may the user start a generation while another one runs?

ASSUME ExecutorAssumption ==
    /\ Reserve \in [Payloads -> Nat \ {0}]
    /\ NoPayload \notin Payloads
    /\ Consumptions \subseteq Nat
    /\ MonthlyTokens \in Nat
    /\ QuotaPeriod \in Nat \ {0}
    /\ MaxNow \in Nat
    /\ MaxFaults \in Nat
    /\ Overlap \in BOOLEAN

VARIABLES
    db,         \* committed state: the user row, request rows, Generation rows
    indoubt,    \* {} or {d}: a commit that raised and may still produce d
    att,        \* per attempt: where its handler is, and its session
    modelCalls, \* per key: how often the model was called for it
    now,        \* datetime.utcnow(), in ticks
    faults      \* faults injected so far

vars == <<db, indoubt, att, modelCalls, now, faults>>

---------------------------------------------------------------------------
(* Rows                                                                     *)

\* reset = 0 stands for a NULL reset_date: a real one is at least QuotaPeriod.
Users == [exists : BOOLEAN, used : Nat, reserved : Nat, reset : Nat]

NewUser == [exists |-> TRUE, used |-> 0, reserved |-> 0, reset |-> 0]
NoUser  == [exists |-> FALSE, used |-> 0, reserved |-> 0, reset |-> 0]

Statuses == {"absent", "processing", "succeeded", "failed"}

Rows == [status : Statuses, payload : Payloads \cup {NoPayload}, tokens : Nat]

Absent == [status |-> "absent", payload |-> NoPayload, tokens |-> 0]

\* generations[k] counts the Generation rows inserted for the request of key k.
Databases ==
    [user : Users, requests : [Keys -> Rows], generations : [Keys -> Nat]]

---------------------------------------------------------------------------
(* Quota arithmetic, on the session's User object                           *)

\* Mutant of MaybeReset: the renewal does not wait for open reservations.
MaybeResetAtOnce(u) ==
    IF u.reset = 0 \/ now >= u.reset
    THEN [u EXCEPT !.used = 0, !.reserved = 0, !.reset = now + QuotaPeriod]
    ELSE u

\* _maybe_reset_monthly_quota, run whenever the user row is locked
MaybeReset(u) ==
    IF u.reset = 0 THEN [u EXCEPT !.reset = now + QuotaPeriod]
    ELSE IF now >= u.reset /\ u.reserved = 0
         THEN [u EXCEPT !.used = 0, !.reset = now + QuotaPeriod]
         ELSE u

\* reserve_tokens refuses when the available tokens do not cover the amount.
Fits(u, amount) == u.used + u.reserved + amount <= MonthlyTokens

Hold(u, amount) == [u EXCEPT !.reserved = @ + amount]

\* Mutant of Unhold: the min() is dropped.
UnholdUnclamped(u, amount) == [u EXCEPT !.reserved = @ - amount]

\* release_reserved_tokens: never below zero
Unhold(u, amount) == [u EXCEPT !.reserved = IF amount <= @ THEN @ - amount ELSE 0]

\* Mutant of Settle: only what was consumed leaves the escrow, not what was held.
SettleCapped(u, amount, tokens) ==
    [Unhold(u, IF tokens < amount THEN tokens ELSE amount) EXCEPT !.used = @ + tokens]

\* settle_reserved_to_consumed: the usage is charged in full, even over the estimate
Settle(u, amount, tokens) == [Unhold(u, amount) EXCEPT !.used = @ + tokens]

\* The UPDATE of a flush: columns the object did not change are not written.
Column(loaded, new, stored) == IF new = loaded THEN stored ELSE new

Flush(loaded, new) ==
    [db.user EXCEPT !.used     = Column(loaded.used, new.used, @),
                    !.reserved = Column(loaded.reserved, new.reserved, @),
                    !.reset    = Column(loaded.reset, new.reset, @)]

---------------------------------------------------------------------------
(* Sessions, transactions                                                   *)

Places == {"new", "loaded", "begin", "conflict", "refresh", "model",
           "succeed", "fail", "resolve", "cleanup", "done", "dead"}

Answers == {"none", "payload", "replay", "in_progress", "conflict",
            "previously_failed", "quota_exceeded", "model_failed",
            "finalize_failed", "unrecoverable", "error"}

Sessions == [at : Places, key : Keys, payload : Payloads, user : Users,
             usage : Nat, answer : Answers]

Goto(a, place) == att' = [att EXCEPT ![a].at = place]

\* The handler returns or raises; get_db closes its session.
Finish(a, answer) ==
    att' = [att EXCEPT ![a].at = "done", ![a].answer = answer,
                       ![a].user = NewUser, ![a].usage = 0]

Row(a)    == db.requests[att[a].key]
Amount(a) == Reserve[att[a].payload]

\* The user's row lock is free unless a commit is still undecided.
Unlocked == indoubt = {}

\* Nobody else is being served and no commit is undecided.
Quiet == Unlocked /\ \A a \in Attempts : att[a].at \in {"new", "done", "dead"}

\* db.commit(): it returns, or it raises while the server has yet to decide.
Submit(after, returned, raised) ==
    \/ /\ db' = after
       /\ returned
       /\ UNCHANGED <<indoubt, faults>>
    \/ /\ faults < MaxFaults
       /\ faults' = faults + 1
       /\ indoubt' = {after}
       /\ raised
       /\ UNCHANGED db

NoCommit == UNCHANGED <<db, indoubt, faults>>

Init ==
    /\ db = [user |-> NewUser, requests |-> [k \in Keys |-> Absent],
             generations |-> [k \in Keys |-> 0]]
    /\ indoubt = {}
    /\ att \in [Attempts -> [at : {"new"}, key : Keys, payload : Payloads,
                             user : {NewUser}, usage : {0}, answer : {"none"}]]
    /\ modelCalls = [k \in Keys |-> 0]
    /\ now = 0
    /\ faults = 0

---------------------------------------------------------------------------
(* The handler                                                              *)

\* The endpoint and execute_* load the user, without a lock.
Load(a) ==
    /\ att[a].at = "new"
    /\ Overlap \/ Quiet
    /\ IF db.user.exists
       THEN att' = [att EXCEPT ![a].at = "loaded", ![a].user = db.user]
       ELSE Finish(a, "error")
    /\ UNCHANGED <<db, indoubt, modelCalls, now, faults>>

\* Mutant of ExistingAnswer: the request hash is not compared.
ExistingAnswerAnyPayload(row, payload) ==
    CASE row.status = "processing"   -> "in_progress"
      [] row.status = "succeeded"    -> "replay"
      [] OTHER                       -> "previously_failed"

\* _handle_existing_request
ExistingAnswer(row, payload) ==
    IF row.payload # payload THEN "conflict"
    ELSE CASE row.status = "processing" -> "in_progress"
           [] row.status = "succeeded"  -> "replay"
           [] OTHER                     -> "previously_failed"

\* begin_execution looks for the key before anything is locked.
LookUp(a) ==
    /\ att[a].at = "loaded"
    /\ IF Row(a) = Absent
       THEN Goto(a, "begin")
       ELSE Finish(a, ExistingAnswer(Row(a), att[a].payload))
    /\ UNCHANGED <<db, indoubt, modelCalls, now, faults>>

\* The state Tx1 commits: the estimate is reserved and the row inserted.
Reserved(a) ==
    [db EXCEPT !.user = Flush(att[a].user, Hold(MaybeReset(att[a].user), Amount(a))),
               !.requests[att[a].key] =
                 [status |-> "processing", payload |-> att[a].payload, tokens |-> 0]]

\* begin_execution, Tx1: lock the user, reserve, insert the request row.
Begin(a) ==
    /\ att[a].at = "begin"
    /\ Unlocked
    /\ LET fits == Fits(MaybeReset(att[a].user), Amount(a)) IN
       \/ ~db.user.exists /\ Finish(a, "error") /\ NoCommit
       \/ db.user.exists /\ ~fits /\ Finish(a, "quota_exceeded") /\ NoCommit
       \/ /\ db.user.exists /\ fits /\ Row(a) # Absent  \* unique constraint
          /\ Goto(a, "conflict") /\ NoCommit
       \/ /\ db.user.exists /\ fits /\ Row(a) = Absent
          /\ Submit(Reserved(a), Goto(a, "refresh"), Finish(a, "error"))
    /\ UNCHANGED <<modelCalls, now>>

\* Mutant of Conflict: the loser of the unique constraint carries on.
ConflictIgnored(a) ==
    /\ att[a].at = "conflict"
    /\ Goto(a, "refresh")
    /\ UNCHANGED <<db, indoubt, modelCalls, now, faults>>

\* After the rollback the loser answers as the winner's row says.
Conflict(a) ==
    /\ att[a].at = "conflict"
    /\ Finish(a, IF Row(a) = Absent THEN "error"
                 ELSE ExistingAnswer(Row(a), att[a].payload))
    /\ UNCHANGED <<db, indoubt, modelCalls, now, faults>>

\* After Tx1 the row and the user are reloaded, and the model is called.
Refresh(a) ==
    /\ att[a].at = "refresh"
    /\ IF db.user.exists
       THEN /\ att' = [att EXCEPT ![a].at = "model", ![a].user = db.user]
            /\ modelCalls' = [modelCalls EXCEPT ![att[a].key] = @ + 1]
       ELSE Finish(a, "error") /\ UNCHANGED modelCalls
    /\ UNCHANGED <<db, indoubt, now, faults>>

ModelAnswers(a) ==
    /\ att[a].at = "model"
    /\ \E tokens \in Consumptions :
         att' = [att EXCEPT ![a].at = "succeed", ![a].usage = tokens]
    /\ UNCHANGED <<db, indoubt, modelCalls, now, faults>>

\* The provider fails, times out, or its output does not validate.
ModelFails(a) ==
    /\ att[a].at = "model"
    /\ Goto(a, "fail")
    /\ UNCHANGED <<db, indoubt, modelCalls, now, faults>>

\* The state a failed request leaves: nothing billed, the estimate released
\* from the User object u, which was loaded as `loaded`.
Failed(a, loaded) ==
    [db EXCEPT !.user = Flush(loaded, Unhold(MaybeReset(loaded), Amount(a))),
               !.requests[att[a].key].status = "failed"]

\* _finalize_failure, in the attempt's own session
FinalizeFailure(a) ==
    /\ att[a].at = "fail"
    /\ Unlocked
    /\ \/ ~db.user.exists /\ Finish(a, "error") /\ NoCommit
       \/ /\ db.user.exists
          /\ Submit(Failed(a, att[a].user), Finish(a, "model_failed"), Finish(a, "error"))
    /\ UNCHANGED <<modelCalls, now>>

\* The state Tx2 commits.
Succeeded(a) ==
    [db EXCEPT !.user = Flush(att[a].user,
                              Settle(MaybeReset(att[a].user), Amount(a), att[a].usage)),
               !.requests[att[a].key].status = "succeeded",
               !.requests[att[a].key].tokens = att[a].usage,
               !.generations[att[a].key] = @ + 1]

\* _finalize_success, Tx2.  The status it tests is that of the session's own
\* row, processing since the reload, so its early returns are never taken.
FinalizeSuccess(a) ==
    /\ att[a].at = "succeed"
    /\ Unlocked
    /\ \/ Goto(a, "resolve") /\ NoCommit  \* user gone, product, score, payload, proposal
       \/ /\ db.user.exists
          /\ Submit(Succeeded(a), Finish(a, "payload"), Goto(a, "resolve"))
    /\ UNCHANGED <<modelCalls, now>>

\* Mutant of Resolve: the failure is reported, the reservation is forgotten.
ResolveReportsOnly(a) ==
    /\ att[a].at = "resolve"
    /\ Finish(a, IF Row(a).status = "succeeded" THEN "payload" ELSE "finalize_failed")
    /\ UNCHANGED <<db, indoubt, modelCalls, now, faults>>

\* _resolve_post_llm_finalize_failure reads the committed row in a new session.
Resolve(a) ==
    /\ att[a].at = "resolve"
    /\ CASE Row(a).status = "processing" -> Goto(a, "cleanup")
         [] Row(a).status = "succeeded"  -> Finish(a, "payload")
         [] Row(a).status = "failed"     -> Finish(a, "previously_failed")
         [] Row(a).status = "absent"     -> Finish(a, "unrecoverable")
    /\ UNCHANGED <<db, indoubt, modelCalls, now, faults>>

\* Mutant of Cleanup: the status read before the lock is trusted under it.
CleanupUnchecked(a) ==
    /\ att[a].at = "cleanup"
    /\ Unlocked
    /\ Finish(a, "finalize_failed")
    /\ IF db.user.exists THEN Submit(Failed(a, db.user), TRUE, TRUE) ELSE NoCommit
    /\ UNCHANGED <<modelCalls, now>>

\* _attempt_finalize_failure_fresh: a new session, so nothing loaded is stale;
\* whether it works or not, the answer is the same.
Cleanup(a) ==
    /\ att[a].at = "cleanup"
    /\ Unlocked
    /\ Finish(a, "finalize_failed")
    /\ IF Row(a).status = "processing"
       THEN Submit(Failed(a, db.user), TRUE, TRUE)
       ELSE NoCommit
    /\ UNCHANGED <<modelCalls, now>>

---------------------------------------------------------------------------
(* The environment                                                          *)

\* The worker dies, or the client disconnects and the handler is cancelled:
\* no except clause runs.
Crash(a) ==
    /\ att[a].at \notin {"new", "done", "dead"}
    /\ faults < MaxFaults
    /\ faults' = faults + 1
    /\ att' = [att EXCEPT ![a].at = "dead", ![a].user = NewUser, ![a].usage = 0]
    /\ UNCHANGED <<db, indoubt, modelCalls, now>>

\* The server decides a commit whose caller saw an exception.
Decide ==
    /\ \E after \in indoubt : db' \in {after, db}
    /\ indoubt' = {}
    /\ UNCHANGED <<att, modelCalls, now, faults>>

\* admin_delete_user_account: the user row goes, its requests and generations
\* with it (ON DELETE CASCADE).
DeleteUser ==
    /\ Unlocked
    /\ db.user.exists
    /\ db' = [user |-> NoUser, requests |-> [k \in Keys |-> Absent],
              generations |-> [k \in Keys |-> 0]]
    /\ UNCHANGED <<indoubt, att, modelCalls, now, faults>>

Tick ==
    /\ now < MaxNow
    /\ now' = now + 1
    /\ UNCHANGED <<db, indoubt, att, modelCalls, faults>>

---------------------------------------------------------------------------

\* What a worker does for an attempt it has accepted.
Work(a) ==
    \/ LookUp(a) \/ Begin(a) \/ Conflict(a) \/ Refresh(a)
    \/ ModelAnswers(a) \/ ModelFails(a)
    \/ FinalizeFailure(a) \/ FinalizeSuccess(a) \/ Resolve(a) \/ Cleanup(a)

Next ==
    \/ \E a \in Attempts : Load(a) \/ Work(a) \/ Crash(a)
    \/ Decide
    \/ DeleteUser
    \/ Tick

Spec == Init /\ [][Next]_vars

\* A worker goes on with what it accepted (the provider client has a timeout),
\* and the server decides every commit.  Nobody has to send a request.
FairSpec == Spec /\ WF_vars(Decide) /\ \A a \in Attempts : WF_vars(Work(a))
---------------------------------------------------------------------------
(* Properties                                                               *)

\* Every variable holds what its columns and fields can hold: in particular no
\* UPDATE drives used_tokens or reserved_tokens below zero, which the CHECK
\* constraints of users would refuse.
TypeOK ==
    /\ db \in Databases
    /\ indoubt \subseteq Databases
    /\ att \in [Attempts -> Sessions]
    /\ modelCalls \in [Keys -> Nat]
    /\ now \in Nat
    /\ faults \in Nat

\* A generation is saved exactly once for a key whose request succeeded, and
\* never for another, whatever commits raised and whoever cleaned up after.
SavedIffSucceeded ==
    \A k \in Keys :
        db.generations[k] = (IF db.requests[k].status = "succeeded" THEN 1 ELSE 0)

\* Attempts that share a key pay the provider at most once between them.
ModelCalledOncePerKey == \A k \in Keys : modelCalls[k] <= 1

AnswerIsTrue(a) ==
    /\ att[a].answer \in {"payload", "replay"} =>
         Row(a).status = "succeeded" /\ Row(a).payload = att[a].payload
    /\ att[a].answer \in {"model_failed", "previously_failed"} =>
         Row(a).status = "failed" /\ Row(a).payload = att[a].payload
    /\ att[a].answer = "conflict" =>
         Row(a) # Absent /\ Row(a).payload # att[a].payload

\* What a client is told about its key is what is stored under it, for as long
\* as the user exists: a payload only for its own saved request, a failure of
\* the model or an earlier failure only for a failed one, a conflict only for
\* another payload.
AnswersAreTrue == db.user.exists => \A a \in Attempts : AnswerIsTrue(a)

\* A settled request is never settled again: its row changes no more while the
\* user exists (ALLOWED_TRANSITIONS has nothing after succeeded and failed).
SettledForGood ==
    [][\A k \in Keys :
          db.requests[k].status \in {"succeeded", "failed"} /\ db'.user.exists
            => db'.requests[k] = db.requests[k]]_vars

Processing == {k \in Keys : db.requests[k].status = "processing"}

\* The tokens that the open requests of a database hold, one by one.
Escrow(d) ==
    UNION {{k} \X (1..Reserve[d.requests[k].payload]) :
              k \in {j \in Keys : d.requests[j].status = "processing"}}

\* users.reserved_tokens is the number of tokens that the open requests hold:
\* nothing leaks, nothing is released twice.
ReservedIsEscrow == db.user.reserved = Cardinality(Escrow(db))

\* Once no generation is open, nothing is reserved: users.reserved_tokens holds
\* an estimate between Tx1 and the outcome, and not longer.
NothingHeldWhenIdle == Processing = {} => db.user.reserved = 0

\* The executor implements the quota's promise.
Ledger == INSTANCE GenerationLedger WITH
    account  <- [open |-> db.user.exists, used |-> db.user.used, held |-> db.user.reserved],
    requests <- db.requests

LedgerSpec == Ledger!Spec

\* A request left processing, with its reservation, is the work of a fault: as
\* long as no worker dies and no commit raises, every one of them is settled,
\* also when saving the result fails.
OnlyFaultsLeak ==
    \A k \in Keys :
        db.requests[k].status = "processing"
            ~> db.requests[k].status # "processing" \/ faults > 0

=================================================================================
