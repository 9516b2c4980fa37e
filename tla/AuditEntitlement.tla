---------------------------- MODULE AuditEntitlement ----------------------------
(***************************************************************************)
(* Listing audits of one user and the allowance they are charged to        *)
(* (api/analysis.py, services/audit_entitlement_service.py).  An attempt   *)
(* is one POST of create_listing_audit: it looks for a finished report     *)
(* without a lock, reserves one audit in a transaction of its own, runs    *)
(* the generation executor, and completes or releases the reservation in   *)
(* another transaction.  The executor appears as what its own              *)
(* specification promises: one request row per key, settled once.          *)
(***************************************************************************)
EXTENDS Naturals, FiniteSets

CONSTANTS
    Attempts,     \* HTTP requests; attempt_id names the usage row of each
    Keys,         \* idempotency keys
    Payloads,     \* request payloads, as the request hash tells them apart
    Plans,        \* "free", "plus", "pro"
    Periods,      \* calendar months and billing periods
    Limit,        \* PLAN_LIMITS
    Entitlements, \* the plans and periods subscription and calendar may give
    StaleAfter,   \* the 15 minutes after which a reservation is abandoned
    MaxNow,       \* bound: the clock stops here
    MaxFaults     \* bound: crashes and commits that raise

Rights == [plan : Plans, period : Periods]

ASSUME EntitlementAssumption ==
    /\ Payloads # {} /\ Limit \in [Plans -> Nat]
    /\ Entitlements \subseteq Rights
    /\ StaleAfter \in Nat
    /\ MaxNow \in Nat
    /\ MaxFaults \in Nat

VARIABLES
    usage,    \* per attempt: its audit_usage row
    requests, \* per key: the generation request
    entitled, \* what get_entitlement finds: plan and period
    pending,  \* commits that raised and are undecided: [attempt, row, swept]
    att,      \* per attempt: where its handler is
    now,      \* datetime.now(UTC), in ticks
    faults,   \* faults injected so far
    late      \* history: attempts that completed a released reservation

vars == <<usage, requests, entitled, pending, att, now, faults, late>>

---------------------------------------------------------------------------
(* Rows and sessions                                                        *)

\* since is updated_at.
Usages == [status : {"none", "reserved", "completed", "released"},
           plan : Plans, period : Periods, since : Nat]

Requests == [status : {"absent", "processing", "succeeded", "failed"}, payload : Payloads]

Places == {"new", "reserve", "execute", "model", "complete", "undo", "release", "done", "dead"}

Answers == {"none", "report", "no_allowance", "error"}

\* reserved says whether the attempt has an attempt_id.
Sessions == [at : Places, key : Keys, payload : Payloads, reserved : BOOLEAN, answer : Answers]

Goto(a, place) == att' = [att EXCEPT ![a].at = place]

Finish(a, answer) == att' = [att EXCEPT ![a].at = "done", ![a].answer = answer]

\* The row lock on the usage of a: an undecided commit holds what it writes.
RowFree(a) == \A p \in pending : a \notin p.swept \cup {p.attempt}

\* Mutant of UserFree: get_entitlement does not lock the user.
NeverLocked == TRUE

\* The user's row lock: an undecided reservation holds it.
UserFree == \A p \in pending : p.row.status # "reserved"

\* The usage after commit p: its row, and the abandoned ones it swept.
Applied(p) ==
    [b \in Attempts |->
        IF b = p.attempt THEN p.row
        ELSE IF b \in p.swept THEN [usage[b] EXCEPT !.status = "released", !.since = p.row.since]
        ELSE usage[b]]

\* The commit of p: it returns, or it raises undecided.
Submit(p, returned, raised) ==
    \/ /\ usage' = Applied(p)
       /\ returned
       /\ UNCHANGED <<pending, faults>>
    \/ /\ faults < MaxFaults
       /\ faults' = faults + 1
       /\ pending' = pending \cup {p}
       /\ raised
       /\ UNCHANGED usage

Init ==
    /\ entitled \in Entitlements
    /\ usage = [a \in Attempts |-> [status |-> "none", plan |-> entitled.plan,
                                    period |-> entitled.period, since |-> 0]]
    /\ requests \in [Keys -> [status : {"absent"}, payload : {CHOOSE p \in Payloads : TRUE}]]
    /\ pending = {}
    /\ att \in [Attempts -> [at : {"new"}, key : Keys, payload : Payloads,
                             reserved : {FALSE}, answer : {"none"}]]
    /\ now = 0
    /\ faults = 0
    /\ late = {}

---------------------------------------------------------------------------
(* The allowance                                                            *)

\* Mutant of Stale: completed audits are let go as well.
StaleAnyStatus(a) == usage[a].status # "none" /\ usage[a].since + StaleAfter < now

\* A reservation is abandoned 15 minutes after its last update.
Stale(a) == usage[a].status = "reserved" /\ usage[a].since + StaleAfter < now

\* get_entitlement releases every stale reservation of the user, of any period.
Swept == {a \in Attempts : Stale(a)}

\* Mutant of Counted: only completed audits count.
Completed(period) == {a \in Attempts : usage[a].status = "completed" /\ usage[a].period = period}

\* What counts in a period: reserved and completed audits.
Counted(period) ==
    {a \in Attempts : usage[a].status \in {"reserved", "completed"} /\ usage[a].period = period}

---------------------------------------------------------------------------
(* The handler                                                              *)

Request(a) == requests[att[a].key]

\* create_listing_audit looks for the key: a finished report is served without
\* a reservation.
Check(a) ==
    /\ att[a].at = "new"
    /\ Goto(a, IF Request(a).status = "succeeded" THEN "execute" ELSE "reserve")
    /\ UNCHANGED <<usage, requests, entitled, pending, now, faults, late>>

\* reserve_audit: lock the user, sweep, count, insert, commit.  The refusal
\* rolls the sweep back.  An exception here is outside the handler's try.
ReserveAudit(a) ==
    /\ att[a].at = "reserve"
    /\ UserFree
    /\ \A b \in Swept : RowFree(b)
    /\ IF Cardinality(Counted(entitled.period) \ Swept) >= Limit[entitled.plan]
       THEN Finish(a, "no_allowance") /\ UNCHANGED <<usage, pending, faults>>
       ELSE Submit([attempt |-> a, swept |-> Swept,
                    row |-> [status |-> "reserved", plan |-> entitled.plan,
                             period |-> entitled.period, since |-> now]],
                   att' = [att EXCEPT ![a].at = "execute", ![a].reserved = TRUE],
                   Finish(a, "error"))
    /\ UNCHANGED <<requests, entitled, now, late>>

\* Mutant of Executed: the executor's refusals are taken for replays.
ExecutedLoosely(a) == Request(a).status # "absent"

\* The executor replays a finished report to the same payload only.
Executed(a) == Request(a).status = "succeeded" /\ Request(a).payload = att[a].payload

\* The report is served; a reservation is completed first.
Served(a) == IF att[a].reserved THEN Goto(a, "complete") ELSE Finish(a, "report")

\* The executor raised; a reservation is given back first.
Raised(a) == IF att[a].reserved THEN Goto(a, "undo") ELSE Finish(a, "error")

\* execute_listing_audit: start the request, replay it, or raise.
Execute(a) ==
    /\ att[a].at = "execute"
    /\ \/ /\ Request(a).status = "absent"
          /\ requests' = [requests EXCEPT ![att[a].key] =
                            [status |-> "processing", payload |-> att[a].payload]]
          /\ Goto(a, "model")
       \/ Executed(a) /\ Served(a) /\ UNCHANGED requests
       \/ ~Executed(a) /\ Raised(a) /\ UNCHANGED requests \* or no token quota
    /\ UNCHANGED <<usage, entitled, pending, now, faults, late>>

\* The executor settles the request it started and returns or raises.
Settle(a) ==
    /\ att[a].at = "model"
    /\ \/ requests' = [requests EXCEPT ![att[a].key].status = "succeeded"] /\ Served(a)
       \/ requests' = [requests EXCEPT ![att[a].key].status = "failed"] /\ Raised(a)
    /\ UNCHANGED <<usage, entitled, pending, now, faults, late>>

\* The commit that saves the report raises: the executor raises, and the
\* request may have succeeded all the same, or never be settled.
SettleInDoubt(a) ==
    /\ att[a].at = "model"
    /\ faults < MaxFaults
    /\ faults' = faults + 1
    /\ \E status \in {"processing", "succeeded"} :
         requests' = [requests EXCEPT ![att[a].key].status = status]
    /\ Raised(a)
    /\ UNCHANGED <<usage, entitled, pending, now, late>>

\* complete_audit, whatever became of the reservation meanwhile, and commit.
CompleteAudit(a) ==
    /\ att[a].at = "complete"
    /\ RowFree(a)
    /\ Submit([attempt |-> a, swept |-> {},
                row |-> [usage[a] EXCEPT !.status = "completed", !.since = now]],
              Finish(a, "report"), Goto(a, "undo"))
    /\ late' = IF usage[a].status = "released" THEN late \cup {a} ELSE late
    /\ UNCHANGED <<requests, entitled, now>>

\* release_audit reads the row without a lock ...
Undo(a) ==
    /\ att[a].at = "undo"
    /\ IF usage[a].status = "reserved" THEN Goto(a, "release") ELSE Finish(a, "error")
    /\ UNCHANGED <<usage, requests, entitled, pending, now, faults, late>>

\* Mutant of Release: the reservation is not given back.
ReleaseForgotten(a) ==
    /\ att[a].at = "release"
    /\ Finish(a, "error")
    /\ UNCHANGED <<usage, requests, entitled, pending, now, faults, late>>

\* ... and writes it whatever it has become.
Release(a) ==
    /\ att[a].at = "release"
    /\ RowFree(a)
    /\ Submit([attempt |-> a, swept |-> {},
                row |-> [usage[a] EXCEPT !.status = "released", !.since = now]], TRUE, TRUE)
    /\ Finish(a, "error")
    /\ UNCHANGED <<requests, entitled, now, late>>

---------------------------------------------------------------------------
(* The environment                                                          *)

\* The worker dies, or the client disconnects and the handler is cancelled.
Crash(a) ==
    /\ att[a].at \notin {"new", "done", "dead"}
    /\ faults < MaxFaults
    /\ faults' = faults + 1
    /\ Goto(a, "dead")
    /\ UNCHANGED <<usage, requests, entitled, pending, now, late>>

\* The server decides a commit whose caller saw an exception.
Decide ==
    \E p \in pending :
        /\ pending' = pending \ {p}
        /\ usage' \in {usage, Applied(p)}
        /\ UNCHANGED <<requests, entitled, att, now, faults, late>>

\* A webhook changes the subscription, or a month ends.
Entitle ==
    /\ entitled' \in Entitlements \ {entitled}
    /\ UNCHANGED <<usage, requests, pending, att, now, faults, late>>

Tick ==
    /\ now < MaxNow
    /\ now' = now + 1
    /\ UNCHANGED <<usage, requests, entitled, pending, att, faults, late>>
---------------------------------------------------------------------------

Work(a) ==
    \/ Check(a) \/ ReserveAudit(a) \/ Execute(a) \/ Settle(a) \/ SettleInDoubt(a)
    \/ CompleteAudit(a) \/ Undo(a) \/ Release(a)

Next ==
    \/ \E a \in Attempts : Work(a) \/ Crash(a)
    \/ Decide
    \/ Entitle
    \/ Tick

Spec == Init /\ [][Next]_vars

\* A handler goes on with what it accepted; the server decides every commit.
FairSpec == Spec /\ WF_vars(Decide) /\ \A a \in Attempts : WF_vars(Work(a) /\ att[a].at # "new")

---------------------------------------------------------------------------
(* Properties                                                               *)

\* Every variable holds what its columns and fields can hold.
TypeOK ==
    /\ usage \in [Attempts -> Usages]
    /\ requests \in [Keys -> Requests]
    /\ entitled \in Entitlements
    /\ pending \subseteq [attempt : Attempts, row : Usages, swept : SUBSET Attempts]
    /\ att \in [Attempts -> Sessions]
    /\ now \in Nat
    /\ faults \in Nat
    /\ late \subseteq Attempts

\* A period's audits stay within the limit one of them was reserved under,
\* whatever plan follows, but for those whose reservation had been swept as
\* abandoned before they completed: complete_audit does not look.
WithinAllowance ==
    \A period \in Periods :
        LET charged == Counted(period) \ late
        IN  charged = {} \/ \E a \in charged : Cardinality(charged) <= Limit[usage[a].plan]

\* An audit is charged only when its report exists, for the payload it was asked
\* for: failed audits do not consume an allowance, and neither do refused ones.
ChargedForAReport ==
    \A a \in Attempts : usage[a].status = "completed" =>
            Request(a).status = "succeeded" /\ Request(a).payload = att[a].payload

\* A report that was served to the attempt that reserved for it stays charged.
ServedIsCharged ==
    \A a \in Attempts :
        att[a].answer = "report" /\ att[a].reserved => usage[a].status = "completed"

\* Where a handler has reserved and not ended.
Busy == {"execute", "model", "complete", "undo", "release"}

\* Whoever is refused is refused for reports that exist and for audits that still run.
\* One that failed has given its reservation back by the time it answers, and what a
\* fault left reserved is held against the user for 15 minutes only ("Failed audits do
\* not consume an allowance", frontend/app/pricing/page.tsx:67).
FailedAuditsDoNotRefuse ==
    [][\A a \in Attempts :
          att[a].answer = "none" /\ att'[a].answer = "no_allowance" =>
            Cardinality({b \in Counted(entitled.period) :
                           \/ usage[b].status = "completed" /\ Request(b).status = "succeeded"
                           \/ att[b].at \in Busy
                           \/ faults > 0 /\ usage[b].since + StaleAfter >= now})
              >= Limit[entitled.plan]]_vars

\* Every reservation is completed or released, unless a fault intervenes.
ReservationsEnd ==
    \A a \in Attempts : usage[a].status = "reserved" ~> usage[a].status # "reserved" \/ faults > 0

\* A key is charged once however often it is sent: test_listing_audit_api.py:107
\* asserts it of an attempt and its replay.
ChargedOncePerKey ==
    \A a, b \in Attempts :
        usage[a].status = "completed" /\ usage[b].status = "completed"
          /\ att[a].key = att[b].key => a = b
=================================================================================
