------------------------------- MODULE TokenCache -------------------------------
(***************************************************************************)
(* The access token of one account (integrations/amazon/token_cache.py,    *)
(* lwa.py): coroutines of one event loop that find no fresh token in the   *)
(* cache share one task that exchanges the refresh token.  An action is    *)
(* what runs between two awaits.  The coordinator's lock is never held     *)
(* across one, so it is always free and does not appear.  A task has the   *)
(* name of the caller that created it.                                     *)
(***************************************************************************)
EXTENDS Naturals, FiniteSets

CONSTANTS
    Callers,  \* calls of get_access_token
    Life,     \* of a token, less the skew
    MaxNow    \* bound: the clock stops here

ASSUME CacheAssumption == Life \in Nat /\ MaxNow \in Nat

VARIABLES
    cache,     \* when the cached token counts as expired; 0 if there is none
    inflight,  \* the registered task, if any
    task,      \* per task: where it is, or how it ended
    since,     \* per task: the clock it reckons the token's life from
    swept,     \* the tasks whose cleanup has run
    caller,    \* per caller: where it is, or its answer
    joined,    \* per caller: the task it waits for
    now

vars == <<cache, inflight, task, since, swept, caller, joined, now>>

Running == {t \in Callers : task[t] \in {"created", "exchanging"}}

Ended == {t \in Callers : task[t] \in {"token", "error", "cancelled"}}

Fresh == now < cache

Init ==
    /\ cache = 0 /\ inflight = {} /\ swept = {} /\ now = 0
    /\ task = [t \in Callers |-> "none"]
    /\ since = [t \in Callers |-> 0]
    /\ caller = [c \in Callers |-> "new"]
    /\ joined = [c \in Callers |-> {}]

---------------------------------------------------------------------------
(* Callers                                                                  *)

\* SingleFlightCoordinator.run: join the task in flight; one that has ended is
\* dropped for a new one.
Join(c) ==
    LET found == inflight \ Ended
    IN  IF found # {}
        THEN joined' = [joined EXCEPT ![c] = found] /\ UNCHANGED <<inflight, task>>
        ELSE /\ inflight' = {c}
             /\ task' = [task EXCEPT ![c] = "created"]
             /\ joined' = [joined EXCEPT ![c] = {c}]

\* get_access_token, up to its only await.
Call(c) ==
    /\ caller[c] = "new"
    /\ IF Fresh
       THEN caller' = [caller EXCEPT ![c] = "token"] /\ UNCHANGED <<inflight, task, joined>>
       ELSE caller' = [caller EXCEPT ![c] = "waiting"] /\ Join(c)
    /\ UNCHANGED <<cache, since, swept, now>>

\* The result of the task, through the shield.
Wake(c) ==
    /\ caller[c] = "waiting"
    /\ \E t \in joined[c] \cap Ended : caller' = [caller EXCEPT ![c] = task[t]]
    /\ UNCHANGED <<cache, inflight, task, since, swept, joined, now>>

\* Mutant of AfterCancel: no shield, the task is cancelled with its caller.
AfterCancelUnshielded(c) ==
    [t \in Callers |-> IF t \in joined[c] \cap Running THEN "cancelled" ELSE task[t]]

AfterCancel(c) == task

\* A caller goes away, the task goes on.
Cancel(c) ==
    /\ caller[c] = "waiting"
    /\ caller' = [caller EXCEPT ![c] = "gone"]
    /\ task' = AfterCancel(c)
    /\ UNCHANGED <<cache, inflight, since, swept, joined, now>>

---------------------------------------------------------------------------
(* The task                                                                 *)

\* _refresh_access_token looks into the cache again, and at the clock.
Begin(t) ==
    /\ task[t] = "created"
    /\ task' = [task EXCEPT ![t] = IF Fresh THEN "token" ELSE "exchanging"]
    /\ since' = [since EXCEPT ![t] = now]
    /\ UNCHANGED <<cache, inflight, swept, caller, joined, now>>

\* The exchange with Amazon, a timeout included.
Exchange(t) ==
    /\ task[t] = "exchanging"
    /\ \/ task' = [task EXCEPT ![t] = "token"] /\ cache' = since[t] + Life
       \/ task' = [task EXCEPT ![t] = "error"] /\ UNCHANGED cache
    /\ UNCHANGED <<inflight, since, swept, caller, joined, now>>

\* Mutant of Unregistered: whatever is registered is dropped.
UnregisteredAny(t) == {}

Unregistered(t) == inflight \ {t}

\* The cleanup that the end of a task schedules.
Cleanup(t) ==
    /\ t \in Ended \ swept
    /\ inflight' = Unregistered(t)
    /\ swept' = swept \cup {t}
    /\ UNCHANGED <<cache, task, since, caller, joined, now>>

Tick ==
    /\ now < MaxNow
    /\ now' = now + 1
    /\ UNCHANGED <<cache, inflight, task, since, swept, caller, joined>>

Next ==
    \/ \E c \in Callers : Call(c) \/ Wake(c) \/ Cancel(c)
    \/ \E t \in Callers : Begin(t) \/ Exchange(t) \/ Cleanup(t)
    \/ Tick

\* The event loop runs what is ready, and a request to Amazon times out.
Fairness ==
    /\ \A c \in Callers : WF_vars(Wake(c))
    /\ \A t \in Callers : WF_vars(Begin(t)) /\ WF_vars(Exchange(t)) /\ WF_vars(Cleanup(t))

Spec == Init /\ [][Next]_vars /\ Fairness

---------------------------------------------------------------------------
(* Properties                                                               *)

TypeOK ==
    /\ cache \in Nat /\ now \in 0..MaxNow
    /\ inflight \subseteq Callers /\ swept \subseteq Callers
    /\ task \in [Callers -> {"none", "created", "exchanging", "token", "error", "cancelled"}]
    /\ since \in [Callers -> Nat]
    /\ caller \in [Callers -> {"new", "waiting", "token", "error", "cancelled", "gone"}]
    /\ joined \in [Callers -> SUBSET Callers]

\* Never are two exchanges under way: a task that is still running is the one
\* registered, also when the one before it is cleaned up late.
OneExchange == Cardinality(Running) <= 1 /\ Running \subseteq inflight

\* Who waits is answered with a token or an error unless it goes away itself;
\* that others go away while sharing its task does not matter.
CallersAreAnswered ==
    \A c \in Callers : caller[c] = "waiting" ~> caller[c] \in {"token", "error", "gone"}
=================================================================================
