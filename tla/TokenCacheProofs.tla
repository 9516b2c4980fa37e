---------------------------- MODULE TokenCacheProofs ----------------------------
(***************************************************************************)
(* That the exchanges of one account never overlap, for every number of    *)
(* callers and every life of a token.                                      *)
(***************************************************************************)
EXTENDS TokenCache, FiniteSetTheorems, TLAPS

\* At most one task is registered, and it is the only one that may be running.
RegisteredInv ==
    /\ TypeOK
    /\ \A t, u \in inflight : t = u
    /\ Running \subseteq inflight

---------------------------------------------------------------------------
(* Steps                                                                    *)

\* Whoever finds no task that is running, or none at all, registers the one it
\* creates; whoever finds one changes no task (SingleFlightCoordinator.run).
LEMMA JoinRegisters ==
    ASSUME RegisteredInv, NEW c \in Callers, Join(c)
    PROVE  /\ inflight' \subseteq Callers /\ task' \in [Callers -> {"none", "created",
                                  "exchanging", "token", "error", "cancelled"}]
           /\ joined' \in [Callers -> SUBSET Callers]
           /\ \A t, u \in inflight' : t = u
           /\ Running' \subseteq inflight'
<1>1. CASE inflight \ Ended # {}
  BY <1>1 DEF Join, RegisteredInv, TypeOK, Running
<1>2. CASE inflight \ Ended = {}
  <2>1. Running = {}
    BY <1>2 DEF RegisteredInv, Running, Ended
  <2>2. inflight' = {c} /\ task' = [task EXCEPT ![c] = "created"]
    BY <1>2 DEF Join
  <2>3. joined' = [joined EXCEPT ![c] = {c}]
    BY <1>2 DEF Join
  <2>4. Running' \subseteq {c}
    BY <2>1, <2>2 DEF RegisteredInv, TypeOK, Running
  <2>5. QED
    BY <2>2, <2>3, <2>4 DEF RegisteredInv, TypeOK
<1>3. QED
  BY <1>1, <1>2


LEMMA RegisteredHolds == Spec => []RegisteredInv
<1> USE CacheAssumption
<1>1. Init => RegisteredInv
  BY DEF Init, RegisteredInv, TypeOK, Running
<1>2. RegisteredInv /\ [Next]_vars => RegisteredInv'
  <2> SUFFICES ASSUME RegisteredInv, [Next]_vars PROVE RegisteredInv'
    OBVIOUS
  <2>1. ASSUME NEW c \in Callers, Call(c) PROVE RegisteredInv'
    <3>1. CASE Fresh
      BY <2>1, <3>1 DEF Call, RegisteredInv, TypeOK, Running
    <3>2. CASE ~Fresh
      <4>1. Join(c) /\ caller' = [caller EXCEPT ![c] = "waiting"]
        BY <2>1, <3>2 DEF Call
      <4>2. QED
        BY <2>1, <4>1, JoinRegisters DEF Call, RegisteredInv, TypeOK
    <3>3. QED
      BY <3>1, <3>2
  <2>2. ASSUME NEW c \in Callers, Wake(c) PROVE RegisteredInv'
    BY <2>2 DEF Wake, RegisteredInv, TypeOK, Running, Ended
  <2>3. ASSUME NEW c \in Callers, Cancel(c) PROVE RegisteredInv'
    BY <2>3 DEF Cancel, AfterCancel, RegisteredInv, TypeOK, Running
  <2>4. ASSUME NEW t \in Callers, Begin(t) PROVE RegisteredInv'
    <3>1. TypeOK'
      BY <2>4 DEF Begin, RegisteredInv, TypeOK
    <3>2. Running' \subseteq Running
      BY <2>4 DEF Begin, RegisteredInv, TypeOK, Running
    <3>3. QED
      BY <2>4, <3>1, <3>2 DEF Begin, RegisteredInv
  <2>5. ASSUME NEW t \in Callers, Exchange(t) PROVE RegisteredInv'
    <3>1. TypeOK'
      BY <2>5 DEF Exchange, RegisteredInv, TypeOK
    <3>2. Running' \subseteq Running
      BY <2>5 DEF Exchange, RegisteredInv, TypeOK, Running
    <3>3. QED
      BY <2>5, <3>1, <3>2 DEF Exchange, RegisteredInv
  <2>6. ASSUME NEW t \in Callers, Cleanup(t) PROVE RegisteredInv'
    <3>1. TypeOK'
      BY <2>6 DEF Cleanup, Unregistered, Ended, RegisteredInv, TypeOK
    <3>2. Running' = Running /\ t \notin Running
      BY <2>6 DEF Cleanup, Running, Ended
    <3>3. QED
      BY <2>6, <3>1, <3>2 DEF Cleanup, Unregistered, RegisteredInv
  <2>7. CASE Tick
    BY <2>7 DEF Tick, RegisteredInv, TypeOK, Running
  <2>8. CASE UNCHANGED vars
    BY <2>8 DEF vars, RegisteredInv, TypeOK, Running
  <2>9. QED
    BY <2>1, <2>2, <2>3, <2>4, <2>5, <2>6, <2>7, <2>8 DEF Next
<1>3. QED
  BY <1>1, <1>2, PTL DEF Spec

---------------------------------------------------------------------------
(* Results                                                                  *)

\* A set without two elements has at most one.
LEMMA AtMostOne ==
    ASSUME NEW S, \A x, y \in S : x = y
    PROVE  Cardinality(S) <= 1
<1>1. CASE S = {}
  BY <1>1, FS_EmptySet
<1>2. CASE S # {}
  <2>1. PICK x : S = {x}
    BY <1>2
  <2>2. QED
    BY <2>1, FS_Singleton
<1>3. QED
  BY <1>1, <1>2

\* However many coroutines find no fresh token at once, and whoever of them goes
\* away, one exchange at a time is under way, and it is the registered one
\* (token_cache.py: SingleFlightCoordinator.run).
THEOREM ExchangesDoNotOverlap == Spec => []OneExchange
<1>1. RegisteredInv => OneExchange
  <2> SUFFICES ASSUME RegisteredInv PROVE OneExchange
    OBVIOUS
  <2>1. \A t, u \in Running : t = u
    BY DEF RegisteredInv
  <2>2. Cardinality(Running) <= 1
    BY <2>1, AtMostOne
  <2>3. QED
    BY <2>2 DEF OneExchange, RegisteredInv
<1>2. QED
  BY <1>1, RegisteredHolds, PTL
=================================================================================
