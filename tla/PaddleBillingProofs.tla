-------------------------- MODULE PaddleBillingProofs --------------------------
(***************************************************************************)
(* Theorems about PaddleBilling, for every set of events, subscriptions,   *)
(* users and workers, and for whatever the events say.                     *)
(***************************************************************************)
EXTENDS PaddleBilling, FiniteSetTheorems, TLAPS

OfUser(u) == {s \in Subs : Owner[s] = u}

\* The workers that have read the subscription their event is about.
Readers == {w \in Workers : h[w].at \in {"lock", "commit"} /\ Said(w).type = "subscription"}

\* The variables of the history.
HistoryTypes ==
    /\ applied \in [Events -> Nat]
    /\ last \in [Users -> SUBSET Events]
    /\ tangled \in [Users -> BOOLEAN]

\* No row is dated after the commits there were.
RowsAreDated ==
    /\ IsFiniteSet(recorded)
    /\ \A s \in Subs : sub[s].updated <= Cardinality(recorded)

\* What worker w has read: the price is known and the user is there once it is
\* locked.  A row is deleted only with the user; and until another event of the
\* user is committed, the row is as it was read and no row is newer than the read.
Reads(w) ==
    /\ Priced(w)
    /\ h[w].since <= Cardinality(recorded)
    /\ h[w].at = "commit" => UserOf(h[w].event) \in users
    /\ UserOf(h[w].event) \in users =>
          /\ h[w].row # NoRow => sub[Said(w).sub] # NoRow
          /\ ~h[w].stale =>
                /\ h[w].row = sub[Said(w).sub]
                /\ \A s \in OfUser(UserOf(h[w].event)) : sub[s].updated <= h[w].since

ReadersKnow == \A w \in Readers : Reads(w)

\* The row of event e is what the event said.
Says(e) ==
    /\ sub[payload[e].sub].plan = payload[e].price
    /\ sub[payload[e].sub].status = payload[e].status
    /\ sub[payload[e].sub].period = payload[e].period

\* No row of the user of event e is as new as the row of e.
IsNewest(e) ==
    \A s \in OfUser(UserOf(e)) \ {payload[e].sub} :
        sub[s].updated < sub[payload[e].sub].updated

\* The last event of a user left the plan that is shown and, unless it was
\* tangled with another, the row it said and no newer one.
LastIsNewest ==
    \A u \in users : \A e \in last[u] :
        /\ UserOf(e) = u
        /\ plan[u] = Shown(payload[e])
        /\ ~tangled[u] => Says(e) /\ IsNewest(e)

\* AppliedOnce needs only the types; LastEventDecides the dates of the rows, and
\* what the workers have read.
BillingInv ==
    /\ TypeOK
    /\ HistoryTypes
    /\ AppliedOnce
    /\ RowsAreDated
    /\ ReadersKnow
    /\ LastIsNewest

---------------------------------------------------------------------------
(* Shapes                                                                   *)

LEMMA EventFacts ==
    ASSUME TypeOK, NEW e \in Events
    PROVE  /\ payload[e] \in Contents /\ payload[e].sub \in Subs
           /\ payload[e].type \in {"subscription", "other"}
           /\ payload[e].price \in Plans \cup {"unknown"}
           /\ payload[e].status \in Statuses /\ payload[e].period \in Periods
           /\ UserOf(e) \in Users
  BY BillingAssumption DEF TypeOK, Contents, UserOf

LEMMA HandlerFacts ==
    ASSUME TypeOK, NEW w \in Workers
    PROVE  /\ h[w] \in Handlers
           /\ h[w].at \in {"idle", "load", "lock", "commit"}
           /\ h[w].event \in Events /\ h[w].row \in Rows \cup {NoRow}
           /\ h[w].since \in Nat /\ h[w].stale \in BOOLEAN
  BY DEF TypeOK, Handlers

LEMMA FreeIsHandler == Free \in Handlers /\ Free.at = "idle"
<1>1. (CHOOSE e \in Events : TRUE) \in Events
  BY BillingAssumption
<1> DEFINE any == CHOOSE e \in Events : TRUE
<1>2. any \in Events
  BY <1>1
<1>3. Free = [at |-> "idle", event |-> any, row |-> NoRow, since |-> 0, stale |-> FALSE]
  BY DEF Free
<1> HIDE DEF any
<1>4. QED
  BY <1>2, <1>3 DEF Handlers

LEMMA RowFacts ==
    /\ NoRow \notin Rows
    /\ NoRow.updated = 0
    /\ \A r \in Rows \cup {NoRow} : r.updated \in Nat
  BY DEF NoRow, Rows, Plans

\* A finite set of commits, counted.
LEMMA CountFacts ==
    ASSUME RowsAreDated
    PROVE  /\ Cardinality(recorded) \in Nat
           /\ \A e : e \notin recorded =>
                 /\ IsFiniteSet(recorded \cup {e})
                 /\ Cardinality(recorded \cup {e}) = Cardinality(recorded) + 1
  BY FS_CardinalityType, FS_AddElement DEF RowsAreDated

---------------------------------------------------------------------------
(* Steps that write no table                                                *)

\* What holds of the tables goes on holding, and so does what the workers know,
\* if what a worker has newly read is right.
LEMMA OnlyHandlers ==
    ASSUME BillingInv, UNCHANGED <<payload, tables>>,
           h' \in [Workers -> Handlers], acked' \subseteq recorded, faults' \in 0..MaxFaults,
           \A v \in Readers' : (v \in Readers /\ h'[v] = h[v]) \/ Reads(v)'
    PROVE  BillingInv'
<1>1. TypeOK' /\ HistoryTypes' /\ AppliedOnce' /\ RowsAreDated'
  BY DEF BillingInv, TypeOK, HistoryTypes, AppliedOnce, RowsAreDated, tables
<1>2. ReadersKnow'
  <2> SUFFICES ASSUME NEW v \in Readers' PROVE Reads(v)'
    BY DEF ReadersKnow
  <2>1. CASE v \in Readers /\ h'[v] = h[v]
    <3>1. Reads(v)
      BY <2>1 DEF BillingInv, ReadersKnow
    <3>2. QED
      BY <2>1, <3>1 DEF Reads, Priced, Said, UserOf, OfUser, tables
  <2>2. QED
    BY <2>1
<1>3. LastIsNewest'
  BY DEF BillingInv, LastIsNewest, UserOf, Says, IsNewest, OfUser, tables
<1>4. QED
  BY <1>1, <1>2, <1>3 DEF BillingInv

\* A worker that is free again.
LEMMA FreedStep ==
    ASSUME BillingInv, NEW w \in Workers, h' = [h EXCEPT ![w] = Free],
           UNCHANGED <<payload, tables, acked>>, faults' \in 0..MaxFaults
    PROVE  BillingInv'
<1>1. h' \in [Workers -> Handlers] /\ acked' \subseteq recorded
  BY FreeIsHandler DEF BillingInv, TypeOK, AppliedOnce
<1>2. ASSUME NEW v \in Readers'
      PROVE  v \in Readers /\ h'[v] = h[v]
  <2>1. v # w /\ h'[v] = h[v]
    BY <1>2, FreeIsHandler DEF Readers, BillingInv, TypeOK
  <2>2. QED
    BY <1>2, <2>1 DEF Readers, Said
<1>3. QED
  BY <1>1, <1>2, OnlyHandlers

LEMMA FailStep ==
    ASSUME BillingInv, NEW w \in Workers, Fail(w), UNCHANGED payload
    PROVE  BillingInv'
<1>1. faults' \in 0..MaxFaults
  BY DEF Fail, BillingInv, TypeOK
<1>2. QED
  BY <1>1, FreedStep DEF Fail

LEMMA CrashStep ==
    ASSUME BillingInv, NEW w \in Workers, Crash(w)
    PROVE  BillingInv'
<1>1. faults' \in 0..MaxFaults
  BY BillingAssumption DEF Crash, BillingInv, TypeOK
<1>2. QED
  BY <1>1, FreedStep DEF Crash

LEMMA ReceiveStep ==
    ASSUME BillingInv, NEW w \in Workers, NEW e \in Events, Receive(w, e)
    PROVE  BillingInv'
<1> USE DEF Receive
<1>1. acked' \subseteq recorded /\ faults' \in 0..MaxFaults
  BY DEF Known, BillingInv, AppliedOnce, TypeOK
<1>2. CASE Known(e)
  <2>1. h' = h
    BY <1>2
  <2>2. h' \in [Workers -> Handlers]
    BY <2>1 DEF BillingInv, TypeOK
  <2>3. \A v \in Readers' : v \in Readers /\ h'[v] = h[v]
    BY <2>1 DEF Readers, Said
  <2>4. QED
    BY <1>1, <2>2, <2>3, OnlyHandlers
<1>3. CASE ~Known(e)
  <2>1. /\ h'[w] = [h[w] EXCEPT !.at = "load", !.event = e]
        /\ \A v \in Workers \ {w} : h'[v] = h[v]
        /\ DOMAIN h' = Workers
        /\ h' = [v \in Workers |-> h'[v]]
    BY <1>3 DEF BillingInv, TypeOK
  <2>2. h'[w] \in Handlers /\ h'[w].at = "load"
    <3>1. h[w] \in Handlers
      BY HandlerFacts DEF BillingInv
    <3>2. QED
      BY <2>1, <3>1 DEF Handlers
  <2>3. h' \in [Workers -> Handlers]
    <3>1. \A v \in Workers : h'[v] \in Handlers
      BY <2>1, <2>2, HandlerFacts DEF BillingInv
    <3>2. QED
      BY <2>1, <3>1
  <2>4. ASSUME NEW v \in Readers'
        PROVE  v \in Readers /\ h'[v] = h[v]
    <3>1. v \in Workers \ {w} /\ h'[v] = h[v]
      BY <2>1, <2>2, <2>4 DEF Readers
    <3>2. QED
      BY <2>4, <3>1 DEF Readers, Said
  <2>5. QED
    BY <1>1, <2>3, <2>4, OnlyHandlers
<1>4. QED
  BY <1>2, <1>3

LEMMA LoadStep ==
    ASSUME BillingInv, NEW w \in Workers, Load(w)
    PROVE  BillingInv'
<1> USE DEF Load
<1> DEFINE e == h[w].event
<1>1. e \in Events /\ h[w] \in Handlers /\ faults \in 0..MaxFaults /\ acked \subseteq recorded
  BY HandlerFacts DEF BillingInv, TypeOK, AppliedOnce
<1>2. CASE Said(w).type = "other"
  <2>1. /\ h'[w] = [h[w] EXCEPT !.at = "commit"]
        /\ \A v \in Workers \ {w} : h'[v] = h[v]
        /\ h' = [v \in Workers |-> h'[v]]
        /\ UNCHANGED <<payload, tables, acked, faults>>
    BY <1>2 DEF BillingInv, TypeOK
  <2>2. h'[w] \in Handlers /\ h'[w].event = h[w].event
    BY <1>1, <2>1 DEF Handlers
  <2>3. h' \in [Workers -> Handlers]
    BY <2>1, <2>2, HandlerFacts DEF BillingInv
  <2>4. ASSUME NEW v \in Readers'
        PROVE  v \in Readers /\ h'[v] = h[v]
    BY <1>2, <2>1, <2>2, <2>4 DEF Readers, Said
  <2>5. QED
    BY <1>1, <2>1, <2>3, <2>4, OnlyHandlers
<1>3. CASE Said(w).type # "other" /\ Matched(w) /\ Priced(w)
  <2> DEFINE row == sub[Said(w).sub]
             since == Cardinality(recorded)
             read == [at |-> "lock", event |-> e, row |-> row, since |-> since, stale |-> h[w].stale]
  <2>1. /\ h'[w] = [h[w] EXCEPT !.at = "lock", !.row = row, !.since = since]
        /\ \A v \in Workers \ {w} : h'[v] = h[v]
        /\ h' = [v \in Workers |-> h'[v]]
        /\ UNCHANGED <<payload, tables, acked, faults>>
    BY <1>3 DEF BillingInv, TypeOK
  <2>2. row \in Rows \cup {NoRow} /\ since \in Nat
    BY <1>1, EventFacts, CountFacts DEF BillingInv, TypeOK, Said
  <2> HIDE DEF row, since
  <2>3. h'[w] = read /\ read \in Handlers
    BY <1>1, <2>1, <2>2 DEF Handlers
  <2>4. h' \in [Workers -> Handlers]
    <3>1. h'[w] \in Handlers
      BY <2>3
    <3>2. QED
      BY <2>1, <3>1, HandlerFacts DEF BillingInv
  <2>5. ASSUME NEW v \in Readers'
        PROVE  (v \in Readers /\ h'[v] = h[v]) \/ Reads(v)'
    <3>1. CASE v # w
      BY <2>1, <2>5, <3>1 DEF Readers, Said
    <3>2. CASE v = w
      <4>1. /\ h'[v].event = e /\ h'[v].row = row /\ h'[v].since = since /\ h'[v].at = "lock"
        BY <2>3, <3>2
      <4>2. Priced(v)' /\ row = (sub[Said(v).sub])' /\ since = Cardinality(recorded)'
        BY <1>3, <2>1, <3>2, <4>1 DEF Priced, Said, row, since, tables
      <4>3. \A s \in Subs : sub'[s].updated <= since
        BY <2>1 DEF BillingInv, RowsAreDated, since, tables
      <4>4. since <= since
        BY <2>2
      <4>5. QED
        BY <4>1, <4>2, <4>3, <4>4 DEF Reads, OfUser
    <3>3. QED
      BY <3>1, <3>2
  <2>6. QED
    BY <1>1, <2>1, <2>4, <2>5, OnlyHandlers
<1>4. CASE Said(w).type # "other" /\ ~(Matched(w) /\ Priced(w))
  BY <1>4, FailStep
<1>5. QED
  BY <1>2, <1>3, <1>4

LEMMA LockStep ==
    ASSUME BillingInv, NEW w \in Workers, Lock(w)
    PROVE  BillingInv'
<1> USE DEF Lock
<1>1. h[w] \in Handlers /\ faults \in 0..MaxFaults /\ acked \subseteq recorded
  BY HandlerFacts DEF BillingInv, TypeOK, AppliedOnce
<1>2. CASE UserOf(h[w].event) \in users
  <2>1. /\ h'[w] = [h[w] EXCEPT !.at = "commit"]
        /\ \A v \in Workers \ {w} : h'[v] = h[v]
        /\ h' = [v \in Workers |-> h'[v]]
        /\ UNCHANGED <<payload, tables, acked, faults>>
    BY <1>2 DEF BillingInv, TypeOK
  <2>2. /\ h'[w] \in Handlers /\ h'[w].event = h[w].event /\ h'[w].row = h[w].row
        /\ h'[w].since = h[w].since /\ h'[w].stale = h[w].stale /\ h'[w].at = "commit"
    BY <1>1, <2>1 DEF Handlers
  <2>3. h' \in [Workers -> Handlers]
    BY <2>1, <2>2, HandlerFacts DEF BillingInv
  <2>4. ASSUME NEW v \in Readers'
        PROVE  (v \in Readers /\ h'[v] = h[v]) \/ Reads(v)'
    <3>1. CASE v # w
      BY <2>1, <2>4, <3>1 DEF Readers, Said
    <3>2. CASE v = w
      <4>1. v \in Readers
        BY <2>1, <2>2, <2>4, <3>2 DEF Readers, Said
      <4>2. Reads(v)
        BY <4>1 DEF BillingInv, ReadersKnow
      <4>3. QED
        BY <1>2, <2>1, <2>2, <3>2, <4>2 DEF Reads, Priced, Said, UserOf, OfUser, tables
    <3>3. QED
      BY <3>1, <3>2
  <2>5. QED
    BY <1>1, <2>1, <2>3, <2>4, OnlyHandlers
<1>3. CASE UserOf(h[w].event) \notin users
  BY <1>3, FailStep
<1>4. QED
  BY <1>2, <1>3

---------------------------------------------------------------------------
(* Steps that write tables                                                  *)

\* The rows go with the user: no worker has the user locked, and those that
\* have read a row of the user will not find the user.
LEMMA DeleteStep ==
    ASSUME BillingInv, NEW u \in Users, DeleteUser(u)
    PROVE  BillingInv'
<1> USE DEF DeleteUser
<1>1. \A s \in Subs : sub'[s] = IF Owner[s] = u THEN NoRow ELSE sub[s]
  OBVIOUS
<1>2. TypeOK'
  <2>1. sub' \in [Subs -> Rows \cup {NoRow}]
    BY DEF BillingInv, TypeOK
  <2>2. QED
    BY <2>1 DEF BillingInv, TypeOK
<1>3. HistoryTypes' /\ AppliedOnce'
  BY DEF BillingInv, HistoryTypes, AppliedOnce
<1>4. RowsAreDated'
  <2>1. Cardinality(recorded) \in Nat
    BY CountFacts DEF BillingInv
  <2>2. QED
    BY <1>1, <2>1, RowFacts DEF BillingInv, RowsAreDated
<1>5. ReadersKnow'
  <2> SUFFICES ASSUME NEW v \in Readers PROVE Reads(v)'
    BY DEF ReadersKnow, Readers, Said
  <2>1. Reads(v) /\ v \in Workers /\ h[v].event \in Events
    BY HandlerFacts DEF BillingInv, ReadersKnow, Readers
  <2>2. h[v].at = "commit" => UserOf(h[v].event) # u
    BY DEF Locked, Readers
  <2>3. UserOf(h[v].event)' = UserOf(h[v].event) /\ Priced(v)' = Priced(v)
    BY DEF UserOf, Priced, Said
  <2>4. ASSUME UserOf(h[v].event) \in users'
        PROVE  /\ Owner[Said(v).sub] # u /\ Said(v).sub \in Subs
               /\ \A s \in OfUser(UserOf(h[v].event)) : sub'[s] = sub[s]
    BY <1>1, <2>1, <2>4, EventFacts DEF BillingInv, UserOf, Said, OfUser
  <2>5. QED
    BY <1>1, <2>1, <2>2, <2>3, <2>4 DEF Reads, Said, OfUser
<1>6. LastIsNewest'
  <2> SUFFICES ASSUME NEW x \in users', NEW e \in last[x]
               PROVE  /\ UserOf(e)' = x
                      /\ plan[x] = Shown(payload[e])
                      /\ ~tangled[x] => Says(e)' /\ IsNewest(e)'
    BY DEF LastIsNewest
  <2>1. /\ UserOf(e) = x /\ plan[x] = Shown(payload[e]) /\ x # u
        /\ ~tangled[x] => Says(e) /\ IsNewest(e)
    BY DEF BillingInv, LastIsNewest
  <2>2. e \in Events /\ payload[e].sub \in Subs
    BY EventFacts DEF BillingInv, HistoryTypes, TypeOK
  <2>3. UserOf(e)' = x /\ \A s \in OfUser(x) : sub'[s] = sub[s]
    BY <1>1, <2>1 DEF UserOf, OfUser
  <2>4. payload[e].sub \in OfUser(x)
    BY <2>1, <2>2 DEF UserOf, OfUser
  <2>5. QED
    BY <2>1, <2>3, <2>4 DEF Says, IsNewest, OfUser
<1>7. QED
  BY <1>2, <1>3, <1>4, <1>5, <1>6 DEF BillingInv

\* A flush leaves a row, dated with the read or before; it leaves what the event
\* said if no other event of the user was committed since the read.
LEMMA FlushedFacts ==
    ASSUME BillingInv, NEW w \in Readers, h[w].at = "commit", ~Clash(w)
    PROVE  /\ Flushed(w) \in Rows
           /\ Flushed(w).updated <= Cardinality(recorded) + 1
           /\ ~h[w].stale => /\ Flushed(w).plan = Said(w).price
                             /\ Flushed(w).status = Said(w).status
                             /\ Flushed(w).period = Said(w).period
                             /\ Flushed(w).updated = h[w].since + 1
<1> DEFINE new == Assigned(w)
           old == sub[Said(w).sub]
           out == Flushed(w)
<1>1. w \in Workers /\ h[w].event \in Events /\ h[w].since \in Nat /\ h[w].row \in Rows \cup {NoRow}
  BY HandlerFacts DEF BillingInv, Readers
<1>2. /\ Reads(w) /\ UserOf(h[w].event) \in users
  BY DEF BillingInv, ReadersKnow, Reads
<1>3. /\ Said(w).sub \in Subs /\ old \in Rows \cup {NoRow}
      /\ Said(w).price \in Plans /\ Said(w).status \in Statuses /\ Said(w).period \in Periods
  BY <1>1, <1>2, EventFacts DEF BillingInv, TypeOK, Said, Reads, Priced
<1>4. /\ new \in Rows /\ new.plan = Said(w).price /\ new.status = Said(w).status
      /\ new.period = Said(w).period /\ new.updated = h[w].since + 1
  BY <1>1, <1>3 DEF Assigned, Rows, Stamp
<1>5. h[w].row # NoRow => old \in Rows
  BY <1>2, <1>3 DEF Reads
<1>6. ~h[w].stale => h[w].row = old
  BY <1>2 DEF Reads
<1>7. /\ DOMAIN NoRow = {"plan", "status", "period", "updated"}
      /\ out = [c \in DOMAIN NoRow |-> IF h[w].row = NoRow \/ new[c] # h[w].row[c] THEN new[c] ELSE old[c]]
  BY DEF Flushed, NoRow
<1> HIDE DEF new, old, out
<1>8. /\ out = [plan |-> out.plan, status |-> out.status, period |-> out.period, updated |-> out.updated]
      /\ out.plan = IF h[w].row = NoRow \/ new.plan # h[w].row.plan THEN new.plan ELSE old.plan
      /\ out.status = IF h[w].row = NoRow \/ new.status # h[w].row.status THEN new.status ELSE old.status
      /\ out.period = IF h[w].row = NoRow \/ new.period # h[w].row.period THEN new.period ELSE old.period
      /\ out.updated = IF h[w].row = NoRow \/ new.updated # h[w].row.updated THEN new.updated ELSE old.updated
  BY <1>7
<1>9. out \in Rows
  <2>1. /\ out.plan \in Plans /\ out.status \in Statuses
        /\ out.period \in Periods /\ out.updated \in Nat
    BY <1>4, <1>5, <1>8 DEF Rows
  <2>2. QED
    BY <1>8, <2>1 DEF Rows
<1>10. out.updated <= Cardinality(recorded) + 1
  <2>1. Cardinality(recorded) \in Nat
    BY CountFacts DEF BillingInv
  <2>2. new.updated <= Cardinality(recorded) + 1
    BY <1>1, <1>2, <1>4, <2>1 DEF Reads
  <2>3. old.updated <= Cardinality(recorded) /\ old.updated \in Nat
    BY <1>3, RowFacts DEF BillingInv, RowsAreDated, old
  <2>4. QED
    BY <1>8, <2>1, <2>2, <2>3
<1>11. ASSUME ~h[w].stale
       PROVE  /\ out.plan = new.plan /\ out.status = new.status
              /\ out.period = new.period /\ out.updated = new.updated
  BY <1>6, <1>8, <1>11
<1>12. QED
  BY <1>4, <1>9, <1>10, <1>11 DEF out

\* The workers after worker w committed an event of user u: the others are stale
\* if they handle one, too.
AfterCommit(w, u) ==
    [v \in Workers |->
        IF v = w THEN Free
        ELSE [h[v] EXCEPT !.stale = @ \/ (h[v].at # "idle" /\ UserOf(h[v].event) = u)]]

LEMMA OthersGoStale ==
    ASSUME TypeOK, NEW w \in Workers, NEW u, h' = AfterCommit(w, u)
    PROVE  /\ h' \in [Workers -> Handlers]
           /\ h'[w].at = "idle"
           /\ \A v \in Workers \ {w} :
                 /\ h'[v].at = h[v].at /\ h'[v].event = h[v].event
                 /\ h'[v].row = h[v].row /\ h'[v].since = h[v].since
                 /\ ~h'[v].stale => ~h[v].stale /\ (h[v].at = "idle" \/ UserOf(h[v].event) # u)
<1>1. h'[w] = Free /\ Free \in Handlers /\ Free.at = "idle"
  BY FreeIsHandler DEF AfterCommit
<1>2. ASSUME NEW v \in Workers \ {w}
      PROVE  /\ h'[v] \in Handlers
             /\ h'[v].at = h[v].at /\ h'[v].event = h[v].event
             /\ h'[v].row = h[v].row /\ h'[v].since = h[v].since
             /\ ~h'[v].stale => ~h[v].stale /\ (h[v].at = "idle" \/ UserOf(h[v].event) # u)
  <2> DEFINE stale == h[v].stale \/ (h[v].at # "idle" /\ UserOf(h[v].event) = u)
  <2>1. h[v] \in Handlers
    BY HandlerFacts
  <2>2. h'[v] = [h[v] EXCEPT !.stale = stale]
    BY DEF stale, AfterCommit
  <2>3. stale \in BOOLEAN
    BY <2>1 DEF Handlers, stale
  <2>4. stale = FALSE => ~h[v].stale /\ (h[v].at = "idle" \/ UserOf(h[v].event) # u)
    BY DEF stale
  <2> HIDE DEF stale
  <2>5. /\ h'[v] \in Handlers /\ h'[v].stale = stale
        /\ h'[v].at = h[v].at /\ h'[v].event = h[v].event
        /\ h'[v].row = h[v].row /\ h'[v].since = h[v].since
    BY <2>1, <2>2, <2>3 DEF Handlers
  <2>6. QED
    BY <2>3, <2>4, <2>5
<1>3. h' \in [Workers -> Handlers]
  BY <1>1, <1>2 DEF AfterCommit
<1>4. QED
  BY <1>1, <1>2, <1>3

\* What both kinds of commit keep: an event is recorded with its effect, and never
\* again.
LEMMA RecordStep ==
    ASSUME BillingInv, NEW w \in Workers, Commit(w), ~Clash(w)
    PROVE  /\ h[w].event \in Events \ recorded
           /\ UNCHANGED <<payload, users>>
           /\ recorded' = recorded \cup {h[w].event}
           /\ IsFiniteSet(recorded') /\ Cardinality(recorded)' = Cardinality(recorded) + 1
           /\ acked' \subseteq Events /\ faults' \in 0..MaxFaults
           /\ applied' \in [Events -> Nat]
           /\ AppliedOnce'
<1>1. h[w].event \in Events
  BY HandlerFacts DEF BillingInv
<1>2. /\ h[w].event \notin recorded /\ UNCHANGED <<payload, users>>
      /\ recorded' = recorded \cup {h[w].event}
      /\ applied' = [applied EXCEPT ![h[w].event] = @ + 1]
      /\ \/ acked' = acked \cup {h[w].event} /\ faults' = faults
         \/ faults < MaxFaults /\ faults' = faults + 1 /\ acked' = acked
  BY DEF Commit, Clash, Apply
<1>3. IsFiniteSet(recorded') /\ Cardinality(recorded)' = Cardinality(recorded) + 1
  BY <1>2, CountFacts DEF BillingInv
<1>4. faults' \in 0..MaxFaults
  BY <1>2, BillingAssumption DEF BillingInv, TypeOK
<1>5. acked' \subseteq Events /\ acked' \subseteq recorded'
  BY <1>1, <1>2 DEF BillingInv, TypeOK, AppliedOnce
<1>6. applied' \in [Events -> Nat]
  <2>1. /\ applied \in [Events -> Nat]
        /\ \A e \in Events : applied'[e] = IF e = h[w].event THEN applied[e] + 1 ELSE applied[e]
    BY <1>1, <1>2 DEF BillingInv, HistoryTypes
  <2>2. \A e \in Events : applied'[e] \in Nat
    BY <2>1
  <2>3. applied' = [e \in Events |-> applied'[e]]
    BY <1>2, <2>1
  <2>4. QED
    BY <2>2, <2>3
<1>7. AppliedOnce'
  BY <1>1, <1>2, <1>5 DEF BillingInv, HistoryTypes, AppliedOnce
<1>8. QED
  BY <1>1, <1>2, <1>3, <1>4, <1>5, <1>6, <1>7

\* An event that is not about a subscription is only recorded.
LEMMA OtherCommitStep ==
    ASSUME BillingInv, NEW w \in Workers, Commit(w), ~Clash(w), Said(w).type # "subscription"
    PROVE  BillingInv'
<1>1. h' = [h EXCEPT ![w] = Free] /\ UNCHANGED <<sub, plan, last, tangled>>
  BY DEF Commit, Apply, Said
<1>2. TypeOK' /\ HistoryTypes' /\ AppliedOnce'
  <2>1. h' \in [Workers -> Handlers]
    BY <1>1, FreeIsHandler DEF BillingInv, TypeOK
  <2>2. QED
    BY <1>1, <2>1, RecordStep DEF BillingInv, TypeOK, HistoryTypes
<1>3. Cardinality(recorded) \in Nat
  BY CountFacts DEF BillingInv
<1>4. RowsAreDated'
  <2>1. \A s \in Subs : sub[s].updated \in Nat
    BY RowFacts DEF BillingInv, TypeOK
  <2>2. QED
    BY <1>1, <1>3, <2>1, RecordStep DEF BillingInv, RowsAreDated
<1>5. ReadersKnow'
  <2> SUFFICES ASSUME NEW v \in Readers' PROVE Reads(v)'
    BY DEF ReadersKnow
  <2>1. v # w /\ h'[v] = h[v] /\ v \in Workers
    BY <1>1, FreeIsHandler DEF Readers, BillingInv, TypeOK
  <2>2. v \in Readers
    BY <2>1, RecordStep DEF Readers, Said
  <2>3. Reads(v) /\ h[v].since \in Nat
    BY <2>1, <2>2, HandlerFacts DEF BillingInv, ReadersKnow
  <2>4. h'[v].since <= Cardinality(recorded)'
    BY <1>3, <2>1, <2>3, RecordStep DEF Reads
  <2>5. QED
    BY <1>1, <2>1, <2>3, <2>4, RecordStep DEF Reads, Priced, Said, UserOf, OfUser
<1>6. LastIsNewest'
  BY <1>1, RecordStep DEF BillingInv, LastIsNewest, UserOf, Says, IsNewest, OfUser
<1>7. QED
  BY <1>2, <1>4, <1>5, <1>6, RecordStep DEF BillingInv

\* A subscription's row and its user's plan are written together.
LEMMA SubscriptionCommitStep ==
    ASSUME BillingInv, NEW w \in Workers, Commit(w), ~Clash(w), Said(w).type = "subscription"
    PROVE  BillingInv'
<1> DEFINE e == h[w].event
           u == UserOf(e)
           s == Said(w).sub
           row == Flushed(w)
<1>1. /\ e \in Events /\ w \in Readers /\ h[w].at = "commit" /\ u \in Users /\ s \in Subs
      /\ h[w].since \in Nat /\ Cardinality(recorded) \in Nat /\ h[w].stale \in BOOLEAN
  BY HandlerFacts, EventFacts, CountFacts DEF BillingInv, Commit, Readers, Said
<1>2. /\ sub' = [sub EXCEPT ![s] = row]
      /\ plan' = [plan EXCEPT ![u] = Shown(payload[e])]
      /\ last' = [last EXCEPT ![u] = {e}]
      /\ tangled' = [tangled EXCEPT ![u] = h[w].stale]
      /\ h' = AfterCommit(w, u)
  BY DEF Commit, Apply, Said, AfterCommit
<1>3. /\ Reads(w) /\ u \in users /\ Said(w).price \in Plans
  BY <1>1, EventFacts DEF BillingInv, ReadersKnow, Reads, Priced, Said
<1>4. /\ row \in Rows /\ row.updated <= Cardinality(recorded) + 1
      /\ ~h[w].stale => /\ row.plan = Said(w).price /\ row.status = Said(w).status
                        /\ row.period = Said(w).period /\ row.updated = h[w].since + 1
  BY <1>1, FlushedFacts
<1>5. /\ payload' = payload /\ users' = users
      /\ Cardinality(recorded)' = Cardinality(recorded) + 1
  BY RecordStep
<1>6. /\ h' \in [Workers -> Handlers] /\ h'[w].at = "idle"
      /\ \A v \in Workers \ {w} :
            /\ h'[v].at = h[v].at /\ h'[v].event = h[v].event
            /\ h'[v].row = h[v].row /\ h'[v].since = h[v].since
            /\ ~h'[v].stale => ~h[v].stale /\ (h[v].at = "idle" \/ UserOf(h[v].event) # u)
  BY <1>2, OthersGoStale DEF BillingInv
<1>7. s \in OfUser(u) /\ Said(w) = payload[e] /\ \A x \in Users \ {u} : s \notin OfUser(x)
  BY <1>1 DEF OfUser, UserOf, Said
<1> HIDE DEF e, u, s, row
<1>8. sub'[s] = row /\ \A t \in Subs \ {s} : sub'[t] = sub[t]
  BY <1>1, <1>2 DEF BillingInv, TypeOK
<1>9. TypeOK' /\ HistoryTypes' /\ AppliedOnce'
  <2>1. sub' \in [Subs -> Rows \cup {NoRow}]
    BY <1>1, <1>2, <1>4 DEF BillingInv, TypeOK
  <2>2. plan' \in [Users -> Plans \cup {"free"}]
    BY <1>2, <1>3, <1>7 DEF BillingInv, TypeOK, Shown
  <2>3. last' \in [Users -> SUBSET Events] /\ tangled' \in [Users -> BOOLEAN]
    BY <1>1, <1>2 DEF BillingInv, HistoryTypes
  <2>4. QED
    BY <1>1, <1>6, <2>1, <2>2, <2>3, RecordStep DEF BillingInv, TypeOK, HistoryTypes, e
<1>10. RowsAreDated'
  <2> SUFFICES ASSUME NEW t \in Subs PROVE sub'[t].updated <= Cardinality(recorded)'
    BY RecordStep DEF RowsAreDated
  <2>1. sub[t].updated <= Cardinality(recorded) /\ sub[t].updated \in Nat
    BY RowFacts DEF BillingInv, RowsAreDated, TypeOK
  <2>2. QED
    BY <1>1, <1>4, <1>5, <1>8, <2>1
<1>11. ReadersKnow'
  <2> SUFFICES ASSUME NEW v \in Readers' PROVE Reads(v)'
    BY DEF ReadersKnow
  <2>1. v \in Workers \ {w}
    BY <1>6 DEF Readers
  <2>2. /\ v \in Readers /\ Reads(v) /\ h[v].event \in Events /\ h[v].since \in Nat
        /\ h[v].at # "idle"
    BY <1>5, <1>6, <2>1, HandlerFacts DEF Readers, Said, BillingInv, ReadersKnow
  <2>3. Said(v)' = Said(v) /\ UserOf(h[v].event)' = UserOf(h[v].event)
    BY <1>5, <1>6, <2>1 DEF Said, UserOf
  <2>4. Said(v).sub \in OfUser(UserOf(h[v].event)) /\ UserOf(h[v].event) \in Users
    BY <2>2, EventFacts DEF BillingInv, Said, UserOf, OfUser
  <2>5. h'[v].since <= Cardinality(recorded)'
    BY <1>1, <1>5, <1>6, <2>1, <2>2 DEF Reads
  <2>6. Priced(v)' /\ (h[v].at = "commit" => UserOf(h[v].event) \in users)'
    BY <1>5, <1>6, <2>1, <2>2, <2>3 DEF Reads, Priced
  <2>7. ASSUME UserOf(h[v].event) \in users, h[v].row # NoRow
        PROVE  sub'[Said(v).sub] # NoRow
    BY <1>4, <1>8, <2>2, <2>4, <2>7, RowFacts DEF Reads, OfUser
  <2>8. ASSUME UserOf(h[v].event) \in users, ~h'[v].stale
        PROVE  /\ h'[v].row = sub'[Said(v).sub]
               /\ \A t \in OfUser(UserOf(h[v].event)) : sub'[t].updated <= h'[v].since
    <3>1. ~h[v].stale /\ UserOf(h[v].event) # u
      BY <1>6, <2>1, <2>2, <2>8
    <3>2. \A t \in OfUser(UserOf(h[v].event)) : sub'[t] = sub[t]
      BY <1>7, <1>8, <2>4, <3>1 DEF OfUser
    <3>3. QED
      BY <1>6, <2>1, <2>2, <2>4, <2>8, <3>1, <3>2 DEF Reads
  <2>9. QED
    BY <1>5, <1>6, <2>1, <2>3, <2>5, <2>6, <2>7, <2>8 DEF Reads, OfUser, UserOf
<1>12. LastIsNewest'
  <2> SUFFICES ASSUME NEW x \in users', NEW d \in last'[x]
               PROVE  /\ UserOf(d)' = x
                      /\ plan'[x] = Shown(payload'[d])
                      /\ ~tangled'[x] => Says(d)' /\ IsNewest(d)'
    BY DEF LastIsNewest
  <2>1. x \in users /\ x \in Users
    BY <1>5 DEF BillingInv, TypeOK
  <2>2. CASE x = u
    <3>1. d = e /\ plan'[x] = Shown(payload[e]) /\ tangled'[x] = h[w].stale
      BY <1>1, <1>2, <2>1, <2>2 DEF BillingInv, TypeOK, HistoryTypes
    <3>2. UserOf(d)' = x
      BY <1>5, <2>2, <3>1 DEF UserOf, u
    <3>3. ASSUME ~h[w].stale
          PROVE  Says(d)' /\ IsNewest(d)'
      <4>1. Says(d)'
        BY <1>4, <1>5, <1>7, <1>8, <3>1, <3>3 DEF Says, s
      <4>2. \A t \in OfUser(u) \ {s} : sub'[t].updated < sub'[s].updated
        <5>1. \A t \in OfUser(u) : sub[t].updated <= h[w].since /\ sub[t].updated \in Nat
          BY <1>3, <3>3, RowFacts DEF Reads, u, e, OfUser, BillingInv, TypeOK
        <5>2. row.updated = h[w].since + 1
          BY <1>4, <3>3
        <5>3. QED
          BY <1>1, <1>8, <5>1, <5>2 DEF OfUser
      <4>3. UserOf(d)' = u /\ payload'[d].sub = s
        BY <1>5, <1>7, <2>2, <3>1, <3>2 DEF s
      <4>4. QED
        BY <4>1, <4>2, <4>3 DEF IsNewest, OfUser
    <3>4. QED
      BY <1>5, <3>1, <3>2, <3>3
  <2>3. CASE x # u
    <3>1. d \in last[x] /\ plan'[x] = plan[x] /\ tangled'[x] = tangled[x]
      BY <1>1, <1>2, <2>1, <2>3 DEF BillingInv, TypeOK, HistoryTypes
    <3>2. d \in Events
      BY <2>1, <3>1 DEF BillingInv, HistoryTypes
    <3>3. /\ UserOf(d) = x /\ plan[x] = Shown(payload[d])
          /\ ~tangled[x] => Says(d) /\ IsNewest(d)
      BY <2>1, <3>1 DEF BillingInv, LastIsNewest
    <3>4. \A t \in OfUser(x) : sub'[t] = sub[t]
      BY <1>7, <1>8, <2>1, <2>3 DEF OfUser
    <3>5. payload[d].sub \in OfUser(x)
      BY <3>2, <3>3, EventFacts DEF BillingInv, UserOf, OfUser
    <3>6. QED
      BY <1>5, <3>1, <3>3, <3>4, <3>5 DEF UserOf, Says, IsNewest, OfUser
  <2>4. QED
    BY <2>2, <2>3
<1>13. QED
  BY <1>9, <1>10, <1>11, <1>12 DEF BillingInv

LEMMA CommitStep ==
    ASSUME BillingInv, NEW w \in Workers, Commit(w)
    PROVE  BillingInv'
<1>1. CASE Clash(w)
  BY <1>1, FailStep DEF Commit
<1>2. CASE ~Clash(w)
  BY <1>2, OtherCommitStep, SubscriptionCommitStep
<1>3. QED
  BY <1>1, <1>2

---------------------------------------------------------------------------
(* The invariant                                                            *)

LEMMA BillingInit == Init => BillingInv
<1> SUFFICES ASSUME Init PROVE BillingInv
  OBVIOUS
<1> USE DEF Init
<1>1. TypeOK
  <2>1. payload \in [Events -> Contents]
    BY BillingAssumption
  <2>2. h \in [Workers -> Handlers]
    BY FreeIsHandler
  <2>3. QED
    BY <2>1, <2>2, BillingAssumption DEF TypeOK
<1>2. HistoryTypes /\ AppliedOnce
  BY DEF HistoryTypes, AppliedOnce
<1>3. RowsAreDated
  BY FS_EmptySet, RowFacts DEF RowsAreDated
<1>4. ReadersKnow
  BY FreeIsHandler DEF ReadersKnow, Readers
<1>5. LastIsNewest
  BY DEF LastIsNewest
<1>6. QED
  BY <1>1, <1>2, <1>3, <1>4, <1>5 DEF BillingInv

LEMMA BillingStep == BillingInv /\ [Next]_vars => BillingInv'
<1> SUFFICES ASSUME BillingInv, [Next]_vars PROVE BillingInv'
  OBVIOUS
<1>1. ASSUME NEW w \in Workers, Handle(w) \/ Crash(w) \/ \E e \in Events : Receive(w, e)
      PROVE  BillingInv'
  BY <1>1, LoadStep, LockStep, CommitStep, CrashStep, ReceiveStep DEF Handle
<1>2. ASSUME NEW u \in Users, DeleteUser(u)
      PROVE  BillingInv'
  BY <1>2, DeleteStep
<1>3. CASE UNCHANGED vars
  <2>1. /\ h' \in [Workers -> Handlers] /\ acked' \subseteq recorded /\ faults' \in 0..MaxFaults
        /\ UNCHANGED <<payload, tables>>
    BY <1>3 DEF vars, tables, BillingInv, TypeOK, AppliedOnce
  <2>2. \A v \in Readers' : v \in Readers /\ h'[v] = h[v]
    BY <1>3 DEF vars, Readers, Said
  <2>3. QED
    BY <2>1, <2>2, OnlyHandlers
<1>4. QED
  BY <1>1, <1>2, <1>3 DEF Next

\* In every reachable state the rows are dated no later than the commits there
\* were, what a worker has read is still there unless another event of the user
\* was committed, and the last event of a user left the newest row.
THEOREM BillingInvariant == Spec => []BillingInv
<1>1. QED
  BY BillingInit, BillingStep, PTL DEF Spec

---------------------------------------------------------------------------
(* Theorems                                                                 *)

\* However often and in whatever order Paddle delivers, an event takes effect at
\* most once, and is acknowledged only when it did.
THEOREM EventsApplyOnce == Spec => []AppliedOnce
<1>1. BillingInv => AppliedOnce
  BY DEF BillingInv
<1>2. QED
  BY <1>1, BillingInvariant, PTL

\* A live row that is newer than any other of the user alone decides.
LEMMA NewestDecides ==
    ASSUME TypeOK, NEW u \in Users, NEW e \in Events, UserOf(e) = u, Says(e), IsNewest(e),
           Gives(payload[e])
    PROVE  Granted(u) = {IF payload[e].period = "open" THEN payload[e].price ELSE "free"}
<1> DEFINE s == payload[e].sub
           live == Live(u)
           Newest == {t \in live : \A r \in live : sub[r].updated <= sub[t].updated}
           Plan(t) == IF sub[t].period = "open" THEN sub[t].plan ELSE "free"
<1>1. s \in live
  BY EventFacts DEF UserOf, Says, Live, Gives
<1>2. \A t \in live : sub[t].updated \in Nat
  BY RowFacts DEF TypeOK, Live
<1>3. \A t \in live \ {s} : sub[t].updated < sub[s].updated
  BY DEF IsNewest, OfUser, Live
<1>4. Newest = {s}
  BY <1>1, <1>2, <1>3
<1>5. Plan(s) = IF payload[e].period = "open" THEN payload[e].price ELSE "free"
  BY DEF Says
<1>6. Granted(u) = {Plan(t) : t \in Newest}
  BY <1>1 DEF Granted, GrantOf
<1>7. QED
  BY <1>4, <1>5, <1>6

\* After the last event of a user users.plan shows what it said, and the entitlement
\* grants what its subscription gives or, if that is nothing, what the user's others
\* give; unless another of the user's events was committed while it was handled.  For
\* any number of subscriptions, workers and deliveries.
THEOREM TheLastEventDecides == Spec => []LastEventDecides
<1>1. BillingInv => LastEventDecides
  <2> SUFFICES ASSUME BillingInv, NEW u \in users, NEW e \in last[u], ~tangled[u]
               PROVE  /\ plan[u] = Shown(payload[e])
                      /\ Granted(u) =
                            IF ~Gives(payload[e]) THEN GrantOf(Live(u) \ {payload[e].sub})
                            ELSE IF payload[e].period = "open" THEN {plan[u]} ELSE {"free"}
    BY DEF LastEventDecides
  <2>1. u \in Users /\ e \in Events
    BY DEF BillingInv, TypeOK, HistoryTypes
  <2>2. UserOf(e) = u /\ plan[u] = Shown(payload[e]) /\ Says(e) /\ IsNewest(e)
    BY DEF BillingInv, LastIsNewest
  <2>3. CASE Gives(payload[e])
    <3>1. plan[u] = payload[e].price
      BY <2>2, <2>3 DEF Shown, Gives
    <3>2. Granted(u) = {IF payload[e].period = "open" THEN payload[e].price ELSE "free"}
      BY <2>1, <2>2, <2>3, NewestDecides DEF BillingInv
    <3>3. QED
      BY <2>2, <2>3, <3>1, <3>2
  <2>4. CASE ~Gives(payload[e])
    <3>1. payload[e].sub \notin Live(u)
      BY <2>2, <2>4 DEF Says, Gives, Live
    <3>2. Live(u) \ {payload[e].sub} = Live(u)
      BY <3>1
    <3>3. QED
      BY <2>2, <2>4, <3>2 DEF Granted
  <2>5. QED
    BY <2>3, <2>4
<1>2. QED
  BY <1>1, BillingInvariant, PTL
================================================================================
