----------------------------- MODULE PaddleBilling -----------------------------
(***************************************************************************)
(* The Paddle webhook (services/paddle_billing_service.py, api/billing.py) *)
(* and the plan an entitlement makes of what it stored                     *)
(* (services/audit_entitlement_service.py).  Paddle delivers an event      *)
(* until it is acknowledged, possibly twice at once and in any order.  Two *)
(* worker processes handle deliveries; a handler reads the subscription    *)
(* without a lock and locks only the user before its commit.               *)
(***************************************************************************)
EXTENDS Naturals, FiniteSets

CONSTANTS
    Events,     \* event ids
    Subs,       \* provider_subscription_id
    Users,
    Owner,      \* the user each subscription was checked out by
    Stories,    \* what the events may say
    Workers,    \* worker processes: each handles one delivery at a time
    MaxFaults   \* bound: crashes and answers that are lost

VARIABLES
    payload,   \* per event: what it says
    recorded,  \* paddle_webhook_events
    sub,       \* per subscription: its row, or NoRow
    plan,      \* users.plan
    users,     \* the users that exist
    h,         \* per worker: the delivery it handles
    acked,     \* events answered with 200: Paddle stops sending them
    faults,    \* faults so far
    applied,   \* history: how often each event has taken effect
    last,      \* history: the event of the user applied last
    tangled    \* history: that event was handled while another of the user committed

vars == <<payload, recorded, sub, plan, users, h, acked, faults, applied, last, tangled>>

---------------------------------------------------------------------------
(* Rows and handlers                                                        *)

Plans == {"plus", "pro"}

Statuses == {"active", "trialing", "past_due", "canceled"}

Periods == {"open", "over", "missing"}

\* signed: custom_data carries the user and the checkout's signature.  price
\* is the plan its price id stands for.
Contents == [type : {"subscription", "other"}, sub : Subs, signed : BOOLEAN,
             price : Plans \cup {"unknown"}, status : Statuses, period : Periods]

ASSUME BillingAssumption ==
    /\ Owner \in [Subs -> Users]
    /\ Events # {} /\ Stories \subseteq [Events -> Contents]
    /\ MaxFaults \in Nat

\* updated is updated_at: time is counted in commits.
Rows == [plan : Plans, status : Statuses, period : Periods, updated : Nat]

NoRow == [plan |-> "free", status |-> "none", period |-> "missing", updated |-> 0]

\* row is the subscription as this session loaded it; stale: another delivery
\* for the user has committed since (history).
Handlers == [at : {"idle", "load", "lock", "commit"}, event : Events,
             row : Rows \cup {NoRow}, since : Nat, stale : BOOLEAN]

Free == [at |-> "idle", event |-> CHOOSE e \in Events : TRUE,
         row |-> NoRow, since |-> 0, stale |-> FALSE]

Said(w) == payload[h[w].event]

UserOf(e) == Owner[payload[e].sub]

\* The row lock on user u.
Locked(u) == \E w \in Workers : h[w].at = "commit" /\ UserOf(h[w].event) = u
                                /\ Said(w).type = "subscription"

Init ==
    /\ payload \in Stories
    /\ recorded = {}
    /\ sub = [s \in Subs |-> NoRow]
    /\ plan = [u \in Users |-> "free"]
    /\ users = Users
    /\ h = [w \in Workers |-> Free]
    /\ acked = {}
    /\ faults = 0
    /\ applied = [e \in Events |-> 0]
    /\ last = [u \in Users |-> {}]
    /\ tangled = [u \in Users |-> FALSE]

tables == <<recorded, sub, plan, users, applied, last, tangled>>

\* An error answer: the session rolls back and Paddle will send the event again.
Fail(w) ==
    /\ h' = [h EXCEPT ![w] = Free]
    /\ UNCHANGED <<tables, acked, faults>>

---------------------------------------------------------------------------
(* The handler                                                              *)

\* Mutant of Known: a delivered event is handled again.
KnownNever(e) == FALSE

Known(e) == e \in recorded

\* A delivery with a valid signature arrives; a recorded event is answered at once.
Receive(w, e) ==
    /\ h[w].at = "idle"
    /\ IF Known(e)
       THEN acked' = acked \cup {e} /\ UNCHANGED h
       ELSE /\ h' = [h EXCEPT ![w].at = "load", ![w].event = e]
            /\ UNCHANGED acked
    /\ UNCHANGED <<payload, tables, faults>>

\* The signed user of the checkout, else the user of the stored row.
Matched(w) ==
    /\ Said(w).signed \/ sub[Said(w).sub] # NoRow
    /\ UserOf(h[w].event) \in users

Priced(w) == Said(w).price # "unknown"

\* Read the subscription without a lock, match the user and the price.
Load(w) ==
    /\ h[w].at = "load"
    /\ IF Said(w).type = "other"
       THEN h' = [h EXCEPT ![w].at = "commit"] /\ UNCHANGED <<tables, acked, faults>>
       ELSE IF Matched(w) /\ Priced(w)
       THEN /\ h' = [h EXCEPT ![w].at = "lock", ![w].row = sub[Said(w).sub],
                              ![w].since = Cardinality(recorded)]
            /\ UNCHANGED <<tables, acked, faults>>
       ELSE Fail(w)
    /\ UNCHANGED payload

\* Lock the user, who may have been deleted meanwhile.
Lock(w) ==
    /\ h[w].at = "lock"
    /\ ~Locked(UserOf(h[w].event))
    /\ IF UserOf(h[w].event) \in users
       THEN h' = [h EXCEPT ![w].at = "commit"] /\ UNCHANGED <<tables, acked, faults>>
       ELSE Fail(w)
    /\ UNCHANGED payload

\* Mutant of Stamp: updated_at keeps the time of the insert.
StampOnce(w) == IF h[w].row = NoRow THEN h[w].since + 1 ELSE h[w].row.updated

\* updated_at is set before the lock.
Stamp(w) == h[w].since + 1

\* What the event makes of the row.
Assigned(w) == [plan |-> Said(w).price, status |-> Said(w).status,
                period |-> Said(w).period, updated |-> Stamp(w)]

\* A flush writes the columns that differ from the row as it was loaded.
Flushed(w) ==
    [c \in DOMAIN NoRow |->
        IF h[w].row = NoRow \/ Assigned(w)[c] # h[w].row[c]
        THEN Assigned(w)[c] ELSE sub[Said(w).sub][c]]

\* Mutant of Clash: the event is merged and not inserted.
ClashOfRows(w) ==
    /\ Said(w).type = "subscription"
    /\ h[w].row = NoRow
    /\ sub[Said(w).sub] # NoRow

\* The unique event_id, and the unique provider_subscription_id of an insert.
Clash(w) ==
    \/ h[w].event \in recorded
    \/ /\ Said(w).type = "subscription"
       /\ h[w].row = NoRow
       /\ sub[Said(w).sub] # NoRow

Shown(content) == IF content.status \in {"active", "trialing"} THEN content.price ELSE "free"

\* The writes of a delivery of event e by worker w.
Apply(w, e, u) ==
    /\ recorded' = recorded \cup {e}
    /\ applied' = [applied EXCEPT ![e] = @ + 1]
    /\ IF payload[e].type = "subscription"
       THEN /\ sub' = [sub EXCEPT ![payload[e].sub] = Flushed(w)]
            /\ plan' = [plan EXCEPT ![u] = Shown(payload[e])]
            /\ last' = [last EXCEPT ![u] = {e}]
            /\ tangled' = [tangled EXCEPT ![u] = h[w].stale]
            /\ h' = [v \in Workers |->
                        IF v = w THEN Free
                        ELSE [h[v] EXCEPT !.stale = @ \/ (h[v].at # "idle" /\ UserOf(h[v].event) = u)]]
       ELSE h' = [h EXCEPT ![w] = Free] /\ UNCHANGED <<sub, plan, last, tangled>>

\* Flush and commit: an integrity error rolls everything back.  The answer may
\* be lost although the commit is done.
Commit(w) ==
    /\ h[w].at = "commit"
    /\ IF Clash(w) THEN Fail(w)
       ELSE /\ Apply(w, h[w].event, UserOf(h[w].event))
            /\ \/ acked' = acked \cup {h[w].event} /\ UNCHANGED faults
               \/ faults < MaxFaults /\ faults' = faults + 1 /\ UNCHANGED acked
            /\ UNCHANGED users
    /\ UNCHANGED payload

---------------------------------------------------------------------------
(* The environment                                                          *)

\* A worker dies before its commit.
Crash(w) ==
    /\ h[w].at # "idle"
    /\ faults < MaxFaults
    /\ h' = [h EXCEPT ![w] = Free]
    /\ faults' = faults + 1
    /\ UNCHANGED <<payload, tables, acked>>

\* delete_user_account locks the user and deletes the subscriptions with it.
DeleteUser(u) ==
    /\ u \in users
    /\ ~Locked(u)
    /\ users' = users \ {u}
    /\ sub' = [s \in Subs |-> IF Owner[s] = u THEN NoRow ELSE sub[s]]
    /\ UNCHANGED <<payload, recorded, plan, h, acked, faults, applied, last, tangled>>

Handle(w) == Load(w) \/ Lock(w) \/ Commit(w)

Next ==
    \/ \E w \in Workers : Handle(w) \/ Crash(w) \/ \E e \in Events : Receive(w, e)
    \/ \E u \in Users : DeleteUser(u)

\* Paddle sends an event until it is acknowledged: some delivery of it finds a
\* worker that is free.
Redeliver(e) == e \notin acked /\ \E w \in Workers : Receive(w, e)

Fairness ==
    /\ \A w \in Workers : WF_vars(Handle(w))
    /\ \A e \in Events : SF_vars(Redeliver(e))

Spec == Init /\ [][Next]_vars /\ Fairness

---------------------------------------------------------------------------
(* Entitlement                                                              *)

\* A row that _active_subscription takes.
Gives(row) == row.status \in {"active", "trialing"} /\ row.period # "over"

Live(u) == {s \in Subs : Owner[s] = u /\ Gives(sub[s])}

\* What get_entitlement makes of the live rows: the newest decides, and rows of one
\* age come in either order.
GrantOf(live) ==
    LET Newest == {s \in live : \A t \in live : sub[t].updated <= sub[s].updated}
    IN  IF live = {} THEN {"free"}
        ELSE {IF sub[s].period = "open" THEN sub[s].plan ELSE "free" : s \in Newest}

Granted(u) == GrantOf(Live(u))

---------------------------------------------------------------------------
(* Properties                                                               *)

\* Rows, plans and handlers have the shape of their tables and sessions.
TypeOK ==
    /\ payload \in [Events -> Contents]
    /\ recorded \subseteq Events
    /\ sub \in [Subs -> Rows \cup {NoRow}]
    /\ plan \in [Users -> Plans \cup {"free"}]
    /\ users \subseteq Users
    /\ h \in [Workers -> Handlers]
    /\ acked \subseteq Events
    /\ faults \in 0..MaxFaults

\* Whatever is delivered twice, at once or after a lost answer, an event takes
\* effect at most once, is recorded exactly when it did, and is acknowledged
\* only when it did: refused events stay with Paddle to be sent again.
AppliedOnce ==
    /\ \A e \in Events : applied[e] = IF e \in recorded THEN 1 ELSE 0
    /\ acked \subseteq recorded

\* What the last event of a user says is shown (users.plan), and decides the grant:
\* a live subscription alone, as the newest, though others are live; one that is not
\* live is taken out of it, and the others grant what they did.  So what is shown is
\* granted if the event gives a period that is open, or ends the only live
\* subscription.  It is not if the event is active without a period (the price is
\* shown, and the free plan granted) or past it (the price is shown), or ends one of
\* several (the free plan is shown, and what the others give granted).  An event that
\* was handled while another of the user's was committed is excepted.
LastEventDecides ==
    \A u \in users : \A e \in last[u] :
        ~tangled[u] =>
            /\ plan[u] = Shown(payload[e])
            /\ Granted(u) = IF ~Gives(payload[e]) THEN GrantOf(Live(u) \ {payload[e].sub})
                            ELSE IF payload[e].period = "open" THEN {plan[u]} ELSE {"free"}

\* Every event of a known price and a signed user takes effect in the end,
\* although deliveries fail, clash or are answered in vain: unless the user is
\* deleted.
EventsTakeEffect ==
    \A e \in Events :
        <>\/ e \in acked
          \/ /\ payload[e].type = "subscription"
             /\ \/ ~payload[e].signed
                \/ payload[e].price = "unknown"
                \/ UserOf(e) \notin users
=================================================================================
