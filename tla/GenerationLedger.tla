---------------------------- MODULE GenerationLedger ----------------------------
(***************************************************************************)
(* What one user's token quota promises, whatever sessions, commits and    *)
(* crashes lie underneath: reserving a generation moves its estimate into  *)
(* escrow once, the outcome takes exactly that estimate out again, only a  *)
(* success is charged, and the allowance is renewed only on an empty       *)
(* escrow.  GenerationExecutor is shown to implement this specification.   *)
(***************************************************************************)
EXTENDS Naturals

CONSTANTS
    Keys,           \* idempotency keys
    Payloads,       \* request payloads, as the request hash tells them apart
    NoPayload,      \* the payload of a key that has no request yet
    Reserve,        \* Reserve[p]: the tokens a request with payload p holds
    Consumptions,   \* the usage a generation may report
    MonthlyTokens   \* users.monthly_tokens

VARIABLES
    account,        \* [open, used, held]
    requests        \* per key: [status, payload, tokens]

vars == <<account, requests>>

Absent == [status |-> "absent", payload |-> NoPayload, tokens |-> 0]

Init ==
    /\ account = [open |-> TRUE, used |-> 0, held |-> 0]
    /\ requests = [k \in Keys |-> Absent]

\* What may count as used when a reservation is made: the running total, or
\* nothing when the allowance is renewed, which an open reservation forbids.
UsedNow == {account.used} \cup (IF account.held = 0 THEN {0} ELSE {})

\* A first request under key k takes its estimate into escrow, if it fits.
Hold(k, p) ==
    /\ account.open
    /\ requests[k] = Absent
    /\ \E used \in UsedNow :
         /\ used + account.held + Reserve[p] <= MonthlyTokens
         /\ account' = [open |-> TRUE, used |-> used, held |-> account.held + Reserve[p]]
    /\ requests' = [requests EXCEPT ![k] =
                      [status |-> "processing", payload |-> p, tokens |-> 0]]

\* The generation is saved: its estimate leaves the escrow, its usage is charged.
Charge(k, tokens) ==
    /\ requests[k].status = "processing"
    /\ account' = [open |-> account.open, used |-> account.used + tokens,
                   held |-> account.held - Reserve[requests[k].payload]]
    /\ requests' = [requests EXCEPT ![k].status = "succeeded", ![k].tokens = tokens]

\* The generation is given up: its estimate leaves the escrow, nothing is charged.
Release(k) ==
    /\ requests[k].status = "processing"
    /\ account' = [open |-> account.open, used |-> account.used,
                   held |-> account.held - Reserve[requests[k].payload]]
    /\ requests' = [requests EXCEPT ![k].status = "failed"]

\* The user is deleted, with every request.
Close ==
    /\ account.open
    /\ account' = [open |-> FALSE, used |-> 0, held |-> 0]
    /\ requests' = [k \in Keys |-> Absent]

Next ==
    \/ \E k \in Keys, p \in Payloads : Hold(k, p)
    \/ \E k \in Keys, tokens \in Consumptions : Charge(k, tokens)
    \/ \E k \in Keys : Release(k)
    \/ Close

Spec == Init /\ [][Next]_vars
=================================================================================
