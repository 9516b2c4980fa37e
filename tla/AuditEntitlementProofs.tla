------------------------- MODULE AuditEntitlementProofs -------------------------
(***************************************************************************)
(* For any number of attempts, keys and payloads, any plans and limits and *)
(* any number of faults: an audit is charged only when its report exists,  *)
(* one whose report was served stays charged, whatever sweep or commit in  *)
(* doubt comes after it, and what is charged stays within the allowance.   *)
(***************************************************************************)
EXTENDS AuditEntitlement, FiniteSetTheorems, TLAPS

---------------------------------------------------------------------------
(* The inductive invariant                                                  *)

Commits == [attempt : Attempts, row : Usages, swept : SUBSET Attempts]

\* As much of the types as the proof needs.
AuditTyped ==
    /\ usage \in [Attempts -> Usages]
    /\ DOMAIN requests = Keys
    /\ \A k \in Keys : DOMAIN requests[k] = {"status", "payload"}
    /\ entitled \in Entitlements
    /\ pending \subseteq Commits
    /\ att \in [Attempts -> Sessions]
    /\ now \in Nat

\* The report an attempt asked for exists.
Reported(a) == Request(a).status = "succeeded" /\ Request(a).payload = att[a].payload

\* The attempt that runs the model started its request, and is the only one of its key.
ModelsRunForOne ==
    \A a \in Attempts : att[a].at = "model" =>
        /\ Request(a).status = "processing" /\ Request(a).payload = att[a].payload
        /\ \A b \in Attempts : att[b].at = "model" /\ att[b].key = att[a].key => b = a

\* An attempt has no row before it reserves, completes only what has a report, and
\* answers when it is done.
HandlersInOrder ==
    \A a \in Attempts :
        /\ att[a].at \in {"new", "reserve"} => usage[a].status = "none"
        /\ att[a].at = "complete" => Reported(a)
        /\ att[a].answer # "none" => att[a].at = "done"

Touched(p) == p.swept \cup {p.attempt}

\* What a commit in doubt may still do: complete what has a report, release what
\* is reserved, to rows that no other one touches.
DoubtsAreHarmless ==
    \A p \in pending :
        /\ att[p.attempt].at \notin {"new", "reserve"}
        /\ p.row.status = "completed" => Reported(p.attempt)
        /\ \A b \in p.swept : usage[b].status = "reserved"
        /\ \A q \in pending : q # p => Touched(p) \cap Touched(q) = {}

\* A served audit is charged, and no commit in doubt can take that back.
ServedForGood ==
    \A a \in Attempts :
        att[a].answer = "report" /\ att[a].reserved => usage[a].status = "completed" /\ RowFree(a)

AuditInv ==
    /\ AuditTyped /\ ModelsRunForOne /\ HandlersInOrder /\ DoubtsAreHarmless
    /\ ChargedForAReport /\ ServedForGood

---------------------------------------------------------------------------
(* Commits                                                                  *)

LEMMA AppliedRows ==
    ASSUME AuditTyped, NEW p \in Commits
    PROVE  /\ Applied(p) \in [Attempts -> Usages]
           /\ \A b \in Attempts :
                 Applied(p)[b].status = IF b = p.attempt THEN p.row.status
                                        ELSE IF b \in p.swept THEN "released"
                                        ELSE usage[b].status
PROOF
<1>1. p.row \in Usages /\ p.row.since \in Nat
  BY DEF Commits, Usages
<1>2. \A b \in Attempts :
          LET row == [usage[b] EXCEPT !.status = "released", !.since = p.row.since]
          IN  row \in Usages /\ row.status = "released"
  <2>1. TAKE b \in Attempts
  <2> DEFINE first == [usage[b] EXCEPT !.status = "released"]
             since == p.row.since
  <2>2. first \in Usages /\ first.status = "released"
    BY DEF AuditTyped, Usages
  <2>3. [usage[b] EXCEPT !.status = "released", !.since = p.row.since] = [first EXCEPT !.since = since]
    OBVIOUS
  <2>4. since \in Nat
    BY <1>1
  <2> HIDE DEF first, since
  <2>5. [first EXCEPT !.since = since] \in Usages /\ [first EXCEPT !.since = since].status = "released"
    BY <2>2, <2>4 DEF Usages
  <2> QED
    BY <2>3, <2>5
<1>3. \A b \in Attempts : usage[b] \in Usages
  BY DEF AuditTyped
<1> QED
  BY <1>1, <1>2, <1>3 DEF Applied

\* The end of a transaction that writes what it holds locked: it returns, or it
\* raises and stays in doubt.
LEMMA SubmitStep ==
    ASSUME AuditInv, NEW a \in Attempts, NEW p \in Commits, p.attempt = a,
           UNCHANGED <<requests, entitled, now>>,
           RowFree(a), \A b \in p.swept : RowFree(b) /\ usage[b].status = "reserved",
           p.row.status = "completed" => Reported(a),
           att' \in [Attempts -> Sessions],
           \A b \in Attempts \ {a} : att'[b] = att[b],
           att'[a].key = att[a].key, att'[a].payload = att[a].payload,
           att'[a].at \in {"execute", "undo", "done"},
           att'[a].answer # "none" => att'[a].at = "done",
           \/ /\ usage' = Applied(p) /\ UNCHANGED pending
              /\ att'[a].answer = "report" => p.row.status = "completed"
           \/ /\ UNCHANGED usage /\ pending' = pending \cup {p}
              /\ att'[a].answer # "report"
    PROVE  AuditInv'
PROOF
<1>1. /\ usage' \in [Attempts -> Usages]
      /\ \A b \in Attempts : b \notin Touched(p) => usage'[b].status = usage[b].status
      /\ \A b \in Attempts : usage'[b].status = "completed" =>
             usage[b].status = "completed" \/ (b = a /\ p.row.status = "completed")
  BY AppliedRows DEF AuditInv, AuditTyped, Touched
<1>2. pending' \subseteq pending \cup {p}
  OBVIOUS
<1>3. AuditTyped'
  BY <1>1, <1>2 DEF AuditInv, AuditTyped
<1>4. \A b \in Attempts : Reported(b)' <=> Reported(b)
  BY DEF Reported, Request
<1>5. ModelsRunForOne'
  BY DEF AuditInv, ModelsRunForOne, Request
<1>6. \A b \in Attempts \ {a} : att[b].at \in {"new", "reserve"} => b \notin Touched(p)
  BY DEF AuditInv, HandlersInOrder, Touched
<1>7. HandlersInOrder'
  BY <1>1, <1>4, <1>6 DEF AuditInv, HandlersInOrder
<1>8. \A q \in pending : Touched(q) \cap Touched(p) = {}
  BY DEF RowFree, Touched
<1>9. DoubtsAreHarmless'
  <2>1. \A q \in pending' : att'[q.attempt].at \notin {"new", "reserve"}
    BY <1>2 DEF AuditInv, AuditTyped, DoubtsAreHarmless, Commits
  <2>2. \A q \in pending' : q.row.status = "completed" => Reported(q.attempt)'
    BY <1>2, <1>4 DEF AuditInv, AuditTyped, DoubtsAreHarmless, Commits
  <2>3. \A q \in pending' : \A b \in q.swept : usage'[b].status = "reserved"
    <3>1. \A q \in pending : \A b \in q.swept :
              b \in Attempts /\ b \notin Touched(p) /\ usage[b].status = "reserved"
      BY <1>8 DEF AuditInv, AuditTyped, DoubtsAreHarmless, Commits, Touched
    <3>2. \A q \in pending : \A b \in q.swept : usage'[b].status = "reserved"
      BY <1>1, <3>1
    <3> QED
      BY <3>2
  <2>4. \A q, r \in pending' : r # q => Touched(q) \cap Touched(r) = {}
    BY <1>2, <1>8 DEF AuditInv, DoubtsAreHarmless
  <2> QED
    BY <2>1, <2>2, <2>3, <2>4 DEF DoubtsAreHarmless, Touched
<1>10. ChargedForAReport'
  BY <1>1, <1>4 DEF AuditInv, ChargedForAReport, Reported
<1>11. ServedForGood'
  <2>1. SUFFICES ASSUME NEW b \in Attempts, att'[b].answer = "report", att'[b].reserved
                 PROVE  usage'[b].status = "completed" /\ RowFree(b)'
    BY DEF ServedForGood
  <2>2. CASE b = a
    <3>1. usage' = Applied(p) /\ UNCHANGED pending /\ p.row.status = "completed"
      BY <2>1, <2>2
    <3> QED
      BY <2>2, <3>1, AppliedRows DEF AuditInv, RowFree
  <2>3. CASE b # a
    <3>1. usage[b].status = "completed" /\ RowFree(b)
      BY <2>1, <2>3 DEF AuditInv, ServedForGood
    <3>2. b \notin Touched(p)
      BY <2>3, <3>1 DEF Touched
    <3> QED
      BY <1>1, <1>2, <3>1, <3>2 DEF RowFree, Touched
  <2> QED
    BY <2>2, <2>3
<1> QED
  BY <1>3, <1>5, <1>7, <1>9, <1>10, <1>11 DEF AuditInv

\* A step of a handler that commits nothing; reports stay.
LEMMA QuietStep ==
    ASSUME AuditInv, NEW a \in Attempts,
           UNCHANGED <<usage, entitled, pending, now>>,
           DOMAIN requests' = Keys, \A k \in Keys : DOMAIN requests'[k] = {"status", "payload"},
           \A b \in Attempts : Reported(b) => Reported(b)',
           ModelsRunForOne',
           att' \in [Attempts -> Sessions],
           \A b \in Attempts \ {a} : att'[b] = att[b],
           att'[a].key = att[a].key, att'[a].payload = att[a].payload,
           att'[a].at \in {"new", "reserve"} => att[a].at \in {"new", "reserve"},
           att'[a].at = "complete" => Reported(a)',
           att'[a].answer # "none" => att'[a].at = "done",
           att'[a].answer = "report" => ~att'[a].reserved
    PROVE  AuditInv'
PROOF
<1>1. AuditTyped'
  BY DEF AuditInv, AuditTyped
<1>2. HandlersInOrder'
  BY DEF AuditInv, HandlersInOrder
<1>3. DoubtsAreHarmless'
  BY DEF AuditInv, AuditTyped, DoubtsAreHarmless, Commits, Touched
<1>4. \A b \in Attempts : usage'[b].status = "completed" => Reported(b)'
  BY DEF AuditInv, ChargedForAReport, Reported
<1>5. ChargedForAReport'
  BY <1>4 DEF ChargedForAReport, Reported
<1>6. ServedForGood'
  BY DEF AuditInv, ServedForGood, RowFree
<1> QED
  BY <1>1, <1>2, <1>3, <1>5, <1>6 DEF AuditInv

\* Where a handler goes and what it answers, field by field.
LEMMA Moves ==
    ASSUME AuditInv, NEW a \in Attempts
    PROVE  /\ \A place \in Places : Goto(a, place) =>
                 /\ att' \in [Attempts -> Sessions]
                 /\ \A b \in Attempts \ {a} : att'[b] = att[b]
                 /\ att'[a].at = place /\ att'[a].answer = att[a].answer
                 /\ att'[a].key = att[a].key /\ att'[a].payload = att[a].payload
                 /\ att'[a].reserved = att[a].reserved
           /\ \A answer \in Answers : Finish(a, answer) =>
                 /\ att' \in [Attempts -> Sessions]
                 /\ \A b \in Attempts \ {a} : att'[b] = att[b]
                 /\ att'[a].at = "done" /\ att'[a].answer = answer
                 /\ att'[a].key = att[a].key /\ att'[a].payload = att[a].payload
                 /\ att'[a].reserved = att[a].reserved
PROOF
<1>1. att \in [Attempts -> Sessions] /\ att[a] \in Sessions
  BY DEF AuditInv, AuditTyped
<1>2. ASSUME NEW place \in Places, Goto(a, place)
      PROVE  /\ att' \in [Attempts -> Sessions]
             /\ \A b \in Attempts \ {a} : att'[b] = att[b]
             /\ att'[a].at = place /\ att'[a].answer = att[a].answer
             /\ att'[a].key = att[a].key /\ att'[a].payload = att[a].payload
             /\ att'[a].reserved = att[a].reserved
  <2> DEFINE row == [att[a] EXCEPT !.at = place]
  <2>1. att' = [att EXCEPT ![a] = row]
    BY <1>2 DEF Goto
  <2>2. /\ row \in Sessions /\ row.at = place /\ row.answer = att[a].answer
        /\ row.key = att[a].key /\ row.payload = att[a].payload /\ row.reserved = att[a].reserved
    BY <1>1 DEF Sessions
  <2> HIDE DEF row
  <2> QED
    BY <1>1, <2>1, <2>2
<1>3. ASSUME NEW answer \in Answers, Finish(a, answer)
      PROVE  /\ att' \in [Attempts -> Sessions]
             /\ \A b \in Attempts \ {a} : att'[b] = att[b]
             /\ att'[a].at = "done" /\ att'[a].answer = answer
             /\ att'[a].key = att[a].key /\ att'[a].payload = att[a].payload
             /\ att'[a].reserved = att[a].reserved
  <2> DEFINE first == [att[a] EXCEPT !.at = "done"]
             half == [att EXCEPT ![a] = first]
             row == [half[a] EXCEPT !.answer = answer]
  <2>1. att' = [half EXCEPT ![a] = row]
    BY <1>3 DEF Finish
  <2>2. /\ first \in Sessions /\ first.at = "done"
        /\ first.key = att[a].key /\ first.payload = att[a].payload /\ first.reserved = att[a].reserved
    BY <1>1 DEF Sessions, Places
  <2>3. half \in [Attempts -> Sessions] /\ half[a] = first /\ \A b \in Attempts \ {a} : half[b] = att[b]
    <3> HIDE DEF first
    <3> QED
      BY <1>1, <2>2
  <2>4. /\ row \in Sessions /\ row.at = "done" /\ row.answer = answer
        /\ row.key = att[a].key /\ row.payload = att[a].payload /\ row.reserved = att[a].reserved
    <3> HIDE DEF first, half
    <3> QED
      BY <2>2, <2>3 DEF Sessions
  <2> HIDE DEF row, half, first
  <2> QED
    BY <1>1, <2>1, <2>3, <2>4
<1> QED
  BY <1>2, <1>3

---------------------------------------------------------------------------
(* The steps of a handler                                                   *)

\* Who does not run the model afterwards disturbs nobody who does.
LEMMA ModelsUndisturbed ==
    ASSUME AuditInv, NEW a \in Attempts, UNCHANGED requests,
           \A b \in Attempts \ {a} : att'[b] = att[b],
           att'[a].at # "model"
    PROVE  ModelsRunForOne'
PROOF
  BY DEF AuditInv, ModelsRunForOne, Request

LEMMA ReadStep ==
    ASSUME AuditInv, NEW a \in Attempts, Check(a) \/ Undo(a) \/ Crash(a)
    PROVE  AuditInv'
PROOF
<1>1. UNCHANGED <<usage, requests, entitled, pending, now>>
  BY DEF Check, Undo, Crash
<1>2. att[a].at # "done" /\ att[a].answer = "none"
  BY DEF Check, Undo, Crash, AuditInv, HandlersInOrder
<1>3. \A b \in Attempts : att'[b].key = att[b].key /\ att'[b].payload = att[b].payload =>
          (Reported(b) => Reported(b)')
  BY <1>1 DEF Reported, Request
<1>4. DOMAIN requests' = Keys /\ \A k \in Keys : DOMAIN requests'[k] = {"status", "payload"}
  BY <1>1 DEF AuditInv, AuditTyped
<1>5. ASSUME NEW place \in Places, Goto(a, place), place \in {"execute", "reserve", "release", "dead"},
             place = "reserve" => att[a].at = "new"
      PROVE  AuditInv'
  BY <1>1, <1>2, <1>3, <1>4, <1>5, Moves, ModelsUndisturbed, QuietStep
<1>6. CASE Finish(a, "error")
  <2>1. "error" \in Answers
    BY DEF Answers
  <2> QED
    BY <1>1, <1>2, <1>3, <1>4, <1>6, <2>1, Moves, ModelsUndisturbed, QuietStep
<1>7. {"execute", "reserve", "release", "dead"} \subseteq Places
  BY DEF Places
<1>8. CASE Check(a)
  BY <1>5, <1>7, <1>8 DEF Check
<1>9. CASE Undo(a)
  BY <1>5, <1>6, <1>7, <1>9 DEF Undo
<1>10. CASE Crash(a)
  BY <1>5, <1>7, <1>10 DEF Crash
<1> QED
  BY <1>8, <1>9, <1>10

\* Where the executor's answer takes a handler, once the requests say what they say.
LEMMA AnsweredStep ==
    ASSUME AuditInv, NEW a \in Attempts, att[a].at # "done",
           UNCHANGED <<usage, entitled, pending, now>>,
           DOMAIN requests' = Keys, \A k \in Keys : DOMAIN requests'[k] = {"status", "payload"},
           \A b \in Attempts : b # a /\ Reported(b) =>
               requests'[att[b].key].status = "succeeded" /\ requests'[att[b].key].payload = att[b].payload,
           \A b \in Attempts \ {a} : att[b].at = "model" => requests'[att[b].key] = requests[att[b].key],
           Reported(a) => requests'[att[a].key] = requests[att[a].key],
           \/ /\ Served(a)
              /\ requests'[att[a].key].status = "succeeded"
              /\ requests'[att[a].key].payload = att[a].payload
           \/ Raised(a)
    PROVE  AuditInv'
PROOF
<1>1. att[a].answer = "none"
  BY DEF AuditInv, HandlersInOrder
<1>2. {"complete", "undo"} \subseteq Places /\ {"report", "error"} \subseteq Answers
  BY DEF Places, Answers
<1>3. /\ att' \in [Attempts -> Sessions]
      /\ \A b \in Attempts \ {a} : att'[b] = att[b]
      /\ att'[a].at \in {"complete", "undo", "done"}
      /\ att'[a].key = att[a].key /\ att'[a].payload = att[a].payload
      /\ att'[a].answer # "none" => att'[a].at = "done"
      /\ att'[a].answer = "report" => ~att'[a].reserved
      /\ att'[a].at = "complete" => Served(a)
  <2>1. CASE Served(a)
    BY <1>1, <1>2, <2>1, Moves DEF Served
  <2>2. CASE Raised(a)
    BY <1>1, <1>2, <2>2, Moves DEF Raised
  <2> QED
    BY <2>1, <2>2
<1>4. \A b \in Attempts : Reported(b) => Reported(b)'
  BY <1>3 DEF Reported, Request
<1>5. ModelsRunForOne'
  BY <1>3 DEF AuditInv, ModelsRunForOne, Request
<1>6. att'[a].at = "complete" => Reported(a)'
  <2>1. ASSUME att'[a].at = "complete" PROVE ~Raised(a)
    BY <1>1, <1>2, <2>1, Moves DEF Raised
  <2> QED
    BY <1>3, <2>1 DEF Reported, Request
<1> QED
  BY <1>1, <1>3, <1>4, <1>5, <1>6, QuietStep

LEMMA ExecuteStep ==
    ASSUME AuditInv, NEW a \in Attempts, Execute(a)
    PROVE  AuditInv'
PROOF
<1>1. UNCHANGED <<usage, entitled, pending, now>> /\ att[a].at = "execute"
  BY DEF Execute
<1>2. att[a].answer = "none"
  BY <1>1 DEF AuditInv, HandlersInOrder
<1>3. \A b \in Attempts : att[b].key \in Keys
  BY DEF AuditInv, AuditTyped, Sessions
<1>4. CASE Request(a).status = "absent" /\ Goto(a, "model")
           /\ requests' = [requests EXCEPT ![att[a].key] =
                             [status |-> "processing", payload |-> att[a].payload]]
  <2>1. "model" \in Places
    BY DEF Places
  <2>2. /\ att' \in [Attempts -> Sessions]
        /\ \A b \in Attempts \ {a} : att'[b] = att[b]
        /\ att'[a].at = "model" /\ att'[a].answer = "none"
        /\ att'[a].key = att[a].key /\ att'[a].payload = att[a].payload
    BY <1>2, <1>4, <2>1, Moves
  <2>3. /\ DOMAIN requests' = Keys
        /\ requests'[att[a].key] = [status |-> "processing", payload |-> att[a].payload]
        /\ \A k \in Keys : k # att[a].key => requests'[k] = requests[k]
    BY <1>3, <1>4 DEF AuditInv, AuditTyped
  <2>4. \A k \in Keys : DOMAIN requests'[k] = {"status", "payload"}
    <3>1. DOMAIN requests'[att[a].key] = {"status", "payload"}
      BY <2>3
    <3> QED
      BY <2>3, <3>1 DEF AuditInv, AuditTyped
  <2>5. \A b \in Attempts : Reported(b) => att[b].key # att[a].key
    BY <1>4 DEF Reported, Request
  <2>6. \A b \in Attempts : Reported(b) => Reported(b)'
    BY <1>3, <2>2, <2>3, <2>5 DEF Reported, Request
  <2>7. \A b \in Attempts : att[b].at = "model" => att[b].key # att[a].key
    BY <1>4 DEF AuditInv, ModelsRunForOne, Request
  <2>8. ModelsRunForOne'
    BY <1>3, <2>2, <2>3, <2>7 DEF AuditInv, ModelsRunForOne, Request
  <2> QED
    BY <1>1, <2>2, <2>3, <2>4, <2>6, <2>8, QuietStep
<1>5. CASE UNCHANGED requests /\ ((Executed(a) /\ Served(a)) \/ Raised(a))
  BY <1>1, <1>5, AnsweredStep DEF Executed, Reported, Request, AuditInv, AuditTyped
<1> QED
  BY <1>4, <1>5 DEF Execute

\* The request settled is the handler's own, and was still processing.
LEMMA SettleStep ==
    ASSUME AuditInv, NEW a \in Attempts, Settle(a) \/ SettleInDoubt(a)
    PROVE  AuditInv'
PROOF
<1>1. UNCHANGED <<usage, entitled, pending, now>> /\ att[a].at = "model"
  BY DEF Settle, SettleInDoubt
<1>2. \A b \in Attempts : att[b].key \in Keys
  BY DEF AuditInv, AuditTyped, Sessions
<1>3. /\ Request(a).status = "processing" /\ Request(a).payload = att[a].payload
      /\ \A b \in Attempts : att[b].at = "model" /\ att[b].key = att[a].key => b = a
  BY <1>1 DEF AuditInv, ModelsRunForOne
<1>4. PICK status \in {"processing", "succeeded", "failed"} :
          /\ requests' = [requests EXCEPT ![att[a].key].status = status]
          /\ (status = "succeeded" /\ Served(a)) \/ Raised(a)
  BY DEF Settle, SettleInDoubt
<1>5. /\ DOMAIN requests' = Keys
      /\ requests'[att[a].key].status = status
      /\ requests'[att[a].key].payload = requests[att[a].key].payload
      /\ DOMAIN requests'[att[a].key] = DOMAIN requests[att[a].key]
      /\ \A k \in Keys : k # att[a].key => requests'[k] = requests[k]
  BY <1>2, <1>4 DEF AuditInv, AuditTyped
<1>6. \A k \in Keys : DOMAIN requests'[k] = {"status", "payload"}
  BY <1>2, <1>5 DEF AuditInv, AuditTyped
<1>7. \A b \in Attempts : Reported(b) => att[b].key # att[a].key
  BY <1>3 DEF Reported, Request
<1>8. \A b \in Attempts : Reported(b) =>
          requests'[att[b].key].status = "succeeded" /\ requests'[att[b].key].payload = att[b].payload
  BY <1>2, <1>5, <1>7 DEF Reported, Request
<1>9. \A b \in Attempts \ {a} : att[b].at = "model" => requests'[att[b].key] = requests[att[b].key]
  BY <1>2, <1>3, <1>5
<1>10. requests'[att[a].key].payload = att[a].payload
  BY <1>3, <1>5 DEF Request
<1>11. ~Reported(a) /\ att[a].at # "done"
  BY <1>1, <1>3 DEF Reported
<1>12. \/ /\ Served(a)
          /\ requests'[att[a].key].status = "succeeded"
          /\ requests'[att[a].key].payload = att[a].payload
       \/ Raised(a)
  BY <1>4, <1>5, <1>10
<1>13. DOMAIN requests' = Keys
  BY <1>5
<1> QED
  BY <1>1, <1>6, <1>8, <1>9, <1>11, <1>12, <1>13, AnsweredStep

\* Only what is reserved and held by nobody is swept, and who reserves has no row yet.
LEMMA ReserveStep ==
    ASSUME AuditInv, NEW a \in Attempts, ReserveAudit(a)
    PROVE  AuditInv'
PROOF
<1>1. UNCHANGED <<requests, entitled, now>> /\ att[a].at = "reserve" /\ att[a].answer = "none"
  BY DEF ReserveAudit, AuditInv, HandlersInOrder
<1>2. {"execute", "done"} \subseteq Places /\ {"no_allowance", "error"} \subseteq Answers
  BY DEF Places, Answers
<1>3. CASE Finish(a, "no_allowance") /\ UNCHANGED <<usage, pending, faults>>
  <2>1. \A b \in Attempts : att'[b].key = att[b].key /\ att'[b].payload = att[b].payload
    BY <1>2, <1>3, Moves
  <2>2. \A b \in Attempts : Reported(b) => Reported(b)'
    BY <1>1, <2>1 DEF Reported, Request
  <2> QED
    BY <1>1, <1>2, <1>3, <2>2, Moves, ModelsUndisturbed, QuietStep DEF AuditInv, AuditTyped
<1>4. CASE ~(Finish(a, "no_allowance") /\ UNCHANGED <<usage, pending, faults>>)
  <2> DEFINE row == [status |-> "reserved", plan |-> entitled.plan, period |-> entitled.period, since |-> now]
             p == [attempt |-> a, swept |-> Swept, row |-> row]
             going == [att EXCEPT ![a].at = "execute", ![a].reserved = TRUE]
  <2>1. /\ \A b \in Swept : RowFree(b)
        /\ Submit(p, att' = going, Finish(a, "error"))
    BY <1>4 DEF ReserveAudit
  <2>2. \/ usage' = Applied(p) /\ UNCHANGED pending /\ att' = going
        \/ UNCHANGED usage /\ pending' = pending \cup {p} /\ Finish(a, "error")
    <3> HIDE DEF p, going
    <3> QED
      BY <2>1 DEF Submit
  <2>3. \A b \in Swept : b \in Attempts /\ usage[b].status = "reserved"
    BY DEF Swept, Stale
  <2>4. row \in Usages /\ row.status = "reserved"
    BY EntitlementAssumption DEF AuditInv, AuditTyped, Rights, Usages
  <2>5. p \in Commits /\ p.attempt = a /\ p.swept = Swept /\ p.row.status = "reserved"
    <3> HIDE DEF row
    <3> QED
      BY <2>3, <2>4 DEF Commits
  <2>6. RowFree(a)
    BY <1>1 DEF AuditInv, HandlersInOrder, DoubtsAreHarmless, RowFree
  <2>7. /\ att' \in [Attempts -> Sessions]
        /\ \A b \in Attempts \ {a} : att'[b] = att[b]
        /\ att'[a].key = att[a].key /\ att'[a].payload = att[a].payload
        /\ att'[a].at \in {"execute", "done"}
        /\ att'[a].answer # "none" => att'[a].at = "done"
        /\ att'[a].answer # "report"
    <3>1. CASE att' = going
      <4> DEFINE first == [att[a] EXCEPT !.at = "execute"]
                 half == [att EXCEPT ![a] = first]
                 last == [half[a] EXCEPT !.reserved = TRUE]
      <4>1. att' = [half EXCEPT ![a] = last]
        BY <3>1
      <4>2. att \in [Attempts -> Sessions] /\ att[a] \in Sessions
        BY DEF AuditInv, AuditTyped
      <4>3. /\ first \in Sessions /\ first.at = "execute" /\ first.answer = "none"
            /\ first.key = att[a].key /\ first.payload = att[a].payload
        BY <1>1, <1>2, <4>2 DEF Sessions
      <4>4. half \in [Attempts -> Sessions] /\ half[a] = first /\ \A b \in Attempts \ {a} : half[b] = att[b]
        <5> HIDE DEF first
        <5> QED
          BY <4>2, <4>3
      <4>5. /\ last \in Sessions /\ last.at = "execute" /\ last.answer = "none"
            /\ last.key = att[a].key /\ last.payload = att[a].payload
        <5> HIDE DEF first, half
        <5> QED
          BY <4>3, <4>4 DEF Sessions
      <4> HIDE DEF last, half, first
      <4> QED
        BY <4>1, <4>4, <4>5
    <3>2. CASE Finish(a, "error")
      BY <1>2, <3>2, Moves
    <3> HIDE DEF p, going
    <3> QED
      BY <2>2, <3>1, <3>2
  <2> HIDE DEF p, row, going
  <2> QED
    BY <1>1, <2>1, <2>2, <2>3, <2>5, <2>6, <2>7, SubmitStep
<1> QED
  BY <1>3, <1>4

\* The attempt's own row: completed, if there is a report, or released.
LEMMA OwnRowStep ==
    ASSUME AuditInv, NEW a \in Attempts, CompleteAudit(a) \/ Release(a)
    PROVE  AuditInv'
PROOF
<1>1. UNCHANGED <<requests, entitled, now>> /\ RowFree(a) /\ att[a].at \in {"complete", "release"}
  BY DEF CompleteAudit, Release
<1>2. att[a].answer = "none"
  BY <1>1 DEF AuditInv, HandlersInOrder
<1>3. {"undo", "done"} \subseteq Places /\ {"report", "error"} \subseteq Answers
  BY DEF Places, Answers
<1>4. ASSUME NEW status \in {"completed", "released"}
      PROVE  LET row == [usage[a] EXCEPT !.status = status, !.since = now]
                 p == [attempt |-> a, swept |-> {}, row |-> row]
             IN  p \in Commits /\ p.attempt = a /\ p.swept = {} /\ p.row.status = status
  <2> DEFINE first == [usage[a] EXCEPT !.status = status]
             row == [first EXCEPT !.since = now]
             p == [attempt |-> a, swept |-> {}, row |-> row]
  <2>1. first \in Usages /\ first.status = status
    BY <1>4 DEF AuditInv, AuditTyped, Usages
  <2>2. [usage[a] EXCEPT !.status = status, !.since = now] = row
    OBVIOUS
  <2>3. row \in Usages /\ row.status = status
    <3> HIDE DEF first
    <3> QED
      BY <2>1 DEF AuditInv, AuditTyped, Usages
  <2>4. p \in Commits /\ p.attempt = a /\ p.swept = {} /\ p.row.status = status
    <3> HIDE DEF row
    <3> QED
      BY <2>3 DEF Commits
  <2> HIDE DEF first
  <2> QED
    BY <2>2, <2>4
<1>5. CASE CompleteAudit(a)
  <2> DEFINE p == [attempt |-> a, swept |-> {},
                   row |-> [usage[a] EXCEPT !.status = "completed", !.since = now]]
  <2>1. p \in Commits /\ p.attempt = a /\ p.swept = {} /\ p.row.status = "completed"
    BY <1>4
  <2>2. Submit(p, Finish(a, "report"), Goto(a, "undo")) /\ att[a].at = "complete"
    BY <1>5 DEF CompleteAudit
  <2> HIDE DEF p
  <2>3. \/ usage' = Applied(p) /\ UNCHANGED pending /\ Finish(a, "report")
        \/ UNCHANGED usage /\ pending' = pending \cup {p} /\ Goto(a, "undo")
    BY <2>2 DEF Submit
  <2>4. Reported(a)
    BY <2>2 DEF AuditInv, HandlersInOrder
  <2>5. CASE usage' = Applied(p) /\ UNCHANGED pending /\ Finish(a, "report")
    BY <1>1, <1>3, <2>1, <2>4, <2>5, Moves, SubmitStep
  <2>6. CASE UNCHANGED usage /\ pending' = pending \cup {p} /\ Goto(a, "undo")
    BY <1>1, <1>2, <1>3, <2>1, <2>4, <2>6, Moves, SubmitStep
  <2> QED
    BY <2>3, <2>5, <2>6
<1>6. CASE Release(a)
  <2> DEFINE p == [attempt |-> a, swept |-> {},
                   row |-> [usage[a] EXCEPT !.status = "released", !.since = now]]
  <2>1. p \in Commits /\ p.attempt = a /\ p.swept = {} /\ p.row.status = "released"
    BY <1>4
  <2>2. Submit(p, TRUE, TRUE) /\ Finish(a, "error")
    BY <1>6 DEF Release
  <2> HIDE DEF p
  <2>3. \/ usage' = Applied(p) /\ UNCHANGED pending
        \/ UNCHANGED usage /\ pending' = pending \cup {p}
    BY <2>2 DEF Submit
  <2> QED
    BY <1>1, <1>3, <2>1, <2>2, <2>3, Moves, SubmitStep
<1> QED
  BY <1>5, <1>6

\* A commit in doubt that takes effect after all does only what it was known to do.
LEMMA DecideStep ==
    ASSUME AuditInv, Decide
    PROVE  AuditInv'
PROOF
<1>1. PICK p \in pending : pending' = pending \ {p} /\ usage' \in {usage, Applied(p)}
  BY DEF Decide
<1>2. UNCHANGED <<requests, entitled, att, now>>
  BY DEF Decide
<1>3. p \in Commits /\ p.attempt \in Attempts /\ p.swept \subseteq Attempts
  BY DEF AuditInv, AuditTyped, Commits
<1>4. /\ att[p.attempt].at \notin {"new", "reserve"}
      /\ p.row.status = "completed" => Reported(p.attempt)
      /\ \A b \in p.swept : usage[b].status = "reserved"
      /\ \A q \in pending : q # p => Touched(p) \cap Touched(q) = {}
  BY DEF AuditInv, DoubtsAreHarmless
<1>5. /\ usage' \in [Attempts -> Usages]
      /\ \A b \in Attempts : b \notin Touched(p) => usage'[b].status = usage[b].status
      /\ \A b \in Attempts : usage'[b].status = "completed" =>
             usage[b].status = "completed" \/ (b = p.attempt /\ p.row.status = "completed")
  BY <1>1, <1>3, AppliedRows DEF AuditInv, AuditTyped, Touched
<1>6. AuditTyped'
  BY <1>1, <1>2, <1>5 DEF AuditInv, AuditTyped
<1>7. \A b \in Attempts : Reported(b)' <=> Reported(b)
  BY <1>2 DEF Reported, Request
<1>8. ModelsRunForOne'
  BY <1>2 DEF AuditInv, ModelsRunForOne, Request
<1>9. HandlersInOrder'
  <2>1. \A b \in Attempts : att[b].at \in {"new", "reserve"} => b \notin Touched(p)
    BY <1>4 DEF AuditInv, HandlersInOrder, Touched
  <2> QED
    BY <1>2, <1>5, <1>7, <2>1 DEF AuditInv, HandlersInOrder
<1>10. DoubtsAreHarmless'
  <2>1. \A q \in pending' : q \in pending /\ q # p
    BY <1>1
  <2>2. \A q \in pending' : \A b \in q.swept : usage'[b].status = "reserved"
    <3>1. \A q \in pending' : \A b \in q.swept :
              b \in Attempts /\ b \notin Touched(p) /\ usage[b].status = "reserved"
      BY <1>4, <2>1 DEF AuditInv, AuditTyped, DoubtsAreHarmless, Commits, Touched
    <3> QED
      BY <1>5, <3>1
  <2>3. \A q \in pending' : q.row.status = "completed" => Reported(q.attempt)'
    BY <1>7, <2>1 DEF AuditInv, AuditTyped, DoubtsAreHarmless, Commits
  <2> QED
    BY <1>2, <2>1, <2>2, <2>3 DEF AuditInv, DoubtsAreHarmless, Touched
<1>11. ChargedForAReport'
  <2>1. \A b \in Attempts : usage'[b].status = "completed" => Reported(b)'
    BY <1>4, <1>5, <1>7 DEF AuditInv, ChargedForAReport, Reported
  <2> QED
    BY <2>1 DEF ChargedForAReport, Reported
<1>12. ServedForGood'
  <2>1. \A b \in Attempts : RowFree(b) => b \notin Touched(p)
    BY DEF RowFree, Touched
  <2> QED
    BY <1>1, <1>2, <1>5, <2>1 DEF AuditInv, ServedForGood, RowFree
<1> QED
  BY <1>6, <1>8, <1>9, <1>10, <1>11, <1>12 DEF AuditInv

---------------------------------------------------------------------------
(* Theorems                                                                 *)

\* The invariant above, of every behaviour.
THEOREM AuditInvariant == Spec => []AuditInv
PROOF
<1>1. Init => AuditInv
  <2> SUFFICES ASSUME Init PROVE AuditInv
    OBVIOUS
  <2> DEFINE row == [status |-> "none", plan |-> entitled.plan, period |-> entitled.period, since |-> 0]
  <2>1. row \in Usages /\ row.status = "none"
    BY EntitlementAssumption DEF Init, Rights, Usages
  <2>2. usage \in [Attempts -> Usages] /\ \A a \in Attempts : usage[a].status = "none"
    BY <2>1 DEF Init
  <2>3. att \in [Attempts -> [at : {"new"}, key : Keys, payload : Payloads,
                              reserved : {FALSE}, answer : {"none"}]]
    BY DEF Init
  <2>4. \A a \in Attempts : att[a] \in Sessions /\ att[a].at = "new" /\ att[a].answer = "none"
    BY <2>3 DEF Sessions, Places, Answers
  <2>5. att \in [Attempts -> Sessions]
    BY <2>3, <2>4
  <2>6. DOMAIN requests = Keys /\ \A k \in Keys : DOMAIN requests[k] = {"status", "payload"}
    BY DEF Init
  <2>7. pending = {} /\ now = 0 /\ entitled \in Entitlements
    BY DEF Init
  <2> QED
    BY <2>2, <2>4, <2>5, <2>6, <2>7
       DEF AuditInv, AuditTyped, ModelsRunForOne, HandlersInOrder, DoubtsAreHarmless,
           ChargedForAReport, ServedForGood
<1>2. AuditInv /\ [Next]_vars => AuditInv'
  <2> SUFFICES ASSUME AuditInv, [Next]_vars PROVE AuditInv'
    OBVIOUS
  <2>1. ASSUME UNCHANGED <<usage, requests, pending, att>>,
               entitled' \in Entitlements, now' \in Nat
        PROVE  AuditInv'
    BY <2>1 DEF AuditInv, AuditTyped, ModelsRunForOne, HandlersInOrder, DoubtsAreHarmless,
                ChargedForAReport, ServedForGood, Reported, Request, RowFree, Touched
  <2>2. CASE UNCHANGED vars
    BY <2>1, <2>2 DEF vars, AuditInv, AuditTyped
  <2>3. CASE Entitle
    BY <2>1, <2>3 DEF Entitle, AuditInv, AuditTyped
  <2>4. CASE Tick
    BY <2>1, <2>4 DEF Tick, AuditInv, AuditTyped
  <2>5. ASSUME NEW a \in Attempts, Work(a) \/ Crash(a) PROVE AuditInv'
    BY <2>5, ReadStep, ReserveStep, ExecuteStep, SettleStep, OwnRowStep DEF Work
  <2> QED
    BY <2>2, <2>3, <2>4, <2>5, DecideStep DEF Next
<1> QED
  BY <1>1, <1>2, PTL DEF Spec

\* An audit that failed or was refused is charged to nobody.
THEOREM FailedAuditsAreFree == Spec => []ChargedForAReport
PROOF
<1>1. AuditInv => ChargedForAReport
  BY DEF AuditInv
<1> QED
  BY <1>1, AuditInvariant, PTL

\* An audit whose report was served stays charged: neither the sweep of abandoned
\* reservations nor a commit in doubt takes it back.
THEOREM ServedAuditsAreCharged == Spec => []ServedIsCharged
PROOF
<1>1. AuditInv => ServedIsCharged
  BY DEF AuditInv, ServedForGood, ServedIsCharged
<1> QED
  BY <1>1, AuditInvariant, PTL

\* What handlers, rows and commits in doubt are made of keeps its types.
THEOREM AuditTypes == Spec => []TypeOK
PROOF
<1> DEFINE Rest == requests \in [Keys -> Requests] /\ faults \in Nat /\ late \subseteq Attempts
<1>1. Init => Rest
  <2> SUFFICES ASSUME Init PROVE Rest
    OBVIOUS
  <2>1. (CHOOSE p \in Payloads : TRUE) \in Payloads
    BY EntitlementAssumption
  <2>2. [status : {"absent"}, payload : {CHOOSE p \in Payloads : TRUE}] \subseteq Requests
    BY <2>1 DEF Requests
  <2> QED
    BY <2>2 DEF Init
<1>2. AuditInv /\ Rest /\ [Next]_vars => Rest'
  <2> SUFFICES ASSUME AuditInv, Rest, [Next]_vars PROVE Rest'
    OBVIOUS
  <2>1. att \in [Attempts -> Sessions] /\ MaxFaults \in Nat
    BY EntitlementAssumption DEF AuditInv, AuditTyped
  <2>2. ASSUME NEW a \in Attempts, Check(a) \/ Undo(a) PROVE Rest'
    BY <2>2 DEF Check, Undo
  <2>3. ASSUME NEW a \in Attempts, ReserveAudit(a) PROVE Rest'
    BY <2>3 DEF ReserveAudit, Submit
  <2>4. ASSUME NEW a \in Attempts, Execute(a) PROVE Rest'
    <3>1. att[a].key \in Keys /\ att[a].payload \in Payloads
      BY <2>1 DEF Sessions
    <3>2. [status |-> "processing", payload |-> att[a].payload] \in Requests
      BY <3>1 DEF Requests
    <3> QED
      BY <2>4, <3>1, <3>2 DEF Execute
  <2>5. ASSUME NEW a \in Attempts, NEW status \in {"processing", "succeeded", "failed"}
        PROVE  [requests EXCEPT ![att[a].key].status = status] \in [Keys -> Requests]
    <3>1. att[a].key \in Keys
      BY <2>1 DEF Sessions
    <3>2. [requests[att[a].key] EXCEPT !.status = status] \in Requests
      BY <3>1 DEF Requests
    <3> QED
      BY <3>1, <3>2
  <2>6. ASSUME NEW a \in Attempts, Settle(a) PROVE Rest'
    BY <2>5, <2>6 DEF Settle
  <2>7. ASSUME NEW a \in Attempts, SettleInDoubt(a) PROVE Rest'
    <3>1. requests' \in [Keys -> Requests]
      <4>1. PICK status \in {"processing", "succeeded"} :
                requests' = [requests EXCEPT ![att[a].key].status = status]
        BY <2>7 DEF SettleInDoubt
      <4>2. status \in {"processing", "succeeded", "failed"}
        OBVIOUS
      <4>3. [requests EXCEPT ![att[a].key].status = status] \in [Keys -> Requests]
        BY <2>5, <4>2
      <4> QED
        BY <4>1, <4>3
    <3>2. faults' = faults + 1 /\ late' = late
      BY <2>7 DEF SettleInDoubt
    <3> QED
      BY <3>1, <3>2
  <2>8. ASSUME NEW a \in Attempts, CompleteAudit(a) PROVE Rest'
    BY <2>8 DEF CompleteAudit, Submit
  <2>9. ASSUME NEW a \in Attempts, Release(a) \/ Crash(a) PROVE Rest'
    BY <2>9 DEF Release, Submit, Crash
  <2>10. CASE Decide \/ Entitle \/ Tick \/ UNCHANGED vars
    BY <2>10 DEF Decide, Entitle, Tick, vars
  <2> HIDE DEF Rest
  <2> QED
    BY <2>2, <2>3, <2>4, <2>6, <2>7, <2>8, <2>9, <2>10 DEF Next, Work
<1>3. AuditInv /\ Rest => TypeOK
  BY DEF AuditInv, AuditTyped, Commits, TypeOK
<1> QED
  BY <1>1, <1>2, <1>3, AuditInvariant, PTL DEF Spec

---------------------------------------------------------------------------
(* The allowance                                                            *)

\* What is charged to a period, the audits aside that completed after their
\* reservation was swept.
Taken(period) == Counted(period) \ late

\* Among the audits charged to a period, whichever of them remain, one was
\* reserved under a limit that covers them all.
LimitsHold ==
    \A period \in Periods : \A S \in SUBSET Taken(period) :
        S # {} => \E a \in S : Cardinality(S) <= Limit[usage[a].plan]

\* An attempt that has reserved has a row, and only such a one completes it.
RowsAreReserved ==
    \A a \in Attempts :
        /\ att[a].reserved => usage[a].status # "none"
        /\ att[a].at = "complete" => att[a].reserved

\* A reservation in doubt still fits, and is the only one; a completion in doubt
\* charges nothing that is not charged already.
DoubtsFit ==
    \A p \in pending :
        /\ p.row.status # "none"
        /\ p.row.status = "reserved" =>
             /\ Cardinality(Taken(p.row.period) \ p.swept) < Limit[p.row.plan]
             /\ \A q \in pending : q.row.status = "reserved" => q = p
        /\ p.row.status = "completed" =>
             /\ p.row.plan = usage[p.attempt].plan /\ p.row.period = usage[p.attempt].period
             /\ usage[p.attempt].status \in {"reserved", "completed"} \/ p.attempt \in late

AllowanceInv == LimitsHold /\ RowsAreReserved /\ DoubtsFit

\* The rows of a commit.
LEMMA CommittedRows ==
    ASSUME NEW p \in Commits, usage \in [Attempts -> Usages]
    PROVE  /\ Applied(p)[p.attempt] = p.row
           /\ \A b \in Attempts : b \notin Touched(p) => Applied(p)[b] = usage[b]
           /\ \A b \in Attempts : b \in p.swept /\ b # p.attempt => Applied(p)[b].status = "released"
PROOF
<1>1. p.attempt \in Attempts
  BY DEF Commits
<1>2. Applied(p)[p.attempt] = p.row /\ \A b \in Attempts : b \notin Touched(p) => Applied(p)[b] = usage[b]
  BY <1>1 DEF Applied, Touched
<1>3. ASSUME NEW b \in Attempts, b \in p.swept, b # p.attempt PROVE Applied(p)[b].status = "released"
  <2> DEFINE first == [usage[b] EXCEPT !.status = "released"]
             since == p.row.since
  <2>1. Applied(p)[b] = [first EXCEPT !.since = since]
    BY <1>3 DEF Applied
  <2>2. first \in Usages /\ first.status = "released"
    BY DEF Usages
  <2> HIDE DEF first, since
  <2> QED
    BY <2>1, <2>2 DEF Usages
<1> QED
  BY <1>2, <1>3

\* A step after which no more is charged than before keeps to the limits.
LEMMA NoMoreCharged ==
    ASSUME IsFiniteSet(Attempts), AuditTyped, AllowanceInv,
           \A period \in Periods : Taken(period)' \subseteq Taken(period),
           \A period \in Periods : \A b \in Taken(period)' : usage'[b].plan = usage[b].plan
    PROVE  /\ LimitsHold'
           /\ \A p \in pending : p.row.status = "reserved" =>
                  Cardinality(Taken(p.row.period)' \ p.swept) < Limit[p.row.plan]
PROOF
<1>1. LimitsHold'
  <2> SUFFICES ASSUME NEW period \in Periods, NEW S \in SUBSET Taken(period)', S # {}
               PROVE  \E a \in S : Cardinality(S) <= Limit[usage'[a].plan]
    BY DEF LimitsHold
  <2>1. S \in SUBSET Taken(period) /\ \A a \in S : usage'[a].plan = usage[a].plan
    OBVIOUS
  <2> QED
    BY <2>1 DEF AllowanceInv, LimitsHold
<1>2. ASSUME NEW p \in pending, p.row.status = "reserved"
      PROVE  Cardinality(Taken(p.row.period)' \ p.swept) < Limit[p.row.plan]
  <2> DEFINE before == Taken(p.row.period) \ p.swept
             after  == Taken(p.row.period)' \ p.swept
  <2>1. p.row.period \in Periods /\ p.row.plan \in Plans /\ Limit[p.row.plan] \in Nat
    BY EntitlementAssumption DEF AuditTyped, Commits, Usages
  <2>2. before \in SUBSET Attempts /\ after \in SUBSET before
    BY <2>1 DEF Taken, Counted
  <2>3. IsFiniteSet(before)
    BY <2>2, FS_Subset
  <2>4. IsFiniteSet(after) /\ Cardinality(after) <= Cardinality(before)
    BY <2>2, <2>3, FS_Subset
  <2>5. Cardinality(after) \in Nat /\ Cardinality(before) \in Nat
    BY <2>3, <2>4, FS_CardinalityType
  <2>6. Cardinality(before) < Limit[p.row.plan]
    BY <1>2 DEF AllowanceInv, DoubtsFit
  <2> HIDE DEF before, after
  <2>7. Cardinality(after) < Limit[p.row.plan]
    BY <2>1, <2>4, <2>5, <2>6
  <2> QED
    BY <2>7 DEF after
<1> QED
  BY <1>1, <1>2

\* A reservation that fits when it is applied keeps to the limits: with the new
\* audit, no more remain than its own limit allows; without it, none is added.
LEMMA ReservationFits ==
    ASSUME IsFiniteSet(Attempts), AuditTyped, AllowanceInv, NEW p \in Commits,
           usage' = Applied(p), UNCHANGED late, p.row.status = "reserved",
           Cardinality(Taken(p.row.period) \ p.swept) < Limit[p.row.plan]
    PROVE  LimitsHold'
PROOF
<1>1. p.attempt \in Attempts /\ p.row.period \in Periods /\ Limit[p.row.plan] \in Nat
  BY EntitlementAssumption DEF Commits, Usages
<1>2. usage'[p.attempt] = p.row
  BY CommittedRows DEF AuditTyped
<1>3. ASSUME NEW period, NEW b \in Taken(period)', b # p.attempt
      PROVE  b \in Taken(period) \ p.swept /\ usage'[b] = usage[b]
  <2>1. b \in Attempts /\ usage'[b].status \in {"reserved", "completed"} /\ b \notin late
        /\ usage'[b].period = period
    BY <1>3 DEF Taken, Counted
  <2>2. b \notin Touched(p) /\ usage'[b] = usage[b]
    BY <1>3, <2>1, CommittedRows DEF AuditTyped, Touched
  <2> QED
    BY <2>1, <2>2 DEF Taken, Counted, Touched
<1> SUFFICES ASSUME NEW period \in Periods, NEW S \in SUBSET Taken(period)', S # {}
             PROVE  \E a \in S : Cardinality(S) <= Limit[usage'[a].plan]
  BY DEF LimitsHold
<1>4. CASE p.attempt \notin S
  <2>1. S \in SUBSET Taken(period) /\ \A a \in S : usage'[a] = usage[a]
    BY <1>3, <1>4
  <2> QED
    BY <2>1 DEF AllowanceInv, LimitsHold
<1>5. CASE p.attempt \in S
  <2> DEFINE others == S \ {p.attempt}
             room == Taken(p.row.period) \ p.swept
  <2>1. period = p.row.period
    BY <1>2, <1>5 DEF Taken, Counted
  <2>2. others \in SUBSET room /\ room \in SUBSET Attempts
    BY <1>3, <2>1 DEF Taken, Counted
  <2>3. IsFiniteSet(room)
    BY <2>2, FS_Subset
  <2>4. IsFiniteSet(others) /\ Cardinality(others) <= Cardinality(room)
    BY <2>2, <2>3, FS_Subset
  <2>5. Cardinality(others) \in Nat /\ Cardinality(room) \in Nat
    BY <2>3, <2>4, FS_CardinalityType
  <2>6. Cardinality(others \cup {p.attempt}) = Cardinality(others) + 1
    BY <2>4, FS_AddElement
  <2>7. others \cup {p.attempt} = S
    BY <1>5
  <2> HIDE DEF others
  <2>8. Cardinality(S) = Cardinality(others) + 1
    BY <2>6, <2>7
  <2>9. Cardinality(room) < Limit[p.row.plan] /\ Limit[p.row.plan] \in Nat
    BY <1>1
  <2> HIDE DEF room
  <2>10. Cardinality(S) <= Limit[p.row.plan]
    BY <2>4, <2>5, <2>8, <2>9
  <2> QED
    BY <1>2, <1>5, <2>10
<1> QED
  BY <1>4, <1>5

\* Nothing is committed and nobody's row changes.
LEMMA AllowanceUntouched ==
    ASSUME IsFiniteSet(Attempts), AuditTyped, AllowanceInv,
           UNCHANGED <<usage, pending, late>>, RowsAreReserved'
    PROVE  AllowanceInv'
PROOF
<1>1. \A period : Taken(period)' = Taken(period)
  BY DEF Taken, Counted
<1>2. LimitsHold' /\ DoubtsFit'
  BY <1>1 DEF AllowanceInv, LimitsHold, DoubtsFit
<1> QED
  BY <1>2 DEF AllowanceInv

\* A commit that takes effect: a reservation that fits, the completion of a row that
\* is charged or was swept, or a release.
LEMMA EffectiveCommit ==
    ASSUME IsFiniteSet(Attempts), AuditTyped, AllowanceInv, RowsAreReserved', NEW p \in Commits,
           usage' = Applied(p), late \subseteq late',
           pending' \subseteq pending, \A q \in pending' : q.attempt \notin Touched(p),
           \/ /\ p.row.status = "reserved" /\ UNCHANGED late
              /\ Cardinality(Taken(p.row.period) \ p.swept) < Limit[p.row.plan]
              /\ \A q \in pending' : q.row.status # "reserved"
           \/ /\ p.row.status = "completed"
              /\ p.row.plan = usage[p.attempt].plan /\ p.row.period = usage[p.attempt].period
              /\ usage[p.attempt].status \in {"reserved", "completed"} \/ p.attempt \in late'
           \/ p.row.status = "released"
    PROVE  AllowanceInv'
PROOF
<1>1. /\ usage'[p.attempt] = p.row
      /\ \A b \in Attempts : b \notin Touched(p) => usage'[b] = usage[b]
      /\ \A b \in Attempts : b \in p.swept /\ b # p.attempt => usage'[b].status = "released"
  BY CommittedRows DEF AuditTyped
<1>2. ASSUME NEW q \in pending'
      PROVE  /\ q.row.status # "none"
             /\ q.row.status = "completed" =>
                  /\ q.row.plan = usage'[q.attempt].plan /\ q.row.period = usage'[q.attempt].period
                  /\ usage'[q.attempt].status \in {"reserved", "completed"} \/ q.attempt \in late'
  <2>1. q \in pending /\ q.attempt \in Attempts /\ usage'[q.attempt] = usage[q.attempt]
    BY <1>1, <1>2 DEF AuditTyped, Commits
  <2> QED
    BY <2>1 DEF AllowanceInv, DoubtsFit
<1>3. CASE p.row.status = "reserved"
  <2>1. /\ UNCHANGED late /\ \A q \in pending' : q.row.status # "reserved"
        /\ Cardinality(Taken(p.row.period) \ p.swept) < Limit[p.row.plan]
    BY <1>3
  <2>2. LimitsHold'
    BY <1>3, <2>1, ReservationFits
  <2> QED
    BY <1>2, <2>1, <2>2 DEF AllowanceInv, DoubtsFit
<1>4. CASE p.row.status # "reserved"
  <2>1. ASSUME NEW period, NEW b \in Taken(period)'
        PROVE  b \in Taken(period) /\ usage'[b].plan = usage[b].plan
    <3>1. b \in Attempts /\ usage'[b].status \in {"reserved", "completed"} /\ b \notin late'
          /\ usage'[b].period = period /\ b \notin late
      BY <2>1 DEF Taken, Counted
    <3>2. CASE b = p.attempt
      BY <1>1, <1>4, <3>1, <3>2 DEF Taken, Counted
    <3>3. CASE b # p.attempt
      <4>1. usage'[b] = usage[b]
        BY <1>1, <3>1, <3>3 DEF Touched
      <4> QED
        BY <3>1, <4>1 DEF Taken, Counted
    <3> QED
      BY <3>2, <3>3
  <2>2. /\ LimitsHold'
        /\ \A q \in pending : q.row.status = "reserved" =>
               Cardinality(Taken(q.row.period)' \ q.swept) < Limit[q.row.plan]
    BY <2>1, NoMoreCharged
  <2>3. \A q \in pending' : q.row.status = "reserved" =>
            \A r \in pending' : r.row.status = "reserved" => r = q
    BY DEF AllowanceInv, DoubtsFit
  <2> QED
    BY <1>2, <2>2, <2>3 DEF AllowanceInv, DoubtsFit
<1> QED
  BY <1>3, <1>4

\* A commit that is left in doubt, of the same kinds.
LEMMA DoubtfulCommit ==
    ASSUME IsFiniteSet(Attempts), AuditTyped, AllowanceInv, RowsAreReserved', NEW p \in Commits,
           UNCHANGED usage, late \subseteq late', pending' = pending \cup {p},
           \/ /\ p.row.status = "reserved" /\ UNCHANGED late
              /\ Cardinality(Taken(p.row.period) \ p.swept) < Limit[p.row.plan]
              /\ \A q \in pending : q.row.status # "reserved"
           \/ /\ p.row.status = "completed"
              /\ p.row.plan = usage[p.attempt].plan /\ p.row.period = usage[p.attempt].period
              /\ usage[p.attempt].status \in {"reserved", "completed"} \/ p.attempt \in late'
           \/ p.row.status = "released"
    PROVE  AllowanceInv'
PROOF
<1>1. \A period : \A b \in Taken(period)' : b \in Taken(period) /\ usage'[b].plan = usage[b].plan
  BY DEF Taken, Counted
<1>2. /\ LimitsHold'
      /\ \A q \in pending : q.row.status = "reserved" =>
             Cardinality(Taken(q.row.period)' \ q.swept) < Limit[q.row.plan]
  BY <1>1, NoMoreCharged
<1>3. UNCHANGED late => \A period : Taken(period)' = Taken(period)
  BY DEF Taken, Counted
<1>4. p.row.status = "reserved" => Cardinality(Taken(p.row.period)' \ p.swept) < Limit[p.row.plan]
  BY <1>3
<1>5. \A q, r \in pending' : q.row.status = "reserved" /\ r.row.status = "reserved" => r = q
  BY DEF AllowanceInv, DoubtsFit
<1>6. ASSUME NEW q \in pending'
      PROVE  /\ q.row.status # "none"
             /\ q.row.status = "completed" =>
                  /\ q.row.plan = usage'[q.attempt].plan /\ q.row.period = usage'[q.attempt].period
                  /\ usage'[q.attempt].status \in {"reserved", "completed"} \/ q.attempt \in late'
  BY DEF AllowanceInv, DoubtsFit
<1> QED
  BY <1>2, <1>4, <1>5, <1>6 DEF AllowanceInv, DoubtsFit

\* Who commits nothing, and whether it holds a reservation, by its moves.
LEMMA ReadsAllowance ==
    ASSUME IsFiniteSet(Attempts), AuditInv, AllowanceInv, NEW a \in Attempts,
           Check(a) \/ Execute(a) \/ Settle(a) \/ SettleInDoubt(a) \/ Undo(a) \/ Crash(a)
    PROVE  AllowanceInv'
PROOF
<1>1. UNCHANGED <<usage, pending, late>>
  BY DEF Check, Execute, Settle, SettleInDoubt, Undo, Crash
<1>2. Places = {"new", "reserve", "execute", "model", "complete", "undo", "release", "done", "dead"}
      /\ {"report", "error"} \subseteq Answers
  BY DEF Places, Answers
<1>3. \/ \E place \in Places \ {"complete"} : Goto(a, place)
      \/ Goto(a, "complete") /\ att[a].reserved
      \/ Finish(a, "report") \/ Finish(a, "error")
  BY <1>2 DEF Check, Execute, Settle, SettleInDoubt, Undo, Crash, Served, Raised
<1>4. /\ \A b \in Attempts \ {a} : att'[b] = att[b]
      /\ att'[a].reserved = att[a].reserved
      /\ att'[a].at = "complete" => att[a].reserved
  BY <1>2, <1>3, Moves
<1>5. RowsAreReserved'
  BY <1>1, <1>4 DEF AllowanceInv, RowsAreReserved
<1> QED
  BY <1>1, <1>5, AllowanceUntouched DEF AuditInv

\* A reservation fits, or is refused.
LEMMA ReserveAllowance ==
    ASSUME IsFiniteSet(Attempts), AuditInv, AllowanceInv, NEW a \in Attempts, ReserveAudit(a)
    PROVE  AllowanceInv'
PROOF
<1>1. /\ UNCHANGED <<requests, entitled, now, late>> /\ att[a].at = "reserve" /\ AuditTyped
      /\ UserFree /\ \A b \in Swept : RowFree(b)
  BY DEF ReserveAudit, AuditInv
<1>2. "done" \in Places /\ {"no_allowance", "error"} \subseteq Answers
  BY DEF Places, Answers
<1>3. CASE Finish(a, "no_allowance") /\ UNCHANGED <<usage, pending, faults>>
  <2>1. RowsAreReserved'
    BY <1>2, <1>3, Moves DEF AllowanceInv, RowsAreReserved
  <2> QED
    BY <1>1, <1>3, <2>1, AllowanceUntouched
<1>4. CASE ~(Finish(a, "no_allowance") /\ UNCHANGED <<usage, pending, faults>>)
  <2> DEFINE row == [status |-> "reserved", plan |-> entitled.plan, period |-> entitled.period, since |-> now]
             p == [attempt |-> a, swept |-> Swept, row |-> row]
             going == [att EXCEPT ![a].at = "execute", ![a].reserved = TRUE]
  <2>1. /\ ~(Cardinality(Counted(entitled.period) \ Swept) >= Limit[entitled.plan])
        /\ Submit(p, att' = going, Finish(a, "error"))
    BY <1>4 DEF ReserveAudit
  <2>2. /\ row \in Usages /\ row.status = "reserved"
        /\ row.plan = entitled.plan /\ row.period = entitled.period /\ Limit[entitled.plan] \in Nat
    BY <1>1, EntitlementAssumption DEF AuditTyped, Rights, Usages
  <2>3. /\ p \in Commits /\ p.attempt = a /\ p.swept = Swept
        /\ p.row.status = "reserved" /\ p.row.plan = entitled.plan /\ p.row.period = entitled.period
    <3> HIDE DEF row
    <3> QED
      BY <2>2 DEF Commits, Swept
  <2>4. Cardinality(Taken(entitled.period) \ Swept) < Limit[entitled.plan]
    <3> DEFINE all == Counted(entitled.period) \ Swept
               some == Taken(entitled.period) \ Swept
    <3>1. all \in SUBSET Attempts /\ some \in SUBSET all
      BY DEF Counted, Taken
    <3>2. IsFiniteSet(all)
      BY <3>1, FS_Subset
    <3>3. IsFiniteSet(some) /\ Cardinality(some) <= Cardinality(all)
      BY <3>1, <3>2, FS_Subset
    <3>4. Cardinality(all) \in Nat /\ Cardinality(some) \in Nat
      BY <3>2, <3>3, FS_CardinalityType
    <3> QED
      BY <2>1, <2>2, <3>3, <3>4
  <2>5. \A q \in pending : q.row.status # "reserved" /\ q.attempt \notin Touched(p)
    <3>1. \A q \in pending : q.attempt \in Attempts /\ q.attempt \notin Swept
      BY <1>1 DEF AuditTyped, Commits, RowFree
    <3>2. \A q \in pending : q.attempt # a
      BY <1>1 DEF AuditInv, DoubtsAreHarmless
    <3> HIDE DEF p
    <3> QED
      BY <1>1, <2>3, <3>1, <3>2 DEF UserFree, Touched
  <2> HIDE DEF p, row
  <2>6. CASE usage' = Applied(p) /\ UNCHANGED pending /\ att' = going
    <3>1. \A b \in Attempts \ {a} : att'[b] = att[b]
      BY <1>1, <2>6 DEF AuditTyped
    <3>2. att'[a].at = "execute"
      BY <1>1, <2>6 DEF AuditTyped, Sessions
    <3>3. \A b \in Attempts : usage'[b].status = "none" => b # a /\ usage[b].status = "none"
      BY <2>3, <2>6, CommittedRows DEF AuditTyped, AuditInv, Touched
    <3>4. RowsAreReserved'
      BY <3>1, <3>2, <3>3 DEF AllowanceInv, RowsAreReserved
    <3> QED
      BY <1>1, <2>3, <2>4, <2>5, <2>6, <3>4, EffectiveCommit
  <2>7. CASE UNCHANGED usage /\ pending' = pending \cup {p} /\ Finish(a, "error")
    <3>1. RowsAreReserved'
      BY <1>2, <2>7, Moves DEF AllowanceInv, RowsAreReserved
    <3> QED
      BY <1>1, <2>3, <2>4, <2>5, <2>7, <3>1, DoubtfulCommit
  <2> QED
    BY <2>1, <2>6, <2>7 DEF Submit
<1> QED
  BY <1>3, <1>4

\* Completing a row does not charge it twice; releasing it charges nothing.
LEMMA OwnRowAllowance ==
    ASSUME IsFiniteSet(Attempts), AuditInv, AllowanceInv, NEW a \in Attempts,
           CompleteAudit(a) \/ Release(a)
    PROVE  AllowanceInv'
PROOF
<1>1. AuditTyped /\ RowFree(a) /\ \A q \in pending : q.attempt # a
  BY DEF CompleteAudit, Release, AuditInv, RowFree
<1>2. {"undo", "done"} \subseteq Places /\ {"report", "error"} \subseteq Answers
  BY DEF Places, Answers
<1>3. ASSUME NEW status \in {"completed", "released"}
      PROVE  LET p == [attempt |-> a, swept |-> {},
                       row |-> [usage[a] EXCEPT !.status = status, !.since = now]]
             IN  /\ p \in Commits /\ p.attempt = a /\ p.swept = {} /\ Touched(p) = {a}
                 /\ p.row.status = status
                 /\ p.row.plan = usage[a].plan /\ p.row.period = usage[a].period
  <2> DEFINE first == [usage[a] EXCEPT !.status = status]
             row == [first EXCEPT !.since = now]
             p == [attempt |-> a, swept |-> {}, row |-> row]
  <2>1. /\ first \in Usages /\ first.status = status
        /\ first.plan = usage[a].plan /\ first.period = usage[a].period
    BY <1>1, <1>3 DEF AuditTyped, Usages
  <2>2. [usage[a] EXCEPT !.status = status, !.since = now] = row
    OBVIOUS
  <2>3. /\ row \in Usages /\ row.status = status
        /\ row.plan = usage[a].plan /\ row.period = usage[a].period
    <3> HIDE DEF first
    <3> QED
      BY <1>1, <2>1 DEF AuditTyped, Usages
  <2>4. /\ p \in Commits /\ p.attempt = a /\ p.swept = {} /\ Touched(p) = {a}
        /\ p.row = row
    <3> HIDE DEF row
    <3> QED
      BY <2>3 DEF Commits, Touched
  <2> HIDE DEF first
  <2> QED
    BY <2>2, <2>3, <2>4
<1>4. ASSUME NEW place \in Places \ {"complete"}, NEW answer \in Answers,
             NEW p \in Commits, p.attempt = a, p.row.status # "none",
             Goto(a, place) \/ Finish(a, answer),
             usage' = Applied(p) \/ UNCHANGED usage
      PROVE  RowsAreReserved'
  <2>1. /\ \A b \in Attempts \ {a} : att'[b] = att[b]
        /\ att'[a].reserved = att[a].reserved /\ att'[a].at # "complete"
    BY <1>2, <1>4, Moves
  <2>2. \A b \in Attempts : usage'[b].status = "none" => usage[b].status = "none"
    BY <1>1, <1>4, AppliedRows DEF AuditInv
  <2> QED
    BY <2>1, <2>2 DEF AllowanceInv, RowsAreReserved
<1>5. CASE CompleteAudit(a)
  <2> DEFINE p == [attempt |-> a, swept |-> {},
                   row |-> [usage[a] EXCEPT !.status = "completed", !.since = now]]
  <2>1. /\ p \in Commits /\ p.attempt = a /\ p.swept = {} /\ Touched(p) = {a}
        /\ p.row.status = "completed"
        /\ p.row.plan = usage[a].plan /\ p.row.period = usage[a].period
    BY <1>3
  <2>2. Submit(p, Finish(a, "report"), Goto(a, "undo"))
    BY <1>5 DEF CompleteAudit
  <2> HIDE DEF p
  <2>3. usage[a].status \in {"reserved", "completed", "released"}
    BY <1>1, <1>5 DEF CompleteAudit, AllowanceInv, RowsAreReserved, AuditTyped, Usages
  <2>4. late \subseteq late' /\ (usage[a].status \in {"reserved", "completed"} \/ a \in late')
    BY <1>5, <2>3 DEF CompleteAudit
  <2>5. CASE usage' = Applied(p) /\ UNCHANGED pending /\ Finish(a, "report")
    BY <1>1, <1>2, <1>4, <2>1, <2>4, <2>5, EffectiveCommit
  <2>6. CASE UNCHANGED usage /\ pending' = pending \cup {p} /\ Goto(a, "undo")
    BY <1>1, <1>2, <1>4, <2>1, <2>4, <2>6, DoubtfulCommit
  <2> QED
    BY <2>2, <2>5, <2>6 DEF Submit
<1>6. CASE Release(a)
  <2> DEFINE p == [attempt |-> a, swept |-> {},
                   row |-> [usage[a] EXCEPT !.status = "released", !.since = now]]
  <2>1. /\ p \in Commits /\ p.attempt = a /\ p.swept = {} /\ Touched(p) = {a}
        /\ p.row.status = "released"
    BY <1>3
  <2>2. Submit(p, TRUE, TRUE) /\ Finish(a, "error") /\ UNCHANGED late
    BY <1>6 DEF Release
  <2> HIDE DEF p
  <2>3. CASE usage' = Applied(p) /\ UNCHANGED pending
    BY <1>1, <1>2, <1>4, <2>1, <2>2, <2>3, EffectiveCommit
  <2>4. CASE UNCHANGED usage /\ pending' = pending \cup {p}
    BY <1>1, <1>2, <1>4, <2>1, <2>2, <2>4, DoubtfulCommit
  <2> QED
    BY <2>2, <2>3, <2>4 DEF Submit
<1> QED
  BY <1>5, <1>6

\* A commit in doubt that takes effect after all still fits.
LEMMA DecideAllowance ==
    ASSUME IsFiniteSet(Attempts), AuditInv, AllowanceInv, Decide
    PROVE  AllowanceInv'
PROOF
<1>1. PICK p \in pending : pending' = pending \ {p} /\ usage' \in {usage, Applied(p)}
  BY DEF Decide
<1>2. UNCHANGED <<att, late>> /\ AuditTyped /\ p \in Commits /\ p.row.status # "none"
  BY DEF Decide, AuditInv, AuditTyped, AllowanceInv, DoubtsFit
<1>3. RowsAreReserved'
  <2>1. \A b \in Attempts : usage'[b].status = "none" => usage[b].status = "none"
    BY <1>1, <1>2, AppliedRows
  <2> QED
    BY <1>2, <2>1 DEF AllowanceInv, RowsAreReserved
<1>4. CASE usage' = usage
  <2>1. \A period : Taken(period)' = Taken(period)
    BY <1>2, <1>4 DEF Taken, Counted
  <2>2. LimitsHold' /\ DoubtsFit'
    BY <1>1, <1>2, <1>4, <2>1 DEF AllowanceInv, LimitsHold, DoubtsFit
  <2> QED
    BY <1>3, <2>2 DEF AllowanceInv
<1>5. CASE usage' = Applied(p)
  <2>1. \A q \in pending' : q.attempt \notin Touched(p)
    BY <1>1 DEF AuditInv, DoubtsAreHarmless, Touched
  <2>2. p.row.status \in {"reserved", "completed", "released"}
    BY <1>2 DEF Commits, Usages
  <2>3. CASE p.row.status = "reserved"
    <3>1. /\ Cardinality(Taken(p.row.period) \ p.swept) < Limit[p.row.plan]
          /\ \A q \in pending' : q.row.status # "reserved"
      BY <1>1, <2>3 DEF AllowanceInv, DoubtsFit
    <3> QED
      BY <1>1, <1>2, <1>3, <1>5, <2>1, <2>3, <3>1, EffectiveCommit
  <2>4. CASE p.row.status = "completed"
    <3>1. /\ p.row.plan = usage[p.attempt].plan /\ p.row.period = usage[p.attempt].period
          /\ usage[p.attempt].status \in {"reserved", "completed"} \/ p.attempt \in late'
      BY <1>2, <2>4 DEF AllowanceInv, DoubtsFit
    <3> QED
      BY <1>1, <1>2, <1>3, <1>5, <2>1, <2>4, <3>1, EffectiveCommit
  <2>5. CASE p.row.status = "released"
    BY <1>1, <1>2, <1>3, <1>5, <2>1, <2>5, EffectiveCommit
  <2> QED
    BY <2>2, <2>3, <2>4, <2>5
<1> QED
  BY <1>1, <1>4, <1>5

\* What is charged to a period stays within the limit one of its audits was
\* reserved under, those aside that completed after their reservation was swept:
\* WithinAllowance, for any plans, limits, periods and faults.
THEOREM AllowanceHolds == ASSUME IsFiniteSet(Attempts) PROVE Spec => []WithinAllowance
PROOF
<1>1. Init /\ AuditInv => AllowanceInv
  <2> SUFFICES ASSUME Init, AuditInv PROVE AllowanceInv
    OBVIOUS
  <2>1. /\ \A a \in Attempts : usage[a].status = "none" /\ ~att[a].reserved /\ att[a].at = "new"
        /\ pending = {}
    BY DEF Init
  <2>2. \A period : Taken(period) = {}
    BY <2>1 DEF Taken, Counted
  <2> QED
    BY <2>1, <2>2 DEF AllowanceInv, LimitsHold, RowsAreReserved, DoubtsFit
<1>2. AuditInv /\ AllowanceInv /\ [Next]_vars => AllowanceInv'
  <2> SUFFICES ASSUME AuditInv, AllowanceInv, [Next]_vars PROVE AllowanceInv'
    OBVIOUS
  <2>1. ASSUME NEW a \in Attempts, Work(a) \/ Crash(a) PROVE AllowanceInv'
    BY <2>1, ReadsAllowance, ReserveAllowance, OwnRowAllowance DEF Work
  <2>2. ASSUME UNCHANGED <<usage, pending, att, late>> PROVE AllowanceInv'
    <3>1. RowsAreReserved'
      BY <2>2 DEF AllowanceInv, RowsAreReserved
    <3> QED
      BY <2>2, <3>1, AllowanceUntouched DEF AuditInv
  <2> QED
    BY <2>1, <2>2, DecideAllowance DEF Next, Entitle, Tick, vars
<1>3. AllowanceInv => WithinAllowance
  BY DEF AllowanceInv, LimitsHold, WithinAllowance, Taken
<1> QED
  BY <1>1, <1>2, <1>3, AuditInvariant, PTL DEF Spec

---------------------------------------------------------------------------
(* Refusals                                                                 *)

\* Before the first fault nothing is in doubt, and a reservation belongs to a handler
\* that goes on to complete it or to give it back.
HeldWhileBusy ==
    faults > 0 \/ /\ pending = {}
                  /\ \A a \in Attempts : usage[a].status = "reserved" =>
                        att[a].reserved /\ att[a].at \in Busy

LEMMA HeldStep ==
    ASSUME AuditInv, TypeOK, HeldWhileBusy, NEW a \in Attempts, Work(a), faults = 0, faults' = 0
    PROVE  HeldWhileBusy'
PROOF
<1>1. /\ pending = {}
      /\ \A b \in Attempts : usage[b].status = "reserved" => att[b].reserved /\ att[b].at \in Busy
  BY DEF HeldWhileBusy
<1>2. {"no_allowance", "report", "error"} \subseteq Answers
      /\ {"reserve", "execute", "model", "complete", "undo", "release"} \subseteq Places
  BY DEF Answers, Places
<1>3. att \in [Attempts -> Sessions] /\ att[a] \in Sessions
  BY DEF AuditInv, AuditTyped
\* The step of a handler that writes no row.
<1>4. ASSUME UNCHANGED <<usage, pending>>,
             \A b \in Attempts \ {a} : att'[b] = att[b],
             usage[a].status = "reserved" => att'[a].reserved /\ att'[a].at \in Busy
      PROVE  HeldWhileBusy'
  BY <1>1, <1>4 DEF HeldWhileBusy
\* The step of one that commits its row.
<1>5. ASSUME NEW p \in Commits, p.attempt = a, usage' = Applied(p), UNCHANGED pending,
             \A b \in Attempts \ {a} : att'[b] = att[b],
             p.row.status = "reserved" => att'[a].reserved /\ att'[a].at \in Busy
      PROVE  HeldWhileBusy'
  <2>1. \A b \in Attempts : usage'[b].status = "reserved" =>
            IF b = a THEN p.row.status = "reserved" ELSE usage[b].status = "reserved"
    BY <1>5, AppliedRows DEF AuditInv
  <2> QED
    BY <1>1, <1>5, <2>1 DEF HeldWhileBusy
<1>6. CASE Check(a)
  <2>1. usage[a].status # "reserved"
    BY <1>1, <1>6 DEF Check, Busy
  <2> QED
    BY <1>2, <1>4, <1>6, <2>1, Moves DEF Check
<1>7. CASE ReserveAudit(a)
  <2> DEFINE row == [status |-> "reserved", plan |-> entitled.plan,
                     period |-> entitled.period, since |-> now]
             p == [attempt |-> a, swept |-> Swept, row |-> row]
  <2>1. CASE Finish(a, "no_allowance") /\ UNCHANGED <<usage, pending, faults>>
    <3>1. usage[a].status # "reserved"
      BY <1>1, <1>7 DEF ReserveAudit, Busy
    <3> QED
      BY <1>2, <1>4, <2>1, <3>1, Moves
  <2>2. CASE Submit(p, att' = [att EXCEPT ![a].at = "execute", ![a].reserved = TRUE],
                    Finish(a, "error"))
    <3>1. usage' = Applied(p) /\ UNCHANGED pending
          /\ att' = [att EXCEPT ![a].at = "execute", ![a].reserved = TRUE]
      BY <2>2 DEF Submit
    <3>2. p \in Commits /\ p.attempt = a
      BY EntitlementAssumption DEF AuditInv, AuditTyped, Commits, Usages, Rights, Swept
    <3>3. att'[a].reserved /\ att'[a].at \in Busy /\ \A b \in Attempts \ {a} : att'[b] = att[b]
      BY <1>3, <3>1 DEF Sessions, Busy
    <3> HIDE DEF p
    <3> QED
      BY <1>5, <3>1, <3>2, <3>3
  <2> QED
    BY <1>7, <2>1, <2>2 DEF ReserveAudit
\* What the executor answers with takes a reservation on, and leaves none behind.
<1>8. ASSUME Served(a) \/ Raised(a), UNCHANGED <<usage, pending>> PROVE HeldWhileBusy'
  <2>1. CASE att[a].reserved
    <3>1. Goto(a, "complete") \/ Goto(a, "undo")
      BY <1>8, <2>1 DEF Served, Raised
    <3> QED
      BY <1>2, <1>4, <1>8, <2>1, <3>1, Moves DEF Busy
  <2>2. CASE ~att[a].reserved
    <3>1. Finish(a, "report") \/ Finish(a, "error")
      BY <1>8, <2>2 DEF Served, Raised
    <3> QED
      BY <1>1, <1>2, <1>4, <1>8, <2>2, <3>1, Moves
  <2> QED
    BY <2>1, <2>2
<1>9. CASE Execute(a)
  <2>1. CASE Goto(a, "model") /\ UNCHANGED <<usage, pending>>
    BY <1>1, <1>2, <1>4, <2>1, Moves DEF Busy
  <2> QED
    BY <1>8, <1>9, <2>1 DEF Execute
<1>10. CASE Settle(a)
  BY <1>8, <1>10 DEF Settle
<1>11. CASE SettleInDoubt(a)
  BY <1>11 DEF SettleInDoubt
<1>12. \A status \in {"completed", "released"} :
           LET p == [attempt |-> a, swept |-> {},
                     row |-> [usage[a] EXCEPT !.status = status, !.since = now]]
           IN  p \in Commits /\ p.attempt = a /\ p.row.status = status
  <2>1. TAKE status \in {"completed", "released"}
  <2> DEFINE first == [usage[a] EXCEPT !.status = status]
             row == [first EXCEPT !.since = now]
  <2>2. first \in Usages /\ first.status = status /\ now \in Nat
    BY DEF AuditInv, AuditTyped, Usages
  <2>3. row \in Usages /\ row.status = status
    <3> HIDE DEF first
    <3> QED
      BY <2>2 DEF Usages
  <2> HIDE DEF row
  <2> QED
    BY <2>3 DEF Commits, row
<1>13. CASE CompleteAudit(a)
  <2> DEFINE p == [attempt |-> a, swept |-> {},
                   row |-> [usage[a] EXCEPT !.status = "completed", !.since = now]]
  <2>1. p \in Commits /\ p.attempt = a /\ p.row.status = "completed"
    BY <1>12
  <2>2. usage' = Applied(p) /\ UNCHANGED pending /\ Finish(a, "report")
    BY <1>13 DEF CompleteAudit, Submit
  <2> HIDE DEF p
  <2> QED
    BY <1>2, <1>5, <2>1, <2>2, Moves
<1>14. CASE Undo(a)
  <2>1. UNCHANGED <<usage, pending>>
    BY <1>14 DEF Undo
  <2>2. CASE usage[a].status = "reserved"
    <3>1. Goto(a, "release")
      BY <1>14, <2>2 DEF Undo
    <3> QED
      BY <1>1, <1>2, <1>4, <2>1, <2>2, <3>1, Moves DEF Busy
  <2>3. CASE usage[a].status # "reserved"
    <3>1. Finish(a, "error")
      BY <1>14, <2>3 DEF Undo
    <3> QED
      BY <1>2, <1>4, <2>1, <2>3, <3>1, Moves
  <2> QED
    BY <2>2, <2>3
<1>15. CASE Release(a)
  <2> DEFINE p == [attempt |-> a, swept |-> {},
                   row |-> [usage[a] EXCEPT !.status = "released", !.since = now]]
  <2>1. p \in Commits /\ p.attempt = a /\ p.row.status = "released"
    BY <1>12
  <2>2. usage' = Applied(p) /\ UNCHANGED pending /\ Finish(a, "error")
    BY <1>15 DEF Release, Submit
  <2> HIDE DEF p
  <2> QED
    BY <1>2, <1>5, <2>1, <2>2, Moves
<1> QED
  BY <1>6, <1>7, <1>9, <1>10, <1>11, <1>13, <1>14, <1>15 DEF Work

\* Whoever is refused an audit is refused for reports that exist, for audits that still
\* run, or for what a fault has left reserved less than 15 minutes ago.
THEOREM FailuresRefuseNobody ==
    ASSUME IsFiniteSet(Attempts)
    PROVE  Spec => FailedAuditsDoNotRefuse
PROOF
<1> DEFINE Holding == {b \in Counted(entitled.period) :
                          \/ usage[b].status = "completed" /\ Request(b).status = "succeeded"
                          \/ att[b].at \in Busy
                          \/ faults > 0 /\ usage[b].since + StaleAfter >= now}
           Due(a) == att[a].answer = "none" /\ att'[a].answer = "no_allowance" =>
                         Cardinality(Holding) >= Limit[entitled.plan]
<1>1. Init => HeldWhileBusy
  BY DEF Init, HeldWhileBusy
<1>2. AuditInv /\ TypeOK /\ HeldWhileBusy /\ [Next]_vars => HeldWhileBusy'
  <2> SUFFICES ASSUME AuditInv, TypeOK, HeldWhileBusy, [Next]_vars PROVE HeldWhileBusy'
    OBVIOUS
  <2>1. faults \in Nat
    BY DEF TypeOK
  <2>2. faults' = faults \/ faults' = faults + 1
    BY DEF Next, Work, Check, ReserveAudit, Execute, Settle, SettleInDoubt, CompleteAudit, Undo,
           Release, Submit, Crash, Decide, Entitle, Tick, vars
  <2>3. CASE faults' > 0
    BY <2>3 DEF HeldWhileBusy
  <2>4. CASE faults = 0 /\ faults' = 0
    <3>1. ASSUME UNCHANGED <<usage, pending, att>> PROVE HeldWhileBusy'
      BY <2>4, <3>1 DEF HeldWhileBusy
    <3>2. pending = {}
      BY <2>4 DEF HeldWhileBusy
    <3> QED
      BY <2>4, <3>1, <3>2, HeldStep DEF Next, Crash, Decide, Entitle, Tick, vars
  <2> QED
    BY <2>1, <2>2, <2>3, <2>4
<1>3. AuditInv /\ TypeOK /\ HeldWhileBusy /\ [Next]_vars => [\A a \in Attempts : Due(a)]_vars
  <2> SUFFICES ASSUME AuditInv, TypeOK, HeldWhileBusy, [Next]_vars, NEW a \in Attempts,
                      att[a].answer = "none", att'[a].answer = "no_allowance"
               PROVE  Cardinality(Holding) >= Limit[entitled.plan]
    OBVIOUS
  <2>1. "no_allowance" \in Answers /\ {"report", "error", "none"} \subseteq Answers
        /\ {"reserve", "execute", "model", "complete", "undo", "release", "dead"} \subseteq Places
    BY DEF Answers, Places
  <2>2. ASSUME NEW b \in Attempts, Goto(b, "dead") \/ Goto(b, "reserve") \/ Goto(b, "execute")
                 \/ Goto(b, "model") \/ Goto(b, "complete") \/ Goto(b, "undo")
                 \/ Goto(b, "release") \/ Finish(b, "report") \/ Finish(b, "error")
        PROVE  FALSE
    BY <2>1, <2>2, Moves
  <2>3. PICK b \in Attempts : ReserveAudit(b)
    BY <2>2 DEF Next, Work, Check, Execute, Settle, SettleInDoubt, CompleteAudit, Undo, Release,
                Crash, Submit, Served, Raised, Decide, Entitle, Tick, vars
  <2> DEFINE counted == Counted(entitled.period) \ Swept
  <2>4. Cardinality(counted) >= Limit[entitled.plan]
    <3>1. ~(att' = [att EXCEPT ![b].at = "execute", ![b].reserved = TRUE])
      BY DEF AuditInv, AuditTyped, Sessions
    <3> QED
      BY <2>2, <2>3, <3>1 DEF ReserveAudit, Submit
  <2>5. counted \subseteq Holding
    <3> SUFFICES ASSUME NEW c \in counted PROVE c \in Holding
      OBVIOUS
    <3>1. /\ c \in Attempts /\ c \in Counted(entitled.period) /\ ~Stale(c)
          /\ usage[c].status = "completed" \/ usage[c].status = "reserved"
      BY DEF Counted, Swept
    <3>2. usage[c].since \in Nat /\ now \in Nat /\ StaleAfter \in Nat
      BY <3>1, EntitlementAssumption DEF AuditInv, AuditTyped, Usages
    <3>3. CASE usage[c].status = "completed"
      BY <3>1, <3>3 DEF AuditInv, ChargedForAReport
    <3>4. CASE usage[c].status = "reserved"
      BY <3>1, <3>2, <3>4 DEF HeldWhileBusy, Stale
    <3> QED
      BY <3>1, <3>3, <3>4
  <2>6. Holding \subseteq Attempts /\ IsFiniteSet(Holding)
    BY FS_Subset DEF Counted
  <2>7. IsFiniteSet(counted) /\ Cardinality(counted) <= Cardinality(Holding)
    BY <2>5, <2>6, FS_Subset
  <2>8. Cardinality(counted) \in Nat /\ Cardinality(Holding) \in Nat /\ Limit[entitled.plan] \in Nat
    BY <2>6, <2>7, FS_CardinalityType, EntitlementAssumption DEF TypeOK, Rights
  <2> HIDE DEF counted, Holding
  <2> QED
    BY <2>4, <2>7, <2>8
<1> QED
  BY <1>1, <1>2, <1>3, AuditInvariant, AuditTypes, PTL DEF Spec, FailedAuditsDoNotRefuse
=================================================================================
