------------------------ MODULE GenerationExecutorProofs ------------------------
(***************************************************************************)
(* Theorems about GenerationExecutor, for every set of attempts, keys and  *)
(* payloads, every estimate, allowance and number of faults.               *)
(***************************************************************************)
EXTENDS GenerationExecutor, FiniteSetTheorems, TLAPS

---------------------------------------------------------------------------
(* Types                                                                    *)

\* The quota operators turn a user row into a user row: reserved_tokens stays a
\* natural number because a release is clamped.
LEMMA QuotaTypes ==
    ASSUME TypeOK, NEW u \in Users, NEW amount \in Nat, NEW tokens \in Nat
    PROVE  /\ MaybeReset(u) \in Users
           /\ Hold(u, amount) \in Users
           /\ Unhold(u, amount) \in Users
           /\ Settle(u, amount, tokens) \in Users
<1>1. /\ u.exists \in BOOLEAN /\ u.used \in Nat /\ u.reserved \in Nat /\ u.reset \in Nat
      /\ now + QuotaPeriod \in Nat
  BY ExecutorAssumption DEF TypeOK, Users
<1>2. MaybeReset(u) \in Users
  BY <1>1 DEF Users, MaybeReset
<1>3. Hold(u, amount) \in Users
  BY <1>1 DEF Users, Hold
<1>4. Unhold(u, amount) \in Users
  BY <1>1 DEF Users, Unhold
<1>5. Settle(u, amount, tokens) \in Users
  BY <1>4 DEF Users, Settle
<1>6. QED BY <1>2, <1>3, <1>4, <1>5

\* A flush of a user row leaves a user row.
LEMMA FlushType ==
    ASSUME TypeOK, NEW loaded \in Users, NEW new \in Users
    PROVE  Flush(loaded, new) \in Users
BY DEF TypeOK, Users, Databases, Flush, Column

\* What an attempt commits is a database.
LEMMA CommitTypes ==
    ASSUME TypeOK, NEW a \in Attempts, NEW loaded \in Users
    PROVE  /\ Reserved(a) \in Databases
           /\ Failed(a, loaded) \in Databases
           /\ Succeeded(a) \in Databases
<1>1. att[a] \in Sessions /\ Amount(a) \in Nat /\ db \in Databases
  BY ExecutorAssumption DEF TypeOK, Sessions, Amount
<1>2. Flush(att[a].user, Hold(MaybeReset(att[a].user), Amount(a))) \in Users
  BY <1>1, QuotaTypes, FlushType DEF Sessions
<1>3. Flush(loaded, Unhold(MaybeReset(loaded), Amount(a))) \in Users
  BY <1>1, QuotaTypes, FlushType DEF Sessions
<1>4. Flush(att[a].user, Settle(MaybeReset(att[a].user), Amount(a), att[a].usage)) \in Users
  BY <1>1, QuotaTypes, FlushType DEF Sessions
<1>5. Reserved(a) \in Databases
  BY <1>1, <1>2 DEF Reserved, Databases, Rows, Statuses, Sessions
<1>6. /\ att[a].key \in Keys /\ att[a].usage \in Nat /\ db.requests \in [Keys -> Rows]
      /\ db.generations \in [Keys -> Nat] /\ db.user \in Users
  BY <1>1 DEF Sessions, Databases
<1>7. Failed(a, loaded) \in Databases
  <2>1. [db.requests[att[a].key] EXCEPT !.status = "failed"] \in Rows
    BY <1>6 DEF Rows, Statuses
  <2>2. [db.requests EXCEPT ![att[a].key].status = "failed"] \in [Keys -> Rows]
    BY <1>6, <2>1
  <2>3. QED BY <1>1, <1>3, <2>2 DEF Failed, Databases
<1>8. Succeeded(a) \in Databases
  <2>1. [db.requests[att[a].key] EXCEPT !.status = "succeeded", !.tokens = att[a].usage] \in Rows
    BY <1>6 DEF Rows, Statuses
  <2>2. [db.requests EXCEPT ![att[a].key].status = "succeeded",
                            ![att[a].key].tokens = att[a].usage] \in [Keys -> Rows]
    BY <1>6, <2>1
  <2>3. [db.generations EXCEPT ![att[a].key] = @ + 1] \in [Keys -> Nat]
    BY <1>6
  <2>4. QED BY <1>1, <1>4, <2>2, <2>3 DEF Succeeded, Databases
<1>9. QED BY <1>5, <1>7, <1>8

\* A session stays a session when its handler moves on or ends.
LEMMA SessionTypes ==
    ASSUME TypeOK, NEW a \in Attempts, NEW place \in Places, NEW answer \in Answers,
           Goto(a, place) \/ Finish(a, answer)
    PROVE  att' \in [Attempts -> Sessions]
<1>1. att \in [Attempts -> Sessions] /\ NewUser \in Users /\ att[a] \in Sessions
  BY DEF TypeOK, NewUser, Users
<1>2. [att[a] EXCEPT !.at = place] \in Sessions
  BY <1>1 DEF Sessions
<1>3. [att[a] EXCEPT !.at = "done", !.answer = answer, !.user = NewUser, !.usage = 0] \in Sessions
  BY <1>1 DEF Sessions, Places
<1>4. CASE Goto(a, place)
  BY <1>1, <1>2, <1>4 DEF Goto
<1>5. CASE Finish(a, answer)
  BY <1>1, <1>3, <1>5 DEF Finish
<1>6. QED BY <1>4, <1>5

\* Every step of a handler keeps the types.
LEMMA WorkTypes ==
    ASSUME TypeOK, NEW a \in Attempts, Work(a)
    PROVE  TypeOK'
<1>1. att \in [Attempts -> Sessions] /\ att[a] \in Sessions /\ db \in Databases
  BY DEF TypeOK
<1>2. \A place \in Places : Goto(a, place) => att' \in [Attempts -> Sessions]
  BY SessionTypes DEF Answers
<1>3. \A answer \in Answers : Finish(a, answer) => att' \in [Attempts -> Sessions]
  BY SessionTypes DEF Places
<1>4. \A row, payload : ExistingAnswer(row, payload) \in Answers
  BY DEF ExistingAnswer, Answers
<1>5. CASE LookUp(a)
  BY <1>2, <1>3, <1>4, <1>5 DEF LookUp, TypeOK, Places
<1>6. CASE Begin(a)
  <2>1. Reserved(a) \in Databases
    BY <1>1, CommitTypes DEF Sessions
  <2>2. att' \in [Attempts -> Sessions]
    BY <1>2, <1>3, <1>6 DEF Begin, Submit, Places, Answers
  <2>3. db' \in Databases /\ indoubt' \subseteq Databases /\ faults' \in Nat
    BY <1>6, <2>1 DEF Begin, Submit, NoCommit, TypeOK
  <2>4. QED BY <1>6, <2>2, <2>3 DEF Begin, TypeOK
<1>7. CASE Conflict(a)
  BY <1>3, <1>4, <1>7 DEF Conflict, TypeOK, Answers
<1>8. CASE Refresh(a)
  <2>1. [att[a] EXCEPT !.at = "model", !.user = db.user] \in Sessions
    BY <1>1 DEF Sessions, Places, Databases
  <2>2. att' \in [Attempts -> Sessions]
    BY <1>1, <1>3, <1>8, <2>1 DEF Refresh, Answers
  <2>3. modelCalls' \in [Keys -> Nat]
    BY <1>1, <1>8 DEF Refresh, TypeOK, Sessions
  <2>4. QED BY <1>8, <2>2, <2>3 DEF Refresh, TypeOK
<1>9. CASE ModelAnswers(a)
  <2>1. PICK tokens \in Consumptions :
          att' = [att EXCEPT ![a].at = "succeed", ![a].usage = tokens]
    BY <1>9 DEF ModelAnswers
  <2>2. [att[a] EXCEPT !.at = "succeed", !.usage = tokens] \in Sessions
    BY <1>1, ExecutorAssumption DEF Sessions, Places
  <2>3. att' \in [Attempts -> Sessions]
    BY <1>1, <2>1, <2>2
  <2>4. QED BY <1>9, <2>3 DEF ModelAnswers, TypeOK
<1>10. CASE ModelFails(a)
  BY <1>2, <1>10 DEF ModelFails, TypeOK, Places
<1>11. CASE FinalizeFailure(a)
  <2>1. Failed(a, att[a].user) \in Databases
    BY <1>1, CommitTypes DEF Sessions
  <2>2. att' \in [Attempts -> Sessions]
    BY <1>3, <1>11 DEF FinalizeFailure, Submit, Answers
  <2>3. db' \in Databases /\ indoubt' \subseteq Databases /\ faults' \in Nat
    BY <1>11, <2>1 DEF FinalizeFailure, Submit, NoCommit, TypeOK
  <2>4. QED BY <1>11, <2>2, <2>3 DEF FinalizeFailure, TypeOK
<1>12. CASE FinalizeSuccess(a)
  <2>1. Succeeded(a) \in Databases
    BY <1>1, CommitTypes DEF Sessions
  <2>2. att' \in [Attempts -> Sessions]
    BY <1>2, <1>3, <1>12 DEF FinalizeSuccess, Submit, Answers, Places
  <2>3. db' \in Databases /\ indoubt' \subseteq Databases /\ faults' \in Nat
    BY <1>12, <2>1 DEF FinalizeSuccess, Submit, NoCommit, TypeOK
  <2>4. QED BY <1>12, <2>2, <2>3 DEF FinalizeSuccess, TypeOK
<1>13. CASE Resolve(a)
  <2>1. Row(a).status \in Statuses
    BY <1>1 DEF Row, Sessions, Databases, Rows
  <2>2. att' \in [Attempts -> Sessions]
    BY <1>2, <1>3, <1>13, <2>1 DEF Resolve, Statuses, Places, Answers
  <2>3. QED BY <1>13, <2>2 DEF Resolve, TypeOK
<1>14. CASE Cleanup(a)
  <2>1. Failed(a, db.user) \in Databases
    BY <1>1, CommitTypes DEF Databases
  <2>2. att' \in [Attempts -> Sessions]
    BY <1>3, <1>14 DEF Cleanup, Answers
  <2>3. db' \in Databases /\ indoubt' \subseteq Databases /\ faults' \in Nat
    BY <1>14, <2>1 DEF Cleanup, Submit, NoCommit, TypeOK
  <2>4. QED BY <1>14, <2>2, <2>3 DEF Cleanup, TypeOK
<1>15. QED
  BY <1>5, <1>6, <1>7, <1>8, <1>9, <1>10, <1>11, <1>12, <1>13, <1>14 DEF Work

\* The initial rows and sessions have their types.
LEMMA InitTypes == Init => TypeOK
<1>1. NewUser \in Users /\ Absent \in Rows
  BY DEF NewUser, Users, Absent, Rows, Statuses
<1>2. ASSUME Init PROVE att \in [Attempts -> Sessions]
  BY <1>1, <1>2 DEF Init, Sessions, Places, Answers
<1>3. ASSUME Init PROVE db \in Databases
  BY <1>1, <1>3 DEF Init, Databases
<1>4. QED BY <1>2, <1>3 DEF Init, TypeOK

\* Every step keeps the types.
LEMMA NextTypes == TypeOK /\ [Next]_vars => TypeOK'
<1> SUFFICES ASSUME TypeOK, [Next]_vars PROVE TypeOK'
  OBVIOUS
<1>1. ASSUME NEW a \in Attempts, Load(a) PROVE TypeOK'
  <2>1. att \in [Attempts -> Sessions] /\ db \in Databases /\ att[a] \in Sessions
    BY <1>1 DEF TypeOK
  <2>2. [att[a] EXCEPT !.at = "loaded", !.user = db.user] \in Sessions
    BY <2>1 DEF Sessions, Places, Databases
  <2>3. Finish(a, "error") => att' \in [Attempts -> Sessions]
    BY SessionTypes DEF Places, Answers
  <2>4. att' \in [Attempts -> Sessions]
    BY <1>1, <2>1, <2>2, <2>3 DEF Load
  <2>5. QED BY <1>1, <2>4 DEF Load, TypeOK
<1>2. ASSUME NEW a \in Attempts, Work(a) PROVE TypeOK'
  BY <1>2, WorkTypes
<1>3. ASSUME NEW a \in Attempts, Crash(a) PROVE TypeOK'
  <2>1. att \in [Attempts -> Sessions] /\ att[a] \in Sessions /\ NewUser \in Users
    BY <1>3 DEF TypeOK, NewUser, Users
  <2>2. [att[a] EXCEPT !.at = "dead", !.user = NewUser, !.usage = 0] \in Sessions
    BY <2>1 DEF Sessions, Places
  <2>3. att' \in [Attempts -> Sessions]
    BY <1>3, <2>1, <2>2 DEF Crash
  <2>4. QED BY <1>3, <2>3 DEF Crash, TypeOK
<1>4. CASE Decide
  BY <1>4 DEF Decide, TypeOK
<1>5. CASE DeleteUser
  <2>1. NoUser \in Users /\ Absent \in Rows
    BY DEF NoUser, Users, Absent, Rows, Statuses
  <2>2. db' \in Databases
    BY <1>5, <2>1 DEF DeleteUser, Databases
  <2>3. QED BY <1>5, <2>2 DEF DeleteUser, TypeOK
<1>6. CASE Tick
  BY <1>6 DEF Tick, TypeOK
<1>7. CASE UNCHANGED vars
  BY <1>7 DEF vars, TypeOK
<1>8. QED BY <1>1, <1>2, <1>3, <1>4, <1>5, <1>6, <1>7 DEF Next

\* Types: whatever overlaps, crashes and commits are in doubt, the rows keep
\* to their columns; used_tokens and reserved_tokens stay natural numbers.
THEOREM TypeCorrect == Spec => []TypeOK
BY InitTypes, NextTypes, PTL DEF Spec

---------------------------------------------------------------------------
(* One settlement per key                                                   *)

\* An attempt owns the request it inserted until it answers or dies.
Owner(a) == att[a].at \in {"refresh", "model", "succeed", "fail", "resolve", "cleanup"}

OwnsKey(k) == \E a \in Attempts : Owner(a) /\ att[a].key = k

\* Tx2 was sent: its outcome is being found out.
Resolving(a) == att[a].at \in {"resolve", "cleanup"}

\* A database a commit may leave: one generation per succeeded request, no
\* request without its user.
Consistent(d) ==
    \A k \in Keys :
        /\ d.generations[k] = (IF d.requests[k].status = "succeeded" THEN 1 ELSE 0)
        /\ d.requests[k].status = "absent" => d.requests[k] = Absent
        /\ ~d.user.exists => d.requests[k] = Absent

\* The row an attempt owns is its own, and processing; once Tx2 was sent it may
\* also have succeeded.
OwnersHaveRows ==
    db.user.exists =>
        \A a \in Attempts :
            Owner(a) =>
                /\ Row(a).payload = att[a].payload
                /\ \/ Row(a).status = "processing"
                   \/ Row(a).status = "succeeded" /\ Resolving(a)

OneOwnerPerKey ==
    \A a, b \in Attempts :
        Owner(a) /\ Owner(b) /\ att[a].key = att[b].key => a = b

\* How the row of a key may differ between the committed state and a commit in
\* doubt: inserted or failed by nobody who still owns it, or succeeded under an
\* owner that is finding out.
InDoubt(k, d) ==
    \/ d.requests[k] = db.requests[k]
    \/ db.requests[k] = Absent /\ d.requests[k].status = "processing" /\ ~OwnsKey(k)
    \/ /\ db.requests[k].status = "processing"
       /\ d.requests[k].payload = db.requests[k].payload
       /\ \/ d.requests[k].status = "failed" /\ ~OwnsKey(k)
          \/ /\ d.requests[k].status = "succeeded"
             /\ \A a \in Attempts : Owner(a) /\ att[a].key = k => Resolving(a)

DoubtsAreSound ==
    \A d \in indoubt :
        /\ db.user.exists /\ d.user.exists
        /\ Consistent(d)
        /\ \A k \in Keys : InDoubt(k, d)

\* The model was not called for a key nobody has reserved, nor yet by the owner
\* about to call it.
CallsAreCounted ==
    /\ \A k \in Keys :
         /\ modelCalls[k] <= 1
         /\ db.user.exists /\ db.requests[k] = Absent => modelCalls[k] = 0
    /\ \A a \in Attempts : att[a].at = "refresh" => modelCalls[att[a].key] = 0

SettlementInv ==
    /\ TypeOK
    /\ Consistent(db)
    /\ OwnersHaveRows
    /\ OneOwnerPerKey
    /\ DoubtsAreSound
    /\ CallsAreCounted
    /\ AnswersAreTrue

---------------------------------------------------------------------------

\* A step of attempt a leaves the other sessions, and what every request asks
\* for, alone.
SessionStep(a) ==
    \A b \in Attempts :
        /\ att'[b].key = att[b].key /\ att'[b].payload = att[b].payload
        /\ b # a => att'[b] = att[b]

\* Where Goto and Finish take a session.
LEMMA SessionMoves ==
    ASSUME TypeOK, NEW a \in Attempts, NEW place \in Places, NEW answer \in Answers
    PROVE  /\ Goto(a, place) => /\ SessionStep(a)
                                /\ att'[a].at = place
                                /\ att'[a].answer = att[a].answer
           /\ Finish(a, answer) => /\ SessionStep(a)
                                   /\ att'[a].at = "done"
                                   /\ att'[a].answer = answer
<1>1. att \in [Attempts -> Sessions] /\ \A b \in Attempts : att[b] \in Sessions
  BY DEF TypeOK
<1>2. ASSUME Goto(a, place)
      PROVE  SessionStep(a) /\ att'[a].at = place /\ att'[a].answer = att[a].answer
  <2>1. att' = [att EXCEPT ![a] = [att[a] EXCEPT !.at = place]]
    BY <1>1, <1>2 DEF Goto
  <2>2. QED BY <1>1, <2>1 DEF SessionStep, Sessions
<1>3. ASSUME Finish(a, answer)
      PROVE  SessionStep(a) /\ att'[a].at = "done" /\ att'[a].answer = answer
  <2>1. att' = [att EXCEPT ![a] = [att[a] EXCEPT !.at = "done", !.answer = answer,
                                                 !.user = NewUser, !.usage = 0]]
    BY <1>1, <1>3 DEF Finish
  <2>2. QED BY <1>1, <2>1 DEF SessionStep, Sessions
<1>4. QED BY <1>2, <1>3

\* What Tx1 writes, key by key.
LEMMA WrittenByTx1 ==
    ASSUME TypeOK, NEW a \in Attempts
    PROVE  /\ Reserved(a).user.exists = db.user.exists
           /\ Reserved(a).generations = db.generations
           /\ Reserved(a).requests[att[a].key].status = "processing"
           /\ Reserved(a).requests[att[a].key].payload = att[a].payload
           /\ \A j \in Keys \ {att[a].key} : Reserved(a).requests[j] = db.requests[j]
<1> DEFINE k == att[a].key
<1>1. /\ db \in Databases /\ k \in Keys /\ db.requests \in [Keys -> Rows]
      /\ db.generations \in [Keys -> Nat] /\ db.user \in Users /\ db.requests[k] \in Rows
  BY DEF TypeOK, Sessions, Databases
<1>2. \A u, v : Flush(u, v).exists = db.user.exists
  BY <1>1 DEF Flush, Users
<1>3. /\ Reserved(a).user.exists = db.user.exists
      /\ Reserved(a).generations = db.generations
      /\ Reserved(a).requests = [db.requests EXCEPT ![k] =
            [status |-> "processing", payload |-> att[a].payload, tokens |-> 0]]
  BY <1>1, <1>2 DEF Reserved, Databases
<1>4. QED BY <1>1, <1>3

\* What a failure writes, key by key.
LEMMA WrittenByFailure ==
    ASSUME TypeOK, NEW a \in Attempts, NEW loaded \in Users
    PROVE  /\ Failed(a, loaded).user.exists = db.user.exists
           /\ Failed(a, loaded).generations = db.generations
           /\ Failed(a, loaded).requests[att[a].key].status = "failed"
           /\ Failed(a, loaded).requests[att[a].key].payload = db.requests[att[a].key].payload
           /\ \A j \in Keys \ {att[a].key} : Failed(a, loaded).requests[j] = db.requests[j]
<1> DEFINE k == att[a].key
<1>1. /\ db \in Databases /\ k \in Keys /\ db.requests \in [Keys -> Rows]
      /\ db.generations \in [Keys -> Nat] /\ db.user \in Users /\ db.requests[k] \in Rows
  BY DEF TypeOK, Sessions, Databases
<1>2. \A u, v : Flush(u, v).exists = db.user.exists
  BY <1>1 DEF Flush, Users
<1>3. /\ Failed(a, loaded).user.exists = db.user.exists
      /\ Failed(a, loaded).generations = db.generations
      /\ Failed(a, loaded).requests =
           [db.requests EXCEPT ![k] = [db.requests[k] EXCEPT !.status = "failed"]]
  BY <1>1, <1>2 DEF Failed, Databases
<1>4. QED BY <1>1, <1>3 DEF Rows

\* What Tx2 writes, key by key.
LEMMA WrittenByTx2 ==
    ASSUME TypeOK, NEW a \in Attempts
    PROVE  /\ Succeeded(a).user.exists = db.user.exists
           /\ Succeeded(a).generations[att[a].key] = db.generations[att[a].key] + 1
           /\ Succeeded(a).requests[att[a].key].status = "succeeded"
           /\ Succeeded(a).requests[att[a].key].payload = db.requests[att[a].key].payload
           /\ \A j \in Keys \ {att[a].key} :
                /\ Succeeded(a).requests[j] = db.requests[j]
                /\ Succeeded(a).generations[j] = db.generations[j]
<1> DEFINE k == att[a].key
<1>1. /\ db \in Databases /\ k \in Keys /\ db.requests \in [Keys -> Rows]
      /\ db.generations \in [Keys -> Nat] /\ db.user \in Users /\ db.requests[k] \in Rows
  BY DEF TypeOK, Sessions, Databases
<1>2. \A u, v : Flush(u, v).exists = db.user.exists
  BY <1>1 DEF Flush, Users
<1>3. /\ Succeeded(a).user.exists = db.user.exists
      /\ Succeeded(a).generations = [db.generations EXCEPT ![k] = db.generations[k] + 1]
      /\ Succeeded(a).requests =
           [db.requests EXCEPT ![k] = [db.requests[k] EXCEPT !.status = "succeeded",
                                                             !.tokens = att[a].usage]]
  BY <1>1, <1>2 DEF Succeeded, Databases
<1>4. QED BY <1>1, <1>3 DEF Rows

\* A step of an attempt that writes nothing keeps the invariant, if the attempt
\* gains no request by it and answers truly.
LEMMA ReadOnlyStep ==
    ASSUME SettlementInv, TypeOK', NEW a \in Attempts, SessionStep(a),
           UNCHANGED <<db, indoubt>>,
           Owner(a)' => Owner(a),
           Owner(a)' /\ Resolving(a) => Resolving(a)',
           db.user.exists => AnswerIsTrue(a)',
           CallsAreCounted'
    PROVE  SettlementInv'
<1>1. \A b \in Attempts : /\ Owner(b)' => Owner(b)
                          /\ Owner(b)' /\ Resolving(b) => Resolving(b)'
                          /\ Row(b)' = Row(b)
  BY DEF SessionStep, Owner, Resolving, Row
<1>2. Consistent(db)'
  BY DEF SettlementInv, Consistent
<1>3. OwnersHaveRows'
  BY <1>1 DEF SettlementInv, OwnersHaveRows, SessionStep
<1>4. OneOwnerPerKey'
  BY <1>1 DEF SettlementInv, OneOwnerPerKey, SessionStep
<1>5. \A k \in Keys, d \in indoubt : InDoubt(k, d) => InDoubt(k, d)'
  BY <1>1 DEF InDoubt, OwnsKey, SessionStep
<1>6. DoubtsAreSound'
  BY <1>5 DEF SettlementInv, DoubtsAreSound, Consistent
<1>7. AnswersAreTrue'
  BY <1>1 DEF SettlementInv, AnswersAreTrue, AnswerIsTrue, SessionStep
<1>8. QED BY <1>2, <1>3, <1>4, <1>6, <1>7 DEF SettlementInv

\* The rows move forward: a row appears once, processing, and is settled once.
RowsMoveForward ==
    \A k \in Keys :
        \/ db'.requests[k] = db.requests[k]
        \/ db.requests[k] = Absent /\ db'.requests[k].status = "processing"
        \/ /\ db.requests[k].status = "processing"
           /\ db'.requests[k].status \in {"succeeded", "failed"}
           /\ db'.requests[k].payload = db.requests[k].payload

\* While rows only move forward, a true answer stays true.
LEMMA AnswersStayTrue ==
    ASSUME SettlementInv, RowsMoveForward, db.user.exists, NEW a \in Attempts, AnswerIsTrue(a),
           att'[a].key = att[a].key, att'[a].payload = att[a].payload,
           att'[a].answer = att[a].answer
    PROVE  AnswerIsTrue(a)'
<1>1. att[a].key \in Keys
  BY DEF SettlementInv, TypeOK, Sessions
<1>2. Row(a)' = db'.requests[att[a].key] /\ Row(a) = db.requests[att[a].key]
  BY DEF Row
<1>3. Row(a) # Absent => \/ Row(a)' = Row(a)
                         \/ /\ Row(a).status = "processing"
                            /\ Row(a)'.status \in {"succeeded", "failed"}
                            /\ Row(a)'.payload = Row(a).payload
  BY <1>1, <1>2 DEF RowsMoveForward
<1>4. Absent.status = "absent"
  BY DEF Absent
<1>5. QED BY <1>3, <1>4 DEF AnswerIsTrue

\* A transaction of attempt a that commits keeps the invariant: it inserts the
\* row, which a then owns, or settles the row a owned.
LEMMA CommittedStep ==
    ASSUME SettlementInv, TypeOK', NEW a \in Attempts, SessionStep(a),
           indoubt = {}, indoubt' = {}, UNCHANGED modelCalls,
           db.user.exists, db'.user.exists, Consistent(db'),
           \A j \in Keys \ {att[a].key} : db'.requests[j] = db.requests[j],
           \/ /\ db.requests[att[a].key] = Absent
              /\ db'.requests[att[a].key].status = "processing"
              /\ db'.requests[att[a].key].payload = att[a].payload
              /\ att'[a].at = "refresh" /\ att'[a].answer = att[a].answer
              /\ AnswerIsTrue(a)
           \/ /\ Owner(a)
              /\ db.requests[att[a].key].status = "processing"
              /\ db'.requests[att[a].key].status \in {"succeeded", "failed"}
              /\ db'.requests[att[a].key].payload = db.requests[att[a].key].payload
              /\ att'[a].at = "done"
              /\ AnswerIsTrue(a)'
    PROVE  SettlementInv'
<1> DEFINE k == att[a].key
<1>1. k \in Keys /\ \A b \in Attempts : att[b].key \in Keys
  BY DEF SettlementInv, TypeOK, Sessions
<1>2. RowsMoveForward
  BY DEF RowsMoveForward
<1>3. Absent.status = "absent"
  BY DEF Absent
<1>4. \A b \in Attempts \ {a} : Owner(b) => att[b].key # k
  BY <1>1, <1>3 DEF SettlementInv, OwnersHaveRows, OneOwnerPerKey, Row
<1>5. \A b \in Attempts : b # a => (Owner(b)' <=> Owner(b)) /\ (Resolving(b)' <=> Resolving(b))
  BY DEF SessionStep, Owner, Resolving
<1>6. OwnersHaveRows'
  <2>1. ASSUME NEW b \in Attempts, b # a, Owner(b)'
        PROVE  /\ Row(b)'.payload = att'[b].payload
               /\ \/ Row(b)'.status = "processing"
                  \/ Row(b)'.status = "succeeded" /\ Resolving(b)'
    <3>1. att[b].key \in Keys \ {k} /\ Owner(b)
      BY <1>1, <1>4, <1>5, <2>1
    <3>2. Row(b)' = Row(b)
      BY <3>1, <2>1 DEF Row, SessionStep
    <3>3. QED BY <1>5, <2>1, <3>1, <3>2 DEF SettlementInv, OwnersHaveRows, SessionStep
  <2>2. Owner(a)' => Row(a)'.payload = att'[a].payload /\ Row(a)'.status = "processing"
    BY DEF Owner, Row, SessionStep
  <2>3. QED BY <2>1, <2>2 DEF OwnersHaveRows
<1>7. OneOwnerPerKey'
  BY <1>4, <1>5 DEF SettlementInv, OneOwnerPerKey, SessionStep
<1>8. DoubtsAreSound'
  BY DEF DoubtsAreSound
<1>9. CallsAreCounted'
  <2>1. \A j \in Keys : db'.requests[j] = Absent => db.requests[j] = Absent
    BY <1>3
  <2>2. ASSUME NEW b \in Attempts, att'[b].at = "refresh" PROVE modelCalls'[att'[b].key] = 0
    <3>1. CASE b = a
      BY <1>1, <2>2, <3>1 DEF SettlementInv, CallsAreCounted, SessionStep
    <3>2. CASE b # a
      BY <2>2, <3>2 DEF SettlementInv, CallsAreCounted, SessionStep
    <3>3. QED BY <3>1, <3>2
  <2>3. QED BY <2>1, <2>2 DEF SettlementInv, CallsAreCounted
<1>10. AnswersAreTrue'
  <2>1. ASSUME NEW b \in Attempts, b # a PROVE AnswerIsTrue(b)'
    BY <1>2, <2>1, AnswersStayTrue DEF SettlementInv, AnswersAreTrue, SessionStep
  <2>2. AnswerIsTrue(a)'
    BY <1>2, AnswersStayTrue DEF SessionStep
  <2>3. QED BY <2>1, <2>2 DEF AnswersAreTrue
<1>11. QED BY <1>6, <1>7, <1>8, <1>9, <1>10 DEF SettlementInv

\* A commit of attempt a that raised keeps the invariant: after Tx2 its owner
\* finds out, after any other transaction nobody owns the request.
LEMMA DoubtfulStep ==
    ASSUME SettlementInv, TypeOK', NEW a \in Attempts, SessionStep(a), NEW d,
           indoubt' = {d}, UNCHANGED <<db, modelCalls>>,
           db.user.exists, d.user.exists, Consistent(d),
           \A j \in Keys \ {att[a].key} : d.requests[j] = db.requests[j],
           AnswerIsTrue(a)',
           \/ /\ db.requests[att[a].key] = Absent
              /\ d.requests[att[a].key].status = "processing"
              /\ att'[a].at = "done"
           \/ /\ Owner(a)
              /\ db.requests[att[a].key].status = "processing"
              /\ d.requests[att[a].key].payload = db.requests[att[a].key].payload
              /\ \/ d.requests[att[a].key].status = "failed" /\ att'[a].at = "done"
                 \/ d.requests[att[a].key].status = "succeeded" /\ att'[a].at = "resolve"
    PROVE  SettlementInv'
<1> DEFINE k == att[a].key
<1>1. k \in Keys
  BY DEF SettlementInv, TypeOK, Sessions
<1>2. Absent.status = "absent"
  BY DEF Absent
<1>3. \A b \in Attempts \ {a} : Owner(b) => att[b].key # k
  BY <1>1, <1>2 DEF SettlementInv, OwnersHaveRows, OneOwnerPerKey, Row
<1>4. /\ \A b \in Attempts : b # a => (Owner(b)' <=> Owner(b)) /\ (Resolving(b)' <=> Resolving(b))
      /\ Owner(a)' => Owner(a) /\ Resolving(a)'
      /\ \A b \in Attempts : Row(b)' = Row(b)
  BY <1>2 DEF SessionStep, Owner, Resolving, Row
<1>5. OwnersHaveRows'
  BY <1>4 DEF SettlementInv, OwnersHaveRows, SessionStep
<1>6. OneOwnerPerKey'
  BY <1>3, <1>4 DEF SettlementInv, OneOwnerPerKey, SessionStep
<1>7. DoubtsAreSound'
  <2> SUFFICES ASSUME NEW j \in Keys PROVE InDoubt(j, d)'
    BY DEF DoubtsAreSound, Consistent
  <2>1. CASE j # k
    BY <2>1 DEF InDoubt
  <2>2. CASE j = k
    <3>1. OwnsKey(j)' => Owner(a)'
      BY <1>3, <1>4, <2>2 DEF OwnsKey, SessionStep
    <3>2. \A b \in Attempts : Owner(b)' /\ att'[b].key = j => Resolving(b)'
      BY <1>3, <1>4, <2>2 DEF SessionStep
    <3>3. att'[a].at = "done" => ~Owner(a)'
      BY DEF Owner
    <3>4. QED BY <2>2, <3>1, <3>2, <3>3 DEF InDoubt
  <2>3. QED BY <2>1, <2>2
<1>8. CallsAreCounted'
  <2>1. ASSUME NEW b \in Attempts, att'[b].at = "refresh" PROVE modelCalls'[att'[b].key] = 0
    BY <2>1 DEF SettlementInv, CallsAreCounted, SessionStep
  <2>2. QED BY <2>1 DEF SettlementInv, CallsAreCounted
<1>9. AnswersAreTrue'
  BY <1>4 DEF SettlementInv, AnswersAreTrue, AnswerIsTrue, SessionStep
<1>10. QED
  BY <1>5, <1>6, <1>7, <1>8, <1>9 DEF SettlementInv, Consistent

\* A handler that only moves on, or answers truly, keeps the invariant.
LEMMA MoveOn ==
    ASSUME SettlementInv, TypeOK', NEW a \in Attempts, UNCHANGED <<db, indoubt, modelCalls>>,
           \/ \E place \in {"begin", "conflict", "succeed", "fail"} :
                Goto(a, place) /\ (Owner(a) \/ place \in {"begin", "conflict"}) /\ ~Resolving(a)
           \/ \E place \in {"resolve", "cleanup"} : Goto(a, place) /\ Owner(a)
           \/ \E answer \in Answers : Finish(a, answer) /\ (db.user.exists => AnswerIsTrue(a)')
    PROVE  SettlementInv'
<1>1. \A place \in Places : Goto(a, place) =>
        SessionStep(a) /\ att'[a].at = place /\ att'[a].answer = att[a].answer
  BY SessionMoves DEF SettlementInv, Answers
<1>2. \A answer \in Answers : Finish(a, answer) =>
        SessionStep(a) /\ att'[a].at = "done" /\ att'[a].answer = answer
  BY SessionMoves DEF SettlementInv, Places
<1>3. /\ SessionStep(a)
      /\ Owner(a)' => Owner(a)
      /\ Owner(a)' /\ Resolving(a) => Resolving(a)'
      /\ att'[a].at # "refresh"
      /\ db.user.exists => AnswerIsTrue(a)'
  <2>1. ASSUME NEW place \in Places, Goto(a, place) PROVE db.user.exists => AnswerIsTrue(a)'
    <3>1. SessionStep(a) /\ att'[a].answer = att[a].answer
      BY <1>1, <2>1
    <3>2. Row(a)' = Row(a) /\ att'[a].payload = att[a].payload
      BY <3>1 DEF SessionStep, Row
    <3>3. db.user.exists => AnswerIsTrue(a)
      BY DEF SettlementInv, AnswersAreTrue
    <3>4. QED BY <3>1, <3>2, <3>3 DEF AnswerIsTrue
  <2>2. ASSUME NEW place \in {"begin", "conflict", "succeed", "fail"}, Goto(a, place),
               Owner(a) \/ place \in {"begin", "conflict"}, ~Resolving(a)
        PROVE  /\ SessionStep(a) /\ att'[a].at # "refresh"
               /\ Owner(a)' => Owner(a)
               /\ Owner(a)' /\ Resolving(a) => Resolving(a)'
    <3>1. SessionStep(a) /\ att'[a].at = place
      BY <1>1, <2>2 DEF Places
    <3>2. QED BY <2>2, <3>1 DEF Owner
  <2>3. ASSUME NEW place \in {"resolve", "cleanup"}, Goto(a, place), Owner(a)
        PROVE  /\ SessionStep(a) /\ att'[a].at # "refresh"
               /\ Resolving(a)'
    <3>1. SessionStep(a) /\ att'[a].at = place
      BY <1>1, <2>3 DEF Places
    <3>2. QED BY <2>3, <3>1 DEF Resolving
  <2>4. ASSUME NEW answer \in Answers, Finish(a, answer)
        PROVE  SessionStep(a) /\ att'[a].at # "refresh" /\ ~Owner(a)'
    BY <1>2, <2>4 DEF Owner
  <2>5. {"begin", "conflict", "succeed", "fail", "resolve", "cleanup"} \subseteq Places
    BY DEF Places
  <2>6. QED BY <2>1, <2>2, <2>3, <2>4, <2>5
<1>4. CallsAreCounted'
  BY <1>3 DEF SettlementInv, CallsAreCounted, SessionStep
<1>5. QED BY <1>3, <1>4, ReadOnlyStep

\* An answer that claims nothing about the row is true.
LEMMA NoClaim ==
    ASSUME SettlementInv, NEW a \in Attempts,
           NEW answer \in {"in_progress", "quota_exceeded", "finalize_failed",
                           "unrecoverable", "error"},
           Finish(a, answer)
    PROVE  AnswerIsTrue(a)'
BY SessionMoves DEF SettlementInv, AnswerIsTrue, Answers, Places

\* Answering from a stored row is true: the row is there, and it says so.
LEMMA AnswerFromRow ==
    ASSUME SettlementInv, NEW a \in Attempts, UNCHANGED db, Row(a) # Absent,
           Finish(a, ExistingAnswer(Row(a), att[a].payload))
    PROVE  AnswerIsTrue(a)'
<1> DEFINE answer == ExistingAnswer(Row(a), att[a].payload)
<1>1. answer \in Answers
  BY DEF ExistingAnswer, Answers
<1>2. att'[a].answer = answer /\ SessionStep(a)
  BY <1>1, SessionMoves DEF SettlementInv, Places
<1>3. Row(a)' = Row(a) /\ att'[a].payload = att[a].payload
  BY <1>2 DEF SessionStep, Row
<1>4. Row(a).status \in {"processing", "succeeded", "failed"}
  BY DEF SettlementInv, TypeOK, Consistent, Databases, Rows, Statuses, Sessions, Row
<1>5. QED BY <1>2, <1>3, <1>4 DEF AnswerIsTrue, ExistingAnswer

\* Tx1 and its refusals
LEMMA BeginSettles ==
    ASSUME SettlementInv, TypeOK', NEW a \in Attempts, Begin(a)
    PROVE  SettlementInv'
<1> DEFINE k == att[a].key
<1>1. /\ TypeOK /\ k \in Keys /\ att[a] \in Sessions /\ indoubt = {} /\ db \in Databases
      /\ att[a].at = "begin" /\ ~Owner(a) /\ UNCHANGED modelCalls
      /\ Row(a) = db.requests[k]
  BY DEF SettlementInv, TypeOK, Sessions, Begin, Unlocked, Owner, Row
<1>2. CASE NoCommit
  <2>1. \/ Goto(a, "conflict")
        \/ Finish(a, "error") \/ Finish(a, "quota_exceeded")
        \/ Goto(a, "refresh") /\ db' = Reserved(a) /\ db.user.exists /\ Row(a) = Absent
    BY <1>2, ExecutorAssumption DEF Begin, Submit, NoCommit, TypeOK
  <2>2. ~(Goto(a, "refresh") /\ db' = Reserved(a) /\ Row(a) = Absent)
    BY <1>1, <1>2, WrittenByTx1 DEF NoCommit, Absent
  <2>3. QED BY <1>1, <1>2, <2>1, <2>2, MoveOn, NoClaim DEF NoCommit, Answers, Resolving
<1>3. CASE /\ db.user.exists /\ Row(a) = Absent
           /\ Submit(Reserved(a), Goto(a, "refresh"), Finish(a, "error"))
  <2>1. PICK d \in Databases : d = Reserved(a)
    BY <1>1, CommitTypes DEF Sessions
  <2>2. /\ d.user.exists /\ d.generations = db.generations
        /\ d.requests[k].status = "processing" /\ d.requests[k].payload = att[a].payload
        /\ \A j \in Keys \ {k} : d.requests[j] = db.requests[j]
    BY <1>1, <1>3, <2>1, WrittenByTx1
  <2>3. Consistent(d)
    <3>1. db.requests[k].status = "absent"
      BY <1>1, <1>3 DEF Absent
    <3>2. QED BY <1>1, <2>2, <3>1 DEF SettlementInv, Consistent
  <2>4. CASE db' = d /\ Goto(a, "refresh") /\ UNCHANGED indoubt
    <3>1. SessionStep(a) /\ att'[a].at = "refresh" /\ att'[a].answer = att[a].answer
      BY <1>1, <2>4, SessionMoves DEF Places, Answers
    <3>2. AnswerIsTrue(a)
      BY <1>3 DEF SettlementInv, AnswersAreTrue
    <3>3. Consistent(db')
      BY <2>3, <2>4
    <3>4. QED BY <1>1, <1>3, <2>2, <2>4, <3>1, <3>2, <3>3, CommittedStep
  <2>5. CASE indoubt' = {d} /\ Finish(a, "error") /\ UNCHANGED db
    <3>1. SessionStep(a) /\ att'[a].at = "done"
      BY <1>1, <2>5, SessionMoves DEF Places, Answers
    <3>2. AnswerIsTrue(a)'
      BY <2>5, NoClaim
    <3>3. QED BY <1>1, <1>3, <2>2, <2>3, <2>5, <3>1, <3>2, DoubtfulStep
  <2>6. QED BY <1>3, <2>1, <2>4, <2>5 DEF Submit
<1>4. QED BY <1>2, <1>3 DEF Begin

\* Settling a processing row takes a consistent database to a consistent one.
LEMMA SettledIsConsistent ==
    ASSUME TypeOK, NEW a \in Attempts, NEW d, db.user.exists,
           Consistent(db), db.requests[att[a].key].status = "processing",
           \/ d = Succeeded(a)
           \/ \E loaded \in Users : d = Failed(a, loaded)
    PROVE  /\ Consistent(d) /\ d.user.exists
           /\ \A j \in Keys \ {att[a].key} : d.requests[j] = db.requests[j]
           /\ d.requests[att[a].key].payload = db.requests[att[a].key].payload
<1>1. att[a].key \in Keys
  BY DEF TypeOK, Sessions
<1>2. CASE d = Succeeded(a)
  <2>1. /\ d.user.exists
        /\ d.generations[att[a].key] = 1 /\ d.requests[att[a].key].status = "succeeded"
        /\ d.requests[att[a].key].payload = db.requests[att[a].key].payload
        /\ \A j \in Keys \ {att[a].key} : /\ d.requests[j] = db.requests[j]
                                         /\ d.generations[j] = db.generations[j]
    <3>1. db.generations[att[a].key] = 0
      BY <1>1 DEF Consistent
    <3>2. d.generations[att[a].key] = db.generations[att[a].key] + 1
      BY <1>2, WrittenByTx2
    <3>3. d.generations[att[a].key] = 1
      BY <3>1, <3>2
    <3>4. QED BY <1>2, <3>3, WrittenByTx2
  <2>2. Consistent(d)
    BY <1>1, <2>1 DEF Consistent
  <2>3. QED BY <2>1, <2>2
<1>3. ASSUME NEW loaded \in Users, d = Failed(a, loaded)
      PROVE  /\ Consistent(d) /\ d.user.exists
             /\ \A j \in Keys \ {att[a].key} : d.requests[j] = db.requests[j]
             /\ d.requests[att[a].key].payload = db.requests[att[a].key].payload
  <2>1. /\ d.user.exists
        /\ d.generations = db.generations /\ d.requests[att[a].key].status = "failed"
        /\ d.requests[att[a].key].payload = db.requests[att[a].key].payload
        /\ \A j \in Keys \ {att[a].key} : d.requests[j] = db.requests[j]
    <3>1. /\ Failed(a, loaded).user.exists = db.user.exists
          /\ Failed(a, loaded).generations = db.generations
          /\ Failed(a, loaded).requests[att[a].key].status = "failed"
          /\ Failed(a, loaded).requests[att[a].key].payload = db.requests[att[a].key].payload
          /\ \A j \in Keys \ {att[a].key} : Failed(a, loaded).requests[j] = db.requests[j]
      BY WrittenByFailure, Zenon
    <3>2. QED BY <1>3, <3>1, Zenon
  <2>2. Consistent(d)
    <3>1. d.generations[att[a].key] = 0
      BY <1>1, <2>1 DEF Consistent
    <3>2. ASSUME NEW j \in Keys \ {att[a].key}
          PROVE  /\ d.generations[j] = (IF d.requests[j].status = "succeeded" THEN 1 ELSE 0)
                 /\ d.requests[j].status = "absent" => d.requests[j] = Absent
      <4>1. d.requests[j] = db.requests[j] /\ d.generations[j] = db.generations[j]
        BY <2>1
      <4>2. QED BY <4>1 DEF Consistent
    <3>3. QED BY <2>1, <3>1, <3>2 DEF Consistent
  <2>3. QED BY <2>1, <2>2
<1>4. QED BY <1>2, <1>3

\* The owner of a row finds it as it left it.
LEMMA OwnersRow ==
    ASSUME SettlementInv, NEW a \in Attempts, Owner(a), db.user.exists
    PROVE  /\ Row(a) = db.requests[att[a].key]
           /\ Row(a).payload = att[a].payload
           /\ Row(a).status = "processing" \/ (Row(a).status = "succeeded" /\ Resolving(a))
BY DEF SettlementInv, OwnersHaveRows, Row

\* A failure is settled once.
LEMMA FailureSettles ==
    ASSUME SettlementInv, TypeOK', NEW a \in Attempts, Owner(a), indoubt = {},
           UNCHANGED modelCalls, db.user.exists, Row(a).status = "processing",
           NEW loaded \in Users, NEW told \in Answers, NEW raised \in Answers,
           told \in {"model_failed", "finalize_failed"},
           raised \in {"error", "finalize_failed"},
           \/ db' = Failed(a, loaded) /\ Finish(a, told) /\ UNCHANGED indoubt
           \/ indoubt' = {Failed(a, loaded)} /\ Finish(a, raised) /\ UNCHANGED db
    PROVE  SettlementInv'
<1> DEFINE k == att[a].key
<1>1. TypeOK /\ Consistent(db) /\ k \in Keys /\ Row(a) = db.requests[k]
  BY DEF SettlementInv, TypeOK, Sessions, Row
<1>2. PICK d : d = Failed(a, loaded)
  OBVIOUS
<1>3. /\ Consistent(d) /\ d.user.exists /\ d.requests[k].status = "failed"
      /\ \A j \in Keys \ {k} : d.requests[j] = db.requests[j]
      /\ d.requests[k].payload = db.requests[k].payload
  <2>1. Consistent(Failed(a, loaded))
    BY <1>1, SettledIsConsistent
  <2>2. QED BY <1>1, <1>2, <2>1, WrittenByFailure
<1>4. CASE db' = d /\ Finish(a, told) /\ UNCHANGED indoubt
  <2>1. SessionStep(a) /\ att'[a].at = "done" /\ att'[a].answer = told
    BY <1>1, <1>4, SessionMoves DEF Places
  <2>2. AnswerIsTrue(a)'
    BY <1>1, <1>3, <1>4, <2>1, OwnersRow DEF AnswerIsTrue, Row, SessionStep
  <2>3. Consistent(db')
    BY <1>3, <1>4
  <2>4. QED BY <1>1, <1>3, <1>4, <2>1, <2>2, <2>3, CommittedStep
<1>5. CASE indoubt' = {d} /\ Finish(a, raised) /\ UNCHANGED db
  <2>1. SessionStep(a) /\ att'[a].at = "done"
    BY <1>1, <1>5, SessionMoves DEF Places
  <2>2. AnswerIsTrue(a)'
    BY <1>5, NoClaim
  <2>3. QED BY <1>1, <1>3, <1>5, <2>1, <2>2, DoubtfulStep
<1>6. QED BY <1>2, <1>4, <1>5

\* Tx2 settles the owner's row once, or leaves its owner finding out.
LEMMA SuccessSettles ==
    ASSUME SettlementInv, TypeOK', NEW a \in Attempts, FinalizeSuccess(a)
    PROVE  SettlementInv'
<1> DEFINE k == att[a].key
<1>1. /\ TypeOK /\ Consistent(db) /\ k \in Keys /\ Row(a) = db.requests[k]
      /\ Owner(a) /\ ~Resolving(a) /\ indoubt = {} /\ UNCHANGED modelCalls
  BY DEF SettlementInv, TypeOK, Sessions, Row, FinalizeSuccess, Unlocked, Owner, Resolving
<1>2. CASE Goto(a, "resolve") /\ NoCommit
  BY <1>1, <1>2, MoveOn DEF NoCommit
<1>3. CASE db.user.exists /\ Submit(Succeeded(a), Finish(a, "payload"), Goto(a, "resolve"))
  <2>1. PICK d : d = Succeeded(a)
    OBVIOUS
  <2>2. Row(a).status = "processing" /\ Row(a).payload = att[a].payload
    BY <1>1, <1>3, OwnersRow
  <2>3. /\ Consistent(d) /\ d.user.exists /\ d.requests[k].status = "succeeded"
        /\ \A j \in Keys \ {k} : d.requests[j] = db.requests[j]
        /\ d.requests[k].payload = db.requests[k].payload
    BY <1>1, <1>3, <2>1, <2>2, SettledIsConsistent, WrittenByTx2
  <2>4. CASE db' = d /\ Finish(a, "payload") /\ UNCHANGED indoubt
    <3>1. SessionStep(a) /\ att'[a].at = "done" /\ att'[a].answer = "payload"
      BY <1>1, <2>4, SessionMoves DEF Places, Answers
    <3>2. AnswerIsTrue(a)'
      BY <1>1, <2>2, <2>3, <2>4, <3>1 DEF AnswerIsTrue, Row, SessionStep
    <3>3. Consistent(db')
      BY <2>3, <2>4
    <3>4. QED BY <1>1, <1>3, <2>2, <2>3, <2>4, <3>1, <3>2, <3>3, CommittedStep
  <2>5. CASE indoubt' = {d} /\ Goto(a, "resolve") /\ UNCHANGED db
    <3>1. SessionStep(a) /\ att'[a].at = "resolve" /\ att'[a].answer = att[a].answer
      BY <1>1, <2>5, SessionMoves DEF Places, Answers
    <3>2. AnswerIsTrue(a)'
      BY <1>3, <2>5, <3>1 DEF SettlementInv, AnswersAreTrue, AnswerIsTrue, Row, SessionStep
    <3>3. QED BY <1>1, <1>3, <2>2, <2>3, <2>5, <3>1, <3>2, DoubtfulStep
  <2>6. QED BY <1>3, <2>1, <2>4, <2>5 DEF Submit
<1>4. QED BY <1>2, <1>3 DEF FinalizeSuccess

\* Every step of a handler keeps the settlement invariant.
LEMMA WorkSettles ==
    ASSUME SettlementInv, TypeOK', NEW a \in Attempts, Work(a)
    PROVE  SettlementInv'
<1>1. TypeOK /\ att[a] \in Sessions /\ db \in Databases /\ db.user \in Users /\ att[a].user \in Users
  BY DEF SettlementInv, TypeOK, Sessions, Databases
<1>2. \A row, payload : ExistingAnswer(row, payload) \in Answers
  BY DEF ExistingAnswer, Answers
<1>3. CASE LookUp(a)
  <2>1. ~Resolving(a) /\ UNCHANGED <<db, indoubt, modelCalls>>
    BY <1>3 DEF LookUp, Resolving
  <2>2. CASE Row(a) = Absent
    BY <1>3, <2>1, <2>2, MoveOn DEF LookUp
  <2>3. CASE Row(a) # Absent
    BY <1>2, <1>3, <2>1, <2>3, MoveOn, AnswerFromRow DEF LookUp
  <2>4. QED BY <2>2, <2>3
<1>4. CASE Begin(a)
  BY <1>4, BeginSettles
<1>5. CASE Conflict(a)
  <2>1. UNCHANGED <<db, indoubt, modelCalls>>
    BY <1>5 DEF Conflict
  <2>2. CASE Row(a) = Absent
    BY <1>5, <2>1, <2>2, MoveOn, NoClaim DEF Conflict, Answers
  <2>3. CASE Row(a) # Absent
    BY <1>2, <1>5, <2>1, <2>3, MoveOn, AnswerFromRow DEF Conflict
  <2>4. QED BY <2>2, <2>3
<1>6. CASE Refresh(a)
  <2>1. UNCHANGED <<db, indoubt>> /\ att[a].at = "refresh"
    BY <1>6 DEF Refresh
  <2>2. CASE ~db.user.exists
    BY <1>6, <2>1, <2>2, MoveOn, NoClaim DEF Refresh, Answers
  <2>3. CASE db.user.exists
    <3>1. att' = [att EXCEPT ![a] = [att[a] EXCEPT !.at = "model", !.user = db.user]]
      BY <1>1, <1>6, <2>3 DEF Refresh, TypeOK
    <3>2. SessionStep(a) /\ att'[a].at = "model" /\ att'[a].answer = att[a].answer
      BY <1>1, <3>1 DEF TypeOK, Sessions, SessionStep
    <3>3. AnswerIsTrue(a)'
      BY <2>1, <2>3, <3>2 DEF SettlementInv, AnswersAreTrue, AnswerIsTrue, Row, SessionStep
    <3>4. Row(a) = db.requests[att[a].key] /\ Row(a).status = "processing"
      BY <2>1, <2>3, OwnersRow DEF Owner, Resolving
    <3>5. CallsAreCounted'
      <4>1. modelCalls' = [modelCalls EXCEPT ![att[a].key] = @ + 1]
        BY <1>6, <2>3 DEF Refresh
      <4>2. /\ modelCalls \in [Keys -> Nat] /\ att[a].key \in Keys
            /\ modelCalls[att[a].key] = 0 /\ db.requests[att[a].key] # Absent
        BY <1>1, <2>1, <3>4 DEF SettlementInv, CallsAreCounted, TypeOK, Sessions, Absent
      <4>3. modelCalls'[att[a].key] = 1
            /\ \A k \in Keys \ {att[a].key} : modelCalls'[k] = modelCalls[k]
        BY <4>1, <4>2
      <4>4. ASSUME NEW b \in Attempts, att'[b].at = "refresh" PROVE modelCalls'[att'[b].key] = 0
        <5>1. b # a /\ att'[b] = att[b] /\ att[b].key \in Keys
          BY <1>1, <3>2, <4>4 DEF SessionStep, TypeOK, Sessions
        <5>2. att[b].key # att[a].key
          BY <2>1, <4>4, <5>1 DEF SettlementInv, OneOwnerPerKey, Owner
        <5>3. QED BY <4>3, <4>4, <5>1, <5>2 DEF SettlementInv, CallsAreCounted
      <4>5. QED BY <2>1, <4>2, <4>3, <4>4 DEF SettlementInv, CallsAreCounted
    <3>6. QED BY <2>1, <3>2, <3>3, <3>5, ReadOnlyStep DEF Owner, Resolving
  <2>4. QED BY <2>2, <2>3
<1>7. CASE ModelAnswers(a)
  <2>1. PICK tokens \in Consumptions :
          att' = [att EXCEPT ![a] = [att[a] EXCEPT !.at = "succeed", !.usage = tokens]]
    BY <1>1, <1>7 DEF ModelAnswers, TypeOK
  <2>2. SessionStep(a) /\ att'[a].at = "succeed" /\ att'[a].answer = att[a].answer
    BY <1>1, <2>1 DEF TypeOK, Sessions, SessionStep
  <2>3. UNCHANGED <<db, indoubt, modelCalls>> /\ att[a].at = "model"
    BY <1>7 DEF ModelAnswers
  <2>4. db.user.exists => AnswerIsTrue(a)'
    BY <2>2, <2>3 DEF SettlementInv, AnswersAreTrue, AnswerIsTrue, Row, SessionStep
  <2>5. CallsAreCounted'
    BY <2>2, <2>3 DEF SettlementInv, CallsAreCounted, SessionStep
  <2>6. QED BY <2>2, <2>3, <2>4, <2>5, ReadOnlyStep DEF Owner, Resolving
<1>8. CASE ModelFails(a)
  BY <1>8, MoveOn DEF ModelFails, Owner, Resolving
<1>9. CASE FinalizeFailure(a)
  <2>1. Owner(a) /\ ~Resolving(a) /\ indoubt = {} /\ UNCHANGED modelCalls
    BY <1>9 DEF FinalizeFailure, Unlocked, Owner, Resolving
  <2>2. CASE Finish(a, "error") /\ NoCommit
    BY <2>1, <2>2, MoveOn, NoClaim DEF NoCommit, Answers
  <2>3. CASE db.user.exists /\ Submit(Failed(a, att[a].user), Finish(a, "model_failed"), Finish(a, "error"))
    <3>1. Row(a).status = "processing"
      BY <2>1, <2>3, OwnersRow
    <3>2. QED BY <1>1, <2>1, <2>3, <3>1, FailureSettles DEF Submit, Answers
  <2>4. QED BY <1>9, <2>2, <2>3 DEF FinalizeFailure
<1>10. CASE FinalizeSuccess(a)
  BY <1>10, SuccessSettles
<1>11. CASE Resolve(a)
  <2>1. Owner(a) /\ Resolving(a) /\ UNCHANGED <<db, indoubt, modelCalls>>
    BY <1>11 DEF Resolve, Owner, Resolving
  <2>2. Row(a).status \in Statuses
    BY <1>1 DEF Row, Sessions, Databases, Rows
  <2>3. CASE Goto(a, "cleanup") \/ Finish(a, "unrecoverable")
    BY <2>1, <2>3, MoveOn, NoClaim DEF Answers
  <2>4. CASE Finish(a, "payload") /\ Row(a).status = "succeeded"
    <3>1. db.user.exists => AnswerIsTrue(a)'
      BY <1>1, <2>1, <2>4, OwnersRow, SessionMoves DEF AnswerIsTrue, Row, SessionStep, Answers, Places
    <3>2. QED BY <2>1, <2>4, <3>1, MoveOn DEF Answers
  <2>5. CASE Finish(a, "previously_failed") /\ Row(a).status = "failed"
    <3>1. db.user.exists => AnswerIsTrue(a)'
      BY <2>1, <2>5, OwnersRow
    <3>2. QED BY <2>1, <2>5, <3>1, MoveOn DEF Answers
  <2>6. QED BY <1>11, <2>2, <2>3, <2>4, <2>5 DEF Resolve, Statuses
<1>12. CASE Cleanup(a)
  <2>1. Owner(a) /\ indoubt = {} /\ UNCHANGED modelCalls /\ Finish(a, "finalize_failed")
    BY <1>12 DEF Cleanup, Unlocked, Owner
  <2>2. CASE NoCommit
    BY <2>1, <2>2, MoveOn, NoClaim DEF NoCommit, Answers
  <2>3. CASE Row(a).status = "processing" /\ Submit(Failed(a, db.user), TRUE, TRUE)
    <3>1. Row(a) # Absent /\ Row(a) = db.requests[att[a].key] /\ att[a].key \in Keys
      BY <1>1, <2>3 DEF Absent, Row, Sessions
    <3>2. db.user.exists
      BY <3>1 DEF SettlementInv, Consistent
    <3>3. QED BY <1>1, <2>1, <2>3, <3>2, FailureSettles DEF Submit, Answers
  <2>4. QED BY <1>12, <2>2, <2>3 DEF Cleanup
<1>13. QED
  BY <1>3, <1>4, <1>5, <1>6, <1>7, <1>8, <1>9, <1>10, <1>11, <1>12 DEF Work

\* Loading the user, or finding none, keeps the settlement invariant.
LEMMA LoadSettles ==
    ASSUME SettlementInv, TypeOK', NEW a \in Attempts, Load(a)
    PROVE  SettlementInv'
<1>1. UNCHANGED <<db, indoubt, modelCalls>> /\ att[a].at = "new"
  BY DEF Load
<1>2. CASE ~db.user.exists
  BY <1>1, <1>2, MoveOn DEF Load, Answers
<1>3. CASE db.user.exists
  <2>1. att' = [att EXCEPT ![a] = [att[a] EXCEPT !.at = "loaded", !.user = db.user]]
    BY <1>3 DEF Load, SettlementInv, TypeOK
  <2>2. SessionStep(a) /\ att'[a].at = "loaded" /\ att'[a].answer = att[a].answer
    BY <2>1 DEF SettlementInv, TypeOK, Sessions, SessionStep
  <2>3. AnswerIsTrue(a)'
    BY <1>1, <1>3, <2>2 DEF SettlementInv, AnswersAreTrue, AnswerIsTrue, Row, SessionStep
  <2>4. CallsAreCounted'
    BY <1>1, <2>2 DEF SettlementInv, CallsAreCounted, SessionStep
  <2>5. QED BY <1>1, <2>2, <2>3, <2>4, ReadOnlyStep DEF Owner, Resolving
<1>4. QED BY <1>2, <1>3

\* A worker that dies gives up its request and answers nothing.
LEMMA CrashSettles ==
    ASSUME SettlementInv, TypeOK', NEW a \in Attempts, Crash(a)
    PROVE  SettlementInv'
<1>1. att' = [att EXCEPT ![a] = [att[a] EXCEPT !.at = "dead", !.user = NewUser, !.usage = 0]]
  BY DEF Crash, SettlementInv, TypeOK
<1>2. SessionStep(a) /\ att'[a].at = "dead" /\ att'[a].answer = att[a].answer
  BY <1>1 DEF SettlementInv, TypeOK, Sessions, SessionStep
<1>3. UNCHANGED <<db, indoubt, modelCalls>>
  BY DEF Crash
<1>4. db.user.exists => AnswerIsTrue(a)'
  BY <1>2, <1>3 DEF SettlementInv, AnswersAreTrue, AnswerIsTrue, Row, SessionStep
<1>5. CallsAreCounted'
  BY <1>2, <1>3 DEF SettlementInv, CallsAreCounted, SessionStep
<1>6. QED BY <1>2, <1>3, <1>4, <1>5, ReadOnlyStep DEF Owner, Resolving

\* However the server decides a commit in doubt, the invariant holds: nobody who
\* could settle the request again still owns it.
LEMMA DecideSettles ==
    ASSUME SettlementInv, TypeOK', Decide
    PROVE  SettlementInv'
<1>1. /\ indoubt' = {} /\ UNCHANGED <<att, modelCalls>> /\ TypeOK
      /\ \A a \in Attempts : att[a].key \in Keys
  BY DEF Decide, SettlementInv, TypeOK, Sessions
<1>2. PICK d \in indoubt : db' = d \/ db' = db
  BY DEF Decide
<1>3. /\ db.user.exists /\ d.user.exists /\ Consistent(d) /\ Consistent(db)
      /\ \A k \in Keys : InDoubt(k, d)
  BY <1>2 DEF SettlementInv, DoubtsAreSound
<1>4. Absent.status = "absent"
  BY DEF Absent
<1>5. Consistent(db')
  BY <1>2, <1>3 DEF Consistent
<1>6. db'.user.exists
  BY <1>2, <1>3
<1>7. RowsMoveForward
  BY <1>2, <1>3 DEF RowsMoveForward, InDoubt
<1>8. OwnersHaveRows'
  <2> SUFFICES ASSUME NEW a \in Attempts, Owner(a)
               PROVE  /\ Row(a)'.payload = att[a].payload
                      /\ \/ Row(a)'.status = "processing"
                         \/ Row(a)'.status = "succeeded" /\ Resolving(a)
    BY <1>1 DEF OwnersHaveRows, Owner, Resolving
  <2>1. /\ Row(a).payload = att[a].payload
        /\ \/ Row(a).status = "processing"
           \/ Row(a).status = "succeeded" /\ Resolving(a)
        /\ Row(a) = db.requests[att[a].key] /\ Row(a)' = db'.requests[att[a].key]
    BY <1>1, <1>3 DEF SettlementInv, OwnersHaveRows, Row
  <2>2. OwnsKey(att[a].key) /\ InDoubt(att[a].key, d)
    BY <1>1, <1>3 DEF OwnsKey
  <2>3. QED BY <1>2, <1>4, <2>1, <2>2 DEF InDoubt
<1>9. OneOwnerPerKey'
  BY <1>1 DEF SettlementInv, OneOwnerPerKey, Owner
<1>10. DoubtsAreSound'
  BY <1>1 DEF DoubtsAreSound
<1>11. CallsAreCounted'
  <2>1. \A k \in Keys : db'.requests[k] = Absent => db.requests[k] = Absent
    BY <1>4, <1>7 DEF RowsMoveForward
  <2>2. QED BY <1>1, <1>3, <2>1 DEF SettlementInv, CallsAreCounted
<1>12. AnswersAreTrue'
  <2>1. ASSUME NEW a \in Attempts PROVE AnswerIsTrue(a)'
    BY <1>1, <1>3, <1>7, AnswersStayTrue DEF SettlementInv, AnswersAreTrue
  <2>2. QED BY <2>1 DEF AnswersAreTrue
<1>13. QED
  BY <1>5, <1>8, <1>9, <1>10, <1>11, <1>12 DEF SettlementInv, Consistent

\* The settlement invariant holds in every reachable state.
THEOREM SettlementIsInvariant == Spec => []SettlementInv
<1>1. Init => SettlementInv
  <2> SUFFICES ASSUME Init PROVE SettlementInv
    OBVIOUS
  <2>1. TypeOK
    BY InitTypes
  <2>2. /\ \A k \in Keys : /\ db.requests[k] = Absent /\ db.generations[k] = 0
                           /\ modelCalls[k] = 0
        /\ indoubt = {}
    BY DEF Init
  <2>3. \A a \in Attempts : att[a].at = "new" /\ att[a].answer = "none" /\ att[a].key \in Keys
    BY DEF Init
  <2>4. Consistent(db)
    BY <2>2 DEF Consistent, Absent
  <2>5. OwnersHaveRows /\ OneOwnerPerKey
    BY <2>3 DEF OwnersHaveRows, OneOwnerPerKey, Owner
  <2>6. DoubtsAreSound
    BY <2>2 DEF DoubtsAreSound
  <2>7. CallsAreCounted
    BY <2>2, <2>3 DEF CallsAreCounted
  <2>8. AnswersAreTrue
    BY <2>3 DEF AnswersAreTrue, AnswerIsTrue
  <2>9. QED BY <2>1, <2>4, <2>5, <2>6, <2>7, <2>8 DEF SettlementInv
<1>2. SettlementInv /\ [Next]_vars => SettlementInv'
  <2> SUFFICES ASSUME SettlementInv, [Next]_vars PROVE SettlementInv'
    OBVIOUS
  <2>1. TypeOK'
    BY NextTypes DEF SettlementInv
  <2>2. ASSUME NEW a \in Attempts, Load(a) PROVE SettlementInv'
    BY <2>1, <2>2, LoadSettles
  <2>3. ASSUME NEW a \in Attempts, Work(a) PROVE SettlementInv'
    BY <2>1, <2>3, WorkSettles
  <2>4. ASSUME NEW a \in Attempts, Crash(a) PROVE SettlementInv'
    BY <2>1, <2>4, CrashSettles
  <2>5. CASE Decide
    BY <2>1, <2>5, DecideSettles
  <2>6. CASE DeleteUser
    <3>1. /\ ~db'.user.exists /\ indoubt' = {} /\ UNCHANGED <<att, modelCalls>>
          /\ \A k \in Keys : db'.requests[k] = Absent /\ db'.generations[k] = 0
      BY <2>6 DEF DeleteUser, Unlocked, NoUser
    <3>2. Consistent(db') /\ OwnersHaveRows' /\ DoubtsAreSound' /\ AnswersAreTrue'
      BY <3>1 DEF Consistent, Absent, OwnersHaveRows, DoubtsAreSound, AnswersAreTrue
    <3>3. OneOwnerPerKey' /\ CallsAreCounted'
      BY <3>1 DEF SettlementInv, OneOwnerPerKey, Owner, CallsAreCounted
    <3>4. QED BY <2>1, <3>2, <3>3 DEF SettlementInv, Consistent
  <2>7. CASE UNCHANGED <<db, indoubt, att, modelCalls>>
    BY <2>1, <2>7
    DEF SettlementInv, Consistent, OwnersHaveRows, OneOwnerPerKey, DoubtsAreSound, InDoubt,
        OwnsKey, CallsAreCounted, AnswersAreTrue, AnswerIsTrue, Owner, Resolving, Row
  <2>8. QED BY <2>2, <2>3, <2>4, <2>5, <2>6, <2>7 DEF Next, Tick, vars
<1>3. QED BY <1>1, <1>2, PTL DEF Spec

---------------------------------------------------------------------------
(* What follows from it                                                     *)

\* A generation is saved exactly once for a key whose request succeeded, and
\* never for another: SavedIffSucceeded, for any number of faults.
THEOREM SavedOnce == Spec => []SavedIffSucceeded
<1>1. SettlementInv => SavedIffSucceeded
  BY DEF SettlementInv, Consistent, SavedIffSucceeded
<1>2. QED BY <1>1, SettlementIsInvariant, PTL

\* The model is called at most once per key, for any number of attempts that
\* share it: ModelCalledOncePerKey.
THEOREM CalledOnce == Spec => []ModelCalledOncePerKey
<1>1. SettlementInv => ModelCalledOncePerKey
  BY DEF SettlementInv, CallsAreCounted, ModelCalledOncePerKey
<1>2. QED BY <1>1, SettlementIsInvariant, PTL

\* What a client was told about its key is and stays true: AnswersAreTrue.
THEOREM AnswersHold == Spec => []AnswersAreTrue
<1>1. SettlementInv => AnswersAreTrue
  BY DEF SettlementInv
<1>2. QED BY <1>1, SettlementIsInvariant, PTL

\* A settled row is never written again: SettledForGood.
THEOREM SettledOnce == Spec => SettledForGood
<1>1. SettlementInv /\ [Next]_vars =>
        [\A k \in Keys :
            db.requests[k].status \in {"succeeded", "failed"} /\ db'.user.exists
              => db'.requests[k] = db.requests[k]]_vars
  <2> SUFFICES ASSUME SettlementInv, [Next]_vars, NEW k \in Keys,
                      db.requests[k].status \in {"succeeded", "failed"}, db'.user.exists
               PROVE  db'.requests[k] = db.requests[k]
    OBVIOUS
  <2>1. Absent.status = "absent" /\ TypeOK
    BY DEF Absent, SettlementInv
  <2>2. CASE UNCHANGED db
    BY <2>2
  <2>3. ASSUME NEW a \in Attempts, Row(a).status \in {"absent", "processing"},
               \A j \in Keys \ {att[a].key} : db'.requests[j] = db.requests[j]
        PROVE  db'.requests[k] = db.requests[k]
    BY <2>3 DEF Row
  <2>4. ASSUME NEW a \in Attempts, Begin(a) PROVE db'.requests[k] = db.requests[k]
    BY <2>1, <2>2, <2>3, <2>4, WrittenByTx1 DEF Begin, Submit, NoCommit
  <2>5. ASSUME NEW a \in Attempts, FinalizeFailure(a) PROVE db'.requests[k] = db.requests[k]
    <3>1. Owner(a) /\ ~Resolving(a) /\ att[a].user \in Users
      BY <2>1, <2>5 DEF FinalizeFailure, Owner, Resolving, TypeOK, Sessions
    <3>2. CASE db' = Failed(a, att[a].user) /\ db.user.exists
      <4>1. Row(a).status = "processing"
        BY <3>1, <3>2, OwnersRow
      <4>2. QED BY <2>1, <2>3, <3>1, <3>2, <4>1, WrittenByFailure
    <3>3. QED BY <2>2, <2>5, <3>2 DEF FinalizeFailure, Submit, NoCommit
  <2>6. ASSUME NEW a \in Attempts, FinalizeSuccess(a) PROVE db'.requests[k] = db.requests[k]
    <3>1. Owner(a) /\ ~Resolving(a)
      BY <2>6 DEF FinalizeSuccess, Owner, Resolving
    <3>2. CASE db' = Succeeded(a) /\ db.user.exists
      <4>1. Row(a).status = "processing"
        BY <3>1, <3>2, OwnersRow
      <4>2. QED BY <2>1, <2>3, <3>2, <4>1, WrittenByTx2
    <3>3. QED BY <2>2, <2>6, <3>2 DEF FinalizeSuccess, Submit, NoCommit
  <2>7. ASSUME NEW a \in Attempts, Cleanup(a) PROVE db'.requests[k] = db.requests[k]
    <3>1. CASE db' = Failed(a, db.user) /\ Row(a).status = "processing"
      BY <2>1, <2>3, <3>1, WrittenByFailure DEF TypeOK, Databases
    <3>2. QED BY <2>2, <2>7, <3>1 DEF Cleanup, Submit, NoCommit
  <2>8. CASE Decide
    <3>1. PICK d \in indoubt : db' = d \/ db' = db
      BY <2>8 DEF Decide
    <3>2. InDoubt(k, d)
      BY <3>1 DEF SettlementInv, DoubtsAreSound
    <3>3. QED BY <2>1, <3>1, <3>2 DEF InDoubt
  <2>9. CASE DeleteUser
    BY <2>9 DEF DeleteUser, NoUser
  <2>10. QED
    BY <2>2, <2>4, <2>5, <2>6, <2>7, <2>8, <2>9
    DEF Next, Work, Load, LookUp, Conflict, Refresh, ModelAnswers, ModelFails, Resolve, Crash,
        Tick, vars
<1>2. QED BY <1>1, SettlementIsInvariant, PTL DEF Spec, SettledForGood

---------------------------------------------------------------------------
(* One generation at a time: the ledger                                     *)

Tokens(k, amount) == {k} \X (1..amount)

\* What the escrow holds, and that each token in it is of one request.
LEMMA EscrowTokens ==
    /\ \A d : \A z : z \in Escrow(d) <=>
          \E k \in Keys : /\ d.requests[k].status = "processing"
                         /\ z \in Tokens(k, Reserve[d.requests[k].payload])
    /\ \A k, j, m, n, z : z \in Tokens(k, m) /\ z \in Tokens(j, n) => k = j
<1>1. ASSUME NEW d, NEW z
      PROVE  z \in Escrow(d) <=>
                \E k \in Keys : /\ d.requests[k].status = "processing"
                               /\ z \in Tokens(k, Reserve[d.requests[k].payload])
  <2> DEFINE held(k) == Tokens(k, Reserve[d.requests[k].payload])
             open == {k \in Keys : d.requests[k].status = "processing"}
  <2>1. Escrow(d) = UNION {held(k) : k \in open}
    BY DEF Escrow, Tokens
  <2> HIDE DEF held
  <2>2. z \in UNION {held(k) : k \in open} <=> \E k \in open : z \in held(k)
    OBVIOUS
  <2>3. QED BY <2>1, <2>2 DEF held
<1>2. ASSUME NEW k, NEW j, NEW m, NEW n, NEW z, z \in Tokens(k, m), z \in Tokens(j, n)
      PROVE  k = j
  BY <1>2 DEF Tokens
<1>3. QED BY <1>1, <1>2

\* As many as are held.
LEMMA TokensCounted ==
    ASSUME NEW k, NEW amount \in Nat
    PROVE  IsFiniteSet(Tokens(k, amount)) /\ Cardinality(Tokens(k, amount)) = amount
<1>1. IsFiniteSet(1..amount) /\ Cardinality(1..amount) = amount
  BY FS_Interval
<1>2. IsFiniteSet({k}) /\ Cardinality({k}) = 1
  BY FS_Singleton
<1>3. IsFiniteSet(Tokens(k, amount)) /\ Cardinality(Tokens(k, amount)) = 1 * amount
  <2> DEFINE S == {k}
             T == 1..amount
  <2>1. Tokens(k, amount) = S \X T
    BY DEF Tokens
  <2>2. IsFiniteSet(S) /\ IsFiniteSet(T) /\ Cardinality(S) = 1 /\ Cardinality(T) = amount
    BY <1>1, <1>2
  <2> HIDE DEF S, T
  <2>3. IsFiniteSet(S \X T) /\ Cardinality(S \X T) = Cardinality(S) * Cardinality(T)
    BY <2>2, FS_Product
  <2>4. QED BY <2>1, <2>2, <2>3
<1>4. QED BY <1>3

\* The tokens of an open request are apart from those of the others.
LEMMA EscrowGrows ==
    ASSUME NEW x \in Databases, NEW y \in Databases, NEW k \in Keys,
           x.requests[k].status # "processing", y.requests[k].status = "processing",
           y.requests[k].payload \in Payloads,
           \A j \in Keys \ {k} : y.requests[j] = x.requests[j]
    PROVE  /\ IsFiniteSet(Escrow(x)) <=> IsFiniteSet(Escrow(y))
           /\ IsFiniteSet(Escrow(x)) =>
                /\ Cardinality(Escrow(x)) \in Nat
                /\ Cardinality(Escrow(y)) = Cardinality(Escrow(x)) + Reserve[y.requests[k].payload]
<1> DEFINE amount == Reserve[y.requests[k].payload]
           tokens == Tokens(k, amount)
<1>1. amount \in Nat \ {0}
  BY ExecutorAssumption
<1>2. IsFiniteSet(tokens) /\ Cardinality(tokens) = amount
  BY <1>1, TokensCounted
<1>3. Escrow(y) = Escrow(x) \cup tokens /\ Escrow(x) \cap tokens = {}
  <2>1. \A j \in Keys \ {k} : y.requests[j] = x.requests[j]
    OBVIOUS
  <2>2. \A z : z \in Escrow(y) <=> z \in Escrow(x) \/ z \in tokens
    BY <2>1, EscrowTokens
  <2>3. \A z : z \in Escrow(x) => z \notin tokens
    BY EscrowTokens
  <2>4. QED BY <2>2, <2>3
<1>4. ASSUME IsFiniteSet(Escrow(y)) PROVE IsFiniteSet(Escrow(x))
  BY <1>3, <1>4, FS_Subset
<1>5. ASSUME IsFiniteSet(Escrow(x))
      PROVE  /\ IsFiniteSet(Escrow(y)) /\ Cardinality(Escrow(x)) \in Nat
             /\ Cardinality(Escrow(y)) = Cardinality(Escrow(x)) + amount
  <2>1. Cardinality(Escrow(x)) \in Nat
    BY <1>5, FS_CardinalityType
  <2>2. /\ IsFiniteSet(Escrow(x) \cup tokens)
        /\ Cardinality(Escrow(x) \cup tokens) =
              Cardinality(Escrow(x)) + Cardinality(tokens) - Cardinality(Escrow(x) \cap tokens)
    BY <1>2, <1>5, FS_Union
  <2>3. Cardinality(Escrow(x) \cap tokens) = 0
    BY <1>3, FS_EmptySet
  <2>4. QED BY <1>1, <1>2, <1>3, <2>1, <2>2, <2>3
<1>6. QED BY <1>4, <1>5

\* The books of a database balance.
Balanced(d) == IsFiniteSet(Escrow(d)) /\ d.user.reserved = Cardinality(Escrow(d))

\* How a commit may change the books: an estimate goes into escrow, or comes out.
Holds(x, y, k, p) ==
    /\ x.requests[k] = Absent
    /\ \E used \in {x.user.used} \cup (IF x.user.reserved = 0 THEN {0} ELSE {}) :
         /\ used + x.user.reserved + Reserve[p] <= MonthlyTokens
         /\ y.user.used = used
    /\ y.user.reserved = x.user.reserved + Reserve[p]
    /\ y.requests = [x.requests EXCEPT ![k] =
                       [status |-> "processing", payload |-> p, tokens |-> 0]]

Charges(x, y, k, tokens) ==
    /\ x.requests[k].status = "processing" /\ x.requests[k].payload \in Payloads
    /\ y.user.used = x.user.used + tokens
    /\ y.user.reserved = x.user.reserved - Reserve[x.requests[k].payload]
    /\ y.requests = [x.requests EXCEPT ![k].status = "succeeded", ![k].tokens = tokens]

Releases(x, y, k) ==
    /\ x.requests[k].status = "processing" /\ x.requests[k].payload \in Payloads
    /\ y.user.used = x.user.used
    /\ y.user.reserved = x.user.reserved - Reserve[x.requests[k].payload]
    /\ y.requests = [x.requests EXCEPT ![k].status = "failed"]

Booked(x, y) ==
    /\ x.user.exists /\ y.user.exists
    /\ \/ \E k \in Keys, p \in Payloads : Holds(x, y, k, p)
       \/ \E k \in Keys, tokens \in Consumptions : Charges(x, y, k, tokens)
       \/ \E k \in Keys : Releases(x, y, k)

\* Books that balance still do after a commit.
LEMMA BooksBalance ==
    ASSUME NEW x \in Databases, NEW y \in Databases, Balanced(x), Booked(x, y)
    PROVE  Balanced(y)
<1>1. /\ x.requests \in [Keys -> Rows] /\ y.requests \in [Keys -> Rows]
      /\ x.user.reserved \in Nat /\ y.user.reserved \in Nat
  BY DEF Databases, Users
<1>2. ASSUME NEW k \in Keys, NEW p \in Payloads, Holds(x, y, k, p) PROVE Balanced(y)
  <2>1. /\ x.requests[k].status # "processing"
        /\ y.requests[k].status = "processing" /\ y.requests[k].payload = p
        /\ \A j \in Keys \ {k} : y.requests[j] = x.requests[j]
    BY <1>1, <1>2 DEF Holds, Absent
  <2>2. QED BY <1>1, <1>2, <2>1, EscrowGrows DEF Balanced, Holds
<1>3. ASSUME NEW k \in Keys, x.requests[k].status = "processing",
             x.requests[k].payload \in Payloads, y.requests[k].status # "processing",
             \A j \in Keys \ {k} : y.requests[j] = x.requests[j],
             y.user.reserved = x.user.reserved - Reserve[x.requests[k].payload]
      PROVE  Balanced(y)
  <2>1. Reserve[x.requests[k].payload] \in Nat
    BY <1>3, ExecutorAssumption
  <2>2. /\ IsFiniteSet(Escrow(y)) /\ Cardinality(Escrow(y)) \in Nat
        /\ Cardinality(Escrow(x)) = Cardinality(Escrow(y)) + Reserve[x.requests[k].payload]
    BY <1>3, EscrowGrows DEF Balanced
  <2>3. QED BY <1>1, <1>3, <2>1, <2>2 DEF Balanced
<1>4. ASSUME NEW k \in Keys, NEW tokens \in Consumptions, Charges(x, y, k, tokens)
      PROVE  Balanced(y)
  <2>1. y.requests[k].status = "succeeded" /\ \A j \in Keys \ {k} : y.requests[j] = x.requests[j]
    BY <1>1, <1>4 DEF Charges, Rows
  <2>2. QED BY <1>3, <1>4, <2>1 DEF Charges
<1>5. ASSUME NEW k \in Keys, Releases(x, y, k) PROVE Balanced(y)
  <2>1. y.requests[k].status = "failed" /\ \A j \in Keys \ {k} : y.requests[j] = x.requests[j]
    BY <1>1, <1>5 DEF Releases, Rows
  <2>2. QED BY <1>3, <1>5, <2>1 DEF Releases
<1>6. QED BY <1>2, <1>4, <1>5 DEF Booked

\* In balanced books an open request's estimate is reserved.
LEMMA HeldIsReserved ==
    ASSUME NEW x \in Databases, Balanced(x), NEW k \in Keys,
           x.requests[k].status = "processing", x.requests[k].payload \in Payloads
    PROVE  Reserve[x.requests[k].payload] <= x.user.reserved
<1> DEFINE amount == Reserve[x.requests[k].payload]
           tokens == Tokens(k, amount)
<1>1. amount \in Nat \ {0}
  BY ExecutorAssumption
<1>2. tokens \subseteq Escrow(x)
  BY EscrowTokens
<1>3. Cardinality(tokens) <= Cardinality(Escrow(x))
  BY <1>2, FS_Subset DEF Balanced
<1>4. Cardinality(tokens) = amount
  BY <1>1, TokensCounted
<1>5. QED BY <1>3, <1>4 DEF Balanced

Served(a) == att[a].at \notin {"new", "done", "dead"}

OneServed == \A a, b \in Attempts : Served(a) /\ Served(b) => a = b

\* A handler that is about to write, or reloads its user before it does, has no
\* commit to wait for and knows the committed row.
Fresh(a) ==
    /\ att[a].at \in {"loaded", "begin", "refresh", "model", "succeed", "fail"} => indoubt = {}
    /\ att[a].at \in {"loaded", "begin", "model", "succeed", "fail"} /\ db.user.exists
         => att[a].user = db.user
    /\ att[a].at = "succeed" => att[a].usage \in Consumptions

\* The books balance, and would after a commit in doubt.
SerialInv ==
    /\ SettlementInv
    /\ OneServed
    /\ \A a \in Attempts : Fresh(a)
    /\ Balanced(db)
    /\ \A d \in indoubt : Booked(db, d)

\* From a row that is as it was loaded, a flush writes all of the object.
LEMMA FlushesAll ==
    ASSUME TypeOK, NEW u \in Users, u.exists = db.user.exists
    PROVE  Flush(db.user, u) = u
<1>1. db.user \in Users
  BY DEF TypeOK, Databases
<1>2. \A x, y : Column(x, y, x) = y
  BY DEF Column
<1>3. Flush(db.user, u) = [db.user EXCEPT !.used = u.used, !.reserved = u.reserved, !.reset = u.reset]
  BY <1>1, <1>2 DEF Flush, Users
<1>4. QED BY <1>1, <1>3 DEF Users

\* Tx1 puts its estimate into escrow, on an allowance that it renews only when
\* the escrow is empty.
LEMMA Tx1Books ==
    ASSUME SettlementInv, NEW a \in Attempts, db.user.exists, att[a].user = db.user,
           Fits(MaybeReset(att[a].user), Amount(a)), Row(a) = Absent
    PROVE  Booked(db, Reserved(a))
<1> DEFINE k == att[a].key  p == att[a].payload  u == MaybeReset(db.user)
<1>1. TypeOK /\ k \in Keys /\ p \in Payloads /\ db.user \in Users /\ db \in Databases
  BY DEF SettlementInv, TypeOK, Sessions, Databases
<1>2. Amount(a) = Reserve[p] /\ Reserve[p] \in Nat
  BY <1>1, ExecutorAssumption DEF Amount
<1>3. /\ u \in Users /\ u.exists /\ u.reserved = db.user.reserved
      /\ u.used \in {db.user.used} \cup (IF db.user.reserved = 0 THEN {0} ELSE {})
  BY <1>1, QuotaTypes DEF MaybeReset, Users
<1>4. Hold(u, Reserve[p]) \in Users /\ Hold(u, Reserve[p]).exists
  BY <1>2, <1>3 DEF Hold, Users
<1>5. Reserved(a).user = Hold(u, Reserve[p])
  BY <1>1, <1>2, <1>4, FlushesAll DEF Reserved, Databases
<1>6. /\ Reserved(a).user.exists /\ Reserved(a).user.used = u.used
      /\ Reserved(a).user.reserved = db.user.reserved + Reserve[p]
  BY <1>3, <1>4, <1>5 DEF Hold, Users
<1>7. Reserved(a).requests = [db.requests EXCEPT ![k] =
        [status |-> "processing", payload |-> p, tokens |-> 0]]
  BY <1>1 DEF Reserved, Databases
<1>8. u.used + db.user.reserved + Reserve[p] <= MonthlyTokens
  BY <1>2, <1>3 DEF Fits
<1>9. Holds(db, Reserved(a), k, p)
  BY <1>3, <1>6, <1>7, <1>8 DEF Holds, Row
<1>10. QED BY <1>1, <1>6, <1>9 DEF Booked

\* The end of an open request takes its estimate out of escrow, all of it.
LEMMA SettlementBooks ==
    ASSUME SettlementInv, Balanced(db), NEW a \in Attempts, db.user.exists,
           Row(a).status = "processing", Row(a).payload = att[a].payload
    PROVE  /\ Booked(db, Failed(a, db.user))
           /\ att[a].user = db.user /\ att[a].usage \in Consumptions => Booked(db, Succeeded(a))
<1> DEFINE k == att[a].key  p == att[a].payload  u == MaybeReset(db.user)
<1>1. /\ TypeOK /\ k \in Keys /\ p \in Payloads /\ db.user \in Users /\ db \in Databases
      /\ db.requests[k].status = "processing" /\ db.requests[k].payload = p
  BY DEF SettlementInv, TypeOK, Sessions, Databases, Row
<1>2. Amount(a) = Reserve[p] /\ Reserve[p] \in Nat \ {0}
  BY <1>1, ExecutorAssumption DEF Amount
<1>3. Reserve[p] <= db.user.reserved
  BY <1>1, HeldIsReserved
<1>4. u \in Users /\ u.exists /\ u.reserved = db.user.reserved /\ u.used = db.user.used
  <2>1. u \in Users
    BY <1>1, <1>2, QuotaTypes
  <2>2. db.user.reserved # 0
    BY <1>1, <1>2, <1>3 DEF Users
  <2>3. QED BY <1>1, <2>1, <2>2 DEF MaybeReset, Users
<1>5. /\ Unhold(u, Reserve[p]) \in Users /\ Unhold(u, Reserve[p]).exists
      /\ Unhold(u, Reserve[p]).reserved = db.user.reserved - Reserve[p]
      /\ Unhold(u, Reserve[p]).used = db.user.used
  BY <1>2, <1>3, <1>4 DEF Unhold, Users
<1>6. Booked(db, Failed(a, db.user))
  <2>1. Failed(a, db.user).user = Unhold(u, Reserve[p])
    BY <1>1, <1>2, <1>5, FlushesAll DEF Failed, Databases
  <2>2. Failed(a, db.user).requests = [db.requests EXCEPT ![k].status = "failed"]
    BY <1>1 DEF Failed, Databases
  <2>3. Releases(db, Failed(a, db.user), k)
    BY <1>1, <1>5, <2>1, <2>2 DEF Releases
  <2>4. QED BY <1>1, <1>5, <2>1, <2>3 DEF Booked
<1>7. ASSUME att[a].user = db.user, att[a].usage \in Consumptions
      PROVE  Booked(db, Succeeded(a))
  <2> DEFINE tokens == att[a].usage
  <2>1. tokens \in Nat
    BY <1>7, ExecutorAssumption
  <2>2. /\ Settle(u, Reserve[p], tokens) \in Users /\ Settle(u, Reserve[p], tokens).exists
        /\ Settle(u, Reserve[p], tokens).reserved = db.user.reserved - Reserve[p]
        /\ Settle(u, Reserve[p], tokens).used = db.user.used + tokens
    BY <1>5, <2>1 DEF Settle, Users
  <2>3. Succeeded(a).user = Settle(u, Reserve[p], tokens)
    BY <1>1, <1>2, <1>7, <2>2, FlushesAll DEF Succeeded, Databases
  <2>4. Succeeded(a).requests = [db.requests EXCEPT ![k].status = "succeeded", ![k].tokens = tokens]
    BY <1>1 DEF Succeeded, Databases
  <2>5. Charges(db, Succeeded(a), k, tokens)
    BY <1>1, <2>2, <2>3, <2>4 DEF Charges
  <2>6. QED BY <1>1, <1>7, <2>2, <2>3, <2>5 DEF Booked
<1>8. QED BY <1>6, <1>7

\* A handler that ends or finds out is fresh; one that goes on remembers its user.
LEMMA StaysFresh ==
    ASSUME TypeOK, NEW a \in Attempts,
           \/ \E answer \in Answers : Finish(a, answer)
           \/ \E place \in {"conflict", "resolve", "cleanup"} : Goto(a, place)
           \/ Goto(a, "refresh") /\ indoubt' = {}
           \/ /\ Goto(a, "begin") \/ Goto(a, "fail")
              /\ att[a].at \in {"loaded", "model"} /\ Fresh(a) /\ UNCHANGED <<db, indoubt>>
    PROVE  SessionStep(a) /\ Fresh(a)'
<1>1. \A answer \in Answers : Finish(a, answer) => SessionStep(a) /\ att'[a].at = "done"
  BY SessionMoves DEF Places
<1>2. \A place \in Places : Goto(a, place) =>
        SessionStep(a) /\ att'[a].at = place /\ att'[a].user = att[a].user
  <2>1. att[a] \in Sessions /\ att \in [Attempts -> Sessions]
    BY DEF TypeOK
  <2>2. \A place \in Places : Goto(a, place) => att'[a].user = att[a].user
    BY <2>1 DEF Goto, Sessions
  <2>3. QED BY <2>2, SessionMoves DEF Answers
<1>3. CASE \E answer \in Answers : Finish(a, answer)
  <2>1. SessionStep(a) /\ att'[a].at = "done"
    BY <1>1, <1>3
  <2>2. QED BY <2>1 DEF Fresh
<1>4. CASE \E place \in {"conflict", "resolve", "cleanup"} : Goto(a, place)
  <2>1. SessionStep(a) /\ att'[a].at \in {"conflict", "resolve", "cleanup"}
    BY <1>2, <1>4 DEF Places
  <2>2. QED BY <2>1 DEF Fresh
<1>5. CASE Goto(a, "refresh") /\ indoubt' = {}
  <2>1. SessionStep(a) /\ att'[a].at = "refresh"
    BY <1>2, <1>5 DEF Places
  <2>2. QED BY <1>5, <2>1 DEF Fresh
<1>6. CASE /\ Goto(a, "begin") \/ Goto(a, "fail")
           /\ att[a].at \in {"loaded", "model"} /\ Fresh(a) /\ UNCHANGED <<db, indoubt>>
  <2>1. /\ SessionStep(a) /\ att'[a].at \in {"begin", "fail"}
        /\ att'[a].user = att[a].user
    BY <1>2, <1>6 DEF Places
  <2>2. QED BY <1>6, <2>1 DEF Fresh
<1>7. QED BY <1>3, <1>4, <1>5, <1>6

\* The one handler that is served takes a step.
LEMMA SerialStep ==
    ASSUME SerialInv, SettlementInv', NEW a \in Attempts, Served(a), SessionStep(a), Fresh(a)',
           db' = db \/ Booked(db, db'),
           \A d \in indoubt' : Booked(db', d)
    PROVE  SerialInv'
<1>1. \A b \in Attempts \ {a} : ~Served(b) /\ att'[b] = att[b]
  BY DEF SerialInv, OneServed, SessionStep
<1>2. OneServed'
  BY <1>1 DEF OneServed, Served
<1>3. \A b \in Attempts : Fresh(b)'
  BY <1>1 DEF Fresh, Served
<1>4. Balanced(db')
  BY BooksBalance DEF SerialInv, SettlementInv, TypeOK
<1>5. QED BY <1>2, <1>3, <1>4 DEF SerialInv, Balanced

\* Every step of a handler keeps the books.
LEMMA WorkBooks ==
    ASSUME SerialInv, SettlementInv', NEW a \in Attempts, Work(a)
    PROVE  SerialInv' /\ (db' = db \/ Booked(db, db'))
<1>1. /\ SettlementInv /\ TypeOK /\ Balanced(db) /\ Fresh(a)
      /\ \A d \in indoubt : Booked(db, d)
  BY DEF SerialInv, SettlementInv
<1>2. Served(a)
  BY DEF Work, Served, LookUp, Begin, Conflict, Refresh, ModelAnswers, ModelFails,
         FinalizeFailure, FinalizeSuccess, Resolve, Cleanup
<1>3. \A row, payload : ExistingAnswer(row, payload) \in Answers
  BY DEF ExistingAnswer, Answers
<1>4. SUFFICES /\ SessionStep(a) /\ Fresh(a)'
               /\ db' = db \/ Booked(db, db')
               /\ \A d \in indoubt' : Booked(db', d)
  BY <1>2, SerialStep
<1>5. ASSUME UNCHANGED <<db, indoubt>>, SessionStep(a), Fresh(a)' PROVE <1>4!1
  BY <1>1, <1>5
<1>6. CASE LookUp(a)
  BY <1>1, <1>3, <1>5, <1>6, StaysFresh DEF LookUp
<1>7. CASE Begin(a)
  <2>1. CASE NoCommit
    BY <1>1, <1>5, <1>7, <2>1, StaysFresh DEF Begin, NoCommit, Submit, Unlocked, Answers
  <2>2. CASE /\ db.user.exists /\ Fits(MaybeReset(att[a].user), Amount(a)) /\ Row(a) = Absent
             /\ Submit(Reserved(a), Goto(a, "refresh"), Finish(a, "error"))
    <3>1. indoubt = {} /\ Booked(db, Reserved(a))
      BY <1>1, <1>7, <2>2, Tx1Books DEF Begin, Unlocked, Fresh
    <3>2. QED BY <1>1, <2>2, <3>1, StaysFresh DEF Submit, Answers
  <2>3. QED BY <1>7, <2>1, <2>2 DEF Begin
<1>8. CASE Conflict(a)
  BY <1>1, <1>3, <1>5, <1>8, StaysFresh DEF Conflict, Answers
<1>9. CASE Refresh(a)
  <2>1. CASE db.user.exists
    <3>1. att' = [att EXCEPT ![a] = [att[a] EXCEPT !.at = "model", !.user = db.user]]
      BY <1>9, <2>1 DEF Refresh
    <3>2. SessionStep(a) /\ att'[a].at = "model" /\ att'[a].user = db.user
      BY <1>1, <3>1 DEF TypeOK, Sessions, SessionStep
    <3>3. UNCHANGED <<db, indoubt>> /\ indoubt = {}
      BY <1>1, <1>9 DEF Refresh, Fresh
    <3>4. Fresh(a)'
      BY <3>2, <3>3 DEF Fresh
    <3>5. QED BY <1>5, <3>2, <3>3, <3>4
  <2>2. CASE ~db.user.exists
    BY <1>1, <1>5, <1>9, <2>2, StaysFresh DEF Refresh, Answers
  <2>3. QED BY <2>1, <2>2
<1>10. CASE ModelAnswers(a)
  <2>1. PICK tokens \in Consumptions :
          att' = [att EXCEPT ![a] = [att[a] EXCEPT !.at = "succeed", !.usage = tokens]]
    BY <1>10 DEF ModelAnswers
  <2>2. /\ SessionStep(a) /\ att'[a].at = "succeed" /\ att'[a].user = att[a].user
        /\ att'[a].usage \in Consumptions
    BY <1>1, <2>1 DEF TypeOK, Sessions, SessionStep
  <2>3. UNCHANGED <<db, indoubt>> /\ att[a].at = "model"
    BY <1>10 DEF ModelAnswers
  <2>4. Fresh(a)'
    BY <1>1, <2>2, <2>3 DEF Fresh
  <2>5. QED BY <1>5, <2>2, <2>3, <2>4
<1>11. CASE ModelFails(a)
  BY <1>1, <1>5, <1>11, StaysFresh DEF ModelFails
<1>12. CASE FinalizeFailure(a)
  <2>1. CASE NoCommit
    BY <1>1, <1>5, <1>12, <2>1, StaysFresh DEF FinalizeFailure, NoCommit, Submit, Answers
  <2>2. CASE /\ db.user.exists
             /\ Submit(Failed(a, att[a].user), Finish(a, "model_failed"), Finish(a, "error"))
    <3>1. indoubt = {} /\ att[a].user = db.user /\ Owner(a) /\ ~Resolving(a)
      BY <1>1, <1>12, <2>2 DEF FinalizeFailure, Unlocked, Fresh, Owner, Resolving
    <3>2. Booked(db, Failed(a, db.user))
      BY <1>1, <2>2, <3>1, OwnersRow, SettlementBooks
    <3>3. QED BY <1>1, <2>2, <3>1, <3>2, StaysFresh DEF Submit, Answers
  <2>3. QED BY <1>12, <2>1, <2>2 DEF FinalizeFailure
<1>13. CASE FinalizeSuccess(a)
  <2>1. CASE Goto(a, "resolve") /\ NoCommit
    BY <1>1, <1>5, <2>1, StaysFresh DEF NoCommit
  <2>2. CASE db.user.exists /\ Submit(Succeeded(a), Finish(a, "payload"), Goto(a, "resolve"))
    <3>1. /\ indoubt = {} /\ att[a].user = db.user /\ att[a].usage \in Consumptions
          /\ Owner(a) /\ ~Resolving(a)
      BY <1>1, <1>13, <2>2 DEF FinalizeSuccess, Unlocked, Fresh, Owner, Resolving
    <3>2. Booked(db, Succeeded(a))
      BY <1>1, <2>2, <3>1, OwnersRow, SettlementBooks
    <3>3. QED BY <1>1, <2>2, <3>1, <3>2, StaysFresh DEF Submit, Answers
  <2>3. QED BY <1>13, <2>1, <2>2 DEF FinalizeSuccess
<1>14. CASE Resolve(a)
  <2>1. Row(a).status \in Statuses
    BY <1>1 DEF Row, TypeOK, Sessions, Databases, Rows
  <2>2. QED BY <1>1, <1>5, <1>14, <2>1, StaysFresh DEF Resolve, Statuses, Answers
<1>15. CASE Cleanup(a)
  <2>1. SessionStep(a) /\ Fresh(a)'
    BY <1>1, <1>15, StaysFresh DEF Cleanup, Answers
  <2>2. CASE NoCommit
    BY <1>5, <2>1, <2>2 DEF NoCommit
  <2>3. CASE Row(a).status = "processing" /\ Submit(Failed(a, db.user), TRUE, TRUE)
    <3>1. indoubt = {} /\ Owner(a)
      BY <1>15 DEF Cleanup, Unlocked, Owner
    <3>2. db.user.exists
      BY <1>1, <2>3 DEF SettlementInv, Consistent, Row, Absent, TypeOK, Sessions
    <3>3. Booked(db, Failed(a, db.user))
      BY <1>1, <2>3, <3>1, <3>2, OwnersRow, SettlementBooks
    <3>4. QED BY <2>1, <2>3, <3>1, <3>3 DEF Submit
  <2>4. QED BY <1>15, <2>2, <2>3 DEF Cleanup
<1>16. QED
  BY <1>6, <1>7, <1>8, <1>9, <1>10, <1>11, <1>12, <1>13, <1>14, <1>15 DEF Work

\* While one handler at most is served, every step keeps the books, or closes
\* them with the user.
LEMMA SerialNext ==
    ASSUME ~Overlap, SerialInv, SettlementInv', [Next]_vars
    PROVE  SerialInv' /\ (db' = db \/ Booked(db, db') \/ DeleteUser)
<1>1. /\ SettlementInv /\ TypeOK /\ TypeOK' /\ OneServed /\ Balanced(db)
      /\ \A d \in indoubt : Booked(db, d)
      /\ \A a \in Attempts : Fresh(a)
  BY DEF SerialInv, SettlementInv
<1>2. ASSUME NEW a \in Attempts, Load(a) PROVE SerialInv' /\ db' = db
  <2>1. /\ indoubt = {} /\ UNCHANGED <<db, indoubt>>
        /\ \A b \in Attempts : ~Served(b)
    BY <1>2 DEF Load, Quiet, Unlocked, Served
  <2>2. SessionStep(a) /\ att'[a].at \in {"loaded", "done"}
        /\ (att'[a].at = "loaded" => att'[a].user = db.user)
    <3>1. CASE db.user.exists
      <4>1. att' = [att EXCEPT ![a] = [att[a] EXCEPT !.at = "loaded", !.user = db.user]]
        BY <1>2, <3>1 DEF Load
      <4>2. QED BY <1>1, <4>1 DEF TypeOK, Sessions, SessionStep
    <3>2. CASE ~db.user.exists
      BY <1>1, <1>2, <3>2, SessionMoves DEF Load, Answers, Places
    <3>3. QED BY <3>1, <3>2
  <2>3. OneServed'
    BY <2>1, <2>2 DEF OneServed, Served, SessionStep
  <2>4. ASSUME NEW b \in Attempts PROVE Fresh(b)'
    <3>1. CASE b = a
      BY <2>1, <2>2, <3>1 DEF Fresh
    <3>2. CASE b # a
      BY <2>1, <2>2, <3>2 DEF Fresh, Served, SessionStep
    <3>3. QED BY <3>1, <3>2
  <2>5. QED BY <1>1, <2>1, <2>3, <2>4 DEF SerialInv
<1>3. ASSUME NEW a \in Attempts, Work(a) PROVE SerialInv' /\ (db' = db \/ Booked(db, db'))
  BY <1>3, WorkBooks
<1>4. ASSUME NEW a \in Attempts, Crash(a) PROVE SerialInv' /\ db' = db
  <2>1. att' = [att EXCEPT ![a] = [att[a] EXCEPT !.at = "dead", !.user = NewUser, !.usage = 0]]
    BY <1>4 DEF Crash
  <2>2. SessionStep(a) /\ att'[a].at = "dead" /\ UNCHANGED <<db, indoubt>>
    BY <1>1, <1>4, <2>1 DEF Crash, TypeOK, Sessions, SessionStep
  <2>3. Served(a) /\ Fresh(a)'
    BY <1>4, <2>2 DEF Crash, Served, Fresh
  <2>4. QED BY <1>1, <2>2, <2>3, SerialStep
<1>5. ASSUME Decide PROVE SerialInv' /\ (db' = db \/ Booked(db, db'))
  <2>1. PICK d \in indoubt : db' = d \/ db' = db
    BY <1>5 DEF Decide
  <2>2. indoubt' = {} /\ att' = att
    BY <1>5 DEF Decide
  <2>3. ASSUME NEW a \in Attempts PROVE Fresh(a)'
    BY <1>1, <2>1, <2>2 DEF Fresh
  <2>4. OneServed'
    BY <1>1, <2>2 DEF OneServed, Served
  <2>5. db' = db \/ Booked(db, db')
    BY <1>1, <2>1
  <2>6. Balanced(db')
    BY <1>1, <2>5, BooksBalance DEF TypeOK
  <2>7. QED BY <2>2, <2>3, <2>4, <2>5, <2>6 DEF SerialInv, Balanced
<1>6. ASSUME DeleteUser PROVE SerialInv'
  <2>1. /\ db'.user.exists = FALSE /\ db'.user.reserved = 0 /\ indoubt = {}
        /\ UNCHANGED <<indoubt, att>>
        /\ \A k \in Keys : db'.requests[k].status # "processing"
    BY <1>6 DEF DeleteUser, Unlocked, NoUser, Absent
  <2>2. Escrow(db') = {}
    BY <2>1, EscrowTokens
  <2>3. Balanced(db')
    BY <2>1, <2>2, FS_EmptySet DEF Balanced
  <2>4. ASSUME NEW a \in Attempts PROVE Fresh(a)'
    BY <1>1, <2>1 DEF Fresh
  <2>5. OneServed'
    BY <1>1, <2>1 DEF OneServed, Served
  <2>6. QED BY <2>1, <2>3, <2>4, <2>5 DEF SerialInv, Balanced
<1>7. ASSUME UNCHANGED <<db, indoubt, att>> PROVE SerialInv' /\ db' = db
  <2>1. OneServed' /\ \A a \in Attempts : Fresh(a)'
    BY <1>1, <1>7 DEF OneServed, Served, Fresh
  <2>2. Balanced(db') /\ \A d \in indoubt' : Booked(db', d)
    BY <1>1, <1>7
  <2>3. QED BY <1>7, <2>1, <2>2 DEF SerialInv, Balanced
<1>8. QED
  BY <1>2, <1>3, <1>4, <1>5, <1>6, <1>7 DEF Next, Tick, vars

\* The first user has nothing reserved and nobody is served.
LEMMA SerialInit == Init /\ SettlementInv => SerialInv
<1> SUFFICES ASSUME Init, SettlementInv PROVE SerialInv
  OBVIOUS
<1>1. /\ db.user.reserved = 0 /\ indoubt = {}
      /\ \A k \in Keys : db.requests[k].status # "processing"
      /\ \A a \in Attempts : att[a].at = "new"
  BY DEF Init, NewUser, Absent
<1>2. Escrow(db) = {}
  BY <1>1, EscrowTokens
<1>3. Balanced(db)
  BY <1>1, <1>2, FS_EmptySet DEF Balanced
<1>4. QED BY <1>1, <1>3 DEF SerialInv, OneServed, Served, Fresh

\* As long as the user's generations do not overlap, SerialInv holds.
LEMMA SerialIsInvariant == ASSUME ~Overlap PROVE Spec => []SerialInv
<1>1. Init /\ SettlementInv => SerialInv
  BY SerialInit
<1>2. SerialInv /\ SettlementInv' /\ [Next]_vars => SerialInv'
  BY SerialNext
<1>3. QED BY <1>1, <1>2, SettlementIsInvariant, PTL DEF Spec

\* As long as the user's generations do not overlap, users.reserved_tokens is
\* what the open requests hold, whatever crashes and commits are in doubt:
\* ReservedIsEscrow.
THEOREM EscrowIsExact == ASSUME ~Overlap PROVE Spec => []ReservedIsEscrow
<1>1. SerialInv => ReservedIsEscrow
  BY DEF SerialInv, Balanced, ReservedIsEscrow
<1>2. QED BY <1>1, SerialIsInvariant, PTL

\* As long as the user's generations do not overlap, every commit of the
\* executor is one step of the abstract ledger or changes nothing it shows:
\* LedgerSpec.
THEOREM LedgerIsImplemented == ASSUME ~Overlap PROVE Spec => LedgerSpec
<1>1. Init => Ledger!Init
  <2> SUFFICES ASSUME Init PROVE Ledger!Init
    OBVIOUS
  <2>1. db.user = NewUser /\ db.requests = [k \in Keys |-> Absent]
    BY DEF Init
  <2>2. QED BY <2>1 DEF Ledger!Init, NewUser, Absent, Ledger!Absent
<1>2. ASSUME TypeOK, TypeOK', Booked(db, db') PROVE Ledger!Next
  <2>1. /\ db.user.exists = TRUE /\ db'.user.exists = TRUE /\ db.requests \in [Keys -> Rows]
        /\ db.user.used \in Nat /\ db.user.reserved \in Nat
    BY <1>2 DEF Booked, TypeOK, Databases, Users
  <2>2. ASSUME NEW k \in Keys, NEW p \in Payloads, Holds(db, db', k, p) PROVE Ledger!Hold(k, p)
    BY <2>1, <2>2 DEF Holds, Ledger!Hold, Ledger!UsedNow, Absent, Ledger!Absent
  <2>3. ASSUME NEW k \in Keys, NEW tokens \in Consumptions, Charges(db, db', k, tokens)
        PROVE  Ledger!Charge(k, tokens)
    BY <2>1, <2>3 DEF Charges, Ledger!Charge
  <2>4. ASSUME NEW k \in Keys, Releases(db, db', k) PROVE Ledger!Release(k)
    BY <2>1, <2>4 DEF Releases, Ledger!Release
  <2>5. QED BY <1>2, <2>2, <2>3, <2>4 DEF Booked, Ledger!Next
<1>3. DeleteUser => Ledger!Close
  <2> SUFFICES ASSUME DeleteUser PROVE Ledger!Close
    OBVIOUS
  <2>1. db.user.exists /\ db'.user = NoUser /\ db'.requests = [k \in Keys |-> Absent]
    BY DEF DeleteUser
  <2>2. QED BY <2>1 DEF Ledger!Close, NoUser, Absent, Ledger!Absent
<1>4. SerialInv /\ SettlementInv' /\ [Next]_vars => [Ledger!Next]_(Ledger!vars)
  BY <1>2, <1>3, SerialNext DEF SerialInv, SettlementInv, Ledger!Next, Ledger!vars
<1>5. QED
  BY <1>1, <1>4, SerialIsInvariant, SettlementIsInvariant, PTL DEF Spec, LedgerSpec, Ledger!Spec
=================================================================================
