------------------------- MODULE ListingProposalsProofs -------------------------
(***************************************************************************)
(* That the versions of a product are one history, that what is approved   *)
(* is the merge that was reviewed, and that what reviewers and importers   *)
(* are told and shown is so, for every number of requests, fields, texts   *)
(* and keys, and every number of faults.  HistoryInv is about versions     *)
(* alone; ReviewInv adds the proposals, their reviews and the answers.     *)
(***************************************************************************)
EXTENDS ListingProposals, FiniteSetTheorems, TLAPS

\* A request that made a version is over, so that no version is made twice; and the
\* versions are finitely many, numbered and linked as LinearHistory says.
HistoryInv ==
    /\ ver = [r \in Requests |-> ver[r]]
    /\ at = [r \in Requests |-> at[r]]
    /\ \A r \in Requests : ver[r].number \in Nat
    /\ \A r \in Made : at[r] = "done"
    /\ IsFiniteSet(Made)
    /\ LinearHistory

---------------------------------------------------------------------------
(* Steps                                                                    *)

\* The largest number and one is the number of versions and one.
LEMMA NumberIsNext ==
    ASSUME HistoryInv, NEW r \in Requests
    PROVE  NextNumber(r) = Cardinality(Made) + 1 /\ Cardinality(Made) \in Nat
<1>1. Cardinality(Made) \in Nat
  BY FS_CardinalityType DEF HistoryInv
<1>2. CASE Made = {}
  BY <1>1, <1>2, FS_EmptySet DEF NextNumber
<1>3. CASE Made # {}
  <2> DEFINE numbers == {ver[v].number : v \in Made}
             Largest(n) == \A v \in Made : ver[v].number <= n
             largest == CHOOSE n \in numbers : Largest(n)
  <2>1. numbers = 1..Cardinality(Made)
    BY DEF HistoryInv, LinearHistory
  <2>2. Cardinality(Made) # 0
    BY <1>3, FS_EmptySet DEF HistoryInv
  <2>3. Cardinality(Made) \in numbers /\ Largest(Cardinality(Made))
    BY <1>1, <2>1, <2>2
  <2>4. \A n \in numbers : Largest(n) => n = Cardinality(Made)
    <3> SUFFICES ASSUME NEW n \in numbers, Largest(n) PROVE n = Cardinality(Made)
      OBVIOUS
    <3>1. n \in 1..Cardinality(Made)
      BY <2>1
    <3>2. Cardinality(Made) <= n
      BY <2>3
    <3>3. QED
      BY <1>1, <3>1, <3>2
  <2>5. NextNumber(r) = 1 + largest
    BY <1>3 DEF NextNumber
  <2> HIDE DEF numbers, Largest
  <2>6. largest = Cardinality(Made)
    BY <2>3, <2>4
  <2> HIDE DEF largest
  <2>7. QED
    BY <1>1, <2>5, <2>6
<1>4. QED
  BY <1>2, <1>3

\* A version that is published as the child of the current one is the next of the
\* history, and current.
LEMMA PublishStep ==
    ASSUME HistoryInv, NEW r \in Requests, NEW source, NEW content, NEW parent, NEW key,
           Publish(r, source, content, parent, key), parent = cur,
           at[r] # "done", at' = [at EXCEPT ![r] = "done"]
    PROVE  HistoryInv'
<1> DEFINE n == Cardinality(Made)
           row == [number |-> NextNumber(r), parent |-> parent,
                   source |-> source, content |-> content, key |-> key]
<1>1. NextNumber(r) = n + 1 /\ n \in Nat
  BY NumberIsNext
<1>2. ver' = [ver EXCEPT ![r] = row] /\ cur' = {r}
  BY DEF Publish, MakeCurrent
<1>3. row.number = n + 1 /\ row.parent = cur
  BY <1>1
<1> HIDE DEF row
<1>4. /\ ver = [q \in Requests |-> ver[q]] /\ at = [q \in Requests |-> at[q]]
      /\ \A q \in Requests : ver[q].number \in Nat
      /\ \A q \in Made : at[q] = "done"
      /\ IsFiniteSet(Made)
      /\ {ver[v].number : v \in Made} = 1..n
      /\ \A v \in Made : ver[v].parent = {w \in Made : ver[w].number + 1 = ver[v].number}
      /\ cur = {v \in Made : ver[v].number = n}
  BY DEF HistoryInv, LinearHistory
<1>5. /\ ver'[r] = row /\ \A q \in Requests \ {r} : ver'[q] = ver[q]
      /\ ver' = [q \in Requests |-> ver'[q]]
  BY <1>2, <1>4
<1>6. at'[r] = "done" /\ at' = [q \in Requests |-> at'[q]] /\ \A q \in Made : at'[q] = "done"
  BY <1>4 DEF Made
<1>7. r \notin Made
  BY <1>4
<1>8. Made' = Made \cup {r}
  BY <1>1, <1>3, <1>5, <1>7 DEF Made
<1>9. IsFiniteSet(Made') /\ Cardinality(Made') = n + 1
  BY <1>4, <1>7, <1>8, FS_AddElement
<1> HIDE DEF n
<1>10. \A q \in Made : q \in Requests /\ ver'[q] = ver[q] /\ ver[q].number \in 1..n
  BY <1>4, <1>5, <1>7 DEF Made
<1>11. ver'[r].number = n + 1 /\ ver'[r].parent = cur
  BY <1>3, <1>5
<1>12. \A q \in Requests : ver'[q].number \in Nat
  BY <1>1, <1>4, <1>5, <1>11
<1>13. {ver'[v].number : v \in Made'} = 1..(n + 1)
  <2>1. \A v \in Made' : ver'[v].number \in 1..(n + 1)
    BY <1>1, <1>8, <1>10, <1>11
  <2>2. \A i \in 1..n : \E v \in Made : ver[v].number = i
    BY <1>4
  <2>3. \A i \in 1..(n + 1) : \E v \in Made' : ver'[v].number = i
    BY <1>1, <1>8, <1>10, <1>11, <2>2
  <2>4. QED
    BY <2>1, <2>3
<1>14. \A v \in Made' : ver'[v].parent = {w \in Made' : ver'[w].number + 1 = ver'[v].number}
  <2>1. ASSUME NEW v \in Made
        PROVE  ver'[v].parent = {w \in Made' : ver'[w].number + 1 = ver'[v].number}
    <3>1. ver'[v].parent = {w \in Made : ver[w].number + 1 = ver[v].number}
      BY <1>4, <1>10
    <3>2. \A w \in Made' : ver'[w].number + 1 = ver'[v].number
                              <=> w \in Made /\ ver[w].number + 1 = ver[v].number
      BY <1>1, <1>8, <1>10, <1>11
    <3>3. QED
      BY <1>8, <3>1, <3>2
  <2>2. ver'[r].parent = {w \in Made' : ver'[w].number + 1 = ver'[r].number}
    <3>1. \A w \in Made' : ver'[w].number + 1 = ver'[r].number
                              <=> w \in Made /\ ver[w].number = n
      BY <1>1, <1>8, <1>10, <1>11
    <3>2. QED
      BY <1>4, <1>8, <1>11, <3>1
  <2>3. QED
    BY <1>8, <2>1, <2>2
<1>15. cur' = {v \in Made' : ver'[v].number = n + 1}
  BY <1>1, <1>2, <1>8, <1>10, <1>11
<1>16. QED
  BY <1>5, <1>6, <1>8, <1>9, <1>12, <1>13, <1>14, <1>15 DEF HistoryInv, LinearHistory

\* What makes no version keeps the history, if no request is reopened.
LEMMA OtherStep ==
    ASSUME HistoryInv, UNCHANGED <<ver, cur>>, at' = [q \in Requests |-> at'[q]],
           \A q \in Requests : at[q] = "done" => at'[q] = "done"
    PROVE  HistoryInv'
<1>1. Made' = Made /\ Made \subseteq Requests
  BY DEF Made
<1>2. QED
  BY <1>1 DEF HistoryInv, LinearHistory

LEMMA HistoryStep == HistoryInv /\ [Next]_vars => HistoryInv'
<1> SUFFICES ASSUME HistoryInv, [Next]_vars PROVE HistoryInv'
  OBVIOUS
<1>1. at = [q \in Requests |-> at[q]]
  BY DEF HistoryInv
<1>2. ASSUME NEW r \in Requests, NEW a, Finish(r, a), at[r] # "done"
      PROVE  /\ at' = [at EXCEPT ![r] = "done"] /\ at' = [q \in Requests |-> at'[q]]
             /\ \A q \in Requests : at[q] = "done" => at'[q] = "done"
  <2>1. at' = [at EXCEPT ![r] = "done"]
    BY <1>2 DEF Finish
  <2>2. QED
    BY <1>1, <2>1
<1>3. ASSUME NEW r \in Requests, NEW a, Finish(r, a), at[r] # "done", UNCHANGED <<ver, cur>>
      PROVE  HistoryInv'
  BY <1>2, <1>3, OtherStep
<1>4. ASSUME NEW r \in Requests, NEW a, Answered(r, a), at[r] # "done" PROVE HistoryInv'
  BY <1>3, <1>4 DEF Answered, rows
<1>5. ASSUME NEW r \in Requests, LockUser(r) PROVE HistoryInv'
  <2>1. at' = [at EXCEPT ![r] = "user"] /\ at[r] = "new" /\ UNCHANGED <<ver, cur>>
    BY <1>5 DEF LockUser, rows
  <2>2. at' = [q \in Requests |-> at'[q]] /\ \A q \in Requests : at[q] = "done" => at'[q] = "done"
    BY <1>1, <2>1
  <2>3. QED
    BY <2>1, <2>2, OtherStep
<1>6. ASSUME NEW r \in Requests, LockProduct(r) PROVE HistoryInv'
  <2>1. at[r] # "done" /\ UNCHANGED <<ver, cur>>
    BY <1>6 DEF LockProduct, Wants, rows
  <2>2. CASE at' = [at EXCEPT ![r] = "locked"]
    <3>1. at' = [q \in Requests |-> at'[q]] /\ \A q \in Requests : at[q] = "done" => at'[q] = "done"
      BY <1>1, <2>1, <2>2
    <3>2. QED
      BY <2>1, <3>1, OtherStep
  <2>3. CASE Finish(r, "not_found")
    BY <1>3, <2>1, <2>3
  <2>4. QED
    BY <1>6, <2>2, <2>3 DEF LockProduct
<1>7. ASSUME NEW r \in Requests, Act(r) PROVE HistoryInv'
  <2>1. at[r] = "locked" /\ at[r] # "done"
    BY <1>7 DEF Act
  <2>2. ASSUME Committed(r) PROVE at' = [at EXCEPT ![r] = "done"]
                                  /\ (UNCHANGED <<ver, cur>> => HistoryInv')
    BY <1>2, <1>3, <2>1, <2>2 DEF Committed
  <2>3. ASSUME Import(r) PROVE HistoryInv'
    <3>1. CASE Imported(r) # {}
      BY <1>4, <2>1, <2>3, <3>1 DEF Import
    <3>2. CASE Imported(r) = {}
      <4>1. Publish(r, "manual", op[r].content, cur, {op[r].key}) /\ Committed(r)
        BY <2>3, <3>2 DEF Import
      <4>2. QED
        BY <2>1, <2>2, <4>1, PublishStep
    <3>3. QED
      BY <3>1, <3>2
  <2>4. ASSUME Generate(r) PROVE HistoryInv'
    BY <2>2, <2>4 DEF Generate
  <2>5. ASSUME Patch(r) PROVE HistoryInv'
    BY <1>4, <2>1, <2>2, <2>5 DEF Patch
  <2>6. ASSUME Reject(r) PROVE HistoryInv'
    BY <1>4, <2>1, <2>2, <2>6 DEF Reject
  <2>7. ASSUME Approve(r) PROVE HistoryInv'
    <3>1. ASSUME NEW a, Answered(r, a) PROVE HistoryInv'
      BY <1>4, <2>1, <3>1
    <3>2. CASE Target(r).status = "approved" \/ Refusal(r) # "none" \/ Unmergeable(r) # "none"
      BY <2>7, <3>1, <3>2 DEF Approve
    <3>3. CASE ~(Target(r).status = "approved" \/ Refusal(r) # "none" \/ Unmergeable(r) # "none")
      <4>1. Target(r).base = cur
        BY <3>3 DEF Unmergeable, Stale
      <4>2. Committed(r)
        BY <2>7, <3>3 DEF Approve
      <4>3. Publish(r, "ai", Merge(CurrentContent(Target(r).base), Target(r).candidate,
                                   Effective(r)), Target(r).base, {})
        BY <2>7, <3>3 DEF Approve
      <4>4. QED
        BY <2>1, <2>2, <4>1, <4>2, <4>3, PublishStep
    <3>4. QED
      BY <3>2, <3>3
  <2>8. QED
    BY <1>7, <2>3, <2>4, <2>5, <2>6, <2>7 DEF Act
<1>8. ASSUME NEW r \in Requests, Victim(r) PROVE HistoryInv'
  <2>1. /\ \E g \in userLock, h \in productLock : Wants(g) /\ r \in {g, h}
        /\ Finish(r, "error") /\ UNCHANGED <<ver, cur>>
    BY <1>8 DEF Victim, rows
  <2>2. at' = [at EXCEPT ![r] = "done"]
    BY <2>1 DEF Finish
  <2>3. at' = [q \in Requests |-> at'[q]] /\ \A q \in Requests : at[q] = "done" => at'[q] = "done"
    BY <1>1, <2>2
  <2>4. QED
    BY <2>1, <2>3, OtherStep
<1>9. ASSUME NEW r \in Requests, Crash(r) PROVE HistoryInv'
  BY <1>3, <1>9 DEF Crash, rows
<1>10. CASE DeleteProduct
  <2>1. /\ ver' = [r \in Requests |-> NoVersion] /\ cur' = {} /\ at' = at
    BY <1>10 DEF DeleteProduct
  <2>2. NoVersion.number = 0
    BY DEF NoVersion
  <2>3. \A r \in Requests : ver'[r].number = 0
    BY <2>1, <2>2
  <2>4. Made' = {}
    BY <2>3 DEF Made
  <2>5. IsFiniteSet(Made') /\ Cardinality(Made') = 0
    BY <2>4, FS_EmptySet
  <2>6. LinearHistory'
    BY <2>1, <2>4, <2>5 DEF LinearHistory
  <2>7. QED
    BY <1>1, <2>1, <2>3, <2>4, <2>5, <2>6 DEF HistoryInv
<1>11. CASE UNCHANGED vars
  <2>1. UNCHANGED <<ver, cur, at>>
    BY <1>11 DEF vars
  <2>2. QED
    BY <1>1, <2>1, OtherStep
<1>12. QED
  BY <1>5, <1>6, <1>7, <1>8, <1>9, <1>10, <1>11 DEF Next, Serve

LEMMA HistoryBegins == Init => HistoryInv
<1> SUFFICES ASSUME Init PROVE HistoryInv
  OBVIOUS
<1>1. /\ ver = [r \in Requests |-> NoVersion] /\ cur = {} /\ at = [r \in Requests |-> "new"]
  BY DEF Init
<1>2. NoVersion.number = 0
  BY DEF NoVersion
<1>3. \A r \in Requests : ver[r].number = 0
  BY <1>1, <1>2
<1>4. Made = {}
  BY <1>3 DEF Made
<1>5. IsFiniteSet(Made) /\ Cardinality(Made) = 0
  BY <1>4, FS_EmptySet
<1>6. LinearHistory
  BY <1>1, <1>4, <1>5 DEF LinearHistory
<1>7. QED
  BY <1>1, <1>3, <1>4, <1>5, <1>6 DEF HistoryInv

---------------------------------------------------------------------------
(* What a step writes                                                       *)

\* Request r holds the lock and commits what it wrote.
Ends(r) ==
    /\ at[r] = "locked" /\ at'[r] = "done"
    /\ \A q \in Requests \ {r} : at'[q] = at[q] /\ answer'[q] = answer[q]
    /\ answer'[r] \in {"ok", "error"}
    /\ applied' = applied \cup {r}
    /\ UNCHANGED <<op, exists>>

PatchedRow(x, d) == [x EXCEPT !.decisions = d, !.revision = @ + 1]

RejectedRow(x) == [x EXCEPT !.status = "rejected", !.revision = @ + 1]

ApprovedRow(x, v, d) ==
    [x EXCEPT !.status = "approved", !.version = v, !.decisions = d, !.revision = @ + 1]

SupersededRow(x) == [x EXCEPT !.status = "superseded"]

Imports(r) ==
    /\ op[r].kind = "import" /\ Imported(r) = {}
    /\ Publish(r, "manual", op[r].content, cur, {op[r].key})
    /\ UNCHANGED prop

Generates(r) ==
    /\ op[r].kind = "generate"
    /\ prop' = [prop EXCEPT ![r] = [NoProposal EXCEPT !.status = "reviewing", !.base = cur,
                                                      !.candidate = op[r].content]]
    /\ UNCHANGED <<ver, cur>>

Patches(r) ==
    /\ op[r].kind = "patch" /\ Open(r) /\ Fresh(r)
    /\ prop' = [prop EXCEPT ![op[r].target] = PatchedRow(prop[op[r].target], op[r].decisions)]
    /\ UNCHANGED <<ver, cur>>

Rejects(r) ==
    /\ op[r].kind = "reject" /\ Open(r) /\ Fresh(r)
    /\ prop' = [prop EXCEPT ![op[r].target] = RejectedRow(prop[op[r].target])]
    /\ UNCHANGED <<ver, cur>>

Approves(r) ==
    /\ op[r].kind = "approve" /\ Open(r) /\ Fresh(r) /\ Unmergeable(r) = "none"
    /\ Publish(r, "ai", Merge(CurrentContent(Target(r).base), Target(r).candidate, Effective(r)),
               Target(r).base, {})
    /\ prop' = [q \in Requests |->
                   IF q = op[r].target THEN ApprovedRow(prop[q], {r}, Kept(r))
                   ELSE IF prop[q].status = "reviewing" THEN SupersededRow(prop[q]) ELSE prop[q]]

Writes(r) == Imports(r) \/ Generates(r) \/ Patches(r) \/ Rejects(r) \/ Approves(r)

\* A replay answers what is so already.
Replays(r) ==
    \/ op[r].kind = "import" /\ \E v \in Imported(r) : SameImport(r, v)
    \/ op[r].kind = "approve" /\ Target(r).status = "approved"
    \/ op[r].kind = "reject" /\ Target(r).status = "rejected"

\* No row is written.
Quiet ==
    /\ UNCHANGED <<op, exists, ver, cur, prop, applied>>
    /\ \A q \in Requests : at[q] = "done" => at'[q] = "done"
    /\ \A q \in Requests : \/ answer'[q] = answer[q]
                           \/ answer'[q] \notin {"ok", "replay"}
                           \/ answer'[q] = "replay" /\ Replays(q)

\* The part of TypeOK that is not in the rows
ShellOK ==
    /\ productLock \in OneOf(Requests) /\ userLock \in OneOf(Requests)
    /\ at \in [Requests -> {"new", "user", "locked", "done"}]
    /\ answer \in [Requests -> Answers]
    /\ faults \in 0..MaxFaults

\* A handler that ends closes its session.
LEMMA FinishStep ==
    ASSUME ShellOK, NEW r \in Requests, NEW a \in Answers, Finish(r, a)
    PROVE  /\ productLock' \in OneOf(Requests) /\ userLock' \in OneOf(Requests)
           /\ at' \in [Requests -> {"new", "user", "locked", "done"}]
           /\ answer' \in [Requests -> Answers]
           /\ at'[r] = "done" /\ answer'[r] = a
           /\ \A q \in Requests \ {r} : at'[q] = at[q] /\ answer'[q] = answer[q]
<1>1. at' = [at EXCEPT ![r] = "done"] /\ answer' = [answer EXCEPT ![r] = a]
  BY DEF Finish
<1>2. productLock' = productLock \ {r} /\ userLock' = userLock \ {r}
  BY DEF Finish
<1>3. \A L \in OneOf(Requests) : L \ {r} \in OneOf(Requests)
  BY DEF OneOf
<1>4. productLock' \in OneOf(Requests) /\ userLock' \in OneOf(Requests)
  BY <1>2, <1>3 DEF ShellOK
<1>5. QED
  BY <1>1, <1>4 DEF ShellOK

\* A request that commits
LEMMA CommittedStep ==
    ASSUME ShellOK, ProposalsAssumption, NEW r \in Requests, at[r] = "locked", Committed(r),
           UNCHANGED <<op, exists>>
    PROVE  ShellOK' /\ Ends(r)
<1>1. PICK a \in {"ok", "error"} : /\ Finish(r, a)
                                   /\ \/ UNCHANGED faults
                                      \/ faults < MaxFaults /\ faults' = faults + 1
  BY DEF Committed
<1>2. a \in Answers
  BY <1>1 DEF Answers
<1>3. faults' \in 0..MaxFaults
  BY <1>1 DEF ShellOK, ProposalsAssumption
<1>4. applied' = applied \cup {r}
  BY DEF Committed
<1>5. ShellOK'
  BY <1>1, <1>2, <1>3, FinishStep DEF ShellOK
<1>6. QED
  BY <1>1, <1>2, <1>4, <1>5, FinishStep DEF Ends

\* A request that ends and writes nothing
LEMMA AnsweredStep ==
    ASSUME ShellOK, NEW r \in Requests, NEW a \in Answers, Finish(r, a), UNCHANGED <<op, rows>>,
           faults' \in 0..MaxFaults,
           a \in {"ok", "replay"} => a = "replay" /\ Replays(r)
    PROVE  ShellOK' /\ Quiet
<1>1. UNCHANGED <<op, exists, ver, cur, prop, applied>>
  BY DEF rows
<1>2. \A q \in Requests : /\ at[q] = "done" => at'[q] = "done"
                         /\ \/ answer'[q] = answer[q]
                            \/ answer'[q] \notin {"ok", "replay"}
                            \/ answer'[q] = "replay" /\ Replays(q)
  BY FinishStep
<1>3. QED
  BY <1>1, <1>2, FinishStep DEF ShellOK, Quiet

\* Refusals
LEMMA RefusalsAnswer ==
    ASSUME NEW r \in Requests
    PROVE  /\ Refusal(r) \in Answers \ {"ok", "replay"}
           /\ Refusal(r) = "none" => Open(r) /\ Fresh(r)
           /\ Unmergeable(r) \in Answers \ {"ok", "replay"}
<1>1. /\ Refusal(r) \in Answers \ {"ok", "replay"}
      /\ Refusal(r) = "none" => Open(r) /\ Fresh(r)
  BY DEF Refusal, Answers
<1>2. Unmergeable(r) \in Answers \ {"ok", "replay"}
  BY DEF Unmergeable, Answers
<1>3. QED
  BY <1>1, <1>2

\* What an action does while its request holds the lock
LEMMA ActStep ==
    ASSUME ShellOK, ProposalsAssumption, NEW r \in Requests, Act(r)
    PROVE  ShellOK' /\ (Quiet \/ (Ends(r) /\ Writes(r)))
<1>1. at[r] = "locked" /\ op' = op
  BY DEF Act
<1>2. ASSUME NEW a \in Answers, Answered(r, a), a \in {"ok", "replay"} => a = "replay" /\ Replays(r)
      PROVE  ShellOK' /\ Quiet
  <2>1. Finish(r, a) /\ UNCHANGED <<op, rows>> /\ faults' \in 0..MaxFaults
    BY <1>1, <1>2 DEF Answered, ShellOK
  <2>2. QED
    BY <1>2, <2>1, AnsweredStep
<1>3. ASSUME Committed(r), UNCHANGED exists PROVE ShellOK' /\ Ends(r)
  BY <1>1, <1>3, CommittedStep
<1>4. ASSUME Answered(r, Refusal(r)) PROVE ShellOK' /\ Quiet
  BY <1>2, <1>4, RefusalsAnswer
<1>5. "replay" \in Answers /\ "key_conflict" \in Answers
  BY DEF Answers
<1>6. CASE op[r].kind = "import" /\ Import(r)
  <2>1. CASE Imported(r) # {}
    <3>1. CASE \E v \in Imported(r) : SameImport(r, v)
      <4>1. Answered(r, "replay") /\ Replays(r)
        BY <1>6, <2>1, <3>1 DEF Import, Replays
      <4>2. QED
        BY <1>2, <1>5, <4>1
    <3>2. CASE ~\E v \in Imported(r) : SameImport(r, v)
      <4>1. Answered(r, "key_conflict")
        BY <1>6, <2>1, <3>2 DEF Import
      <4>2. QED
        BY <1>2, <1>5, <4>1
    <3>3. QED
      BY <3>1, <3>2
  <2>2. CASE Imported(r) = {}
    <3>1. /\ Publish(r, "manual", op[r].content, cur, {op[r].key})
          /\ Committed(r) /\ UNCHANGED <<exists, prop>>
      BY <1>6, <2>2 DEF Import
    <3>2. Imports(r)
      BY <1>6, <2>2, <3>1 DEF Imports
    <3>3. QED
      BY <1>3, <3>1, <3>2 DEF Writes
  <2>3. QED
    BY <2>1, <2>2
<1>7. CASE op[r].kind = "generate" /\ Generate(r)
  <2>1. Generates(r) /\ Committed(r) /\ UNCHANGED exists
    BY <1>7 DEF Generate, Generates
  <2>2. QED
    BY <1>3, <2>1 DEF Writes
<1>8. CASE op[r].kind = "patch" /\ Patch(r)
  <2>1. CASE Refusal(r) # "none"
    <3>1. Answered(r, Refusal(r))
      BY <1>8, <2>1 DEF Patch
    <3>2. QED
      BY <1>4, <3>1
  <2>2. CASE Refusal(r) = "none"
    <3>1. Patches(r) /\ Committed(r) /\ UNCHANGED exists
      BY <1>8, <2>2, RefusalsAnswer DEF Patch, Patches, PatchedRow
    <3>2. QED
      BY <1>3, <3>1 DEF Writes
  <2>3. QED
    BY <2>1, <2>2
<1>9. CASE op[r].kind = "reject" /\ Reject(r)
  <2>1. CASE Target(r).status = "rejected"
    <3>1. Answered(r, "replay") /\ Replays(r)
      BY <1>9, <2>1 DEF Reject, Replays
    <3>2. QED
      BY <1>2, <1>5, <3>1
  <2>2. CASE Target(r).status # "rejected" /\ Refusal(r) # "none"
    <3>1. Answered(r, Refusal(r))
      BY <1>9, <2>2 DEF Reject
    <3>2. QED
      BY <1>4, <3>1
  <2>3. CASE Target(r).status # "rejected" /\ Refusal(r) = "none"
    <3>1. Rejects(r) /\ Committed(r) /\ UNCHANGED exists
      BY <1>9, <2>3, RefusalsAnswer DEF Reject, Rejects, RejectedRow
    <3>2. QED
      BY <1>3, <3>1 DEF Writes
  <2>4. QED
    BY <2>1, <2>2, <2>3
<1>10. CASE op[r].kind = "approve" /\ Approve(r)
  <2>1. CASE Target(r).status = "approved"
    <3>1. Answered(r, "replay") /\ Replays(r)
      BY <1>10, <2>1 DEF Approve, Replays
    <3>2. QED
      BY <1>2, <1>5, <3>1
  <2>2. CASE Target(r).status # "approved" /\ Refusal(r) # "none"
    <3>1. Answered(r, Refusal(r))
      BY <1>10, <2>2 DEF Approve
    <3>2. QED
      BY <1>4, <3>1
  <2>3. CASE Target(r).status # "approved" /\ Refusal(r) = "none" /\ Unmergeable(r) # "none"
    <3>1. Answered(r, Unmergeable(r))
      BY <1>10, <2>3 DEF Approve
    <3>2. QED
      BY <1>2, <3>1, RefusalsAnswer
  <2>4. CASE Target(r).status # "approved" /\ Refusal(r) = "none" /\ Unmergeable(r) = "none"
    <3>1. /\ Publish(r, "ai", Merge(CurrentContent(Target(r).base), Target(r).candidate,
                                    Effective(r)), Target(r).base, {})
          /\ prop' = [q \in Requests |->
                         IF q = op[r].target
                         THEN [prop[q] EXCEPT !.status = "approved", !.version = {r},
                                              !.decisions = Kept(r), !.revision = @ + 1]
                         ELSE IF prop[q].status = "reviewing"
                         THEN [prop[q] EXCEPT !.status = "superseded"]
                         ELSE prop[q]]
          /\ Committed(r) /\ UNCHANGED exists
      BY <1>10, <2>4 DEF Approve
    <3>2. Approves(r)
      BY <1>10, <2>4, <3>1, RefusalsAnswer DEF Approves, ApprovedRow, SupersededRow
    <3>3. QED
      BY <1>3, <3>1, <3>2 DEF Writes
  <2>5. QED
    BY <2>1, <2>2, <2>3, <2>4
<1>11. QED
  BY <1>6, <1>7, <1>8, <1>9, <1>10 DEF Act

\* Every step is quiet, deletes the product or is the commit of one request.
LEMMA StepWrites ==
    ASSUME ShellOK, ProposalsAssumption, [Next]_vars
    PROVE  /\ ShellOK'
           /\ \/ Quiet
              \/ DeleteProduct /\ UNCHANGED <<op, at, answer>>
              \/ \E r \in Requests : Ends(r) /\ Writes(r)
<1>1. "error" \in Answers /\ "not_found" \in Answers
  BY DEF Answers
<1>2. ASSUME NEW r \in Requests, LockUser(r) PROVE ShellOK' /\ Quiet
  <2>1. /\ at' = [at EXCEPT ![r] = "user"] /\ at[r] = "new" /\ userLock' = {r}
        /\ UNCHANGED <<op, productLock, answer, faults>>
        /\ UNCHANGED <<exists, ver, cur, prop, applied>>
    BY <1>2 DEF LockUser, rows
  <2>2. at' \in [Requests -> {"new", "user", "locked", "done"}]
        /\ \A q \in Requests : at[q] = "done" => at'[q] = "done"
    BY <2>1 DEF ShellOK
  <2>3. QED
    BY <2>1, <2>2 DEF ShellOK, OneOf, Quiet
<1>3. ASSUME NEW r \in Requests, LockProduct(r) PROVE ShellOK' /\ Quiet
  <2>1. CASE Finish(r, "not_found")
    <3>1. UNCHANGED <<op, rows>> /\ faults' \in 0..MaxFaults
      BY <1>3 DEF LockProduct, ShellOK
    <3>2. QED
      BY <1>1, <2>1, <3>1, AnsweredStep
  <2>2. CASE ~Finish(r, "not_found")
    <3>1. /\ at' = [at EXCEPT ![r] = "locked"] /\ at[r] # "done" /\ productLock' = {r}
          /\ UNCHANGED <<op, userLock, answer, faults>>
          /\ UNCHANGED <<exists, ver, cur, prop, applied>>
      BY <1>3, <2>2 DEF LockProduct, Wants, rows
    <3>2. at' \in [Requests -> {"new", "user", "locked", "done"}]
          /\ \A q \in Requests : at[q] = "done" => at'[q] = "done"
      BY <3>1 DEF ShellOK
    <3>3. QED
      BY <3>1, <3>2 DEF ShellOK, OneOf, Quiet
  <2>3. QED
    BY <2>1, <2>2
<1>4. ASSUME NEW r \in Requests, Victim(r) \/ Crash(r) PROVE ShellOK' /\ Quiet
  <2>1. Finish(r, "error") /\ UNCHANGED <<op, rows>>
    BY <1>4 DEF Victim, Crash
  <2>2. faults' \in 0..MaxFaults
    BY <1>4 DEF Victim, Crash, ShellOK, ProposalsAssumption
  <2>3. QED
    BY <1>1, <2>1, <2>2, AnsweredStep
<1>5. ASSUME DeleteProduct PROVE ShellOK' /\ UNCHANGED <<op, at, answer>>
  BY <1>5 DEF DeleteProduct, ShellOK
<1>6. CASE UNCHANGED vars
  BY <1>6 DEF vars, ShellOK, Quiet
<1>7. QED
  BY <1>2, <1>3, <1>4, <1>5, <1>6, ActStep DEF Next, Serve

---------------------------------------------------------------------------
(* What the rows may say                                                    *)

Reviews(p) == {r \in applied : op[r].kind \in {"patch", "approve", "reject"}
                               /\ op[r].target = p}

\* What ApprovedIsMerge says of one proposal
Merged(p) ==
    \E v \in prop[p].version :
        /\ ver[v].source = "ai" /\ ver[v].parent = prop[p].base
        /\ \A f \in Fields :
            \/ prop[p].decisions[f] = "accept" /\ ver[v].content[f] = prop[p].candidate[f]
            \/ /\ prop[p].decisions[f] = "reject"
               /\ \E b \in prop[p].base : ver[v].content[f] = ver[b].content[f]

\* Only a request that is over has written.
WritersAreDone ==
    \A r \in Requests : prop[r].status # "none" \/ r \in applied => at[r] = "done"

\* A proposal refers to versions that exist, and has one of its own as soon as it is
\* approved; a request that made none left the row as it was.
ProposalsRefer ==
    \A p \in Requests :
        /\ prop[p].base \subseteq Made /\ prop[p].version \subseteq Made
        /\ prop[p].version = {} <=> prop[p].status # "approved"
        /\ prop[p].status = "none" => prop[p].revision = 1

\* The reviews of a proposal were each of another revision, all of them earlier ones.
ReviewsAreCounted ==
    \A p \in Requests :
        /\ IsFiniteSet(Reviews(p))
        /\ prop[p].revision = 1 + Cardinality(Reviews(p))
        /\ prop[p].status = "none" => Reviews(p) = {}
        /\ \A r \in Reviews(p) : op[r].revision < prop[p].revision
        /\ \A r, s \in Reviews(p) : op[r].revision = op[s].revision => r = s

\* A version that a generation led to is of one proposal, and one version was imported
\* for a key.
VersionsAreOwned ==
    /\ \A v \in Made : ver[v].source = "ai" => \E p \in Requests : prop[p].version = {v}
    /\ \A p, q \in Requests : prop[p].version = prop[q].version /\ prop[p].version # {} => p = q
    /\ \A v, w \in Made : ver[v].key = ver[w].key /\ ver[v].key # {} => v = w

\* An answer is true, and a review that succeeded was of a proposal.
AnswerHolds(r) ==
    \/ /\ op[r].kind = "import"
       /\ \E v \in Made : ver[v].content = op[r].content /\ ver[v].key = {op[r].key}
    \/ op[r].kind = "approve" /\ Target(r).status = "approved"
    \/ op[r].kind = "reject" /\ Target(r).status = "rejected"
    \/ /\ op[r].kind = "generate"
       /\ prop[r].status # "none" /\ prop[r].candidate = op[r].content
    \/ /\ op[r].kind = "patch"
       /\ Target(r).status # "none" /\ Target(r).revision > op[r].revision

AnswersHold ==
    \A r \in Requests : exists /\ answer[r] \in {"ok", "replay"} => AnswerHolds(r)

ReviewInv ==
    /\ TypeOK /\ op \in Plays
    /\ HistoryInv
    /\ WritersAreDone
    /\ ProposalsRefer
    /\ ReviewsAreCounted
    /\ VersionsAreOwned
    /\ \A p \in Requests : prop[p].status = "approved" => Merged(p)
    /\ AnswersHold

\* The row of no version, and of no proposal
LEMMA NoRowTypes ==
    ASSUME op \in [Requests -> Operations], NEW r \in Requests
    PROVE  NoVersion \in Versions /\ NoProposal \in Proposals
<1>1. op[r].content \in [Fields -> Texts]
  BY DEF Operations, Snapshots
<1>2. \A f \in Fields : (CHOOSE t \in Texts : TRUE) \in Texts
  <2> SUFFICES ASSUME NEW f \in Fields PROVE \E t \in Texts : TRUE
    OBVIOUS
  <2>1. op[r].content[f] \in Texts
    BY <1>1
  <2>2. QED
    BY <2>1
<1>3. NoVersion.content \in Snapshots
  BY <1>2 DEF NoVersion, Snapshots
<1>4. [f \in Fields |-> "pending"] \in Decisions
  BY DEF Decisions
<1>5. {} \in OneOf(Requests) /\ {} \in OneOf(Keys)
  BY DEF OneOf
<1>6. NoVersion \in Versions
  BY <1>3, <1>5 DEF NoVersion, Versions
<1>7. NoProposal \in Proposals
  BY <1>3, <1>4, <1>5 DEF NoProposal, Proposals
<1>8. QED
  BY <1>6, <1>7

\* A decision that is stored is one.
LEMMA EffectiveIsDecided ==
    ASSUME TypeOK, ProposalsAssumption, op \in Plays, NEW r \in Requests
    PROVE  /\ op[r].target \in Requests /\ Effective(r) \in Decisions
           /\ Target(r) \in Proposals /\ op[r].revision \in Nat
           /\ op[r].kind = "patch" => op[r].decisions \in Decisions
<1>1. op[r] \in Operations /\ op[r].target \in Requests
  BY DEF TypeOK, Operations
<1>2. prop[op[r].target] \in Proposals
  BY <1>1 DEF TypeOK
<1>3. op[r].decisions \in Decisions \cup {Stored}
  BY <1>1 DEF Operations
<1>4. Target(r).decisions \in Decisions
  BY <1>2 DEF Target, Proposals
<1>5. Effective(r) \in Decisions
  BY <1>3, <1>4 DEF Effective
<1>6. QED
  BY <1>1, <1>2, <1>5 DEF Operations, Target, ProposalsAssumption

\* What publishing adds; the versions there are stay as they are.
LEMMA PublishAdds ==
    ASSUME TypeOK, HistoryInv, NEW r \in Requests, at[r] = "locked",
           NEW source \in {"manual", "ai"}, NEW content \in Snapshots,
           NEW parent \in OneOf(Requests), NEW key \in OneOf(Keys),
           Publish(r, source, content, parent, key)
    PROVE  /\ r \notin Made /\ Made' = Made \cup {r}
           /\ ver' \in [Requests -> Versions] /\ cur' = {r}
           /\ \A v \in Requests \ {r} : ver'[v] = ver[v]
           /\ ver'[r].source = source /\ ver'[r].content = content
           /\ ver'[r].parent = parent /\ ver'[r].key = key
<1> DEFINE row == [number |-> NextNumber(r), parent |-> parent,
                   source |-> source, content |-> content, key |-> key]
<1>1. NextNumber(r) \in Nat /\ NextNumber(r) > 0
  BY NumberIsNext
<1>2. row \in Versions /\ row.number > 0
  BY <1>1 DEF Versions
<1>3. row.source = source /\ row.content = content /\ row.parent = parent /\ row.key = key
  OBVIOUS
<1>4. ver' = [ver EXCEPT ![r] = row] /\ cur' = {r}
  BY DEF Publish, MakeCurrent
<1> HIDE DEF row
<1>5. /\ ver' \in [Requests -> Versions] /\ ver'[r] = row
      /\ \A v \in Requests \ {r} : ver'[v] = ver[v]
  BY <1>2, <1>4 DEF TypeOK
<1>6. r \notin Made
  BY DEF HistoryInv
<1>7. Made' = Made \cup {r}
  BY <1>2, <1>5 DEF Made
<1>8. QED
  BY <1>3, <1>4, <1>5, <1>6, <1>7

\* What a commit does to one proposal
Untouched(p) == prop'[p] = prop[p]

Opened(r) ==
    /\ op[r].kind = "generate" /\ prop[r].status = "none"
    /\ prop'[r].status = "reviewing" /\ prop'[r].revision = 1 /\ prop'[r].version = {}
    /\ prop'[r].base = cur /\ prop'[r].candidate = op[r].content

Superseded(p) ==
    /\ prop[p].status = "reviewing" /\ prop'[p].status = "superseded"
    /\ prop'[p].base = prop[p].base /\ prop'[p].candidate = prop[p].candidate
    /\ prop'[p].revision = prop[p].revision /\ prop'[p].version = prop[p].version

Reviewed(r, p) ==
    /\ op[r].target = p /\ prop[p].status = "reviewing" /\ prop[p].revision = op[r].revision
    /\ prop'[p].revision = prop[p].revision + 1
    /\ prop'[p].base = prop[p].base /\ prop'[p].candidate = prop[p].candidate
    /\ \/ /\ op[r].kind = "patch" /\ prop'[p].status = "reviewing"
          /\ prop'[p].version = prop[p].version
       \/ /\ op[r].kind = "reject" /\ prop'[p].status = "rejected"
          /\ prop'[p].version = prop[p].version
       \/ /\ op[r].kind = "approve" /\ prop'[p].status = "approved"
          /\ prop'[p].version = {r} /\ prop'[p].decisions = Effective(r)

IsReview(r) == op[r].kind \in {"patch", "approve", "reject"}

\* The columns of a proposal that an UPDATE leaves alone
Row(x, status, decisions, revision, version) ==
    [status |-> status, base |-> x.base, candidate |-> x.candidate,
     decisions |-> decisions, revision |-> revision, version |-> version]

Same(x, y) == y.base = x.base /\ y.candidate = x.candidate

\* What is known of a row x when it was rewritten as y
Rewritten(x, y, status, revision, version) ==
    /\ y \in Proposals /\ Same(x, y)
    /\ y.status = status /\ y.revision = revision /\ y.version = version

LEMMA RowColumns ==
    ASSUME NEW x \in Proposals
    PROVE  /\ x.status \in {"none", "reviewing"} \cup Decided /\ x.base \in OneOf(Requests)
           /\ x.candidate \in Snapshots /\ x.decisions \in Decisions
           /\ x.revision \in Nat /\ x.revision + 1 \in Nat /\ x.version \in OneOf(Requests)
BY DEF Proposals

LEMMA SupersededRowIs ==
    ASSUME NEW x \in Proposals
    PROVE  Rewritten(x, SupersededRow(x), "superseded", x.revision, x.version)
<1>1. SupersededRow(x) = Row(x, "superseded", x.decisions, x.revision, x.version)
  BY DEF Row, Proposals, SupersededRow
<1>2. QED
  BY <1>1, RowColumns DEF Row, Same, Rewritten, Proposals, Decided

LEMMA PatchedRowIs ==
    ASSUME NEW x \in Proposals, NEW d \in Decisions
    PROVE  Rewritten(x, PatchedRow(x, d), x.status, x.revision + 1, x.version)
<1> DEFINE y == [x EXCEPT !.decisions = d]
<1>1. y = Row(x, x.status, d, x.revision, x.version)
  BY DEF Row, Proposals
<1>2. PatchedRow(x, d) = [y EXCEPT !.revision = x.revision + 1]
  BY DEF PatchedRow
<1> HIDE DEF y
<1>3. PatchedRow(x, d) = Row(x, x.status, d, x.revision + 1, x.version)
  BY <1>1, <1>2 DEF Row
<1>4. QED
  BY <1>3, RowColumns DEF Row, Same, Rewritten, Proposals

LEMMA RejectedRowIs ==
    ASSUME NEW x \in Proposals
    PROVE  Rewritten(x, RejectedRow(x), "rejected", x.revision + 1, x.version)
<1> DEFINE y == [x EXCEPT !.status = "rejected"]
<1>1. y = Row(x, "rejected", x.decisions, x.revision, x.version)
  BY DEF Row, Proposals
<1>2. RejectedRow(x) = [y EXCEPT !.revision = x.revision + 1]
  BY DEF RejectedRow
<1> HIDE DEF y
<1>3. RejectedRow(x) = Row(x, "rejected", x.decisions, x.revision + 1, x.version)
  BY <1>1, <1>2 DEF Row
<1>4. QED
  BY <1>3, RowColumns DEF Row, Same, Rewritten, Proposals, Decided

LEMMA ApprovedRowIs ==
    ASSUME NEW x \in Proposals, NEW v \in OneOf(Requests), NEW d \in Decisions
    PROVE  /\ Rewritten(x, ApprovedRow(x, v, d), "approved", x.revision + 1, v)
           /\ ApprovedRow(x, v, d).decisions = d
<1> DEFINE y == [x EXCEPT !.status = "approved"]
           z == [y EXCEPT !.version = v]
           u == [z EXCEPT !.decisions = d]
<1>1. ApprovedRow(x, v, d) = [u EXCEPT !.revision = x.revision + 1]
  BY DEF ApprovedRow
<1>2. y = Row(x, "approved", x.decisions, x.revision, x.version)
  BY DEF Row, Proposals
<1> HIDE DEF y
<1>3. z = Row(x, "approved", x.decisions, x.revision, v)
  BY <1>2 DEF Row
<1> HIDE DEF z
<1>4. u = Row(x, "approved", d, x.revision, v)
  BY <1>3 DEF Row
<1> HIDE DEF u
<1>5. ApprovedRow(x, v, d) = Row(x, "approved", d, x.revision + 1, v)
  BY <1>1, <1>4 DEF Row
<1>6. QED
  BY <1>5, RowColumns DEF Row, Same, Rewritten, Proposals, Decided

\* Each proposal but the one concerned stays as it is, or is superseded by an approval.
LEMMA WritesToProposals ==
    ASSUME TypeOK, ProposalsAssumption, op \in Plays, WritersAreDone,
           NEW r \in Requests, Ends(r), Writes(r)
    PROVE  /\ prop' \in [Requests -> Proposals]
           /\ \A p \in Requests :
                \/ /\ Untouched(p) /\ (IsReview(r) => op[r].target # p)
                   /\ op[r].kind = "generate" => r # p
                \/ p = r /\ Opened(r)
                \/ Superseded(p) /\ op[r].kind = "approve" /\ op[r].target # p
                \/ Reviewed(r, p)
<1> DEFINE t == op[r].target
<1>1. /\ t \in Requests /\ Effective(r) \in Decisions /\ op[r].revision \in Nat
      /\ op[r].kind = "patch" => op[r].decisions \in Decisions
      /\ prop \in [Requests -> Proposals] /\ prop[t] \in Proposals
      /\ op[r] \in Operations
  BY EffectiveIsDecided DEF TypeOK, Target
<1>2. NoProposal \in Proposals /\ {r} \in OneOf(Requests) /\ cur \in OneOf(Requests)
  BY NoRowTypes DEF TypeOK, OneOf
<1>3. op[r].content \in Snapshots
  BY <1>1 DEF Operations
<1>4. CASE Imports(r)
  BY <1>1, <1>4 DEF Imports, Untouched, IsReview
<1>5. CASE Generates(r)
  <2> DEFINE row == [NoProposal EXCEPT !.status = "reviewing", !.base = cur,
                                       !.candidate = op[r].content]
  <2>1. /\ row \in Proposals /\ row.status = "reviewing" /\ row.revision = 1
        /\ row.version = {} /\ row.base = cur /\ row.candidate = op[r].content
    BY <1>2, <1>3 DEF NoProposal, Proposals
  <2>2. prop' = [prop EXCEPT ![r] = row] /\ op[r].kind = "generate"
    BY <1>5 DEF Generates
  <2> HIDE DEF row
  <2>3. /\ prop' \in [Requests -> Proposals] /\ prop'[r] = row
        /\ \A p \in Requests \ {r} : prop'[p] = prop[p]
    BY <1>1, <2>1, <2>2
  <2>4. prop[r].status = "none"
    BY DEF WritersAreDone, Ends
  <2>5. Opened(r)
    BY <2>1, <2>2, <2>3, <2>4 DEF Opened
  <2>6. QED
    BY <2>2, <2>3, <2>5 DEF Untouched, IsReview
<1>6. ASSUME NEW row \in Proposals, prop' = [prop EXCEPT ![t] = row], Same(prop[t], row),
             op[r].kind \in {"patch", "reject"}, Open(r), Fresh(r),
             row.revision = prop[t].revision + 1, row.version = prop[t].version,
             row.status = IF op[r].kind = "patch" THEN "reviewing" ELSE "rejected"
      PROVE  /\ prop' \in [Requests -> Proposals] /\ Reviewed(r, t)
             /\ \A p \in Requests \ {t} : Untouched(p)
  <2>1. /\ prop' \in [Requests -> Proposals] /\ prop'[t] = row
        /\ \A p \in Requests \ {t} : prop'[p] = prop[p]
    BY <1>1, <1>6
  <2>2. prop[t].status = "reviewing" /\ prop[t].revision = op[r].revision
    BY <1>6 DEF Open, Fresh, Target
  <2> HIDE DEF t
  <2>3. QED
    BY <1>6, <2>1, <2>2 DEF Reviewed, Untouched, Same, t
<1>7. CASE Patches(r)
  <2> DEFINE row == PatchedRow(prop[t], op[r].decisions)
  <2>1. op[r].kind = "patch" /\ Open(r) /\ Fresh(r) /\ prop' = [prop EXCEPT ![t] = row]
    BY <1>7 DEF Patches
  <2>2. prop[t].status = "reviewing" /\ op[r].decisions \in Decisions
    BY <1>1, <2>1 DEF Open, Target
  <2>3. Rewritten(prop[t], row, prop[t].status, prop[t].revision + 1, prop[t].version)
    BY <1>1, <2>2, PatchedRowIs
  <2> HIDE DEF row
  <2>4. /\ row \in Proposals /\ Same(prop[t], row) /\ row.status = "reviewing"
        /\ row.revision = prop[t].revision + 1 /\ row.version = prop[t].version
    BY <2>2, <2>3 DEF Rewritten
  <2>5. Reviewed(r, t) /\ prop' \in [Requests -> Proposals] /\ \A p \in Requests \ {t} : Untouched(p)
    BY <1>6, <2>1, <2>4
  <2>6. QED
    BY <2>1, <2>5
<1>8. CASE Rejects(r)
  <2> DEFINE row == RejectedRow(prop[t])
  <2>1. op[r].kind = "reject" /\ Open(r) /\ Fresh(r) /\ prop' = [prop EXCEPT ![t] = row]
    BY <1>8 DEF Rejects
  <2>2. Rewritten(prop[t], row, "rejected", prop[t].revision + 1, prop[t].version)
    BY <1>1, RejectedRowIs
  <2> HIDE DEF row
  <2>3. /\ row \in Proposals /\ Same(prop[t], row) /\ row.status = "rejected"
        /\ row.revision = prop[t].revision + 1 /\ row.version = prop[t].version
    BY <2>2 DEF Rewritten
  <2>4. Reviewed(r, t) /\ prop' \in [Requests -> Proposals] /\ \A p \in Requests \ {t} : Untouched(p)
    BY <1>6, <2>1, <2>3
  <2>5. QED
    BY <2>1, <2>4
<1>9. CASE Approves(r)
  <2> DEFINE row(q) == IF q = t THEN ApprovedRow(prop[q], {r}, Effective(r))
                       ELSE IF prop[q].status = "reviewing" THEN SupersededRow(prop[q]) ELSE prop[q]
  <2>1. prop' = [q \in Requests |-> row(q)] /\ op[r].kind = "approve" /\ Open(r) /\ Fresh(r)
    BY <1>9 DEF Approves, Kept
  <2>2. prop[t].status = "reviewing" /\ prop[t].revision = op[r].revision
    BY <2>1 DEF Open, Fresh, Target
  <2>3. /\ row(t) \in Proposals /\ row(t).status = "approved" /\ row(t).version = {r}
        /\ row(t).decisions = Effective(r) /\ row(t).revision = prop[t].revision + 1
        /\ Same(prop[t], row(t))
    <3>1. Rewritten(prop[t], row(t), "approved", prop[t].revision + 1, {r})
          /\ row(t).decisions = Effective(r)
      BY <1>1, <1>2, ApprovedRowIs
    <3>2. QED
      BY <3>1 DEF Rewritten
  <2>4. ASSUME NEW q \in Requests \ {t}
        PROVE  /\ row(q) \in Proposals
               /\ \/ row(q) = prop[q]
                  \/ /\ prop[q].status = "reviewing" /\ row(q).status = "superseded"
                     /\ Same(prop[q], row(q)) /\ row(q).revision = prop[q].revision
                     /\ row(q).version = prop[q].version
    <3>1. prop[q] \in Proposals
      BY <1>1
    <3>2. CASE prop[q].status = "reviewing"
      <4>1. Rewritten(prop[q], row(q), "superseded", prop[q].revision, prop[q].version)
        BY <2>4, <3>1, <3>2, SupersededRowIs
      <4>2. QED
        BY <3>2, <4>1 DEF Rewritten
    <3>3. QED
      BY <2>4, <3>1, <3>2
  <2> HIDE DEF row
  <2>5. prop' \in [Requests -> Proposals] /\ \A q \in Requests : prop'[q] = row(q)
    BY <1>1, <2>1, <2>3, <2>4
  <2>6. Reviewed(r, t)
    BY <1>1, <2>1, <2>2, <2>3, <2>5 DEF Reviewed, Same
  <2>7. ASSUME NEW q \in Requests \ {t} PROVE Untouched(q) \/ Superseded(q)
    BY <2>4, <2>5 DEF Untouched, Superseded, Same
  <2>8. QED
    BY <2>1, <2>5, <2>6, <2>7
<1>10. QED
  BY <1>4, <1>5, <1>7, <1>8, <1>9 DEF Writes

\* What a commit does to the versions
ImportedBy(r) ==
    /\ op[r].kind = "import" /\ Imported(r) = {} /\ Made' = Made \cup {r} /\ cur' = {r}
    /\ ver'[r].source = "manual" /\ ver'[r].content = op[r].content /\ ver'[r].key = {op[r].key}

ApprovedBy(r) ==
    /\ op[r].kind = "approve" /\ Unmergeable(r) = "none" /\ Made' = Made \cup {r} /\ cur' = {r}
    /\ ver'[r].source = "ai" /\ ver'[r].parent = Target(r).base /\ ver'[r].key = {}
    /\ ver'[r].content = Merge(CurrentContent(Target(r).base), Target(r).candidate, Effective(r))
    /\ prop'[op[r].target].status = "approved" /\ prop'[op[r].target].version = {r}

LEMMA WritesToVersions ==
    ASSUME TypeOK, ProposalsAssumption, op \in Plays, HistoryInv,
           NEW r \in Requests, Ends(r), Writes(r)
    PROVE  /\ ver' \in [Requests -> Versions] /\ cur' \in OneOf(Requests) /\ r \notin Made
           /\ \A v \in Made : v \in Made' /\ ver'[v] = ver[v]
           /\ \/ Made' = Made /\ UNCHANGED <<ver, cur>> /\ op[r].kind \notin {"import", "approve"}
              \/ ImportedBy(r)
              \/ ApprovedBy(r)
<1>1. at[r] = "locked" /\ r \notin Made
  BY DEF Ends, HistoryInv
<1>2. /\ op[r] \in Operations /\ cur \in OneOf(Requests) /\ ver \in [Requests -> Versions]
      /\ prop \in [Requests -> Proposals]
  BY DEF TypeOK
<1>3. /\ op[r].content \in Snapshots /\ {op[r].key} \in OneOf(Keys) /\ {} \in OneOf(Keys)
      /\ {r} \in OneOf(Requests)
  BY <1>2 DEF Operations, OneOf
<1>4. CASE Imports(r)
  <2>1. Publish(r, "manual", op[r].content, cur, {op[r].key}) /\ op[r].kind = "import"
        /\ Imported(r) = {}
    BY <1>4 DEF Imports
  <2>2. /\ Made' = Made \cup {r} /\ ver' \in [Requests -> Versions] /\ cur' = {r}
        /\ \A v \in Requests \ {r} : ver'[v] = ver[v]
        /\ ver'[r].source = "manual" /\ ver'[r].content = op[r].content
        /\ ver'[r].key = {op[r].key}
    BY <1>1, <1>2, <1>3, <2>1, PublishAdds
  <2>3. ImportedBy(r)
    BY <2>1, <2>2 DEF ImportedBy
  <2>4. \A v \in Made : v \in Made' /\ ver'[v] = ver[v]
    BY <1>1, <2>2 DEF Made
  <2>5. QED
    BY <1>1, <1>3, <2>2, <2>3, <2>4
<1>5. CASE Approves(r)
  <2> DEFINE x == Target(r)
             content == Merge(CurrentContent(x.base), x.candidate, Effective(r))
  <2>1. Publish(r, "ai", content, x.base, {}) /\ op[r].kind = "approve" /\ Unmergeable(r) = "none"
    BY <1>5 DEF Approves
  <2>2. x \in Proposals /\ Effective(r) \in Decisions /\ op[r].target \in Requests
    BY EffectiveIsDecided
  <2>3. x.base \in OneOf(Requests) /\ x.candidate \in Snapshots
    BY <2>2 DEF Proposals
  <2>4. CurrentContent(x.base) \in Snapshots
    <3>1. NoVersion.content \in Snapshots
      BY NoRowTypes DEF TypeOK, Versions
    <3>2. ASSUME x.base # {} PROVE ver[CHOOSE v \in x.base : TRUE].content \in Snapshots
      <4>1. (CHOOSE v \in x.base : TRUE) \in Requests
        BY <2>3, <3>2 DEF OneOf
      <4>2. QED
        BY <1>2, <4>1 DEF Versions
    <3>3. QED
      BY <3>1, <3>2 DEF CurrentContent
  <2>5. content \in Snapshots
    BY <2>3, <2>4 DEF Merge, Snapshots
  <2> HIDE DEF content
  <2>6. /\ Made' = Made \cup {r} /\ ver' \in [Requests -> Versions] /\ cur' = {r}
        /\ \A v \in Requests \ {r} : ver'[v] = ver[v]
        /\ ver'[r].source = "ai" /\ ver'[r].content = content
        /\ ver'[r].parent = x.base /\ ver'[r].key = {}
    BY <1>1, <1>2, <1>3, <2>1, <2>3, <2>5, PublishAdds
  <2>7. prop'[op[r].target] = ApprovedRow(prop[op[r].target], {r}, Effective(r))
    BY <1>2, <1>5, <2>2 DEF Approves, Kept
  <2>8. prop'[op[r].target].status = "approved" /\ prop'[op[r].target].version = {r}
    <3>1. Rewritten(x, ApprovedRow(x, {r}, Effective(r)), "approved", x.revision + 1, {r})
      BY <1>3, <2>2, ApprovedRowIs
    <3>2. QED
      BY <2>7, <3>1 DEF Rewritten, Target
  <2>9. ApprovedBy(r)
    BY <2>1, <2>6, <2>8 DEF ApprovedBy, content
  <2>10. \A v \in Made : v \in Made' /\ ver'[v] = ver[v]
    BY <1>1, <2>6 DEF Made
  <2>11. QED
    BY <1>1, <1>3, <2>6, <2>9, <2>10
<1>6. CASE Generates(r) \/ Patches(r) \/ Rejects(r)
  <2>1. UNCHANGED <<ver, cur>> /\ op[r].kind \notin {"import", "approve"}
    BY <1>6 DEF Generates, Patches, Rejects
  <2>2. Made' = Made
    BY <2>1 DEF Made
  <2>3. QED
    BY <1>1, <1>2, <2>1, <2>2
<1>7. QED
  BY <1>4, <1>5, <1>6 DEF Writes

---------------------------------------------------------------------------
(* A commit keeps the invariant                                             *)

\* What is known of the commit of request r
Commits(r) ==
    /\ ReviewInv /\ r \in Requests /\ Ends(r)
    /\ prop' \in [Requests -> Proposals] /\ ver' \in [Requests -> Versions]
    /\ cur' \in OneOf(Requests) /\ r \notin Made
    /\ \A p \in Requests :
         \/ /\ Untouched(p) /\ (IsReview(r) => op[r].target # p)
            /\ op[r].kind = "generate" => r # p
         \/ p = r /\ Opened(r)
         \/ Superseded(p) /\ op[r].kind = "approve" /\ op[r].target # p
         \/ Reviewed(r, p)
    /\ \A v \in Made : v \in Made' /\ ver'[v] = ver[v]
    /\ \/ Made' = Made /\ UNCHANGED <<ver, cur>> /\ op[r].kind \notin {"import", "approve"}
       \/ ImportedBy(r)
       \/ ApprovedBy(r)

LEMMA CommitsKnown ==
    ASSUME ReviewInv, ProposalsAssumption, NEW r \in Requests, Ends(r), Writes(r)
    PROVE  Commits(r)
BY WritesToProposals, WritesToVersions DEF ReviewInv, Commits

LEMMA WritersStayDone ==
    ASSUME NEW r, Commits(r)
    PROVE  WritersAreDone'
<1> SUFFICES ASSUME NEW q \in Requests, prop'[q].status # "none" \/ q \in applied'
             PROVE  at'[q] = "done"
  BY DEF WritersAreDone
<1>1. WritersAreDone /\ Ends(r)
  BY DEF Commits, ReviewInv
<1>2. CASE q = r
  BY <1>1, <1>2 DEF Ends
<1>3. CASE q # r
  <2>1. prop[q].status # "none" \/ q \in applied
    BY <1>1, <1>3 DEF Commits, Ends, Untouched, Superseded, Reviewed
  <2>2. at[q] = "done"
    BY <1>1, <2>1 DEF WritersAreDone
  <2>3. QED
    BY <1>1, <1>3, <2>2 DEF Ends
<1>4. QED
  BY <1>2, <1>3

\* A generation's proposal is new.
LEMMA OpenedWasNew ==
    ASSUME NEW r, Commits(r), op[r].kind = "generate"
    PROVE  prop[r].status = "none"
BY DEF Commits, ReviewInv, WritersAreDone, Ends

LEMMA ProposalsStillRefer ==
    ASSUME NEW r, Commits(r)
    PROVE  ProposalsRefer'
<1> SUFFICES ASSUME NEW p \in Requests
             PROVE  /\ prop'[p].base \subseteq Made' /\ prop'[p].version \subseteq Made'
                    /\ prop'[p].version = {} <=> prop'[p].status # "approved"
                    /\ prop'[p].status = "none" => prop'[p].revision = 1
  BY DEF ProposalsRefer
<1>1. /\ prop[p].base \subseteq Made /\ prop[p].version \subseteq Made
      /\ prop[p].version = {} <=> prop[p].status # "approved"
      /\ prop[p].status = "none" => prop[p].revision = 1
  BY DEF Commits, ReviewInv, ProposalsRefer
<1>2. Made \subseteq Made'
  BY DEF Commits
<1>3. CASE Untouched(p)
  BY <1>1, <1>2, <1>3 DEF Untouched
<1>4. CASE p = r /\ Opened(r)
  <2>1. cur \subseteq Made
    BY DEF Commits, ReviewInv, HistoryInv, LinearHistory
  <2>2. QED
    BY <1>2, <1>4, <2>1 DEF Opened
<1>5. CASE Superseded(p)
  BY <1>1, <1>2, <1>5 DEF Superseded
<1>6. CASE Reviewed(r, p)
  <2>1. op[r].kind = "approve" => r \in Made'
    BY DEF Commits, ImportedBy, ApprovedBy
  <2>2. QED
    BY <1>1, <1>2, <1>6, <2>1 DEF Reviewed
<1>7. QED
  BY <1>3, <1>4, <1>5, <1>6 DEF Commits

LEMMA ReviewsStayCounted ==
    ASSUME NEW r, Commits(r)
    PROVE  ReviewsAreCounted'
<1>1. /\ Ends(r) /\ ReviewsAreCounted /\ r \in Requests
      /\ prop \in [Requests -> Proposals] /\ op \in [Requests -> Operations] /\ applied \subseteq Requests
  BY DEF Commits, ReviewInv, TypeOK
<1>2. r \notin applied /\ applied' = applied \cup {r} /\ op' = op
  BY <1>1 DEF Commits, ReviewInv, WritersAreDone, Ends
<1>3. \A p \in Requests : Reviews(p)' = Reviews(p) \cup (IF IsReview(r) /\ op[r].target = p THEN {r} ELSE {})
  BY <1>2 DEF Reviews, IsReview
<1> SUFFICES ASSUME NEW p \in Requests
             PROVE  /\ IsFiniteSet(Reviews(p)')
                    /\ prop'[p].revision = 1 + Cardinality(Reviews(p)')
                    /\ prop'[p].status = "none" => Reviews(p)' = {}
                    /\ \A s \in Reviews(p)' : op[s].revision < prop'[p].revision
                    /\ \A s, t \in Reviews(p)' : op[s].revision = op[t].revision => s = t
  BY <1>2 DEF ReviewsAreCounted
<1> DEFINE S == Reviews(p)
           T == Reviews(p)'
<1>4. /\ IsFiniteSet(S) /\ prop[p].revision = 1 + Cardinality(S)
      /\ prop[p].status = "none" => S = {}
      /\ \A s \in S : op[s].revision < prop[p].revision
      /\ \A s, t \in S : op[s].revision = op[t].revision => s = t
  BY <1>1 DEF ReviewsAreCounted
<1>5. r \notin S /\ Cardinality(S) \in Nat /\ S \subseteq Requests
  BY <1>1, <1>2, <1>4, FS_CardinalityType DEF Reviews
<1>6. prop[p].revision \in Nat /\ \A s \in Requests : op[s].revision \in Nat
  BY <1>1 DEF Proposals, Operations
<1>7. CASE ~(IsReview(r) /\ op[r].target = p) /\ prop'[p].revision = prop[p].revision
           /\ (prop'[p].status = "none" => prop[p].status = "none")
  <2>1. T = S
    BY <1>3, <1>7
  <2>2. QED
    BY <1>4, <1>7, <2>1
<1>8. CASE p = r /\ Opened(r)
  <2>1. prop[p].revision = 1 /\ ~IsReview(r)
    BY <1>8 DEF Opened, IsReview, Commits, ReviewInv, ProposalsRefer
  <2>2. QED
    BY <1>7, <1>8, <2>1 DEF Opened
<1>9. CASE Reviewed(r, p)
  <2>1. IsReview(r) /\ op[r].target = p
    BY <1>9 DEF Reviewed, IsReview
  <2>2. T = S \cup {r}
    BY <1>3, <2>1
  <2>3. IsFiniteSet(T) /\ Cardinality(T) = Cardinality(S) + 1
    BY <1>4, <1>5, <2>2, FS_AddElement
  <2>4. /\ prop'[p].revision = prop[p].revision + 1 /\ op[r].revision = prop[p].revision
        /\ prop'[p].status # "none"
    BY <1>9 DEF Reviewed
  <2> HIDE DEF S, T
  <2>5. \A s \in T : op[s].revision < prop'[p].revision
    BY <1>4, <1>5, <1>6, <2>2, <2>4
  <2>6. \A s \in S : op[s].revision # op[r].revision
    BY <1>4, <1>5, <1>6, <2>4
  <2>7. \A s, t \in T : op[s].revision = op[t].revision => s = t
    BY <1>4, <2>2, <2>6
  <2>8. prop'[p].revision = 1 + Cardinality(T)
    BY <1>4, <1>5, <2>3, <2>4
  <2>9. QED
    BY <2>3, <2>4, <2>5, <2>7, <2>8 DEF S, T
<1>10. CASE Untouched(p) /\ (IsReview(r) => op[r].target # p)
  BY <1>7, <1>10 DEF Untouched
<1>11. CASE Superseded(p) /\ op[r].target # p
  BY <1>7, <1>11 DEF Superseded
<1>12. QED
  BY <1>8, <1>9, <1>10, <1>11 DEF Commits

LEMMA VersionsStayOwned ==
    ASSUME NEW r, Commits(r)
    PROVE  VersionsAreOwned'
<1>1. /\ \A v \in Made : ver[v].source = "ai" => \E p \in Requests : prop[p].version = {v}
      /\ \A p, q \in Requests : prop[p].version = prop[q].version /\ prop[p].version # {} => p = q
      /\ \A v, w \in Made : ver[v].key = ver[w].key /\ ver[v].key # {} => v = w
  BY DEF Commits, ReviewInv, VersionsAreOwned
<1>2. /\ r \notin Made /\ \A v \in Made : v \in Made' /\ ver'[v] = ver[v]
      /\ \A p \in Requests : prop[p].version \subseteq Made
      /\ \A p \in Requests : prop[p].version = {} <=> prop[p].status # "approved"
  BY DEF Commits, ReviewInv, ProposalsRefer
<1>3. \A p \in Requests :
         \/ prop'[p].version = prop[p].version
         \/ prop'[p].version = {r} /\ prop[p].version = {} /\ op[r].target = p
  <2> SUFFICES ASSUME NEW p \in Requests
               PROVE  \/ prop'[p].version = prop[p].version
                      \/ prop'[p].version = {r} /\ prop[p].version = {} /\ op[r].target = p
    OBVIOUS
  <2>1. CASE p = r /\ Opened(r)
    BY <1>2, <2>1 DEF Opened
  <2>2. CASE Reviewed(r, p)
    BY <1>2, <2>2 DEF Reviewed
  <2>3. QED
    BY <2>1, <2>2 DEF Commits, Untouched, Superseded
<1>4. \A p, q \in Requests : prop'[p].version = prop'[q].version /\ prop'[p].version # {} => p = q
  BY <1>1, <1>2, <1>3
<1>5. \A v \in Made : ver'[v].source = "ai" => \E p \in Requests : prop'[p].version = {v}
  <2> SUFFICES ASSUME NEW v \in Made, ver'[v].source = "ai"
               PROVE  \E p \in Requests : prop'[p].version = {v}
    OBVIOUS
  <2>1. PICK p \in Requests : prop[p].version = {v}
    BY <1>1, <1>2
  <2>2. QED
    BY <1>3, <2>1
<1>6. CASE Made' = Made
  <2>1. \A v, w \in Made' : ver'[v].key = ver'[w].key /\ ver'[v].key # {} => v = w
    BY <1>1, <1>2, <1>6
  <2>2. \A v \in Made' : ver'[v].source = "ai" => \E p \in Requests : prop'[p].version = {v}
    BY <1>5, <1>6
  <2>3. QED
    BY <1>4, <2>1, <2>2 DEF VersionsAreOwned
<1>7. CASE ImportedBy(r)
  <2>1. Made' = Made \cup {r} /\ ver'[r].source = "manual" /\ ver'[r].key = {op[r].key}
    BY <1>7 DEF ImportedBy
  <2>2. \A v \in Made : ver'[v].key # {op[r].key}
    BY <1>2, <1>7 DEF ImportedBy, Imported
  <2>3. \A v, w \in Made' : ver'[v].key = ver'[w].key /\ ver'[v].key # {} => v = w
    BY <1>1, <1>2, <2>1, <2>2
  <2>4. \A v \in Made' : ver'[v].source = "ai" => \E p \in Requests : prop'[p].version = {v}
    BY <1>5, <2>1
  <2>5. QED
    BY <1>4, <2>3, <2>4 DEF VersionsAreOwned
<1>8. CASE ApprovedBy(r)
  <2>1. Made' = Made \cup {r} /\ ver'[r].key = {} /\ prop'[op[r].target].version = {r}
    BY <1>8 DEF ApprovedBy
  <2>2. op[r].target \in Requests
    BY DEF Commits, ReviewInv, TypeOK, Operations
  <2>3. \A v, w \in Made' : ver'[v].key = ver'[w].key /\ ver'[v].key # {} => v = w
    BY <1>1, <1>2, <2>1
  <2>4. \A v \in Made' : ver'[v].source = "ai" => \E p \in Requests : prop'[p].version = {v}
    BY <1>5, <2>1, <2>2
  <2>5. QED
    BY <1>4, <2>3, <2>4 DEF VersionsAreOwned
<1>9. QED
  BY <1>6, <1>7, <1>8 DEF Commits

\* What an approval merges is decided field by field, and a rejected field has a base.
LEMMA MergeIsDecided ==
    ASSUME NEW r, Effective(r) \in Decisions, Unmergeable(r) = "none",
           NEW f \in Fields
    PROVE  /\ Effective(r)[f] \in {"accept", "reject"}
           /\ Target(r).base = cur
           /\ Effective(r)[f] = "reject" => Target(r).base # {}
<1>1. Effective(r)[f] \in {"accept", "reject", "pending"}
  BY DEF Decisions
<1>2. QED
  BY <1>1 DEF Unmergeable, Stale

LEMMA MergesStay ==
    ASSUME ProposalsAssumption, NEW r, Commits(r), NEW p \in Requests, prop'[p].status = "approved"
    PROVE  Merged(p)'
<1>1. /\ prop[p].status = "approved" => Merged(p)
      /\ prop[p].base \subseteq Made /\ prop[p].version \subseteq Made
      /\ \A v \in Made : ver'[v] = ver[v]
  BY DEF Commits, ReviewInv, ProposalsRefer
<1>2. CASE Untouched(p)
  <2>1. prop'[p] = prop[p] /\ prop[p].status = "approved"
    BY <1>2 DEF Untouched
  <2>2. PICK v \in prop[p].version :
          /\ ver[v].source = "ai" /\ ver[v].parent = prop[p].base
          /\ \A f \in Fields :
              \/ prop[p].decisions[f] = "accept" /\ ver[v].content[f] = prop[p].candidate[f]
              \/ /\ prop[p].decisions[f] = "reject"
                 /\ \E b \in prop[p].base : ver[v].content[f] = ver[b].content[f]
    BY <1>1, <2>1 DEF Merged
  <2>3. ver'[v] = ver[v] /\ \A b \in prop[p].base : ver'[b] = ver[b]
    BY <1>1
  <2>4. \A f \in Fields :
              \/ prop'[p].decisions[f] = "accept" /\ ver'[v].content[f] = prop'[p].candidate[f]
              \/ /\ prop'[p].decisions[f] = "reject"
                 /\ \E b \in prop'[p].base : ver'[v].content[f] = ver'[b].content[f]
    BY <2>1, <2>2, <2>3
  <2>5. v \in prop'[p].version /\ ver'[v].source = "ai" /\ ver'[v].parent = prop'[p].base
    BY <2>1, <2>2, <2>3
  <2>6. QED
    BY <2>4, <2>5 DEF Merged
<1>3. CASE Reviewed(r, p)
  <2>1. /\ op[r].kind = "approve" /\ op[r].target = p /\ prop'[p].version = {r}
        /\ prop'[p].decisions = Effective(r)
        /\ prop'[p].base = prop[p].base /\ prop'[p].candidate = prop[p].candidate
    BY <1>3 DEF Reviewed
  <2>2. ApprovedBy(r)
    BY <2>1 DEF Commits, ImportedBy
  <2>3. /\ Unmergeable(r) = "none" /\ ver'[r].source = "ai" /\ ver'[r].parent = prop[p].base
        /\ ver'[r].content = Merge(CurrentContent(prop[p].base), prop[p].candidate, Effective(r))
    BY <2>1, <2>2 DEF ApprovedBy, Target
  <2>4. /\ Effective(r) \in Decisions /\ prop[p].base \in OneOf(Requests)
    <3>1. r \in Requests /\ TypeOK /\ op \in Plays
      BY DEF Commits, ReviewInv
    <3>2. Target(r) \in Proposals /\ Effective(r) \in Decisions
      BY <3>1, EffectiveIsDecided
    <3>3. QED
      BY <2>1, <3>2, RowColumns DEF Target
  <2>5. ASSUME NEW f \in Fields
        PROVE  \/ prop'[p].decisions[f] = "accept" /\ ver'[r].content[f] = prop'[p].candidate[f]
               \/ /\ prop'[p].decisions[f] = "reject"
                  /\ \E b \in prop'[p].base : ver'[r].content[f] = ver'[b].content[f]
    <3>1. /\ Effective(r)[f] \in {"accept", "reject"}
          /\ Effective(r)[f] = "reject" => prop[p].base # {}
      BY <2>1, <2>3, <2>4, MergeIsDecided DEF Target
    <3>2. ver'[r].content[f] = IF Effective(r)[f] = "accept" THEN prop[p].candidate[f]
                               ELSE CurrentContent(prop[p].base)[f]
      BY <2>3 DEF Merge
    <3>3. CASE Effective(r)[f] = "accept"
      BY <2>1, <3>2, <3>3
    <3>4. CASE Effective(r)[f] = "reject"
      <4>1. PICK b \in Requests : prop[p].base = {b}
        BY <2>4, <3>1, <3>4 DEF OneOf
      <4>2. CurrentContent(prop[p].base) = ver[b].content
        BY <4>1 DEF CurrentContent
      <4>3. ver'[b] = ver[b]
        BY <1>1, <4>1
      <4>4. QED
        BY <2>1, <3>2, <3>4, <4>1, <4>2, <4>3
    <3>5. QED
      BY <3>1, <3>3, <3>4
  <2>6. QED
    BY <2>1, <2>3, <2>5 DEF Merged
<1>4. QED
  BY <1>2, <1>3 DEF Commits, Opened, Superseded

LEMMA AnswersStillHold ==
    ASSUME NEW r, Commits(r)
    PROVE  AnswersHold'
<1>1. /\ r \in Requests /\ op' = op /\ exists' = exists /\ answer'[r] \in {"ok", "error"}
      /\ \A q \in Requests \ {r} : answer'[q] = answer[q]
      /\ op \in [Requests -> Operations] /\ prop \in [Requests -> Proposals]
      /\ AnswersHold
      /\ \A v \in Made : v \in Made' /\ ver'[v] = ver[v]
  BY DEF Commits, Ends, ReviewInv, TypeOK
<1>2. \A q \in Requests : op[q].target \in Requests /\ op[q].revision \in Nat
                          /\ prop[q].revision \in Nat
                          /\ op[q].kind \in {"import", "generate", "patch", "approve", "reject"}
  BY <1>1 DEF Operations, Proposals
<1>3. \A p \in Requests :
         /\ prop[p].status \notin {"none", "reviewing"} => prop'[p].status = prop[p].status
         /\ prop[p].status # "none" =>
              /\ prop'[p].status # "none" /\ prop'[p].candidate = prop[p].candidate
              /\ prop'[p].revision >= prop[p].revision
  BY <1>2 DEF Commits, Untouched, Opened, Superseded, Reviewed
<1> SUFFICES ASSUME NEW q \in Requests, exists', answer'[q] \in {"ok", "replay"}
             PROVE  AnswerHolds(q)'
  BY DEF AnswersHold
<1> SUFFICES
        \/ /\ op[q].kind = "import"
           /\ \E v \in Made' : ver'[v].content = op[q].content /\ ver'[v].key = {op[q].key}
        \/ op[q].kind = "approve" /\ prop'[op[q].target].status = "approved"
        \/ op[q].kind = "reject" /\ prop'[op[q].target].status = "rejected"
        \/ /\ op[q].kind = "generate"
           /\ prop'[q].status # "none" /\ prop'[q].candidate = op[q].content
        \/ /\ op[q].kind = "patch"
           /\ prop'[op[q].target].status # "none"
           /\ prop'[op[q].target].revision > op[q].revision
  BY <1>1 DEF AnswerHolds, Target
<1>4. CASE q # r
  <2>1. \/ /\ op[q].kind = "import"
           /\ \E v \in Made : ver[v].content = op[q].content /\ ver[v].key = {op[q].key}
        \/ op[q].kind = "approve" /\ prop[op[q].target].status = "approved"
        \/ op[q].kind = "reject" /\ prop[op[q].target].status = "rejected"
        \/ /\ op[q].kind = "generate"
           /\ prop[q].status # "none" /\ prop[q].candidate = op[q].content
        \/ /\ op[q].kind = "patch"
           /\ prop[op[q].target].status # "none"
           /\ prop[op[q].target].revision > op[q].revision
    <3>1. AnswerHolds(q)
      BY <1>1, <1>4 DEF AnswersHold
    <3>2. QED
      BY <3>1 DEF AnswerHolds, Target
  <2>2. CASE op[q].kind = "import"
    BY <1>1, <2>1, <2>2
  <2>3. CASE op[q].kind \in {"approve", "reject", "generate"}
    BY <1>2, <1>3, <2>1, <2>3
  <2>4. CASE op[q].kind = "patch"
    <3>1. /\ prop'[op[q].target].status # "none"
          /\ prop'[op[q].target].revision >= prop[op[q].target].revision
          /\ prop[op[q].target].revision > op[q].revision
      BY <1>2, <1>3, <2>1, <2>4
    <3>2. prop'[op[q].target].revision \in Nat
      BY <1>2 DEF Commits, Proposals
    <3>3. QED
      BY <1>2, <2>4, <3>1, <3>2
  <2>5. QED
    BY <1>2, <2>2, <2>3, <2>4
<1>5. CASE q = r
  <2>1. CASE op[r].kind = "import"
    <3>1. ImportedBy(r)
      BY <2>1 DEF Commits, ApprovedBy
    <3>2. QED
      BY <1>1, <1>5, <2>1, <3>1 DEF ImportedBy
  <2>2. CASE op[r].kind = "generate"
    <3>1. Opened(r)
      BY <1>1, <2>2 DEF Commits, Reviewed
    <3>2. QED
      BY <1>5, <2>2, <3>1 DEF Opened
  <2>3. CASE IsReview(r)
    <3>1. Reviewed(r, op[r].target)
      BY <1>2, <2>3 DEF Commits, Opened, IsReview
    <3>2. QED
      BY <1>2, <1>5, <3>1 DEF Reviewed
  <2>4. QED
    BY <1>1, <1>2, <2>1, <2>2, <2>3 DEF IsReview
<1>6. QED
  BY <1>4, <1>5

\* A step that writes nothing
LEMMA QuietStep ==
    ASSUME ReviewInv, [Next]_vars, ShellOK', Quiet
    PROVE  ReviewInv'
<1>1. /\ TypeOK /\ op \in Plays /\ WritersAreDone /\ ProposalsRefer /\ ReviewsAreCounted
      /\ VersionsAreOwned /\ \A p \in Requests : prop[p].status = "approved" => Merged(p)
      /\ AnswersHold
  BY DEF ReviewInv
<1>2. /\ op' = op /\ exists' = exists /\ ver' = ver /\ cur' = cur /\ prop' = prop
      /\ applied' = applied
  BY DEF Quiet
<1>3. Made' = Made
  BY <1>2 DEF Made
<1>4. TypeOK' /\ op' \in Plays
  BY <1>1, <1>2 DEF TypeOK, ShellOK
<1>5. HistoryInv'
  BY HistoryStep DEF ReviewInv
<1>6. WritersAreDone'
  BY <1>1, <1>2 DEF WritersAreDone, Quiet
<1>7. ProposalsRefer'
  BY <1>1, <1>2, <1>3 DEF ProposalsRefer
<1>8. ReviewsAreCounted'
  <2>1. \A p : Reviews(p)' = Reviews(p)
    BY <1>2 DEF Reviews
  <2>2. QED
    BY <1>1, <1>2, <2>1 DEF ReviewsAreCounted
<1>9. VersionsAreOwned'
  BY <1>1, <1>2, <1>3 DEF VersionsAreOwned
<1>10. \A p \in Requests : prop'[p].status = "approved" => Merged(p)'
  BY <1>1, <1>2 DEF Merged
<1>11. AnswersHold'
  <2> SUFFICES ASSUME NEW q \in Requests, exists', answer'[q] \in {"ok", "replay"}
               PROVE  AnswerHolds(q)'
    BY DEF AnswersHold
  <2>1. AnswerHolds(q)' <=> AnswerHolds(q)
    BY <1>2, <1>3 DEF AnswerHolds, Target
  <2>2. CASE answer'[q] = answer[q]
    BY <1>1, <1>2, <2>1, <2>2 DEF AnswersHold
  <2>3. CASE Replays(q)
    <3>1. AnswerHolds(q)
      BY <2>3 DEF Replays, Imported, SameImport, AnswerHolds
    <3>2. QED
      BY <2>1, <3>1
  <2>4. QED
    BY <2>2, <2>3 DEF Quiet
<1>12. QED
  BY <1>4, <1>5, <1>6, <1>7, <1>8, <1>9, <1>10, <1>11 DEF ReviewInv

\* Nothing is left of a deleted product, and of a new one there is nothing yet.
Bare ==
    /\ ver = [r \in Requests |-> NoVersion] /\ cur = {} /\ applied = {}
    /\ prop = [r \in Requests |-> NoProposal]
    /\ op \in Plays /\ op \in [Requests -> Operations] /\ exists \in BOOLEAN
    /\ ShellOK /\ HistoryInv /\ AnswersHold

LEMMA BareHolds == Bare => ReviewInv
<1> SUFFICES ASSUME Bare PROVE ReviewInv
  OBVIOUS
<1>1. NoProposal.status = "none" /\ NoProposal.version = {} /\ NoProposal.base = {}
      /\ NoProposal.revision = 1 /\ NoVersion.number = 0
  BY DEF NoProposal, NoVersion
<1>2. \A p \in Requests : prop[p] = NoProposal /\ ver[p] = NoVersion
  BY DEF Bare
<1>3. Made = {}
  BY <1>1, <1>2 DEF Made
<1>4. TypeOK
  <2>1. ver \in [Requests -> Versions] /\ prop \in [Requests -> Proposals]
    <3>1. \A r \in Requests : NoVersion \in Versions /\ NoProposal \in Proposals
      BY NoRowTypes DEF Bare
    <3>2. QED
      BY <3>1 DEF Bare
  <2>2. cur \in OneOf(Requests)
    BY DEF Bare, OneOf
  <2>3. QED
    BY <2>1, <2>2 DEF TypeOK, ShellOK, Bare
<1>5. WritersAreDone
  BY <1>1, <1>2 DEF WritersAreDone, Bare
<1>6. ProposalsRefer
  BY <1>1, <1>2 DEF ProposalsRefer
<1>7. ReviewsAreCounted
  <2>1. \A p : Reviews(p) = {}
    BY DEF Reviews, Bare
  <2>2. IsFiniteSet({}) /\ Cardinality({}) = 0
    BY FS_EmptySet
  <2>3. QED
    BY <1>1, <1>2, <2>1, <2>2 DEF ReviewsAreCounted
<1>8. VersionsAreOwned
  BY <1>1, <1>2, <1>3 DEF VersionsAreOwned
<1>9. QED
  BY <1>1, <1>2, <1>4, <1>5, <1>6, <1>7, <1>8 DEF ReviewInv, Bare

LEMMA ReviewBegins == Init => ReviewInv
<1> SUFFICES ASSUME Init PROVE ReviewInv
  OBVIOUS
<1>1. op \in Plays /\ op \in [Requests -> Operations]
  BY ProposalsAssumption DEF Init, ProposalsAssumption
<1>2. ShellOK
  BY ProposalsAssumption DEF Init, ShellOK, OneOf, Answers, ProposalsAssumption
<1>3. AnswersHold
  BY DEF Init, AnswersHold
<1>4. Bare
  BY <1>1, <1>2, <1>3, HistoryBegins DEF Init, Bare
<1>5. QED
  BY <1>4, BareHolds

LEMMA ReviewStep == ReviewInv /\ [Next]_vars => ReviewInv'
<1> SUFFICES ASSUME ReviewInv, [Next]_vars PROVE ReviewInv'
  OBVIOUS
<1>1. ShellOK /\ HistoryInv'
  BY HistoryStep DEF ReviewInv, TypeOK, ShellOK
<1>2. ShellOK'
  BY <1>1, StepWrites, ProposalsAssumption
<1>3. CASE Quiet
  BY <1>2, <1>3, QuietStep
<1>4. CASE DeleteProduct /\ UNCHANGED <<op, at, answer>>
  <2>1. exists' = FALSE /\ op' = op
    BY <1>4 DEF DeleteProduct
  <2>2. AnswersHold'
    BY <2>1 DEF AnswersHold
  <2>3. op' \in Plays /\ op' \in [Requests -> Operations] /\ exists' \in BOOLEAN
    BY <2>1 DEF ReviewInv, TypeOK
  <2>4. Bare'
    BY <1>1, <1>2, <1>4, <2>2, <2>3 DEF DeleteProduct, Bare
  <2>5. Bare' => ReviewInv'
    BY BareHolds, PTL
  <2>6. QED
    BY <2>4, <2>5
<1>5. ASSUME NEW r \in Requests, Ends(r), Writes(r) PROVE ReviewInv'
  <2>1. Commits(r)
    BY <1>5, CommitsKnown, ProposalsAssumption
  <2>2. TypeOK' /\ op' \in Plays
    BY <1>2, <2>1 DEF Commits, ReviewInv, Ends, TypeOK, ShellOK
  <2>3. \A p \in Requests : prop'[p].status = "approved" => Merged(p)'
    BY <2>1, MergesStay, ProposalsAssumption
  <2>4. QED
    BY <1>1, <2>1, <2>2, <2>3, WritersStayDone, ProposalsStillRefer, ReviewsStayCounted,
       VersionsStayOwned, AnswersStillHold DEF ReviewInv
<1>6. QED
  BY <1>1, <1>3, <1>4, <1>5, StepWrites, ProposalsAssumption

---------------------------------------------------------------------------
(* What the invariant means                                                 *)

LEMMA ImpliesApprovedIsMerge == ReviewInv => ApprovedIsMerge
<1> SUFFICES ASSUME ReviewInv PROVE ApprovedIsMerge
  OBVIOUS
<1>1. \A p \in Requests : prop[p].status = "approved" => Merged(p)
  BY DEF ReviewInv
<1>2. ASSUME NEW v \in Made, ver[v].source = "ai"
      PROVE  Cardinality({p \in Requests : prop[p].version = {v}}) = 1
  <2>1. PICK p \in Requests : prop[p].version = {v}
    BY <1>2 DEF ReviewInv, VersionsAreOwned
  <2>2. {q \in Requests : prop[q].version = {v}} = {p}
    BY <2>1 DEF ReviewInv, VersionsAreOwned
  <2>3. QED
    BY <2>2, FS_Singleton
<1>3. QED
  BY <1>1, <1>2 DEF ApprovedIsMerge, Merged

LEMMA ImpliesOneWinner == ReviewInv => OneWinnerPerRevision
BY DEF ReviewInv, ReviewsAreCounted, Reviews, OneWinnerPerRevision

LEMMA ImpliesAnswersAreTrue == ReviewInv => AnswersAreTrue
<1> SUFFICES ASSUME ReviewInv, NEW r \in Requests, exists, answer[r] \in {"ok", "replay"}
             PROVE  /\ op[r].kind = "import" =>
                          \E v \in Made : /\ ver[v].content = op[r].content
                                          /\ {w \in Made : ver[w].key = {op[r].key}} = {v}
                    /\ op[r].kind = "approve" => Target(r).status = "approved"
                    /\ op[r].kind = "reject" => Target(r).status = "rejected"
                    /\ op[r].kind = "generate" => prop[r].candidate = op[r].content
                    /\ op[r].kind = "patch" => Target(r).revision > op[r].revision
  <2>1. ReviewInv => \A r \in Requests :
           op[r].kind \in {"import", "generate", "patch", "approve", "reject"}
    BY DEF ReviewInv, TypeOK, Operations
  <2>2. QED
    BY <2>1 DEF AnswersAreTrue
<1>1. CASE op[r].kind = "import"
  <2>1. PICK v \in Made : ver[v].content = op[r].content /\ ver[v].key = {op[r].key}
    BY <1>1 DEF ReviewInv, AnswersHold, AnswerHolds
  <2>2. \A w \in Made : ver[w].key = ver[v].key => w = v
    BY <2>1 DEF ReviewInv, VersionsAreOwned
  <2>3. {w \in Made : ver[w].key = {op[r].key}} = {v}
    BY <2>1, <2>2
  <2>4. QED
    BY <1>1, <2>1, <2>3
<1>2. CASE op[r].kind # "import"
  BY <1>2 DEF ReviewInv, AnswersHold, AnswerHolds
<1>3. QED
  BY <1>1, <1>2

\* One version is current as soon as there are versions.
LEMMA OneIsCurrent ==
    ASSUME HistoryInv, Made # {}, cur \in OneOf(Requests)
    PROVE  cur # {} /\ cur \subseteq Made /\ Cardinality(cur) = 1
<1>1. Cardinality(Made) \in Nat /\ Cardinality(Made) # 0
  BY FS_CardinalityType, FS_EmptySet DEF HistoryInv
<1>2. {ver[v].number : v \in Made} = 1..Cardinality(Made)
      /\ cur = {v \in Made : ver[v].number = Cardinality(Made)}
  BY DEF HistoryInv, LinearHistory
<1>3. Cardinality(Made) \in {ver[v].number : v \in Made}
  BY <1>1, <1>2
<1>4. cur # {} /\ cur \subseteq Made
  BY <1>2, <1>3
<1>5. PICK x \in Requests : cur = {x}
  BY <1>4 DEF OneOf
<1>6. QED
  BY <1>4, <1>5, FS_Singleton

LEMMA ImpliesReviewIsTheChange == ReviewInv => ReviewIsTheChange
<1> SUFFICES ASSUME ReviewInv PROVE ReviewIsTheChange
  OBVIOUS
<1>1. cur \in OneOf(Requests) /\ cur \subseteq Made /\ HistoryInv
  BY DEF ReviewInv, TypeOK, HistoryInv, LinearHistory
<1>2. \A s \in Decided \cup {"reviewing", "all"} : \A p \in ListedProposals(s) : Opens(p)
  BY DEF ReviewInv, ProposalsRefer, ListedProposals, Opens, Decided
<1>3. {v.version : v \in {w \in ListedVersions : w.current}} = CurrentVersion
  <2>1. \A v \in Made : cur = {v} <=> v \in cur
    BY <1>1 DEF OneOf
  <2> DEFINE entry(v) == [version |-> v, current |-> IsCurrent(v)]
  <2>2. \A v : entry(v).version = v /\ entry(v).current = IsCurrent(v)
    OBVIOUS
  <2>3. ListedVersions = {entry(v) : v \in Made}
    BY DEF ListedVersions
  <2> HIDE DEF entry
  <2>4. \A w \in ListedVersions : w.current => w.version \in cur
    <3> SUFFICES ASSUME NEW v \in Made, entry(v).current PROVE entry(v).version \in cur
      BY <2>3
    <3>1. IsCurrent(v)
      BY <2>2
    <3>2. QED
      BY <2>1, <2>2, <3>1 DEF IsCurrent
  <2>5. \A v \in cur : entry(v) \in ListedVersions /\ entry(v).current /\ entry(v).version = v
    BY <1>1, <2>1, <2>2, <2>3 DEF IsCurrent
  <2>6. {w.version : w \in {x \in ListedVersions : x.current}} = cur
    BY <2>4, <2>5
  <2>7. QED
    BY <1>1, <2>6 DEF CurrentVersion
<1>4. Made # {} => Cardinality(CurrentVersion) = 1
  <2>1. CurrentVersion = cur
    BY <1>1 DEF CurrentVersion
  <2>2. QED
    BY <1>1, <2>1, OneIsCurrent
<1>5. ASSUME NEW p \in ListedProposals("approved"), NEW f \in Fields
      PROVE  \E v \in prop[p].version :
                f \in Diff(p) /\ prop[p].decisions[f] = "accept"
                    <=> \A w \in Made : ver[w].number + 1 = ver[v].number
                                            => ver[w].content[f] # ver[v].content[f]
  <2>1. p \in Requests /\ prop[p].status = "approved"
    BY DEF ListedProposals
  <2>2. PICK v \in prop[p].version :
          /\ ver[v].source = "ai" /\ ver[v].parent = prop[p].base
          /\ \A g \in Fields :
              \/ prop[p].decisions[g] = "accept" /\ ver[v].content[g] = prop[p].candidate[g]
              \/ /\ prop[p].decisions[g] = "reject"
                 /\ \E b \in prop[p].base : ver[v].content[g] = ver[b].content[g]
    BY <2>1 DEF ReviewInv, Merged
  <2>3. v \in Made /\ prop[p].base \in OneOf(Requests)
    BY <2>1, RowColumns DEF ReviewInv, ProposalsRefer, TypeOK
  <2>4. \A w \in Made : ver[w].number + 1 = ver[v].number <=> w \in prop[p].base
    <3>1. ver[v].parent = {w \in Made : ver[w].number + 1 = ver[v].number}
      BY <1>1, <2>3 DEF HistoryInv, LinearHistory
    <3>2. QED
      BY <2>2, <3>1
  <2>5. prop[p].base \subseteq Made
    BY <2>1 DEF ReviewInv, ProposalsRefer
  <2>6. \/ prop[p].decisions[f] = "accept" /\ ver[v].content[f] = prop[p].candidate[f]
        \/ /\ prop[p].decisions[f] = "reject"
           /\ \E b \in prop[p].base : ver[v].content[f] = ver[b].content[f]
    BY <2>2
  <2>7. f \in Diff(p) <=> \A w \in prop[p].base : ver[w].content[f] # prop[p].candidate[f]
    <3>1. CASE prop[p].base = {}
      BY <3>1 DEF Diff, Compared
    <3>2. CASE prop[p].base # {}
      <4>1. PICK b \in Requests : prop[p].base = {b}
        BY <2>3, <3>2 DEF OneOf
      <4>2. CurrentContent(prop[p].base) = ver[b].content
        BY <4>1 DEF CurrentContent
      <4>3. QED
        BY <4>1, <4>2 DEF Diff, Compared
    <3>3. QED
      BY <3>1, <3>2
  <2>8. f \in Diff(p) /\ prop[p].decisions[f] = "accept"
           <=> \A w \in prop[p].base : ver[w].content[f] # ver[v].content[f]
    BY <2>6, <2>7
  <2>9. QED
    BY <2>4, <2>5, <2>8
<1>6. QED
  BY <1>2, <1>3, <1>4, <1>5 DEF ReviewIsTheChange

LEMMA DecidedStays ==
    ReviewInv /\ [Next]_vars =>
        [\A p \in Requests : prop[p].status \in Decided /\ exists' => prop'[p] = prop[p]]_vars
<1> SUFFICES ASSUME ReviewInv, [Next]_vars, NEW p \in Requests, prop[p].status \in Decided, exists'
             PROVE  prop'[p] = prop[p]
  OBVIOUS
<1>1. ShellOK
  BY DEF ReviewInv, TypeOK, ShellOK
<1>2. CASE Quiet
  BY <1>2 DEF Quiet
<1>3. CASE DeleteProduct
  BY <1>3 DEF DeleteProduct
<1>4. ASSUME NEW r \in Requests, Ends(r), Writes(r) PROVE prop'[p] = prop[p]
  <2>1. Commits(r)
    BY <1>4, CommitsKnown, ProposalsAssumption
  <2>2. prop[p].status \notin {"none", "reviewing"}
    BY DEF Decided
  <2>3. QED
    BY <2>1, <2>2 DEF Commits, Untouched, Opened, Superseded, Reviewed
<1>5. QED
  BY <1>1, <1>2, <1>3, <1>4, StepWrites, ProposalsAssumption

---------------------------------------------------------------------------
(* Results                                                                  *)

\* Imports take the current version for a parent and approvals the base of their
\* proposal; both are the newest, for an approval of a proposal whose base is not is
\* refused (approve_listing_proposal, import_listing_version).
THEOREM HistoryIsLinear == Spec => []LinearHistory
<1>1. HistoryInv => LinearHistory
  BY DEF HistoryInv
<1>2. QED
  BY <1>1, HistoryBegins, HistoryStep, PTL DEF Spec

\* Rows, locks and answers keep the shape of their tables.
THEOREM ProposalTypes == Spec => []TypeOK
<1>1. ReviewInv => TypeOK
  BY DEF ReviewInv
<1>2. QED
  BY <1>1, ReviewBegins, ReviewStep, PTL DEF Spec

\* approve_listing_proposal publishes, field by field, what was accepted of the candidate
\* and what was rejected of the base, once per proposal, however many reviewers race and
\* however often an answer is lost: the decisions that were merged are those stored, and
\* the versions they were merged from never change.
THEOREM ApprovalsMerge == Spec => []ApprovedIsMerge
<1>1. QED
  BY ReviewBegins, ReviewStep, ImpliesApprovedIsMerge, PTL DEF Spec

\* patch_proposal_decisions, approve_listing_proposal and reject_listing_proposal each
\* need the revision the reviewer saw, and each makes a new one: of the requests that
\* name the same revision at most one is committed, and none is lost in the count.
THEOREM OneReviewPerRevision == Spec => []OneWinnerPerRevision
<1>1. QED
  BY ReviewBegins, ReviewStep, ImpliesOneWinner, PTL DEF Spec

\* What a client was told stays true as long as the product is there, also when it was
\* told by a replay: a key stands for one imported version, a decision is for good.
THEOREM ToldTheTruth == Spec => []AnswersAreTrue
<1>1. QED
  BY ReviewBegins, ReviewStep, ImpliesAnswersAreTrue, PTL DEF Spec

\* The lists, the details and the diff agree: every listed proposal opens, one version is
\* current, and what the reviewer accepted of the diff is what changed between an approved
\* version and the one before it.
THEOREM ReviewsShowTheChange == Spec => []ReviewIsTheChange
<1>1. QED
  BY ReviewBegins, ReviewStep, ImpliesReviewIsTheChange, PTL DEF Spec

\* No handler touches a proposal that was approved, rejected or superseded.
THEOREM DecisionsAreForGood == Spec => DecidedForGood
<1>1. QED
  BY ReviewBegins, ReviewStep, DecidedStays, PTL DEF Spec, DecidedForGood
=================================================================================
