---------------------------- MODULE ListingProposals ----------------------------
(***************************************************************************)
(* The listing of one product: imported and approved versions, and the     *)
(* proposals that generations make (services/listing_version.py,           *)
(* services/listing_proposal.py, services/listing_diff.py).  Every request *)
(* locks the product's row.  A generation comes with the user's row        *)
(* locked, which the foreign keys of the other requests wait for, so that  *)
(* two of them may wait for each other and PostgreSQL ends one of them.    *)
(***************************************************************************)
EXTENDS Naturals, FiniteSets

CONSTANTS
    Requests,   \* HTTP requests; each also names the version or proposal it makes
    Fields,     \* LISTING_FIELDS
    Texts,      \* what a field may say
    Keys,       \* idempotency keys of imports
    Plays,      \* what the requests may ask
    MaxFaults   \* bound: crashes and answers that are lost

VARIABLES
    op,          \* per request: what it asks
    exists,      \* whether the product exists
    ver,         \* listing_versions, by the request that made them
    cur,         \* products.current_listing_version_id: a version or none
    prop,        \* listing_proposals, by the generation that made them
    productLock, \* who holds the product's row lock
    userLock,    \* who holds the user's row FOR UPDATE
    at,          \* per request: where its handler is
    answer,      \* per request: what it was answered
    faults,      \* faults so far
    applied      \* history: the requests whose writes were committed

vars == <<op, exists, ver, cur, prop, productLock, userLock, at, answer, faults, applied>>

---------------------------------------------------------------------------
(* Rows                                                                     *)

Snapshots == [Fields -> Texts]

Decisions == [Fields -> {"accept", "reject", "pending"}]

\* An approval that carries no decisions takes the stored ones.
Stored == [f \in Fields |-> "stored"]

Operations == [kind : {"import", "generate", "patch", "approve", "reject"},
               key : Keys, content : Snapshots, target : Requests,
               revision : Nat, decisions : Decisions \cup {Stored}]

\* A patch carries its decisions.
ASSUME ProposalsAssumption ==
    /\ Plays \subseteq [Requests -> Operations]
    /\ \A play \in Plays, r \in Requests :
          play[r].kind = "patch" => play[r].decisions \in Decisions
    /\ MaxFaults \in Nat

OneOf(S) == {{}} \cup {{x} : x \in S}

Versions == [number : Nat, parent : OneOf(Requests), source : {"none", "manual", "ai"},
             content : Snapshots, key : OneOf(Keys)]

NoVersion == [number |-> 0, parent |-> {}, source |-> "none",
              content |-> [f \in Fields |-> CHOOSE t \in Texts : TRUE], key |-> {}]

Decided == {"approved", "rejected", "superseded"}

Proposals == [status : {"none", "reviewing"} \cup Decided, base : OneOf(Requests),
              candidate : Snapshots, decisions : Decisions, revision : Nat,
              version : OneOf(Requests)]

NoProposal == [status |-> "none", base |-> {}, candidate |-> NoVersion.content,
               decisions |-> [f \in Fields |-> "pending"], revision |-> 1, version |-> {}]

Answers == {"none", "ok", "replay", "not_found", "not_reviewing", "revision_conflict",
            "incomplete", "stale", "no_base", "key_conflict", "error"}

Made == {r \in Requests : ver[r].number > 0}

Init ==
    /\ op \in Plays
    /\ exists = TRUE
    /\ ver = [r \in Requests |-> NoVersion]
    /\ cur = {}
    /\ prop = [r \in Requests |-> NoProposal]
    /\ productLock = {}
    /\ userLock = {}
    /\ at = [r \in Requests |-> "new"]
    /\ answer = [r \in Requests |-> "none"]
    /\ faults = 0
    /\ applied = {}

rows == <<exists, ver, cur, prop, applied>>

---------------------------------------------------------------------------
(* Locks and answers                                                        *)

\* Mutant of Finish: a request that is refused keeps its transaction open.
FinishHeld(r, a) ==
    /\ at' = [at EXCEPT ![r] = "done"]
    /\ answer' = [answer EXCEPT ![r] = a]
    /\ IF a \in {"ok", "replay", "error"}
       THEN productLock' = productLock \ {r} /\ userLock' = userLock \ {r}
       ELSE UNCHANGED <<productLock, userLock>>

\* The end of a handler, whose session is closed with what it locked.
Finish(r, a) ==
    /\ at' = [at EXCEPT ![r] = "done"]
    /\ answer' = [answer EXCEPT ![r] = a]
    /\ productLock' = productLock \ {r}
    /\ userLock' = userLock \ {r}

\* The second transaction of a generation starts with the user's lock.
LockUser(r) ==
    /\ op[r].kind = "generate" /\ at[r] = "new"
    /\ userLock = {}
    /\ userLock' = {r}
    /\ at' = [at EXCEPT ![r] = "user"]
    /\ UNCHANGED <<op, rows, productLock, answer, faults>>

\* Which requests are about to lock the product.
Wants(r) == at[r] = IF op[r].kind = "generate" THEN "user" ELSE "new"

\* _lock_product_for_user
LockProduct(r) ==
    /\ Wants(r)
    /\ productLock = {}
    /\ IF exists
       THEN /\ productLock' = {r}
            /\ at' = [at EXCEPT ![r] = "locked"]
            /\ UNCHANGED <<userLock, answer>>
       ELSE Finish(r, "not_found")
    /\ UNCHANGED <<op, rows, faults>>

\* A commit that wrote: its answer may be lost.
Committed(r) ==
    /\ applied' = applied \cup {r}
    /\ \/ Finish(r, "ok") /\ UNCHANGED faults
       \/ faults < MaxFaults /\ faults' = faults + 1 /\ Finish(r, "error")

Answered(r, a) == Finish(r, a) /\ UNCHANGED <<rows, faults>>

\* Rows that name the user (created_by, reviewed_by) wait for its lock.
UserReadable(r) == userLock \subseteq {r}

---------------------------------------------------------------------------
(* Versions                                                                 *)

CurrentContent(base) == IF base = {} THEN NoVersion.content
                        ELSE ver[CHOOSE v \in base : TRUE].content

\* The largest number of the product, and one.
NextNumber(r) == 1 + (IF Made = {} THEN 0
                      ELSE CHOOSE n \in {ver[v].number : v \in Made} :
                               \A v \in Made : ver[v].number <= n)

\* set_product_current_listing_version
MakeCurrent(r) == cur' = {r}

\* A new version becomes the current one.
Publish(r, source, content, parent, key) ==
    /\ UserReadable(r)
    /\ ver' = [ver EXCEPT ![r] = [number |-> NextNumber(r), parent |-> parent,
                                  source |-> source, content |-> content, key |-> key]]
    /\ MakeCurrent(r)

\* Mutant of SameImport: a key is all that is compared.
SameKey(r, v) == ver[v].key = {op[r].key}

\* The request hash of the stored version.
SameImport(r, v) == ver[v].key = {op[r].key} /\ ver[v].content = op[r].content

\* _find_idempotent_version
Imported(r) == {v \in Made : ver[v].key = {op[r].key}}

\* import_listing_version: a key is imported once.
Import(r) ==
    IF Imported(r) # {}
    THEN Answered(r, IF \E v \in Imported(r) : SameImport(r, v)
                     THEN "replay" ELSE "key_conflict")
    ELSE /\ Publish(r, "manual", op[r].content, cur, {op[r].key})
         /\ Committed(r)
         /\ UNCHANGED <<exists, prop>>

---------------------------------------------------------------------------
(* Proposals                                                                *)

\* create_proposal_in_transaction
Generate(r) ==
    /\ prop' = [prop EXCEPT ![r] = [NoProposal EXCEPT !.status = "reviewing", !.base = cur,
                                                      !.candidate = op[r].content]]
    /\ Committed(r)
    /\ UNCHANGED <<exists, ver, cur>>

Target(r) == prop[op[r].target]

\* Mutant of Fresh: any revision will do.
FreshAlways(r) == TRUE

Fresh(r) == Target(r).revision = op[r].revision

\* Mutant of Open: what is decided can be decided again.
OpenOrDecided(r) == Target(r).status # "none"

Open(r) == Target(r).status = "reviewing"

\* What is answered when a proposal is not open, or not as expected.
Refusal(r) ==
    IF Target(r).status = "none" THEN "not_found"
    ELSE IF ~Open(r) THEN "not_reviewing"
    ELSE IF ~Fresh(r) THEN "revision_conflict"
    ELSE "none"

\* patch_proposal_decisions: one conditional UPDATE.
Patch(r) ==
    IF Refusal(r) # "none" THEN Answered(r, Refusal(r))
    ELSE /\ prop' = [prop EXCEPT ![op[r].target].decisions = op[r].decisions,
                                 ![op[r].target].revision = @ + 1]
         /\ Committed(r)
         /\ UNCHANGED <<exists, ver, cur>>

\* reject_listing_proposal
Reject(r) ==
    IF Target(r).status = "rejected" THEN Answered(r, "replay")
    ELSE IF Refusal(r) # "none" THEN Answered(r, Refusal(r))
    ELSE /\ UserReadable(r)
         /\ prop' = [prop EXCEPT ![op[r].target].status = "rejected",
                                 ![op[r].target].revision = @ + 1]
         /\ Committed(r)
         /\ UNCHANGED <<exists, ver, cur>>

Effective(r) == IF op[r].decisions = Stored THEN Target(r).decisions ELSE op[r].decisions

\* Mutant of Kept: the decisions of the request are not stored.
KeptAsPatched(r) == Target(r).decisions

\* The decisions an approval stores.
Kept(r) == Effective(r)

\* Mutant of Stale: only a proposal that has a base can be stale.
StaleBase(r) == Target(r).base # {} /\ Target(r).base # cur

Stale(r) == Target(r).base # cur

\* What is answered when the decisions cannot be merged.
Unmergeable(r) ==
    LET d == Effective(r)
    IN  IF \E f \in Fields : d[f] = "pending" THEN "incomplete"
        ELSE IF \A f \in Fields : d[f] = "reject" THEN "not_reviewing"
        ELSE IF Stale(r) THEN "stale"
        ELSE IF Target(r).base = {} /\ \E f \in Fields : d[f] = "reject" THEN "no_base"
        ELSE "none"

\* compute_final_snapshot
Merge(base, candidate, decisions) ==
    [f \in Fields |-> IF decisions[f] = "accept" THEN candidate[f] ELSE base[f]]

\* approve_listing_proposal: the merge becomes the current version, and every
\* other open proposal of the product is superseded.
Approve(r) ==
    LET t == op[r].target
    IN  CASE Target(r).status = "approved" -> Answered(r, "replay")
          [] Target(r).status # "approved" /\ Refusal(r) # "none" -> Answered(r, Refusal(r))
          [] Target(r).status # "approved" /\ Refusal(r) = "none" /\ Unmergeable(r) # "none"
                -> Answered(r, Unmergeable(r))
          [] OTHER ->
                /\ Publish(r, "ai", Merge(CurrentContent(Target(r).base), Target(r).candidate,
                                          Effective(r)), Target(r).base, {})
                /\ prop' = [q \in Requests |->
                               IF q = t
                               THEN [prop[q] EXCEPT !.status = "approved", !.version = {r},
                                                    !.decisions = Kept(r), !.revision = @ + 1]
                               ELSE IF prop[q].status = "reviewing"
                               THEN [prop[q] EXCEPT !.status = "superseded"]
                               ELSE prop[q]]
                /\ Committed(r)
                /\ UNCHANGED exists

---------------------------------------------------------------------------
(* What a reviewer is shown; it locks nothing                               *)

\* Whether a version is shown as the current one
IsCurrent(v) == cur = {v}

\* list_listing_versions
ListedVersions == {[version |-> v, current |-> IsCurrent(v)] : v \in Made}

\* get_current_listing_version
CurrentVersion == cur \cap Made

\* list_listing_proposals
ListedProposals(status) ==
    {p \in Requests : IF status = "all" THEN prop[p].status # "none" ELSE prop[p].status = status}

\* get_listing_proposal_detail: both versions are looked up in the product
Opens(p) ==
    /\ prop[p].status # "none"
    /\ prop[p].base \subseteq Made /\ prop[p].version \subseteq Made

\* Mutant of Compared: a proposal is shown beside what is current.
ComparedToCurrent(p) == cur

\* What a proposal is shown beside
Compared(p) == prop[p].base

\* build_listing_diff: the fields shown as changed
Diff(p) == {f \in Fields : \/ Compared(p) = {}
                           \/ CurrentContent(Compared(p))[f] # prop[p].candidate[f]}

---------------------------------------------------------------------------
(* The next-state relation                                                  *)

Act(r) ==
    /\ at[r] = "locked"
    /\ \/ op[r].kind = "import" /\ Import(r)
       \/ op[r].kind = "generate" /\ Generate(r)
       \/ op[r].kind = "patch" /\ Patch(r)
       \/ op[r].kind = "approve" /\ Approve(r)
       \/ op[r].kind = "reject" /\ Reject(r)
    /\ UNCHANGED op

\* PostgreSQL ends one of two transactions that wait for each other.
Victim(r) ==
    /\ \E g \in userLock, h \in productLock : g # h /\ Wants(g) /\ r \in {g, h}
                                              /\ op[h].kind # "patch"
    /\ Finish(r, "error")
    /\ UNCHANGED <<op, rows, faults>>

\* A worker dies before the commit.
Crash(r) ==
    /\ at[r] \in {"user", "locked"}
    /\ faults < MaxFaults
    /\ faults' = faults + 1
    /\ Finish(r, "error")
    /\ UNCHANGED <<op, rows>>

\* ProductService.delete: versions and proposals go with the product.
DeleteProduct ==
    /\ exists /\ productLock = {}
    /\ exists' = FALSE
    /\ ver' = [r \in Requests |-> NoVersion]
    /\ cur' = {}
    /\ prop' = [r \in Requests |-> NoProposal]
    /\ applied' = {}
    /\ UNCHANGED <<op, productLock, userLock, at, answer, faults>>

Serve(r) == LockUser(r) \/ LockProduct(r) \/ Act(r) \/ Victim(r)

Next ==
    \/ \E r \in Requests : Serve(r) \/ Crash(r)
    \/ DeleteProduct

\* Requests are few and each ends, so that a lock is free again and again.
Spec == Init /\ [][Next]_vars /\ \A r \in Requests : WF_vars(Serve(r))

---------------------------------------------------------------------------
(* Properties                                                               *)

TypeOK ==
    /\ op \in [Requests -> Operations]
    /\ exists \in BOOLEAN
    /\ ver \in [Requests -> Versions]
    /\ cur \in OneOf(Requests)
    /\ prop \in [Requests -> Proposals]
    /\ productLock \in OneOf(Requests)
    /\ userLock \in OneOf(Requests)
    /\ at \in [Requests -> {"new", "user", "locked", "done"}]
    /\ answer \in [Requests -> Answers]
    /\ faults \in 0..MaxFaults
    /\ applied \subseteq Requests

\* The versions of the product are one history: numbered from 1 without gaps,
\* each the child of the one before it, and the newest is current.  Approvals
\* take their parent from the proposal and imports from the product.
LinearHistory ==
    /\ {ver[v].number : v \in Made} = 1..Cardinality(Made)
    /\ \A v \in Made : ver[v].parent = {w \in Made : ver[w].number + 1 = ver[v].number}
    /\ cur = {v \in Made : ver[v].number = Cardinality(Made)}

\* An approved proposal has one version, which takes from the candidate what the
\* stored decisions accept and from the base what they reject, field by field;
\* without a base everything is accepted.
ApprovedIsMerge ==
    /\ \A p \in Requests : prop[p].status = "approved" =>
        \E v \in prop[p].version :
            /\ ver[v].source = "ai" /\ ver[v].parent = prop[p].base
            /\ \A f \in Fields :
                \/ prop[p].decisions[f] = "accept" /\ ver[v].content[f] = prop[p].candidate[f]
                \/ /\ prop[p].decisions[f] = "reject"
                   /\ \E b \in prop[p].base : ver[v].content[f] = ver[b].content[f]
    /\ \A v \in Made : ver[v].source = "ai" =>
        Cardinality({p \in Requests : prop[p].version = {v}}) = 1

\* What was once decided stays so, and with it the decisions it was made by.
DecidedForGood ==
    [][\A p \in Requests : prop[p].status \in Decided /\ exists' => prop'[p] = prop[p]]_vars

\* Reviewers who saw the same revision do not both succeed, whatever their
\* requests are; and the revision counts the decisions taken.
OneWinnerPerRevision ==
    \A p \in Requests :
        LET Reviews == {r \in applied : op[r].kind \in {"patch", "approve", "reject"}
                                        /\ op[r].target = p}
        IN  /\ \A r, s \in Reviews : op[r].revision = op[s].revision => r = s
            /\ prop[p].revision = 1 + Cardinality(Reviews)

\* A client that was told "ok" finds what it asked for, once; a replay tells it
\* of the same.
AnswersAreTrue ==
    \A r \in Requests : exists /\ answer[r] \in {"ok", "replay"} =>
        CASE op[r].kind = "import" ->
                \E v \in Made : /\ ver[v].content = op[r].content
                                /\ {w \in Made : ver[w].key = {op[r].key}} = {v}
          [] op[r].kind = "approve" -> Target(r).status = "approved"
          [] op[r].kind = "reject" -> Target(r).status = "rejected"
          [] op[r].kind = "generate" -> prop[r].candidate = op[r].content
          [] OTHER -> Target(r).revision > op[r].revision

\* Every request is answered: no lock is kept, and requests that wait for each
\* other are told apart.
RequestsAreAnswered == \A r \in Requests : <>(at[r] = "done")

\* What the screens say holds together, although each reads the tables on its own:
\* every proposal in a list opens; one version is listed as current, the one the
\* current listing shows; and a reviewer who accepted a change of the diff that is
\* shown, and only such a one, finds it between an approved version and the version
\* before it.
ReviewIsTheChange ==
    /\ \A s \in Decided \cup {"reviewing", "all"} : \A p \in ListedProposals(s) : Opens(p)
    /\ {v.version : v \in {w \in ListedVersions : w.current}} = CurrentVersion
    /\ Made # {} => Cardinality(CurrentVersion) = 1
    /\ \A p \in ListedProposals("approved"), f \in Fields :
        \E v \in prop[p].version :
            f \in Diff(p) /\ prop[p].decisions[f] = "accept"
                <=> \A w \in Made : ver[w].number + 1 = ver[v].number
                                        => ver[w].content[f] # ver[v].content[f]
=================================================================================
