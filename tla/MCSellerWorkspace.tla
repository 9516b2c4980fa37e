--------------------------- MODULE MCSellerWorkspace ---------------------------
(* A small instance of SellerWorkspace for TLC.  Users, sellers, states,        *)
(* callbacks, projects and products are interchangeable.                        *)
EXTENDS SellerWorkspace, Naturals, FiniteSets, TLC

CONSTANTS u1, u2, x1, x2, s1, s2, c1, c2, d1, d2, j1, j2, p1, p2

Symmetry ==
    Permutations({u1, u2}) \cup Permutations({x1, x2}) \cup Permutations({s1, s2})
    \cup Permutations({c1, c2}) \cup Permutations({j1, j2}) \cup Permutations({p1, p2})

\* Authorizations, and runs of a deletion, race over accounts: any of them overlap as
\* long as there is no project and no request.  Afterwards an authorization, a link or a
\* generation, which change no row in common, is alone with a deletion, and with what
\* is created and deleted in one step.
OverlapsAreEarly ==
    LET started  == {s \in States : state[s].status = "pending"}
        underWay == {c \in Callbacks : cb[c].pc \in {"exchange", "persist", "insert"}}
        linked   == {a \in Callbacks : linking[a] # None}
        away     == {g \in Requests : gen[g].pc \in {"model", "found", "missing"}}
        early    == \A j \in Projects, g \in Requests : project[j] = None /\ gen[g].pc = "new"
    IN  \/ early
        \/ /\ d2 \notin Running
           /\ Cardinality(started) + Cardinality(underWay) + Cardinality(linked) + Cardinality(away) <= 1
================================================================================
