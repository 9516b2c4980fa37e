--------------------------- MODULE MCListingProposals ---------------------------
(* A small instance of ListingProposals for TLC.                                 *)
EXTENDS ListingProposals, TLC

CONSTANTS r1, r2, r3, r4, r5, f1, f2, k1, k2, t1, t2, t3

All(x) == [f \in Fields |-> x]

Mixed == [f \in Fields |-> IF f = f1 THEN "accept" ELSE "reject"]

Ask(kind, key, text, target, revision, decisions) ==
    [kind |-> kind, key |-> key, content |-> All(text), target |-> target,
     revision |-> revision, decisions |-> decisions]

Importing(key, text) == Ask("import", key, text, r1, 0, Stored)

Generating(text) == Ask("generate", k1, text, r1, 0, Stored)

Patching == Ask("patch", k1, t1, r2, 1, Mixed)

Approving(target, revision, decisions) ==
    Ask("approve", k1, t1, target, revision, decisions)

Rejecting(revision) == Ask("reject", k1, t1, r2, revision, Stored)

\* Two proposals, an import or a patch, and two requests that decide or import.
MCPlays ==
    {[r \in Requests |-> CASE r = r1 -> x [] r = r2 -> Generating(t2)
                           [] r = r3 -> Generating(t3) [] r = r4 -> y [] r = r5 -> z] :
        x \in {Importing(k1, t1), Patching},
        y \in {Importing(k1, t1), Importing(k1, t2), Importing(k2, t2), Patching, Rejecting(1),
               Approving(r2, 1, All("accept")), Approving(r3, 1, Mixed)},
        z \in {Approving(r2, 1, Mixed), Approving(r2, 2, Stored), Approving(r3, 1, All("accept")),
               Approving(r2, 1, All("reject")), Approving(r2, 1, All("pending")),
               Rejecting(1), Rejecting(2)}}
=================================================================================
