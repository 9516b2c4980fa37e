---------------------------- MODULE SellerWorkspace ----------------------------
(***************************************************************************)
(* What a user keeps and how it hangs together (services/product.py,       *)
(* project.py, amazon_listing_link_service.py,                             *)
(* amazon_catalog_ai_context_service.py, generation_executor.py): projects *)
(* and their products, the listings imported from a linked seller and the  *)
(* product each is linked to, and generations, which name a project and    *)
(* perhaps a product and a listing, are away at the model for long, and    *)
(* are filed under what is there when they return.  All of it is deleted   *)
(* meanwhile.  The accounts are those of AmazonOAuth; each has one listing *)
(* here.  The catalogue snapshot of a listing, and the quota, only refuse. *)
(***************************************************************************)
EXTENDS AmazonOAuth

CONSTANTS
    Projects, Products,
    Requests, \* requests of /generate/* and of the listing audit
    Deleted   \* a project or product whose id is used up

VARIABLES
    project, \* per project: its user, Deleted, or None
    product, \* per product: its row, Deleted, or None
    listing, \* per account: its listing, or None
    linking, \* per account: the product its listing, locked meanwhile, is to be linked to
    gen      \* per request: where it is, what it holds, and the generation it saved

workspace == <<project, product, listing, linking, gen>>

ProductRows == [user : Users, project : Projects]

Listings == [product : Products \cup {None}]

ASSUME WorkspaceAssumption ==
    /\ None # Deleted
    /\ {None, Deleted} \cap (Users \cup Projects \cup Products \cup ProductRows \cup Listings) = {}

Generations ==
    [pc : {"new", "over"}]
    \cup [pc : {"model", "found", "missing", "saved"}, user : Users,
          kind : {"product", "analysis", "audit"}, project : Projects \cup {None},
          product : Products \cup {None}]

WorkspaceInit ==
    /\ Init
    /\ project = [j \in Projects |-> None]
    /\ product = [p \in Products |-> None]
    /\ listing = [a \in Callbacks |-> None]
    /\ linking = [a \in Callbacks |-> None]
    /\ gen = [g \in Requests |-> [pc |-> "new"]]

Rows == {p \in Products : product[p] \notin {None, Deleted}}

Owned(u) == {p \in Rows : product[p].user = u}

---------------------------------------------------------------------------
(* What a user is shown, each list by a query of its own                    *)

\* ProjectService.get_user_projects
ShownProjects(u) == {j \in Projects : project[j] = u}

\* ProjectService.get_project_detail: by project alone
ProductsOf(j) == {p \in Rows : product[p].project = j}

\* ProductService.get_user_products: by the user of the project
ListedProducts(u) == {p \in Rows : product[p].project \in ShownProjects(u)}

\* ProductService.get_by_id: by the user of both
Viewable(u) == Owned(u) \cap ListedProducts(u)

Saved == {g \in Requests : gen[g].pc = "saved"}

\* ProductService.get_detail: by product alone
GenerationsOf(p) == {g \in Saved : gen[g].product = p}

\* What a project counts: by product
CountedIn(j) == {g \in Saved : gen[g].product \in ProductsOf(j)}

\* What the usage page counts: by the user of the product
CountedFor(u) == {g \in Saved : gen[g].product \in Owned(u)}

\* list_audits and get_audit: by user and kind
AuditHistory(u) == {g \in Saved : gen[g].user = u /\ gen[g].kind = "audit"}

\* list_accounts_for_user, and list_listings_for_user of one of them: by the user
\* of the account, whatever product the listing names
ShownLinks(u) == {listing[a].product : a \in {b \in Of(u) : listing[b] # None}}

---------------------------------------------------------------------------
(* Deletions, and what goes with the rows they delete                       *)

\* ON DELETE CASCADE from users and projects to products and generations, from
\* products to generations, from accounts to listings; a link to a deleted product
\* becomes NULL.  A listing that is locked is waited for.
Purge(us, as, js, ps) ==
    LET js2 == js \cup {j \in Projects : project[j] \in us}
        ps2 == ps \cup {p \in Rows : product[p].project \in js2}
    IN  /\ project' = [j \in Projects |-> IF j \in js2 THEN Deleted ELSE project[j]]
        /\ product' = [p \in Products |-> IF p \in ps2 THEN Deleted ELSE product[p]]
        /\ listing' = [a \in Callbacks |->
              IF a \in as THEN None
              ELSE IF listing[a] # None /\ listing[a].product \in ps2 THEN [product |-> None]
              ELSE listing[a]]
        /\ \A a \in Callbacks : linking[a] # None => listing'[a] = listing[a]
        /\ UNCHANGED linking
        /\ gen' = [g \in Requests |->
              IF /\ gen[g].pc = "saved"
                 /\ gen[g].user \in us \/ gen[g].project \in js2 \/ gen[g].product \in ps2
              THEN [pc |-> "over"] ELSE gen[g]]

DeleteProduct(u, p) ==
    /\ u \in users /\ p \in Viewable(u)
    /\ Purge({}, {}, {}, {p})
    /\ UNCHANGED vars

DeleteProject(u, j) ==
    /\ u \in users /\ project[j] = u
    /\ Purge({}, {}, {j}, {})
    /\ UNCHANGED vars

\* The second transaction of a generation keeps the user's row locked.
Filing == {gen[g].user : g \in {r \in Requests : gen[r].pc \in {"found", "missing"}}}

\* A step of AmazonOAuth, with what it takes along.  One that deletes or locks
\* a user waits for a generation being filed.
AccountStep ==
    /\ Next
    /\ Filing \cap ((Held' \ Held) \cup (users \ users')) = {}
    /\ Purge(users \ users', {a \in Linked : acct'[a] = None}, {}, {})

---------------------------------------------------------------------------
(* Projects, products, and the listings linked to them                      *)

CreateProject(u, j) ==
    /\ u \in users /\ project[j] = None
    /\ project' = [project EXCEPT ![j] = u]
    /\ UNCHANGED <<vars, product, listing, linking, gen>>

\* Mutant of Fillable: any project there is.
FillableAny(u) == {j \in Projects : project[j] \in users}

Fillable(u) == {j \in Projects : project[j] = u}

CreateProduct(u, j, p) ==
    /\ u \in users /\ j \in Fillable(u)
    /\ product[p] = None
    /\ product' = [product EXCEPT ![p] = [user |-> u, project |-> j]]
    /\ UNCHANGED <<vars, project, listing, linking, gen>>

\* The upsert of a finished sync.
Import(a) ==
    /\ a \in Linked /\ listing[a] = None
    /\ listing' = [listing EXCEPT ![a] = [product |-> None]]
    /\ UNCHANGED <<vars, project, product, linking, gen>>

\* Mutant of Linkable: any product there is.
LinkableAny(u) == Rows

Linkable(u) == Owned(u)

\* link_product_for_user locks the listing, and looks for the product without a lock ...
CheckLink(u, a, p) ==
    /\ u \in users /\ a \in Of(u) /\ listing[a] # None /\ linking[a] = None
    /\ p \in Linkable(u)
    /\ linking' = [linking EXCEPT ![a] = p]
    /\ UNCHANGED <<vars, project, product, listing, gen>>

\* ... which may vanish before the commit, and fails its reference then; or the commit
\* fails.
Link(a) ==
    /\ linking[a] # None
    /\ linking' = [linking EXCEPT ![a] = None]
    /\ \/ linking[a] \in Rows /\ listing' = [listing EXCEPT ![a].product = linking[a]]
       \/ UNCHANGED listing
    /\ UNCHANGED <<vars, project, product, gen>>

\* No product: nothing is looked for.
Unlink(u, a) ==
    /\ u \in users /\ a \in Of(u) /\ listing[a] # None /\ linking[a] = None
    /\ listing' = [listing EXCEPT ![a].product = None]
    /\ UNCHANGED <<vars, project, product, linking, gen>>

---------------------------------------------------------------------------
(* A generation                                                             *)

Ask(g, u, kind, j, p) ==
    /\ gen[g].pc = "new"
    /\ u \in users \ Held
    /\ gen' = [gen EXCEPT ![g] =
          [pc |-> "model", user |-> u, kind |-> kind, project |-> j, product |-> p]]
    /\ UNCHANGED <<vars, project, product, listing, linking>>

\* AmazonCatalogAIContextService: the listing named must be the user's, and be
\* linked to the product named, which is the user's.
InContext(u, p, a) == a \in Of(u) /\ p \in Owned(u) /\ listing[a] = [product |-> p]

\* The project must be the user's; the product may be anything, unless a listing
\* is named.
AskListing(g, u, j, p, a) ==
    /\ project[j] = u
    /\ a # None => InContext(u, p, a)
    /\ Ask(g, u, "product", j, p)

AskKeywords(g, u, j, p) == project[j] = u /\ Ask(g, u, "product", j, p)

\* An analysis belongs to a project, a listing audit to its user alone.
AskAnalysis(g, u, j) == project[j] = u /\ Ask(g, u, "analysis", j, None)

AskAudit(g, u) == Ask(g, u, "audit", None, None)

\* Mutant of Reusable: a product of any project of the user.
ReusableAnywhere(g) == Owned(gen[g].user)

Reusable(g) == {p \in Owned(gen[g].user) : product[p].project = gen[g].project}

\* The second transaction locks the user, and resolve_or_create looks the product up,
\* or the project to create one in.
File(g) ==
    /\ gen[g].pc = "model"
    /\ gen[g].user \in users \ (Held \cup Filing)
    /\ gen[g].kind = "product" => project[gen[g].project] = gen[g].user
    /\ gen' = [gen EXCEPT ![g].pc =
          IF gen[g].kind # "product" \/ gen[g].product \in Reusable(g) THEN "found" ELSE "missing"]
    /\ UNCHANGED <<vars, project, product, listing, linking>>

\* What the generation, or the product created for it, refers to is there still.
Referable(g) ==
    /\ gen[g].project # None => project[gen[g].project] \in users
    /\ gen[g].pc = "found" => gen[g].product \in Rows \cup {None}

\* The rest of it.
Save(g) ==
    /\ gen[g].pc \in {"found", "missing"} /\ Referable(g)
    /\ \/ /\ gen[g].pc = "found"
          /\ gen' = [gen EXCEPT ![g].pc = "saved"]
          /\ UNCHANGED product
       \/ /\ gen[g].pc = "missing"
          /\ \E p \in Products :
                /\ product[p] = None
                /\ product' = [product EXCEPT ![p] =
                      [user |-> gen[g].user, project |-> gen[g].project]]
                /\ gen' = [gen EXCEPT ![g].pc = "saved", ![g].product = p]
    /\ UNCHANGED <<vars, project, listing, linking>>

\* The model fails, or what the request names is gone.
Fail(g) ==
    /\ gen[g].pc \in {"model", "found", "missing"}
    /\ gen' = [gen EXCEPT ![g] = [pc |-> "over"]]
    /\ UNCHANGED <<vars, project, product, listing, linking>>

WorkspaceNext ==
    \/ AccountStep
    \/ \E u \in Users, p \in Products :
          \/ DeleteProduct(u, p)
          \/ \E j \in Projects : CreateProduct(u, j, p)
    \/ \E u \in Users, j \in Projects : CreateProject(u, j) \/ DeleteProject(u, j)
    \/ \E a \in Callbacks :
          \/ Import(a) \/ Link(a)
          \/ \E u \in Users : Unlink(u, a) \/ \E p \in Products : CheckLink(u, a, p)
    \/ \E u \in Users, p \in Products \cup {None} :
          \E g \in Requests, j \in Projects :
                AskKeywords(g, u, j, p) \/ \E a \in Callbacks \cup {None} : AskListing(g, u, j, p, a)
    \/ \E g \in Requests, u \in Users :
          AskAudit(g, u) \/ \E j \in Projects : AskAnalysis(g, u, j)
    \/ \E g \in Requests : File(g) \/ Save(g) \/ Fail(g)

WorkspaceSpec == WorkspaceInit /\ [][WorkspaceNext]_<<vars, workspace>>

---------------------------------------------------------------------------
(* Properties                                                               *)

\* Whatever is created, linked and deleted in whichever order, also between the look at
\* the product and the commit, a listing is linked to a product that is there, of the
\* user whose seller it comes from, or to none.
TenantsApart ==
    \A a \in Callbacks :
        listing[a] # None =>
            a \in Linked /\ listing[a].product \in Owned(acct[a].user) \cup {None}

\* A generation is its user's as long as it is there; what it was asked for, and the
\* product of that project it is filed under, are so as well, although they may be deleted,
\* and the product be linked or created anew, while it is away.
FiledTogether ==
    \A g \in Requests :
        gen[g].pc = "saved" =>
            /\ gen[g].user \in users
            /\ gen[g].kind # "audit" => project[gen[g].project] = gen[g].user
            /\ gen[g].kind = "product" =>
                  /\ gen[g].product \in Owned(gen[g].user)
                  /\ product[gen[g].product].project = gen[g].project

\* The queries look at the user of a project, of a product, of both, of an account
\* or of none; they agree all the same: what a list shows opens, neither a
\* product, nor a generation under it, nor a linked product is another user's, and
\* every generation but an analysis is found under a product or in the audit history.
ShownIsOwn ==
    \A u \in users :
        /\ ListedProducts(u) = Viewable(u)
        /\ \A j \in ShownProjects(u) : ProductsOf(j) \subseteq Viewable(u)
        /\ \A p \in Viewable(u) : \A g \in GenerationsOf(p) : gen[g].user = u
        /\ CountedFor(u) = UNION {CountedIn(j) : j \in ShownProjects(u)}
        /\ {g \in Saved : gen[g].user = u /\ gen[g].kind # "analysis"} = CountedFor(u) \cup AuditHistory(u)
        /\ ShownLinks(u) \subseteq Viewable(u) \cup {None}
================================================================================
