------------------------------- MODULE AmazonSync -------------------------------
(***************************************************************************)
(* The syncs of one Amazon account and what the account goes through       *)
(* meanwhile (services/amazon_sync_lease_service.py,                       *)
(* amazon_product_sync_service.py, amazon_marketplace_refresh_service.py,  *)
(* amazon_catalog_enrichment_service.py, amazon_account_service.py).  A    *)
(* sync takes a lease that expires and is not renewed, talks to Amazon     *)
(* without any lock, and must still own the lease when it writes.  Each    *)
(* transaction holds the account's row and is one action; Prepare is the   *)
(* part of the last one that comes before its lock.                        *)
(***************************************************************************)
EXTENDS AmazonResponses

CONSTANTS
    Syncs,      \* runs; each names its lease and its log
    Plans,      \* the operations the runs may be
    Lookups,    \* catalog enrichments
    Skus, Asins,  \* the SKUs followed, of those Amazon may list
    Duration,   \* of a lease
    Ttl,        \* of a catalog snapshot
    MaxNow,     \* bound: the clock stops here
    MaxIssued,  \* bound: connections and reauthorisations
    MaxFaults   \* bound: crashes and commits that raise

ASSUME SyncAssumption ==
    /\ Plans \subseteq [Syncs -> {"product_sync", "marketplace_refresh"}]
    /\ Duration \in Nat \ {0} /\ Ttl \in Nat
    /\ MaxNow \in Nat /\ MaxIssued \in Nat \ {0} /\ MaxFaults \in Nat
    /\ \A reading \in Readings : \A item \in Listed(reading) : item.asin \in Asins

VARIABLES
    acct,    \* the account's row; id 0 when there is none
    market,  \* the participation in the marketplace
    listing, \* per SKU: its row
    snap,    \* per SKU and ASIN: until when a catalog snapshot is fresh
    log,     \* per sync: its amazon_sync_logs row
    syn,     \* per sync: where it is
    look,    \* per lookup: where it is
    now, issued, faults,
    last,    \* history: the product sync that wrote last, and what it had seen
    blamed   \* history: the token whose failure set the account's status

vars == <<acct, market, listing, snap, log, syn, look, now, issued, faults, last, blamed>>

---------------------------------------------------------------------------
(* Rows                                                                     *)

OneOf(S) == {{}} \cup {{x} : x \in S}

Statuses == {"active", "disabled", "error", "reauthorization_required"}

Accounts == [id : Nat, status : Statuses, token : Nat, holder : OneOf(Syncs), until : Nat]

\* seen is last_seen_sync_id; a SKU without a row has no ASIN.
Listings == [asin : OneOf(Asins), active : BOOLEAN, seen : OneOf(Syncs)]

NoListing == [asin |-> {}, active |-> FALSE, seen |-> {}]

Participations == {"none", "eligible", "ineligible", "inactive"}

\* kind is the operation, no the rank of its lease, items what it collected,
\* since the clock it finalises with, verdict the status a failure gives the
\* account ("" for none).  listed is history: what Amazon's pages listed.
Runs == [kind : {"product_sync", "marketplace_refresh"},
         at : {"new", "load", "fetch", "prepare", "finish", "fail", "done"},
         id : Nat, no : Nat, token : Nat, items : [Skus -> OneOf(Asins)],
         listed : [Skus -> OneOf(Asins)], participation : Participations, since : Nat,
         verdict : Statuses \cup {""}]

NewRun(kind) == [kind |-> kind, at |-> "new", id |-> 0, no |-> 0, token |-> 0,
                 items |-> [k \in Skus |-> {}], listed |-> [k \in Skus |-> {}],
                 participation |-> "none", since |-> 0, verdict |-> ""]

Calls == [at : {"new", "persist", "done"}, id : Nat, sku : OneOf(Skus), asin : OneOf(Asins)]

Unasked(place) == [at |-> place, id |-> 0, sku |-> {}, asin |-> {}]

NoWrites == [no |-> 0, items |-> [k \in Skus |-> {}]]

Init ==
    /\ acct = [id |-> 1, status |-> "active", token |-> 1, holder |-> {}, until |-> 0]
    /\ market = "eligible"
    /\ listing = [k \in Skus |-> NoListing]
    /\ snap = [k \in Skus |-> [a \in Asins |-> 0]]
    /\ log = [s \in Syncs |-> "none"]
    /\ \E plan \in Plans : syn = [s \in Syncs |-> NewRun(plan[s])]
    /\ look = [c \in Lookups |-> Unasked("new")]
    /\ now = 0 /\ issued = 1 /\ faults = 0
    /\ last = NoWrites
    /\ blamed = 0

mirror == <<market, listing, snap>>   \* what a sync writes of Amazon

outside == <<look, now, issued>>

Goto(s, place) == syn' = [syn EXCEPT ![s].at = place]

\* What a run that has ended remembers does not matter, but the rank of its lease.
End(s) == syn' = [syn EXCEPT ![s] = [NewRun(@.kind) EXCEPT !.at = "done", !.no = syn[s].no]]

Processing == {s \in Syncs : log[s] = "processing"}

LeaseActive == acct.holder # {} /\ acct.until > now

---------------------------------------------------------------------------
(* The lease                                                                *)

\* Mutant of ValidOwner: an expired lease is as good as any.
OwnerWhileUnclaimed(s) ==
    acct.id = syn[s].id /\ acct.holder = {s} /\ acct.status # "disabled"

\* _valid_owner_conditions
ValidOwner(s) ==
    /\ acct.id = syn[s].id /\ acct.holder = {s}
    /\ acct.until > now
    /\ acct.status # "disabled"

\* _assert_participation_eligible_for_sync
MarketEligible == market = "eligible"

\* A product sync needs an active account and an eligible marketplace, a refresh
\* an account that is not disabled.
MaySync == acct.status = "active" /\ MarketEligible

MayRefresh == acct.status # "disabled"

\* The one conditional UPDATE that takes the lease
MayBegin(s) ==
    /\ acct.id # 0
    /\ IF syn[s].kind = "product_sync" THEN MaySync ELSE MayRefresh
    /\ ~LeaseActive

\* Mutant of Abandoned: the log of an expired lease is left as it is.
LeftProcessing == {}

\* The logs a new lease finds processing and closes.
Abandoned == Processing

\* The commit of an acquisition may raise although it took effect.
Acquire(s) ==
    /\ syn[s].at = "new"
    /\ IF MayBegin(s)
       THEN /\ acct' = [acct EXCEPT !.holder = {s}, !.until = now + Duration]
            /\ log' = [t \in Syncs |-> IF t = s THEN "processing"
                                       ELSE IF t \in Abandoned THEN "failed" ELSE log[t]]
            /\ LET run == [syn[s] EXCEPT !.id = acct.id, !.no = Cardinality({t \in Syncs : syn[t].no > 0}) + 1]
               IN  \/ syn' = [syn EXCEPT ![s] = [run EXCEPT !.at = "load"]] /\ UNCHANGED faults
                   \/ /\ faults < MaxFaults /\ faults' = faults + 1
                      /\ syn' = [syn EXCEPT ![s] = [NewRun(run.kind) EXCEPT !.at = "done", !.no = run.no]]
       ELSE End(s) /\ UNCHANGED <<acct, log, faults>>
    /\ UNCHANGED <<mirror, outside, last, blamed>>

\* A product sync looks at its lease when it reads the refresh token.
LoadCredentials(s) ==
    /\ syn[s].at = "load" /\ syn[s].kind = "product_sync"
    /\ IF ValidOwner(s)
       THEN syn' = [syn EXCEPT ![s].at = "fetch", ![s].token = acct.token]
       ELSE End(s)
    /\ UNCHANGED <<acct, log, mirror, outside, faults, last, blamed>>

\* A refresh does not.
LoadEncryptedToken(s) ==
    /\ syn[s].at = "load" /\ syn[s].kind = "marketplace_refresh"
    /\ IF acct.id = syn[s].id
       THEN syn' = [syn EXCEPT ![s].at = "fetch", ![s].token = acct.token]
       ELSE End(s)
    /\ UNCHANGED <<acct, log, mirror, outside, faults, last, blamed>>

\* The load itself fails, on either path, and the account is blamed, whose token the
\* lease keeps.  (A product sync has seen before that the seller is known.)
LoadFails(s) ==
    /\ syn[s].at = "load"
    /\ faults < MaxFaults /\ faults' = faults + 1
    /\ syn' = [syn EXCEPT ![s].at = "fail", ![s].token = acct.token, ![s].verdict = "error"]
    /\ UNCHANGED <<acct, log, mirror, outside, last, blamed>>

\* By SKU, the ASIN that items give it.
BySku(items) == [k \in Skus |-> {i.asin : i \in {j \in items : j.sku = k}}]

\* What a reading of Amazon may come to: what it collected and what was listed, or
\* the verdict of its error.
ListingOutcomes ==
    {LET got == ReadListings(reading)
     IN  IF got.end = "done"
         THEN [at |-> "prepare", items |-> BySku(ToSet(got.items)),
               listed |-> BySku(Listed(reading)), verdict |-> ""]
         ELSE [at |-> "fail", items |-> BySku({}), listed |-> BySku({}),
               verdict |-> ProductVerdict(got.end)] : reading \in Readable}

FetchListings(s) ==
    /\ syn[s].at = "fetch" /\ syn[s].kind = "product_sync"
    /\ \E outcome \in ListingOutcomes :
          syn' = [syn EXCEPT ![s].at = outcome.at, ![s].items = outcome.items,
                             ![s].listed = outcome.listed, ![s].verdict = outcome.verdict]
    /\ UNCHANGED <<acct, log, mirror, outside, faults, last, blamed>>

RefreshOutcomes ==
    {IF ParticipationError(reply) = ""
     THEN [at |-> "prepare", participation |-> Participation(reply), verdict |-> ""]
     ELSE [at |-> "fail", participation |-> "none",
           verdict |-> RefreshVerdict(ParticipationError(reply))] : reply \in MarketReplies}

FetchParticipations(s) ==
    /\ syn[s].at = "fetch" /\ syn[s].kind = "marketplace_refresh"
    /\ \E outcome \in RefreshOutcomes :
          syn' = [syn EXCEPT ![s].at = outcome.at, ![s].participation = outcome.participation,
                             ![s].verdict = outcome.verdict]
    /\ UNCHANGED <<acct, log, mirror, outside, faults, last, blamed>>

---------------------------------------------------------------------------
(* The end of a sync                                                        *)

\* The clock is read and the owner asserted before the account is locked.
Prepare(s) ==
    /\ syn[s].at = "prepare"
    /\ IF ValidOwner(s)
       THEN syn' = [syn EXCEPT ![s].at = "finish", ![s].since = now]
       ELSE End(s)
    /\ UNCHANGED <<acct, log, mirror, outside, faults, last, blamed>>

\* Mutant of MayFinish: what was asserted is taken to hold.
MayFinishAsPrepared(s) == acct.id = syn[s].id

\* _load_processing_log
Closable(s) == log[s] = "processing"

\* AmazonSyncLogService.finalize_succeeded, finalize_failed
LogSucceeded(s) == [log EXCEPT ![s] = "succeeded"]

LogFailed(s) == [log EXCEPT ![s] = "failed"]

\* Under the lock: the account is checked against the clock of Prepare, the log
\* must be processing, and the lease is cleared only if it is still valid.
MayFinish(s) ==
    /\ acct.id = syn[s].id /\ acct.holder = {s} /\ acct.until > syn[s].since
    /\ IF syn[s].kind = "product_sync" THEN acct.status = "active" ELSE acct.status # "disabled"
    /\ Closable(s)
    /\ ValidOwner(s)

Unseen(row, s) == row.seen # {s}

\* _upsert_listings, then _soft_deactivate_unseen.
Synced(s) ==
    [k \in Skus |->
        LET row == IF syn[s].items[k] = {} THEN listing[k]
                   ELSE [asin |-> syn[s].items[k], active |-> TRUE, seen |-> {s}]
        IN  IF Unseen(row, s) THEN [row EXCEPT !.active = FALSE] ELSE row]

\* _upsert_participations
Refreshed(s) ==
    IF syn[s].participation # "none" THEN syn[s].participation
    ELSE IF market = "none" THEN "none" ELSE "inactive"

WriteListings(s) ==
    /\ syn[s].kind = "product_sync" /\ MarketEligible
    /\ listing' = Synced(s)
    /\ log' = LogSucceeded(s)
    /\ acct' = [acct EXCEPT !.holder = {}, !.until = 0]
    /\ last' = [no |-> syn[s].no, items |-> syn[s].listed]
    /\ UNCHANGED <<market, snap>>

\* A refresh that succeeds makes the account active again.
WriteParticipations(s) ==
    /\ syn[s].kind = "marketplace_refresh"
    /\ market' = Refreshed(s)
    /\ log' = LogSucceeded(s)
    /\ acct' = [acct EXCEPT !.holder = {}, !.until = 0, !.status = "active"]
    /\ UNCHANGED <<listing, snap, last>>

\* _finalize_success.  The marketplace of a product sync must still be eligible.
\* An exception, or a commit that raises, applied or not, makes it a failure.
Finish(s) ==
    /\ syn[s].at = "finish"
    /\ \/ ~MayFinish(s) /\ End(s) /\ UNCHANGED <<acct, log, mirror, faults, last>>
       \/ /\ MayFinish(s) /\ syn[s].kind = "product_sync" /\ ~MarketEligible
          /\ Goto(s, "fail")
          /\ UNCHANGED <<acct, log, mirror, faults, last>>
       \/ /\ MayFinish(s)
          /\ WriteListings(s) \/ WriteParticipations(s)
          /\ \/ End(s) /\ UNCHANGED faults
             \/ /\ faults < MaxFaults /\ faults' = faults + 1
                /\ syn' = [syn EXCEPT ![s].at = "fail", ![s].verdict = "error"]
       \/ /\ faults < MaxFaults /\ faults' = faults + 1
          /\ syn' = [syn EXCEPT ![s].at = "fail", ![s].verdict = "error"]
          /\ UNCHANGED <<acct, log, mirror, last>>
    /\ UNCHANGED <<outside, blamed>>

StatusAfter(s) == IF syn[s].verdict = "" THEN acct.status ELSE syn[s].verdict

\* _apply_failure_finalize, the same for both operations
Judged(s) == [acct EXCEPT !.status = StatusAfter(s), !.holder = {}, !.until = 0]

\* _attempt_failure_finalize: an owner closes its log, judges the account and
\* clears the lease; who has lost the lease changes nothing.
Fail(s) ==
    /\ syn[s].at = "fail"
    /\ IF ValidOwner(s) /\ Closable(s)
       THEN /\ acct' = Judged(s)
            /\ log' = LogFailed(s)
            /\ blamed' = IF syn[s].verdict = "" THEN blamed ELSE syn[s].token
       ELSE UNCHANGED <<acct, log, blamed>>
    /\ End(s)
    /\ UNCHANGED <<mirror, outside, faults, last>>

\* A worker dies: lease and log stay as they are.
Crash(s) ==
    /\ syn[s].at \notin {"new", "done"}
    /\ faults < MaxFaults
    /\ faults' = faults + 1
    /\ End(s)
    /\ UNCHANGED <<acct, log, mirror, outside, last, blamed>>

---------------------------------------------------------------------------
(* Catalog enrichment, which takes no lease                                 *)

CatalogReady(k) ==
    /\ acct.id # 0 /\ acct.status = "active"
    /\ listing[k].asin # {}
    /\ market \in {"eligible", "ineligible"}

\* _preflight: refuse, answer from a fresh snapshot unless told not to
\* (force_refresh), or remember the listing.
LookUp(c) ==
    /\ look[c].at = "new"
    /\ \E k \in Skus, force \in BOOLEAN :
          IF CatalogReady(k) /\ (force \/ \A a \in listing[k].asin : snap[k][a] <= now)
          THEN look' = [look EXCEPT ![c] = [at |-> "persist", id |-> acct.id, sku |-> {k},
                                            asin |-> listing[k].asin]]
          ELSE look' = [look EXCEPT ![c] = Unasked("done")]
    /\ UNCHANGED <<acct, mirror, log, syn, now, issued, faults, last, blamed>>

\* Mutant of StillActive: the account is not looked at again.
StillThere(c) == acct.id = look[c].id

StillActive(c) == acct.id = look[c].id /\ acct.status = "active"

CatalogOutcomes == [a \in Asins |-> {CatalogError(reply, a) : reply \in CatalogReplies}]

\* The answer of Amazon, and _persist_summary for the account and the listing as
\* they were; an error, or a change of either, stores nothing.
Persist(c) ==
    /\ look[c].at = "persist"
    /\ look' = [look EXCEPT ![c] = Unasked("done")]
    /\ \E k \in look[c].sku, a \in look[c].asin : \E error \in CatalogOutcomes[a] :
          IF error = "" /\ StillActive(c) /\ listing[k].asin = {a}
          THEN snap' = [snap EXCEPT ![k][a] = now + Ttl]
          ELSE UNCHANGED snap
    /\ UNCHANGED <<acct, market, listing, log, syn, now, issued, faults, last, blamed>>

---------------------------------------------------------------------------
(* The account                                                              *)

\* connect_account_from_oauth of a new account
Connect ==
    /\ acct.id = 0 /\ issued < MaxIssued
    /\ issued' = issued + 1
    /\ acct' = [id |-> issued + 1, status |-> "active", token |-> issued + 1,
                holder |-> {}, until |-> 0]
    /\ UNCHANGED <<mirror, log, syn, look, now, faults, last, blamed>>

\* connect_account_from_oauth of a known one, and reauthorize_account_from_oauth:
\* not while a lease is active; a disabled account is active again.
Reauthorize ==
    /\ acct.id # 0 /\ ~LeaseActive /\ issued < MaxIssued
    /\ issued' = issued + 1
    /\ acct' = [acct EXCEPT !.token = issued + 1, !.status = "active"]
    /\ UNCHANGED <<mirror, log, syn, look, now, faults, last, blamed>>

\* disable_account, also under a running sync
Disable ==
    /\ acct.id # 0 /\ acct.status # "disabled"
    /\ acct' = [acct EXCEPT !.status = "disabled", !.holder = {}, !.until = 0]
    /\ log' = [s \in Syncs |-> IF s \in Processing THEN "failed" ELSE log[s]]
    /\ UNCHANGED <<mirror, syn, look, now, issued, faults, last, blamed>>

\* disconnect_account: everything that belongs to the account goes with it.
Disconnect ==
    /\ acct.id # 0
    /\ acct' = [id |-> 0, status |-> "active", token |-> 0, holder |-> {}, until |-> 0]
    /\ market' = "none"
    /\ listing' = [k \in Skus |-> NoListing]
    /\ snap' = [k \in Skus |-> [a \in Asins |-> 0]]
    /\ log' = [s \in Syncs |-> "none"]
    /\ last' = NoWrites
    /\ UNCHANGED <<syn, look, now, issued, faults, blamed>>

---------------------------------------------------------------------------
(* The clock                                                                *)

Tick ==
    /\ now < MaxNow
    /\ now' = now + 1
    /\ UNCHANGED <<acct, mirror, log, syn, look, issued, faults, last, blamed>>

\* sync_amazon_listings and refresh_amazon_marketplaces, between the two ends
\* they have in common
ReadAmazonListings(s) == LoadCredentials(s) \/ FetchListings(s)

ReadAmazonMarketplaces(s) == LoadEncryptedToken(s) \/ FetchParticipations(s)

Run(s) ==
    \/ Acquire(s)
    \/ ReadAmazonListings(s) \/ ReadAmazonMarketplaces(s) \/ LoadFails(s)
    \/ Prepare(s) \/ Finish(s) \/ Fail(s)

\* refresh_amazon_listing_catalog
Enrich(c) == LookUp(c) \/ Persist(c)

Next ==
    \/ \E s \in Syncs : Run(s) \/ Crash(s)
    \/ \E c \in Lookups : Enrich(c)
    \/ Connect \/ Reauthorize \/ Disable \/ Disconnect
    \/ Tick

Spec == Init /\ [][Next]_vars

---------------------------------------------------------------------------
(* Properties                                                               *)

TypeOK ==
    /\ acct \in Accounts
    /\ market \in Participations
    /\ listing \in [Skus -> Listings]
    /\ snap \in [Skus -> [Asins -> Nat]]
    /\ log \in [Syncs -> {"none", "processing", "succeeded", "failed"}]
    /\ syn \in [Syncs -> Runs]
    /\ look \in [Lookups -> Calls]
    /\ now \in 0..MaxNow /\ issued \in 0..MaxIssued /\ faults \in 0..MaxFaults

\* The lease and the log of a sync come and go together, through takeovers,
\* crashes, commits in doubt, disabling and disconnection: at most one log of
\* the account is processing, and it is the one of the sync on the lease.
LogMatchesLease == Processing = acct.holder

\* The active listings are what Amazon's pages listed, all of them, to the last
\* product sync that wrote, ASIN by ASIN, and that sync is the one with the newest lease of all that succeeded:
\* who lost its lease to another never writes after it.
ListingsAreOfTheLastSync ==
    /\ last.no > 0 => \A k \in Skus :
        /\ listing[k].active = (last.items[k] # {})
        /\ listing[k].active => listing[k].asin = last.items[k]
    /\ \A s \in Syncs : log[s] = "succeeded" /\ syn[s].kind = "product_sync"
                            => syn[s].no <= last.no

\* Nothing that was begun before an account was disabled writes while it is, be
\* it a sync or an enrichment, which holds no lease that disabling could take.
DisabledIsLeftAlone ==
    [][acct.status = "disabled" /\ acct'.status = "disabled" /\ acct'.id = acct.id
          => UNCHANGED <<mirror, log>>]_vars

\* An account asks for reauthorisation, or is in error, because of the token it
\* has: a sync that failed with an older one does not undo a reauthorisation.
BlamedForItsToken ==
    acct.status \in {"error", "reauthorization_required"} => blamed = acct.token
=================================================================================
