# SellerAI Copilot: specification of the backend

TLA+ specifications of the backend of SellerAI Copilot (`src/backend/app`, a FastAPI service over
PostgreSQL and SQLAlchemy), TLC configurations that check them on small instances, and theorems about
them that TLAPS proves for every instance. Paths below are relative to `src/backend/app` unless they
start with `backend/`, `frontend/` or `docs/`.

The backend runs as two uvicorn workers (`backend/Dockerfile.prod:65`). A worker serves many requests
in one event loop and runs a handler until its next `await`. Every request has a database session of
its own (`database/session.py:22`, READ COMMITTED, `autoflush=False`, `expire_on_commit` at its
default). So what interleaves is transactions and awaits, and what protects the data is row locks,
unique constraints and conditional updates. That is the grain of the models: a transaction that takes
its lock before it writes is one step, and whatever a handler read before that lock is state of its own.

## 1. Inventory

| Component | State | Operations | Interacts with | What makes it correct |
|---|---|---|---|---|
| Generation executor and token quota (`services/generation_executor.py`, `quota.py`, `generation_state.py`, `idempotency.py`, `api/generate.py`) | `users.used_tokens`, `reserved_tokens`, `reset_date`; `generation_requests`; `generations` | `begin_execution` (Tx1), the call to the model, `_finalize_success` (Tx2), `_finalize_failure`, `_resolve_post_llm_finalize_failure` and its cleanup | products and proposals (inside Tx2), audits (around it), account deletion | one generation per idempotency key, saved and billed once; reservations neither leak nor are released twice; truthful replays |
| Audit entitlement (`services/audit_entitlement_service.py`, `api/analysis.py`) | `audit_usage` (reserved, completed, released) | `reserve_audit`, `complete_audit`, `release_audit`, release of stale reservations | executor, subscriptions | at most the plan's number of audits in a period; one audit charged per result |
| Paddle billing (`services/paddle_billing_service.py`, `api/billing.py`) | `subscriptions`, `paddle_webhook_events`, `users.plan` | `process_paddle_event` | entitlement | an event takes effect once; the stored state is that of the newest event |
| Listing proposals and versions (`services/listing_proposal.py`, `listing_version.py`, `db/listing_version_immutability.py`) | `listing_proposals` (status, revision, decisions), `listing_versions`, `products.current_listing_version_id` | create, patch decisions, approve, reject, import | executor (creates proposals in Tx2) | version numbers are unique and increase; one approval per base version; decisions never lost; versions never change |
| Amazon sync (`services/amazon_sync_lease_service.py`, `amazon_product_sync_service.py`, `amazon_marketplace_refresh_service.py`, `amazon_sync_log_service.py`, `amazon_catalog_enrichment_service.py`) | the lease columns of `amazon_accounts`, `amazon_sync_logs`, listings, participations | acquire, fetch pages, finalise as success or failure | accounts, token cache | only the holder of a lease writes; a log ends once; a run that lost its lease changes nothing |
| Amazon accounts and OAuth (`services/amazon_account_service.py`, `amazon_oauth_service.py`, `amazon_oauth_state_store.py`) | `amazon_accounts` (status, token), `amazon_oauth_states` | start, consume a state, connect, reauthorise, disable, disconnect | sync | a state is used once; one account per seller; no change of an account under an active lease |
| Access-token cache (`integrations/amazon/token_cache.py`, `lwa.py`, `client.py`) | cached tokens, tasks in flight | get or exchange, share an exchange in flight | sync | one exchange in flight per key; a cancelled caller does not cancel the rest |
| Sessions, login abuse, MFA (`services/auth_session_service.py`, `login_abuse_service.py`, `mfa_service.py`, `api/auth.py`) | `auth_sessions`, `users.failed_login_attempts`, `locked_until`, `mfa_*` | login, verify, enrol, logout | all endpoints | five failures lock; a code is used once; a pending session opens nothing |
| Products and projects (`services/product.py`, `project.py`, `amazon_listing_link_service.py`) | `projects`, `products`, the product a listing is linked to, the product a generation is filed under | create, delete, import and link listings, file a generation | executor, Amazon accounts, account deletion | no row hangs on another user's row; lists show a user's own rows and all of them |
| Amazon responses (`integrations/amazon/client.py`, `transport.py`, `lwa.py`, `listings_items.py`, `sellers.py`, `catalog_items.py`, `exceptions.py`) | none | classify a reply, collect pages, map an error to an account status | sync, token cache | every reply, or its absence, has one meaning; a listing is complete or the sync fails |
| Account deletion (`services/user_account_deletion_service.py`) | every table of the user | lock, disconnect each Amazon account (a commit each), delete | accounts, executor | nothing of the user is left, whatever runs in between |

**Not modelled.** HTTP plumbing (configuration, logging, in-memory rate limits) decides who may send a request,
which the models leave open. Analytics, scoring and pagination count committed rows or compute pure functions. The
frontend keeps no state the backend relies on. Deployment, scripts and migrations are operations; the models
use the number of workers and the schema's constraints. **Partly modelled**: audit history (what it shows, not how a
report is built), the HTTP integration with Amazon (what a reply means, not how a request is built or a single
field parsed), the read paths of Amazon (what they show), and the AI providers (they answer or fail).
`PROJECT.json` lists every component with its status, and the hazards of each at their lines.

## 2. Modules

The money path came first: a request pays a provider, and its bookkeeping spans two transactions
and a call that takes seconds. Then what else is charged or shown for money, then what runs beside it.

| Module | Extends | Runs | Proofs | Section |
|---|---|---|---|---|
| `GenerationExecutor`, with `GenerationLedger` as its abstract specification | | `generation_concurrent`, `generation_serial`, `generation_overlap` | `GenerationExecutorProofs` | 3 to 5 |
| `AuditEntitlement` | | `audit_allowance`, `audit_faults`, `audit_charge_once` | `AuditEntitlementProofs` | 6 |
| `PaddleBilling` | | `paddle_webhooks` | `PaddleBillingProofs` | 7 |
| `ListingProposals` | | `listing_proposals` | `ListingProposalsProofs` | 8 |
| `AmazonSync` | `AmazonResponses` | `amazon_sync` | `AmazonSyncProofs` | 9 |
| `TokenCache` | | `token_cache` | `TokenCacheProofs` | 10 |
| `AuthSessions` | | `auth_sessions` | `AuthSessionsProofs` | 11 |
| `SellerWorkspace` | `AmazonOAuth` | `seller_workspace` | `SellerWorkspaceProofs` | 12 |

Runs are few: one per question, with two or three actors each. Each `MC*` module instantiates the module of its
name. `SellerWorkspace` composes connections, the deletion of users and the workspace; audits compose with the
executor by the outcome of a request (absent, processing, succeeded, failed), and the sync with the token cache by
the token it gets or the reply that refuses one.

Every safety invariant and every action property that a passing run checks is also a theorem. Left for later: abstract
specifications of the audit allowance and of the sync's lease that their modules refine, as `GenerationLedger` is refined.

## 3. Generation executor: the model

`GenerationExecutor.tla` models one user of the service, and the attempts (HTTP requests) that user makes.

| Model | Code |
|---|---|
| `db.user` | the row of `users`: `used_tokens`, `reserved_tokens`, `reset_date` (0 for NULL), and whether it exists |
| `db.requests[k]` | the row of `generation_requests` for idempotency key `k`: status, request hash (`payload`), `tokens_used` |
| `db.generations[k]` | how many rows of `generations` were inserted for the request of `k` |
| `indoubt` | a COMMIT whose caller saw an exception and which the server may still apply; it keeps the user's row locked |
| `att[a]` | the handler of attempt `a`: where it is, key, payload, the `User` object of its session, the usage the model reported, the answer |
| `modelCalls`, `now`, `faults` | calls to the model per key; the clock; faults so far |

| Action | Handler |
|---|---|
| `Load` | the endpoint and `execute_*` load the user, unlocked |
| `LookUp` | `begin_execution` looks for the key; `_handle_existing_request` answers from its row |
| `Begin` | Tx1: lock, monthly reset, quota, insert, commit; refused, lost to the unique constraint, or a commit that raises |
| `Conflict` | the loser of the constraint rolls back and answers from the winner's row |
| `Refresh` | `refresh(request)`, `refresh(user)`, then the model is called |
| `ModelAnswers`, `ModelFails` | `_run_llm` and the provider |
| `FinalizeFailure` | `_finalize_failure` in the attempt's own session |
| `FinalizeSuccess` | Tx2; it may fail at any of its steps, or at its commit |
| `Resolve`, `Cleanup` | `_resolve_post_llm_finalize_failure`: read the outcome in a fresh session, then `_attempt_finalize_failure_fresh` in another |
| `Crash` | a worker dies or a handler is cancelled |
| `Decide` | the server applies or drops a commit in doubt |
| `DeleteUser` | the last transaction of `delete_user_account`, with ON DELETE CASCADE |
| `Tick` | time; a period ends when the clock reaches `reset_date` |

**The session's User object.** SQLAlchemy keeps one object per row and session while something refers to
it, and `execute_*` keeps the user in a local variable. `SELECT ... FOR UPDATE` waits for the row lock and
then returns that object *without* reloading its columns, unless the query asks for `populate_existing`,
which no query here does; a flush writes the columns that differ from what was loaded. So `att[a].user`
is loaded by `Load`, reloaded by `Refresh`, and `Flush` computes the UPDATE from it. The cleanup opens a new
session and reads the row under its lock.

**What is abstracted.** Prompts, outputs, products and proposals: Tx2 fails or not. The estimate is the
constant `Reserve`. Retries and fallback models inside the provider's client count as one call. Keys are
those of one request type. Since `monthly_tokens` is written by nothing, it is a constant. The reset wipes
`reserved_tokens` only when it is 0, so that assignment is not repeated in `MaybeReset`.
`find_stale_processing_requests` only reports. Deletions of single generations, with a product or
project (section 12), are left out here, so `generations` counts inserts.

## 4. Generation executor: runs

All in `MCGenerationExecutor.tla`.

- **generation_concurrent** (pass): three attempts over two keys and two payloads, free to overlap; one
  fault; the clock reaches the end of one period. About 2.1 million states. Shows `TypeOK` (in particular that no
  UPDATE violates the CHECK constraints of `users`, lost updates included), `SavedIffSucceeded`,
  `ModelCalledOncePerKey`, `AnswersAreTrue` and `SettledForGood`. Three attempts are the fewest for two that
  race on a key while a third interferes with their quota; one fault reaches every doubtful commit and every
  crash. Estimates 1 and 2 against an allowance of 4 give requests that fit together and requests that do
  not; usages 0 and 3 lie below and above every estimate.
- **generation_serial** (pass): the same instance while a user's requests follow one another
  (`Overlap = FALSE`: `Load` waits until nobody is served). Crashes, doubtful commits, deletion and the
  period's end remain. Shows that `reserved_tokens` is exactly what open requests hold
  (`ReservedIsEscrow`), that the executor implements `GenerationLedger` (`LedgerSpec`), and that only a fault can
  leave a request processing (`OnlyFaultsLeak`).
- **generation_overlap** (violation of `NothingHeldWhenIdle`): two overlapping attempts with no fault at all.
  The trace: both requests reserve; both refresh their User object, the first before the second's Tx1 commits;
  both succeed; the later UPDATE is computed from the older value, and a reservation stays for good while nothing
  is open. See the findings in section 14.

Deadlock is not checked: the attempts of a bounded instance end. Symmetry (attempts, keys) is used only in
the run without liveness.

**Fairness** (`FairSpec`): weak fairness of each handler's next step, and of `Decide`. A handler goes on once it was
accepted: its locks are held for one transaction, the provider's client has a timeout (`services/openai.py:33`) and
a bounded number of retries. The server decides every commit. Nobody has to send a request, the clock need
not tick, nothing has to crash.

**GenerationLedger** is the abstract specification: an account with an escrow. `Hold` takes an estimate into
escrow if it fits, possibly renewing the allowance, which only an empty escrow permits; `Charge` and `Release`
take exactly that estimate out; `Close` deletes the user. The mapping is the identity on rows:
`account` is the user row without its reset date, `requests` is `db.requests`. Everything else (loads, lookups,
doubtful commits, crashes) is a stutter.

## 5. Generation executor: proofs

`GenerationExecutorProofs.tla` proves, for every set of attempts, keys and payloads, every estimate, allowance,
number of faults, and with or without overlap, from `ExecutorAssumption` alone (estimates are positive, the other
numbers natural):

- `TypeCorrect`: `Spec => []TypeOK`. The clamp of `Unhold` is what keeps `reserved_tokens` natural.
- `SettlementIsInvariant`: `Spec => []SettlementInv`, the inductive invariant of the next four.
- `SavedOnce`, `CalledOnce`, `AnswersHold`: `[]SavedIffSucceeded`, `[]ModelCalledOncePerKey`, `[]AnswersAreTrue`.
- `SettledOnce`: `Spec => SettledForGood`, an action property.

None of the safety properties is inductive as it stands. `SettlementInv` adds the notion of an *owner*: the attempt
that inserted a row owns it until it answers or dies. There is one owner per key (`OneOwnerPerKey`); its row is its
own and still processing, or succeeded once Tx2 was sent (`OwnersHaveRows`); a commit in doubt differs from the
committed state in one row only, whose owner is gone or is finding out (`DoubtsAreSound`); the model was called for no
key without a row (`CallsAreCounted`); committed databases are consistent (`Consistent`). The proof has one lemma per
kind of step: `ReadOnlyStep` (a step that writes nothing), `CommittedStep` (Tx1 or a settlement that commits),
`DoubtfulStep` (one that raises), and one lemma per handler that cites them.

The last section of the module proves, while a user's generations do not overlap (`~Overlap`) and for any number of
crashes and commits in doubt:

- `EscrowIsExact`: `Spec => []ReservedIsEscrow`.
- `LedgerIsImplemented`: `Spec => LedgerSpec`, the refinement. `Init` maps to `Ledger!Init`; every step leaves the user
  row and the requests alone or is one `Hold`, `Charge`, `Release` or `Close`.

`~Overlap` is needed: `generation_overlap` shows that the first fails without it. The invariant is `SerialInv`, on top
of `SettlementInv`: at most one handler is served (`OneServed`); a handler about to write has no commit to wait for and
its `User` object equals the committed row (`Fresh`), which is what overlapping takes away; the books balance
(`Balanced`), and what a commit in doubt would do is one entry in them (`Booked`). `ReservedIsEscrow` counts the escrow as
a set of tokens, one per reserved token, instead of summing over the keys: inserting or settling a request then
adds or removes a disjoint set (`EscrowGrows`), where lemmas about cardinality do and no induction over a sum is needed.

Only model-checked: `OnlyFaultsLeak` (liveness under fairness, out of the prover's reach).

## 6. Listing audits

`AuditEntitlement.tla` models the audits of one user, `create_listing_audit` (`api/analysis.py`) with
`services/audit_entitlement_service.py`.

| Model | Code |
|---|---|
| `usage[a]` | the `audit_usage` row of attempt `a`: status, plan, period, `updated_at` |
| `requests[k]` | the generation request of key `k`, as the executor leaves it |
| `entitled` | what `get_entitlement` finds for plan and period: the active subscription, or the free plan and the month |
| `pending` | COMMITs that raised and are undecided, with the row each writes and the rows its sweep releases; both stay locked |
| `att[a]`, `now`, `faults` | the handler; the clock (a tick is at least the 15 minutes); faults so far |
| `late` | history: audits completed after their reservation had been released |

| Action | Handler |
|---|---|
| `Check` | look for a succeeded request of the key, unlocked (lines 51-61) |
| `ReserveAudit` | lock the user, release stale reservations, count, refuse or insert, commit |
| `Execute` | `execute_listing_audit` starts the request, replays its report, or raises |
| `Settle`, `SettleInDoubt` | the executor's end: succeeded, failed, or an exception although the outcome is open |
| `CompleteAudit` | `complete_audit` and its commit |
| `Undo`, `Release` | the `except` clause: `release_audit` reads the row without a lock, then writes it |
| `Crash`, `Decide`, `Entitle`, `Tick` | a worker or handler dies; a doubtful commit is decided; plan or period changes; time |

The executor appears as section 4 and 5 establish it: one row per key, owned by the attempt that
inserted it, settled once, replayed to the same payload only. Token quota is one of the reasons
`Execute` may raise. Administrators have no limit and are left out, as is the deletion of the user, which takes
the usage rows with it; analytics events are best effort and touch no usage. `updated_at` of a new row
is taken as the time of the reservation; PostgreSQL writes the start of the transaction, which is earlier by the
wait for the lock, far less than a tick.

Runs, in `MCAuditEntitlement.tla`:

- **audit_allowance** (pass): three attempts over two keys; free, plus and pro entitlements in two periods, with limits
  of one and two, so that the plan can change within a period and between periods; no faults; 459,198 states. With a
  tick a running audit's reservation is abandoned and swept. `WithinAllowance` says precisely how far
  the allowance can be exceeded: by the audits that completed after their reservation was released, and by no
  other. (The plan may fall while audits are charged, so the limit is that of some audit still charged.)
- **audit_faults** (pass): two attempts over two keys and two payloads, two faults, one plan, fairness; 124,104 states.
  `WithinAllowance` again, now with reservations in doubt, which only the user's lock keeps out of the next count.
  `ChargedForAReport` ("Failed audits do not consume an allowance", `frontend/app/pricing/page.tsx:67`),
  `ServedIsCharged`, `FailedAuditsDoNotRefuse` (a refusal is due to reports that exist, audits that still run, or what a
  fault left reserved within the 15 minutes: an audit that failed has been given back before it answers), and
  `ReservationsEnd` under weak fairness of each accepted handler and of `Decide`, for the reasons given in section 4.
- **audit_charge_once** (violation of `ChargedOncePerKey`): two attempts of one key and nothing that fails. Two
  are enough: the second looks for the key before the first has finished, reserves after, replays and is charged.

Two attempts race for the last audit of a limit of one; the third attempt of the first run makes a limit of two
meaningful.

`AuditEntitlementProofs.tla` proves `AuditInvariant` (`Spec => []AuditInv`), and from it `FailedAuditsAreFree`
(`[]ChargedForAReport`), `ServedAuditsAreCharged` (`[]ServedIsCharged`) and `AuditTypes` (`[]TypeOK`), for all plans,
limits, periods, attempts and faults. The invariant adds what neither property says: one attempt runs the model for a key
(`ModelsRunForOne`); a handler completes only what has a report (`HandlersInOrder`); commits in doubt touch
disjoint rows, sweep reserved rows only and complete only what has a report (`DoubtsAreHarmless`); a served audit's
row is completed already (`ServedForGood`).

`AllowanceHolds` proves `[]WithinAllowance` for a finite set of attempts. `WithinAllowance` is not inductive, because a
release may take away the very audit whose limit covers the others; `LimitsHold` therefore claims it of every
non-empty subset of the audits charged to a period (in whatever subset remains, the audit reserved last was counted with all
the others). `DoubtsFit` adds that a reservation in doubt still fits when it is applied and is the only one, which
the user's lock gives, and that a completion in doubt charges no row that is not charged or `late` already.
`FailuresRefuseNobody` proves the action property `FailedAuditsDoNotRefuse` for a finite set of attempts, from
`HeldWhileBusy`: until the first fault nothing is in doubt and every reservation belongs to a handler that goes on to
complete it or give it back. `ReservationsEnd` (liveness) is model-checked only.

## 7. Paddle billing

`PaddleBilling.tla` models the webhook (`api/billing.py`, `process_paddle_event`) and what `get_entitlement` makes of
the rows it stored.

| Model | Code |
|---|---|
| `payload[e]` | what event `e` says: type, subscription, whether its `custom_data` is signed by a checkout, price, status, period |
| `recorded`, `sub`, `plan`, `users` | `paddle_webhook_events`; the subscriptions' rows; `users.plan`; the users that exist |
| `h[w]` | the delivery worker `w` handles, with the subscription as its session loaded it |
| `acked` | events answered with 200 |
| `applied`, `last`, `tangled` | history: how often an event took effect; the last event of a user; whether another of that user's committed while it was handled |

| Action | Handler |
|---|---|
| `Receive` | a delivery arrives; a recorded event is acknowledged at once |
| `Load` | read the subscription without a lock; match the user (signed, or that of the stored row) and the price |
| `Lock`, `Commit` | lock the user; flush and commit, which the unique `event_id` and `provider_subscription_id` may refuse |
| `Crash`, `DeleteUser` | a worker dies; the user goes with the subscriptions |

`Commit` writes what SQLAlchemy flushes: the columns that differ from the row *as loaded*, so two events of one
subscription that overlap may mix their columns. That is why `LastEventDecides` excepts events that were `tangled`.

`users.plan` is what the application shows and `get_entitlement` what it grants. They are not always the same, and
`LastEventDecides` says exactly when, for a user's last event that was not tangled:

| The event says | Shown | Granted |
|---|---|---|
| active or trialing, the period open | its price | its price, whatever else is live |
| active or trialing, without a period | its price | free |
| active or trialing, the period over | its price | what the user's other subscriptions give, or free |
| past due or canceled, and no other subscription live | free | free |
| past due or canceled, and another live | free | what the other gives |

No document or test says which of the two is meant in the rows where they differ; the property fixes what the code does.
The clock stands still: a period that is open when its event is handled does not run out in the model.

- **paddle_webhooks** (pass): three events, each with any of seven contents (two checkouts of one user, a change of plan,
  an end, a period that is over, an unsigned event without a period, an unknown price, another type), two workers, one
  fault. Shows `AppliedOnce`, `LastEventDecides` and, with fairness, `EventsTakeEffect`. Three events are the fewest for
  two that race on a subscription and a third that decides the plan; every row of the table occurs.

Fairness: weak for a worker's next step; strong for a redelivery of each event not yet acknowledged, because Paddle
resends until it is answered with 200 and a worker is free again and again.

`PaddleBillingProofs.tla` proves `BillingInvariant` (`Spec => []BillingInv`), `EventsApplyOnce` (`[]AppliedOnce`) and
`TheLastEventDecides` (`[]LastEventDecides`) for any events, whatever they say, any subscriptions, users, workers and
faults. For the first the types are enough: the unique `event_id` decides under the commit. The second needs dates and
knowledge. Rows are dated by the commits there have been (`RowsAreDated`). A worker whose user has seen no other
commit still has the row as it is, and no row of the user is newer than its read (`ReadersKnow`). So the row it
commits says what the event said and is newer than every other row of the user (`LastIsNewest`), and that row is the
one `get_entitlement` picks. `BillingAssumption` says that a story gives each event one content and that a
subscription was checked out by one user. `EventsTakeEffect` is liveness and model-checked.

## 8. Listing proposals and versions

`ListingProposals.tla` models one product: its versions, the proposals generations make of it, and the requests that
import, patch, approve and reject.

| Model | Code |
|---|---|
| `ver[r]`, `cur` | the `listing_versions` row request `r` made; `products.current_listing_version_id` |
| `prop[r]` | the `listing_proposals` row generation `r` made: base, candidate, decisions, revision, status |
| `productLock`, `userLock` | who holds the row of the product, or of the user FOR UPDATE |
| `at[r]`, `answer[r]` | where the handler of `r` is; what it was answered |

| Action | Handler |
|---|---|
| `LockUser` | the second transaction of a generation locks the user first |
| `LockProduct` | `_lock_product_for_user` |
| `Act` | under the lock: `Import`, `Generate`, `Patch`, `Approve` or `Reject`, to the commit |
| `Victim` | PostgreSQL ends one of two transactions that wait for each other |
| `Crash`, `DeleteProduct` | a worker dies; the product goes with its versions and proposals |

The deadlock is real: an approval holds the product and inserts a row that refers to the user, while the end of a
generation holds the user and waits for the product (`listing_proposal.py:617`). One of them is ended and answers with
an error. Under the product's lock the unique constraints of versions never fire, so the code that handles their
`IntegrityError` has no counterpart here. An import that is replayed is answered with `is_current=True`
(`api/listing.py:98-106`) even if a newer version has become current meanwhile; nothing depends on it.

- **listing_proposals** (pass): five requests: two generations, an import or a patch, and two others of any kind; two
  fields, so that a merge can take one and leave the other; three texts; one fault; 524,000 states. Shows `LinearHistory`,
  `ApprovedIsMerge`, `OneWinnerPerRevision`, `AnswersAreTrue`, `ReviewIsTheChange` (what the screens show, each from a
  query of its own, is what was decided), `DecidedForGood` and, with fairness, `RequestsAreAnswered`.

Fairness: weak for each request's next step, with `Victim` part of it. Each transaction ends, so locks are free again.

`ListingProposalsProofs.tla` proves all of them but the last, for any number of requests, fields, texts, keys and
faults: `HistoryIsLinear`, `ApprovalsMerge`, `OneReviewPerRevision`, `ToldTheTruth`, `ReviewsShowTheChange`, the
action property `DecisionsAreForGood`, and `ProposalTypes` (`[]TypeOK`). There are two invariants. `HistoryInv`, for
the versions alone, adds that a request that made a version is done, so that none is made twice, and that versions are
finitely many, so that the largest number is their number. `ReviewInv` adds the rest:

- only a request that is over has written (`WritersAreDone`);
- a proposal refers to versions that exist, and has one of its own exactly when it is approved (`ProposalsRefer`);
- the reviews of a proposal each name an earlier revision than it has, and no two the same (`ReviewsAreCounted`): that is
  what the comparison of `expected_revision` under the product's lock gives;
- a version belongs to one proposal and a key to one import (`VersionsAreOwned`);
- what was answered holds (`AnswersHold`), where `AnswersAreTrue` alone would not survive the next patch.

`ReviewIsTheChange` is not a further invariant: it follows from these, through the queries of the screens.
`ProposalsAssumption` says that the requests of an instance are operations, and that a patch carries decisions.

## 9. Amazon sync

`AmazonSync.tla` models the syncs of one account, a product sync or a refresh of its marketplaces, with the
enrichment from the catalogue, while the account is connected, reauthorised, disabled and disconnected.
`AmazonResponses.tla`, which it extends, holds what Amazon may reply and what the integration makes of it.

| Model | Code |
|---|---|
| `acct` | the account's row: id, status, token, lease holder and expiry |
| `market`, `listing[k]`, `snap[k][a]` | the participation in the marketplace; the listing of SKU `k`; until when a catalogue snapshot is fresh |
| `log[s]`, `syn[s]`, `look[c]` | the `amazon_sync_logs` row; the run of sync `s`; an enrichment |
| `last`, `blamed` | history: what the product sync that wrote last had seen; the token whose failure set the status |

| Action | Handler |
|---|---|
| `Acquire` | the conditional UPDATE that takes the lease, closes abandoned logs and opens one; its commit may raise |
| `LoadCredentials`, `LoadEncryptedToken`, `LoadFails` | read the refresh token; only the product sync looks at its lease again; the load itself raises, and the account is in error without a token having been read |
| `FetchListings`, `FetchParticipations` | all that is read from Amazon, by any replies of the instance |
| `Prepare`, `Finish` | the clock is read and the owner asserted before the lock; `_finalize_success` checks again under it |
| `Fail` | `_attempt_failure_finalize`: an owner closes its log, judges the account, gives the lease back |
| `LookUp`, `Persist` | `_preflight` and `_persist_summary` of an enrichment, which takes no lease |
| `Connect`, `Reauthorize`, `Disable`, `Disconnect` | `amazon_account_service.py` |
| `Crash`, `Tick` | a worker dies; time |

A reading of Amazon touches nothing of ours, so `AmazonResponses` gives it as a value: `Progress` is what
`_fetch_all_listings` has read after each round of a token and a page, with its limits on pages and items, repeated
tokens and repeated items; `LwaError` and `SpApiError` say which exception a reply is; `ProductVerdict` and
`RefreshVerdict` what it says of the account. A body that is no valid UTF-8 is no JSON error either and leaves
`SpApiClient.request` (`client.py:183-193`) as an exception of no kind, which puts the account in `error`. Listed
items without an ASIN are left out. `Fail` asserts the owner, locks, and clears the lease by a conditional UPDATE:
since the last of these decides, the three are one step.

- **amazon_sync** (pass): two product syncs and a refresh, one enrichment, one SKU that is followed beside two that
  are not, two ASINs, limits of two pages and two items, readings of one or two rounds over every kind of reply, a lease
  and a snapshot of one tick in a clock of two, one reconnection or reauthorisation, one fault; 3.4 million states.
  Shows `LogMatchesLease`, `ListingsAreOfTheLastSync`, `BlamedForItsToken` and `DisabledIsLeftAlone`. Two product syncs
  make a takeover; the refresh is what makes an account active again behind a product sync's back. One SKU and one
  marketplace suffice because their rows are written independently.

Nothing is claimed about liveness: nobody has to sync, and a failed sync is not retried by the backend.

`AmazonSyncProofs.tla` proves all four, for any number of syncs and enrichments, any durations, limits and replies:
`LogsFollowTheLease`, `OldTokensAreNotBlamed`, `DisabledStaysAlone` and `ListingsFollowTheLastSync`. `LeaseInv` adds
`OwnersUseItsToken`: whoever is past reading the token and still on the lease has the account's token. It holds
because a new token is refused while a lease is active and a lost lease stays lost. `SyncInv` adds that ranks are
given out in the order of the leases (`RanksCount`), so that who is on the lease had it last (`HolderIsNewest`), and
that a run that has yet to write has marked no listing and carries what was listed (`WritersAreFresh`); without the
mark, `_soft_deactivate_unseen` would take a listing that is gone for one just seen.

That a reading carries what was listed is `CollectedIsListed`: a reading of any length that comes to its end has collected
every item of every page. It is an induction on the rounds, which the library's induction theorems cannot give here because
they take an operator. `CountingUp` states it of a set of numbers instead, from the library's theorem about
well-founded relations (`WFMin`), which takes sets only; with it `ProgressIsMade` shows that the recursive function
`Progress` exists. `SyncTypes` (`[]TypeOK`) needs in addition that a reading collects one item for each SKU
(`CollectedIsDistinct`): a later item of a SKU replaces the earlier one.

## 10. The access token

`TokenCache.tla` models `integrations/amazon/token_cache.py` with `lwa.py` for one key: coroutines of one event loop, so
an action is what runs between two awaits.

| Action | Handler |
|---|---|
| `Call` | `get_access_token` up to its only await: the cache, or `SingleFlightCoordinator.run` |
| `Wake`, `Cancel` | a caller gets the task's result through the shield, or goes away |
| `Begin`, `Exchange` | `_refresh_access_token` looks into the cache again, then exchanges |
| `Cleanup` | the task that a finished one schedules to unregister it |

The coordinator's lock is never held across an await, so it is always free and left out. A client makes a token provider
of its own, so the callers are those of one client; `invalidate` is called by nothing in the repository.

- **token_cache** (pass): three callers, a token of one tick, a clock of two. It takes three for two exchanges to
  overlap if the cleanup drops whatever is registered: one whose task has ended, one whose task replaced it, and one
  who finds nothing. Shows `OneExchange` and, with fairness, `CallersAreAnswered`.

Fairness: weak for waking, beginning, exchanging and cleaning up: the event loop runs what is ready, and requests
to Amazon time out. No caller has to come or go.

`TokenCacheProofs.tla` proves `ExchangesDoNotOverlap` (`Spec => []OneExchange`) for any number of callers. `RegisteredInv` says
that at most one task is registered and that only it may be running.

## 11. Sessions and the second factor

`AuthSessions.tla` models one user: `api/auth.py` with `auth_session_service.py`, `login_abuse_service.py` and `mfa_service.py`.

| Action | Handler |
|---|---|
| `Register`, `WrongPassword`, `Login`, `Logout` | each holds the user's row, or one conditional write, and is one step |
| `Resolve` | the middleware and `get_mfa_pending_user`: the session is loaded, not locked |
| `Decide` | `_pending_user` locks the user; then `Setup`, `Confirm` or `Verify`, to the commit |
| `DeleteUser`, `Tick` | the sessions go with the user; time |

`validate_session` hands on the session's id and drops the object, so `record_mfa_failure` and `mark_mfa_verified`
load the row again, under the user's lock: `CompleteMfa` and `RejectMfa` compute from `sess` as it is then, and need a
session that is still open (`StillOpen`). If it is not they raise, and `Decide` ends with nothing committed. The CSRF
look-up lets a revoked session pass and the handler refuses it (`PassesCsrf` and `Active`). `Init` includes a user who
enrolled earlier.

- **auth_sessions** (pass): two sessions, three requests, limits of two, a clock of two. Shows `TypeOK` (the CHECK
  constraints of the counters, at their limits), `SingleUse`, `SecretsShownAreKept`, `GuessesAreBounded` and
  `WrongCodesEndASession`. Three requests are two that race and one before them that sets the factor up, or three
  wrong codes at once against a limit of two: without the second look at the row the third would be compared as well.

`AuthSessionsProofs.tla` proves `CountersKeepToTheirColumns`, `CodesAreSpentOnce`, `OneSecretIsShown`,
`FailuresEndASession` and `FewPasswordsAreTried` for any sessions, requests and limits. `AuthInv` adds that an
accepted code is spent (it is not above the last counter, or is off the list of recovery codes; `AcceptedIsSpent`),
that requests have sessions, and that secrets are shown only by a user who has them; `CountInv` that the wrong codes
in a row are the attempts an open session has stored, below the limit. `GuessInv` bounds the wrong passwords: below
the limit each is counted, at the limit each locks the user anew, and the end of the last lock tells how many locks
there can have been.

## 12. Connections and the workspace

`AmazonOAuth.tla` models how sellers are linked to users, `SellerWorkspace.tla` extends it with what users keep.

| Action | Handler |
|---|---|
| `Start` | `start_authorization`: a state, for a new account or one's own |
| `Consume`, `ConsumeInDoubt`, `Misread` | the callback spends its state and commits; the commit raises although it took effect; the callback is sent away |
| `Exchange`, `Persist`, `Insert` | the code exchange; `connect_account_from_oauth` or `reauthorize_account_from_oauth`; the insertion the unique constraint decides |
| `Disconnect`, `DeleteBegin`, `DeleteAccount`, `DeleteUser`, `DeleteStops` | `disconnect_account`; a run of `delete_user_account`, whose commits release the user's lock; it may stop half-way and be run again, and a second run may begin meanwhile |
| `CreateProject`, `CreateProduct`, `DeleteProject`, `DeleteProduct` | `project.py`, `product.py` |
| `Import`, `CheckLink`, `Link`, `Unlink` | the upsert of a sync; `link_product_for_user`, which locks the listing, looks for the product and commits, or has none to look for |
| `AskListing`, `AskKeywords`, `AskAnalysis`, `AskAudit` | the first transaction of a generation or an audit |
| `File`, `Save`, `Fail` | its second: the user is locked and the product looked up (`resolve_or_create`); the rest of it; or nothing |
| `AccountStep` | a step of `AmazonOAuth` with the rows that go with it (ON DELETE CASCADE, SET NULL) |

The seller of a callback is the one its parameter `selling_partner_id` names. The code does not compare it with the
token that Amazon returns (`api/amazon_oauth.py:222`), so a token may have been granted by another seller than the one
it is filed under; the models say only where a token goes, and `TokensBelong` claims nothing about who granted it.
What it says is that no overlap of callbacks, disconnections, deletions and reauthorisations takes a token to an
account, a user or a claimed seller other than those its state and its callback named.

`link_product_for_user` locks the listing, but looks the product up without a lock: between `CheckLink` and `Link` the
product or its project may be deleted. The foreign key refuses a product that has vanished, and what would change the
listing itself, such as the end of its account, waits for its lock.

A product that is deleted, or is one of another project, when its generation returns is created anew in the project
that was named. The snapshot an AI context reads only refuses. Rows of `listing_audit_snapshots` are created nowhere
in the backend, so what `disconnect_account` would delete of the generations that refer to them matches nothing.
Analyses are saved, but shown nowhere and not counted, since counts join through products: `ShownIsOwn` says which
generations are shown. That `list_audits` shows only the newest 20 is left out.

- **seller_workspace** (pass): two users, sellers, states, callbacks, runs of a deletion, projects and products, one
  generation. Authorizations and runs of a deletion, which race over accounts, overlap as long as there is no project and no
  request; afterwards an authorization, a link or a generation is alone with one deletion and with what one step creates or
  deletes (`OverlapsAreEarly`, a constraint of the run). The three change no row in common; the proofs have no such bound. Shows
  `OneExchangePerState`, `TokensBelong`, `TenantsApart`, `FiledTogether` and `ShownIsOwn` (the lists are scoped by
  different joins, and agree). Two callbacks are what it takes for a state sent twice, or two that compete for a seller,
  or a connection and the rotation of its token. One generation suffices: two share the lock of their user and
  nothing else.

`SellerWorkspaceProofs.tla` proves `ExchangedOnce` and `TokensGoToTheirOwners` from `OAuthInv`: who holds a consumed
state (`StatesAreSpent`), that a callback about to insert connects (`InsertingConnects`) and that a stored token is
that of a callback that is over (`TokensAreSettled`). It proves `TenantsStayApart`, `GenerationsAreFiled` and
`ListsShowOwn` from `WorkspaceInv`, which extends it: a product is of the user of its project (`ProductsHaveHomes`),
and a generation was asked for in a project that is, or was, its user's (`AskedInOwnProject`), where the product it
has found is, while it is there (`FiledUnderOwn`); a listing being linked is there, and the product looked up is its
user's or gone (`LinkedToOwn`). Every step of the workspace is a step of `AmazonOAuth` or leaves its variables alone,
so its invariant carries over. All hold for any number of users, sellers, callbacks, runs of a deletion, projects,
products and generations.

## 13. What the checks do not say

Several users share no row the executor writes, so one user suffices. A commit in doubt may be decided after the
client was told that finalising failed: the client then holds a 500 for a request that succeeded, and a retry with the
same key replays the result. `AnswersAreTrue` therefore makes no claim about the answers `finalize_failed`, `error`,
`in_progress`, `quota_exceeded` and `unrecoverable`. A crash leaves a request processing and its tokens reserved,
which `backend/scripts/reconcile_stale_generations.py:28` leaves to manual reconciliation.

Reads lock nothing and see committed rows; the models say what each query shows of one committed state. Of the remaining
components one user, one account, one product or one key suffices for the same reason as above: no row the code locks
or writes is shared between two, except where section 12 has two users. `disable_account` and `create_account` are reachable
from no endpoint; the first is modelled, because syncs guard against it.

Model-checked and not proved are the liveness properties, which are out of the prover's reach: `OnlyFaultsLeak`,
`ReservationsEnd`, `EventsTakeEffect`, `RequestsAreAnswered` and `CallersAreAnswered`. The type invariants `TypeOK` of
`AuditEntitlement`, `PaddleBilling`, `ListingProposals` and `AmazonSync` document the state and are in no run; they are
proved all the same (`AuditTypes`, `ProposalTypes`, `SyncTypes`, and within `BillingInvariant`),
and those of `TokenCache` and `AmazonOAuth` are parts of proved invariants. What
`AmazonResponses` makes of one reply is checked by evaluating it over the replies of the instance. The proofs assume no
more of the constants than the named assumptions of the modules, which TLC evaluates on every run.

## 14. Findings

**Overlapping generations lose quota updates.**
`backend/docs/quota-billing.md:9` promises that `reserved_tokens` holds an estimate "between Tx1 commit and finalize
outcome", and lines 21-22 that a success releases its reservation and adds its consumption. With overlapping
generations of one user neither holds: `lock_user_for_quota` (`services/quota.py:46`) locks the row and computes from
columns that were loaded before. A reservation can stay when nothing is open, which also defers the monthly
reset for good (lines 52-53), and a consumption can be lost. The run `generation_overlap` shows it.

**A request sent again while it runs is charged twice.** `backend/tests/test_listing_audit_api.py:107` states that a
success and its replay "charge once", and sends the two one after the other. `create_listing_audit` decides whether to
reserve from a look at the key that holds no lock (`api/analysis.py:51`); when the first attempt finishes between
that look and the executor's, the second attempt is answered with the stored report and completes a reservation of its
own (lines 78-92). Reporting a replay from the executor, and releasing the reservation in that case, would close
it. The run `audit_charge_once` shows it.

**Disconnecting leaves what a generation read.** No run shows this one, which is a matter of reading:
`docs/security/amazon-backup-retention-policy.md:47` says that disconnecting "removes ... imported data from active systems
immediately", while `execute_listing` stores the catalogue context in `generation_requests.input`
(`services/generation_executor.py:689-698`), which `disconnect_account` leaves.
