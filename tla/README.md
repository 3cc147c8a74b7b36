# Handleplan in TLA+

TLA+ models of Handleplan, checked with TLC on small instances and, for most of
the components, proved with TLAPS for every value of their constants (section 7). The models
are translations of the source; file and line references are in `PROJECT.json`
(`map`), and every action carries the name of the method or step it stands for.

Handleplan plans grocery trips in Norway. A worker collects product, price and
offer evidence from external providers and stores it in PostgreSQL under strict
rules about permission and provenance; a web application plans baskets from that
evidence; the browser keeps one active trip, and an offline shell, for use in the
shop. One host runs it all, behind a deployment procedure that a workflow drives
from outside, and with backups that are restored in drills.

## 1. Inventory

| Part | State it keeps | Operations | What makes it correct |
|---|---|---|---|
| Worker lease (`packages/db/src/worker-lease.ts`) | one `worker_leases` row per source; a handle, a heartbeat timer and an abort signal in the process | acquire, heartbeat, release, check and lock the fence | one writer per source at a time; nothing is committed under a lease that has been taken over |
| Runtime, runner, supervisor, schedule (`apps/worker/src/runtime.ts`, `runner.ts`, `supervisor.ts`, `schedule.ts`, `main.ts`) | status, leases of the cycle, active job; `worker_job_results` as a ledger of slots | poll, cycle, job with timeout and join, record, shut down, exit and restart | slots are recorded once, in order; shutdown ends; a running handler's lease is not handed over |
| Ingestion store (`packages/db/src/ingestion.ts`) | `ingestion_runs`, `source_record_outcomes`, canonical products and identifiers, evidence rows | begin a run, persist a batch, finalize | counters equal outcomes; nothing accepted after revocation; corrections never go back; no lock cycle |
| Kassalapp executor (`apps/worker/src/kassalapp-handlers.ts`) | the progress of one job | check access, prepare, begin, persist in batches, finalize | a completed run is whole; reported counters are stored ones; a revocation stops the job |
| Provider request budget (`packages/db/src/request-budget.ts`) | `provider_request_budget_events` | acquire | no window holds more claims than the limit; acquire ends |
| Worker target rotation (`packages/db/src/worker-targets.ts`) | none of its own: it counts completed runs and orders by observations | choose the discovery page, choose the price page | every page and product gets its turn |
| Official offers and review (`deploy/migrations/021`, `025`, `026`, `041`; `official-offer-lifecycle.ts`) | candidates, reviews, `approved_offers`, per-source cursors, rights of the sources | prove and decide a review; per slot and source withdraw, publish, record; decide about rights | what is shown is granted; no product exceeds what the projection returns; every offer is examined; none is withdrawn early |
| Captures of offers (`official-offer-foundation.ts`, `private-offer-blob-store.ts`) | files named by their checksum, rows in the database | store a file, record it | a recorded capture has its file, whatever is interrupted |
| Backup and restore drill (`deploy/backup/`) | archive of files, off-host objects, evidence | dump, archive, upload, publish; load, prove | a published backup is whole; a restore shows nothing or one whole backup |
| In-flight coalescer (`apps/web/lib/server/in-flight-operation-coalescer.ts`, `request-lifetime.ts`) | a map of running operations | run | one operation per key; every call answered |
| Planner, frontier, travel (`packages/domain/src/planner-v2.ts`, `fulfilment.ts`, `frontier-v2.ts`, `route-order.ts`; `apps/web/lib/server/travel/`) | a request under way | price, enumerate, route, keep the frontier, choose representatives | nothing a shopper could do is better than all that is shown |
| Trip repository and Handlemodus page (`apps/web/lib/trip-snapshot-repository.ts`, `apps/web/app/planlegg/handle/page.tsx`) | one IndexedDB record; the page's copy of it | getActive, start, setCompleted, finish, delete, clear | no tick is lost; ended trips stay ended; only complete trips are finished |
| Service worker and offline readiness (`apps/web/public/sw.js`, `handle-mode-offline-readiness.ts`) | caches per build | install, activate, ensure ready, repair, fetch | a page that was told it works offline keeps its shell; retired caches go |
| Basket and result page (`apps/web/lib/browser-basket.ts`, `apps/web/app/planlegg/resultat/page.tsx`, `travel-result-controls.tsx`, `plan-selector.tsx`) | the basket in local storage and in the page; plans, selected plan, travel; the travel controls and what they wait for | ask for plans, select, switch a membership; ask for a position, an address, a route; hide, show, reload | plans answer the basket; travel times are of the start, the mode and the plans shown; a choice outlives a recompute |
| Discovery page (`apps/web/components/oppdag/`) | market, filters, cursors, list; choices, a calculation, its outcome | filter, turn pages, add; choose, calculate, confirm, apply | the list answers what is chosen; what is applied was calculated for this basket |
| Deployment (`deploy/*.sh`, the production workflow) | state files, containers, operation lock, watchdog leases | deploy, verify, accept, reject, watch, roll back | what runs is committed; an unverified release does not stay; one verdict per attempt |
| Source access and governance (`source-access.ts`, `source-governance-lock.ts`) | `data_sources`, `source_permissions` | check, lock | decisions hold while they are relied on (inside the models that rely on them) |
| Health monitor, dashboard and alerts, Open Prices and provider clients, public API budget, readers, API routes, the page a basket is composed on, migrations | see section 8 | | |

How they interact: the supervisor polls the runtime; a cycle takes the leases of
all its sources, asks the ledger which slot of each schedule is due, and runs its
job. The job is an executor that checks access, takes its targets from the
rotation and its calls from the request budget, and persists what it fetched
through the ingestion store under the fence token of the lease. Every store and
ledger write checks that token twice. Official offers have a timer of their own:
captured files lead to candidates, reviewers decide on them, and one database
transaction per source and slot moves them into and out of the public
projection. The readers of the web application only look at completed runs and
published offers; identical requests to them are collapsed by the coalescer, and
the planner works on what they return. The result page asks for plans and then for
travel to the same plans, the discovery page for products and for the effect of
choosing them; both write the one basket. The browser's trip is a copy that lives on
its own, behind a service worker of the same build. Deployment replaces the
programs; backup reads the database and the capture files while writers go on.

What is hard in it: several worker processes and several PostgreSQL sessions per
process whose statements interleave; operations that are abandoned by a timeout
but still run in the database; permissions that change between a check and a
write; answers lost after a commit; shutdown and join timers that race; lock
waits inside a transaction that then sees what others committed; files that no
sync has confirmed; two tabs on one IndexedDB record; two service workers on one
cache storage; answers to a page that has moved on; hard kills between renames, with a watchdog and a workflow that
both want the last word. `PROJECT.json` lists these hazards at their lines with
the properties that cover them.

## 2. Modules

| Module | Models | With |
|---|---|---|
| `FencedLog` | what writers need to know of a lease | |
| `WorkerLease` | lease rows, locks, fenced transactions | implements `FencedLog`; `WorkerProofs` |
| `WorkerRuntime` | processes, cycle, runner, supervisor | the lease as `WorkerLease` specifies it; `WorkerRuntimeProofs` |
| `IngestionStore` | transactions of the store | fence check and commit are one step, which `WorkerLease` justifies; `IngestionStoreProofs` |
| `KassalappExecutor` | one job | a store whose batches commit or not and whose answers may be lost; `WorkerProofs` |
| `RequestBudget`, `Coalescer`, `TargetRotation` | one component each | `RequestsProofs` |
| `Planner` | pure algorithms and the request that joins them | `PlannerProofs` |
| `OfferPublication` | review, lifecycle transaction, projection | `OfferPublicationProofs` |
| `CaptureStore`, `CaptureBackup`, `RestoreDrill` | capture files; backup beside their writers; restore | `CaptureBackup` extends `CaptureStore`; `RestoreDrill` takes from it that published backups are whole; `HostProofs` |
| `TripStore`, `ShellCache` | browser: trip, offline shell | `PagesProofs` |
| `PlanPage`, `DiscoveryPage` | browser: result page with travel controls, discovery page with impact batch | a server that may answer with any plans, or none; `PagesProofs` |
| `Deployment` | the host, its operations and the workflow | `HostProofs` |

An `MC...` module extends a module for TLC and its `.cfg` gives the constants.
Five of them put several parts side by side, with a variable (`part`, or the
`Setting` of `MCIngestionStore`) that chooses one part per behaviour; the others
stay as they began. The parts do not share state, so this only makes one run of
several questions: `MCWorkerLease` (lease, executor), `MCSchedulesPages` (job
cycle, offers, result page, discovery page), `MCWaiting` (a smaller job cycle and
deployment, both with fairness), `MCRequests` (budget, rotation cursor, coalescer,
planner), `MCStores` (trip, shell caches, captures with backup, restore). What composes parts that do
interact is inside the modules: `WorkerRuntime` on leases, `IngestionStore` on
fences and governance locks, `CaptureBackup` on `CaptureStore`,
`OfferPublication` with reviewers and several sources, `Deployment` with workflow
runs, watchdogs and an operator.

Definitions called `...Mutant` are deliberate errors used to show that a property
can be violated; no specification refers to them. Modules with theorems, and all
modules they use, are free of `RECURSIVE` operators.

## 3. How state and actions correspond to the code

**WorkerLease** has one lease row (keys do not interact), a set of database
sessions and the handle of each process. A lease operation is: enter the advisory
lock, read `clock_timestamp()`, run one conditional statement and commit. A fenced
transaction is: begin, check the token without a lock, work, lock the row `FOR
UPDATE` and check again, commit. A caller that times out or is aborted leaves its
session behind, and that session may be cancelled or may still commit, so late
claims, renewals and releases are all behaviours. An owner may acquire again
under the same `ownerId` while a release of its earlier generation is on its way.
`FencedLog` is what writers need to know of it: generations only grow, and a write
is accepted only from the current one.

**WorkerRuntime** has, per process, the position in `executeCycle`, the open
handles and their signals, the current job and its handler, the runtime status
and the shutdown. Each `await` is a step boundary. What status a job ends with
does not matter to the cycle and is left out. A handler may settle, react to its
abort, or hang until and beyond the join grace, after which it is a `zombie` that
still writes. Rows expire, heartbeats fail, a process stalls past the expiry of
its rows and goes on, processes crash and restart with the same `ownerId`.

**IngestionStore** runs the statements of each transaction one by one: begin and
lock the run, lock the governance of the source, lock GTINs in order, resolve each
product, and commit with the fence. In between, permissions change or expire,
other sessions commit, upstream publishes new versions, and the lease passes on.
A product is represented by the upstream version its fields come from.

**KassalappExecutor** is the handler of one job, one step per `await`. Any
repository call may fail, or commit and lose its answer; the signal, the fence
and the access decision may change at any step.

**RequestBudget** runs the claim transaction statement by statement, each with
its own clock reading, on a pool with fewer connections than callers.

**TargetRotation** keeps the least-recently-refreshed queue of each price run
type and the count of completed runs; a run takes the page that
`priceTargetPageState` gives and moves what it observed to the end.

**Coalescer** keeps entries apart from the map, because an operation outlives
its deadline and its subscribers. Callbacks of the event loop are the steps.

**Planner** has packages, offers at the checkout (multibuys with their remainder,
minimum quantities), enumeration over sets of chains, dominance, order, choice of
representatives and round trips as operators, and the request as a small state
machine that prices, routes and answers, and that may be cancelled or fail at an
`await`. The reference it is compared with, `Possible`, is every way to buy the
basket at all, with any product at any chain for each need.

**OfferPublication** has, per candidate, its review and the status of its offer,
per source the rights, the cursors and the ledger of slots, and the steps of
`official_offer_lifecycle_reconcile_v1` between its lock waits: begin, sweep the
visible offers, examine a page of approved ones with product locks, complete. A
review is a proof of evidence and then the transaction of a decision; the rights
of a source may be decided about anew at any point that its governance lock
leaves open. A decision about rights, a lock timeout and a lost transaction are
what can go wrong.

**CaptureStore** has the state of each final name (absent, linked, confirmed by a
sync), temporary names, the rows of the database, and the steps of a put. Writers
compete for one capture, are cancelled or killed, and the host loses power.
**CaptureBackup** takes a snapshot of the rows, scans the files in several passes
while writers go on, and publishes its objects one after the other with the
manifest last. **RestoreDrill** loads a published backup in one transaction whose
session may outlive the drill.

**TripStore** has one step per IndexedDB transaction. `finish()` and
`removeCorruptRecord` are two transactions each. The page's copy may be stale.

**ShellCache** has the caches of each build by name, the workers with their life
cycle, and the handlers under way in each of them at every `await`. Opening a
cache creates it, one that is deleted lives on for who has it open, and a worker
that was superseded still finishes what it began. `cacheFirst()` has six waits: for
the search, for the match in a ready shell (which may lack the asset), for the open of
the runtime cache, after which a superseded worker deletes it, for the match and the
fetch, after which it deletes nothing, and for the store, after which it deletes it.

**PlanPage** has the basket in local storage and the page's copy of it, the state
of `ResultWorkspaceClient`, the state of `TravelResultControls`, the requests for
plans and the operations of the controls. An operation is current as long as no
later one bumped `operationVersion`. The arithmetic that turns a selected plan
into a preference and back is that of the code, with its two roundings. What the
server answers, and whether a confirmed start has expired, are choices.

**DiscoveryPage** has the basket as a fixed number of places, the filters as one,
the cursors, the list with the request it answers, and the batch, whose state React
drops whenever the basket or the products shown change (its `key`). A need that
is approved for a family is a value of its own; locking such a need to a product is
one of the replacements.

**Deployment** has the files of the state directory one by one, the operation
lock, containers, the attempt that each record names, and every operation as the
steps between two renames or container changes. A hard kill, a damaged record, a
dead watchdog and a failing cleanup are the faults.

## 4. Runs

| Run | Shows | Bounds, and why they are enough |
|---|---|---|
| `worker_job` | lease: a fenced write excludes its successor, a row belongs to its generation, and refinement of `FencedLog`; executor: counters are stored ones, revocation stops | 2 owners, 3 sessions, lifetime 2, clock up to 4: one fenced write beside two late operations, expiry and takeover within the clock. 3 batches, 1 failed call, 3 access decisions: first, middle and last batch differ |
| `schedules_pages` | job cycle: no lease is handed over under a handler, slots recorded in order; offers: no hidden extra offer, rights hold at the commit, no offer passed over, none withdrawn early; pages: plans answer the basket, travel belongs to the plans, the list answers the choice, an impact is of this basket | 2 processes, 2 sources, two slots of the first, 1 fault: partial acquisition needs two sources, an out-of-order slot needs two slots and a stall past expiry. 2 sources that share a product, 4 candidates, pages of 1, 1 visible offer per product, slots 0 to 2, 1 decision about rights: two transactions meet at a product, a cursor goes round, an offer begins, ends and is hidden. The same offers with 2 decisions about rights (1.6 million states) also pass. 1 ready and 1 incomplete basket, 1 program, 3 lists of plans (none, 1, 3), 2 starts, 2 operations at a time, 1 save by another tab: an operation is superseded by a later one and answered after it. 2 markets, 2 filters, 1 product, 2 needs, 2 pages, 2 searches and 2 calculations: a basket that fills up, a cursor and an outcome that become old. 2 products in one market (970 thousand states) also pass |
| `ingestion_store` | counters, corrections, revocation, lock cycles, current resolutions | 2 sessions; either 2 runs of one source, 2 versions, 2 generations, or 2 sources, 2 GTINs of which one is retired: every race is between two transactions. A run ends completed or cancelled in the first instance and completed in the second (`ends`): all that others ask of an ended run is whether it was completed, and the proofs are for every choice of ends |
| `requests` | window limit, acquire ends; the cursor reaches every page; one operation per key, every call answered; nothing better than the shown plans, and what is left out | budget: 3 callers, 2 connections, 1 claim per window of 2, clock up to 2: two transactions overlap, one caller waits for a connection, the claim at 0 leaves the window at 2. All 693 cursor positions. 3 calls, 2 keys with room for one, 2 subscribers per key. 3 chains, 2 products, 2 needs, sums up to 12, 3 plans shown: an offer with a remainder, a missing price, more plans than are shown |
| `stores` | ticks kept, trips do not return; offline proof holds, retired caches go; recorded captures survive, published backups and restores are whole | 2 tabs, 2 trips, 2 items, migration and corruption. 2 builds, 2 workers, 1 release, 1 damaged cache or killed worker. 1 publication, 2 contents, 2 writers, 1 backup, 1 fault. 2 backups, 3 drills, 2 kills |
| `waiting` | job cycle: shutdown ends, the newest slot gets a result; deployment: only the committed revision runs, a pending attempt is resolved, one verdict, superseded resolvers leave everything alone | 2 processes, 1 source, 1 slot, 1 fault. 2 workflow runs, 3 revisions, 1 fault, 1 rollback: an attempt, its successor, and a resolver of the first that acts late |
| `rotation_starved` | a finding: the historical queue can be starved | 5 pages, the default five price runs a day |
| `trip_finish` | a finding: a trip finished with an item left | as in `stores`, without corruption |
| `travel_refused` | a finding: a basket without travel though nothing failed | 4 chains with prices |
| `undiscounted` | a finding: an offer without a before price is withdrawn by the run that publishes it | 4 candidates, 2 slots, rights unchanged |
| `deploy_reject` | a finding: a reject that takes the running predecessor down | as in `waiting` |
| `keep_choice` | a finding: the second of four plans is not kept | 4 plans, 1 basket |

Runs switch the deadlock check off only where behaviours end: a process that is
stopped for good, a job that returned, drills and releases that are used up, or a
bound (clock, claims, versions, generations, slots) that has been reached. Lock
waits are states of the models, and a cycle of them is the property
`NoLockCycle` of the ingestion store; the product locks of `OfferPublication` can
be taken in opposite order by two sources, which ends in the lock timeout, a
rollback and a retry, all of which are in the model. Symmetry is used for
interchangeable sessions, runs and processes, and never in a run with a liveness
property.

## 5. Fairness

- `WorkerRuntime!FairSpec`: the event loop runs enabled continuations and timers,
  rows that nobody renews expire, heartbeats notice a lost row, and exited
  containers are restarted (the compose file's restart policy). Handlers need not
  settle: the runner's timeout and join timers take a job out of a hung handler.
  `NewestSlotRecorded` assumes that a handler does not hang for ever past its
  grace, because the process then never exits.
- `RequestBudget`: the clock advances, deadline timers fire and their cancel is
  answered, and the pool serves its queue (strong fairness of `Connect`, since
  postgres.js hands out connections first come, first served). No statement has to
  succeed.
- `Coalescer`: the deadline timer fires and settled promises are delivered.
  Operations need not settle.
- `MCRequests` and `MCWaiting` state those of their parts as one: a behaviour has one part, so weak fairness of
  "the one action in its part, or the other in its part" is weak fairness of each.
- `Deployment!DeployFairness`: whoever holds the operation lock goes on (it is a
  running script with bounded commands), deadlines pass, and a watchdog that
  polls the lock gets it at some time (strong fairness of its resolution and of
  the retirement of an ended one). Workflow runs may be lost at any point.
- `TargetRotation!DailySpec`, for the finding, is the favourable case in which
  every run completes.

## 6. What the runs found

- **Historical prices can be starved** (`rotation_starved`). The offset of a price
  run comes from one count of completed runs of both types
  (`worker-targets.ts:209-214`). With five pages and the default four benchmark
  runs and one historical run a day, the historical run meets the same offset
  every day, in a queue that it reorders itself, and some products never get
  their turn although every run completes. The worker runbook says that a first
  page cannot permanently starve later products.
- **A trip can be finished with an item left** (`trip_finish`).
  `finish()` checks and deletes in two transactions, and another tab can untick
  an item in between; the error text says that this cannot be.
- **Four priced chains mean no travel** (`travel_refused`). The planner enumerates
  sets of up to 13 chains, the travel service takes 7 candidates and its branch
  snapshot and route contract 3 chains; the coordinator answers a larger set
  without travel. The contract says that optional routing evaluates the entire
  set.
- **An offer without a before price does not stay** (`undiscounted`). The decision
  strips nulls, the projection asks for a JSON null, and the run that publishes
  the offer does not see it and expires it for good. Migration 039 says that a
  JSON null is there, and ADR 0001 that a missing before price only drops fields.
- **A reject after a hard kill touches the predecessor** (`deploy_reject`). A kill
  between the commit of the predecessor and the end of the pending record leaves a
  state in which the next reject closes and recreates what runs, where the
  comment says that it touches no runtimes.

- **A choice of plan is not kept** (`keep_choice`). The page saves the position of
  the selected plan as a rounded weight and turns the weight into a position,
  rounded down. Of four plans the second is saved as 6667 and read as the first: a
  recompute, a reload, a travel result, or hiding the page changes the selection.
  A test says that the preference is kept; it uses the last plan, which needs no
  rounding, as do all plans of a list of up to three.

Seen as well, without a run of their own:

- Worker: `removeCorruptRecord` aside, a run whose `finalizeRun` is lost stays
  `running` for ever; losing the lease of one source cancels the running job of
  another and its slot counts as recorded; `productionCycleBoundMs` leaves out the
  MENY schedules.
- Rotation: with benchmark runs alone, a product waits longer than
  `ceil(eligible / limit)` runs (8 of them for 4 pages), though not for ever.
- Trip: `removeCorruptRecord` can delete a trip started after the corrupt one was
  cleared.
- Offers: a retry in the same slot after a lost answer, a restart or a second
  worker gets `JOB_CONFLICT` until the next slot, since every attempt has a random
  `runId`; the outcome `replayed` is out of reach. A page that exceeds the cap of a
  product withdraws all of its offers of that product. Pausing a source lets the
  lifecycle expire its published offers for good. Rights that change while a
  publication is under way can exceed the cap (exempt in `NoHiddenExtraOffer`).
  The proof of evidence is checked for expiry before the decision waits for locks.
- Shell: the sweep of an activating build can delete the shell of a build that is
  installing, which then activates without one until a repair.
- Captures and backup: a writer that dies between its temporary file and the
  removal of that name makes every later scan of a backup, and every later put of
  that capture, fail until somebody cleans up. The message "without publishing a
  completion manifest" is also given when the upload of the manifest itself fails,
  which may have been stored. A restore whose commit answer is lost leaves a full
  target without evidence, which the next drill refuses.
- Result page: a travel answer whose planning is empty (prices changed since the
  page was loaded) replaces the price plans, and the page says that it cannot show
  the plan, where the texts of `unavailableCopy` say that the price plan stays. Tabs
  save whole baskets over each other.
- Planner: per-need checkout does not combine two needs for one product at a
  multibuy; an ordinary line above the money cap drops a product that an offer
  would bring below it.
- Deployment: a watchdog of an earlier attempt that acts very late closes a
  redeployment of the same accepted revision (`OwnsHighWater` allows for it); on a
  host that was never deployed the high-water mark may fall; a resolver that gives
  up after 180 attempts leaves its lease; an orphaned lock blocks everything until
  it is removed by hand, as documented.

## 7. Proofs

**WorkerProofs** has two parts. The first proves of the lease, for any owners, sessions,
lifetime and clock bound:
`TypeOK`, `FenceExcludesSuccessor`, `CommitsFollowGenerations`,
`RowBelongsToItsGeneration`, `HeldUntilSuperseded` (a handle that
is held and has no row was overtaken by a newer generation) and the refinement
`ImplementsFencedLog`. None of them is inductive. The invariant `Inv` adds:

- `LocksExclusive`: the advisory lock and the row lock have one holder each;
- `GenerationsOrdered`: generations are past clock readings, the row carries the
  newest or is absent, nothing newer was committed;
- `ClaimIsFresh`: the claim that holds the advisory lock has read a time later
  than every generation issued;
- `TokensIssued`, `ReleasesArePast`: tokens in use were issued, and a release in
  flight is never for the generation its process still holds.

The lock serialises claims, so a reading taken under it is fresh; the row lock
keeps the generation of a fenced transaction current until it commits; so commits
follow generations. Assumption: `LeaseAssumption` (no owner is the absent one; the
lifetime is at least 1). The model lets no two claims read the same microsecond of
the database clock: each is a round trip under the advisory lock.

The second proves of a job of the executor, for any number of batches, failed calls and
access decisions: `JobTypeOK`, `CompletedMeansWhole`, `ReportedCountersAreStored` and
`RevocationStopsWithinABatch`. The invariant adds that in the loop the stored
batches are exactly those before the index (`IndexTellsStored`), that the loop is
left only past the last batch (`LoopBounds`, `FinalizedWhole`), that the run and
the result are untouched before the last step (`EndsOnce`), and that batches are
counted as late only while access is withdrawn, and none is begun then
(`LateNeedsRefusal`).

**WorkerRuntimeProofs** proves, for any processes and number of sources, schedules, slots
and faults: `TypeOK`, `SlotsRecordedInOrder` and `NoVoluntaryHandover`. Only Acquire makes
a handle the current one of its source, and it supersedes all others, so a generation has
one holder (`OneHolder`). Only that holder records slots, so what it looked up while it
holds the generation is still the newest slot of the schedule, and what it runs is newer
than every recorded one (`NothingRecordedSince`); a process that was overtaken between its
lookup and its result cannot record. A handler runs in its job, or is left behind by a
process that is fatal, out of its cycle and not yet gone (`HandlersKnown`), and neither
releases a lease. Assumption: `RuntimeAssumption`, which numbers the schedules `1..NSched`.

**OfferPublicationProofs** proves, for any sources, candidates, page size, cap,
slots and decisions about rights: `RightsHoldAtCommit`, that an offer is approved
or published only while the newest decision about its source grants what its
evidence was captured under. The invariant `RightsInv` says why. A decision and a
publication transaction hold the governance lock of their source from before they
check the rights until they commit, and a decision about the rights needs that
lock, so `ApprovalsEligible` (what is being approved is eligible) and
`ShownEligible` (what a publication has found showable is eligible) outlast every
wait for a product; `PagesAreOwn` says that a transaction's page holds offers of
its own source, whose lock it has, and `Shape` gives the ranges the rest needs.

Of the runs themselves it proves `PublicationTypeOK`, `NoHiddenExtraOffer`,
`OffersStayUntilTheyEnd` and `NoOfferIsPassedOver`. `RunInv` says of a run that has begun:
it examines the first page of what could expire when it began (`SweepsPage`), it holds the
product of all that it withdraws or shows (`ProductsHeld`), it withdraws for good only what
may be (`WithdrawsForGood`), and a product has no more visible offers than the cap once what
the run shows is counted, unless rights have changed since it looked (`WithinCap`). What a
step leaves alone for a run that does not take it is stated once (`RunUndisturbed`). That
no offer is passed over forever is a ranking (`Ranked`): of the offers of a source that a
run would examine before a given one, every run that passes it over examines a full page,
and these come after it from then on; the number of runs that passed it over, times the
size of a page, and the number still ahead are together less than the offers of the source.
It rests on lemmas about cyclic orders and the cardinalities of pages.
Assumption: `PublicationAssumption`, on the shapes of the constants; that no source is
`Nobody`; and that an offer which is published in the initial state has begun.

**RequestsProofs** proves of the coalescer, for any calls, keys, entries and
limits, `CoalescerTypeOK` and `NoUntrackedOperation`, and of the budget, for any
callers, limit and window, `BudgetTypeOK`, `WindowLimit` and
`OnlyOldEventsDeleted`. The invariants:

- `MapIsRunning`: an entry is found under its key exactly while its operation
  runs. `SubscribersCounted`: an entry counts the calls that wait for it (a
  cardinality, so joining and leaving are lemmas of their own, `SubscribersChange`),
  which keeps an entry that somebody waits for from being collected and made anew.
- `OneTransaction`: the advisory lock has one holder. So what a transaction has
  deleted and counted is still so when it commits (`TransactionSees`), its claim is
  the newest (`ClaimFits`), and claims are committed in the order of their times
  (`ClaimsOrdered`). The limit then follows by one comparison: a claim and the one
  `Limit` places before it are a window apart.

Of the rotation it proves `DiscoveryReachesEveryPage`, for the 693 runs that the code
counts and any targets, pages and schedule: seven consecutive runs read page 1 exactly
once, 116 consecutive ones read every page, and both hold over the wrap-around, since 693
is a multiple of 7 and of 99.

Assumptions: `CoalescerAssumption` (limits of at least 1, and some key), `BudgetAssumption`
(limit, window, wait and pool of at least 1), `RotationAssumption`, and of the theorem on
the rotation that the counter is reduced modulo 693.

**PagesProofs** proves, for any tabs, trips and items, `NoTickIsLost` and
`TripsDoNotReturn`, and for any markets, filters and products `DiscoveryTypeOK`,
`ListAnswersTheChoice` and `ImpactIsOfThisBasket`. A trip that was not started has no
ticks (`TicksAreOfTrips`) and what is stored was started (`StoredWasStarted`), so a new
trip begins without any. On the discovery page, what is in flight and was not aborted
was asked for what is chosen now, shown or not (`SearchesAreOfTheChoice`), the cursors
are of the list even while it loads (`CursorsAreOfTheList`), what is chosen is on the
page once (`ChosenAreVisible`), and a rendering keeps the batch or drops all of it
(`RenderKeepsBatch`). Assumptions: `TripAssumption` and `DiscoveryPageAssumption`, which
keep the absent trip, the absent market and the two special needs apart from the others.

Of the offline shell, for any builds, workers, releases and faults, it proves
`ShellTypeOK`, `OfflineProofHolds` and `RetiredCachesAreGone`. One worker is in charge at
most and a build has one live worker at most (`WorkersInv`); the handlers of a worker are
where its state lets them be (`HandlersInv`). So nobody else works on the caches of the
build in charge (`OthersIdle`), and what the active worker has open is what is stored
(`AttachedInv`). A page that was told that it works offline has a ready cache, and a search
that its worker has under way is going to find one (`ProofInv`): a repair would empty it,
and is not begun. A cache of another build is either listed for deletion or owed by a
handler under way, which deletes it, or which makes it for a worker that is being installed
(`RetireInv`, `Owed`). A handler that waits for an asset from the runtime cache or the network
owes nothing: it was in charge when it looked after the open, so what it opened is listed by
its successor. A handler's step is one of four kinds of change (`Moves`); the
invariant needs only its own part (`HandlerStep`). Assumption: `ShellAssumption`.

Of the page of plans it proves, for any baskets, programs, plans, starts and numbers of
operations, `PlanPageTypeOK`, `PlansAnswerTheBasket` and `TravelBelongsToThePlans`.
The invariant relates the page, its controls and what is in flight: at most one
operation is current, and it is what the controls are busy with, for their mode,
start and basket (`OperationsInv`), so whatever supersedes it leaves none; a request
for plans that is current is of the basket of the page, which waits (`AskedInv`); and
the controls hold a start, candidates or a route only while they are switched on and
plans are shown (`ControlsInv`). That a preference always selects one of the plans
rests on the bounds of its two roundings (`QuotientBound`). Assumption:
`PlanPageAssumption`; of the lists of plans it says only that they are lists without
repetition.

**PlannerProofs** proves `NothingBetterIsMissed` and, when more than one plan may be shown,
`ShownPlansSpanTheChoice`, for any prices, offers, packages, places and needs and any number
of chains, products and shown plans. The state machine keeps little (`PlanInv`: the complete
set is the candidates of the basket, and an answer is made of them); the work is in what the
operators return.

- A multibuy's total is linear in the number of groups, so all groups or none is best
  (`AllGroupsOrNone`), and a checkout is the least that can be paid (`CheckoutIsLeast`). Sums
  grow with their terms (`SumMonotone`). So the candidate of the chains that somebody buys at
  costs no more and needs no other chain (`Matched`).
- A tour that leaves a stop out is not longer, since the places are on a line (`ShorterTour`),
  so fewer chains take no longer (`FewerChainsAreNoDetour`): with travel the candidate
  still matches.
- Among the plans that match a given one, the one with the least sum of its three numbers is
  undominated (`Covers`).
- The three orders are strict and tell plans apart by their assignments (`KeysOfPlans`,
  `BeforeOrders`), so the frontier begins with the most convenient plan, has the cheapest at
  one end, and loses none (`FrontierHolds`, `OrderedHolds`).
- The choice of representatives only ever adds positions: both ends, one for each number of
  stores while there is room, then up to the maximum (`Projected`, `EveryCountGetsAPlan`,
  `ChosenHolds`).

`SumRec` and `Iterated` show that the recursive functions behind sums and the choice exist.
Assumption: `PlannerAssumption`, which says what a parsed request is (`IsRequest`): prices are
numbers, packages are not empty, and every chain has a branch nearby, without which a request
is answered without travel (`TravelUnavailable`). That one plan is not enough to span the
choice is why the second theorem asks for more; the code shows seven. `PlannerAssumption`
asks that the needs are numbered `1..n`, in the order of their ids. The triangle inequality
is a property of places on a line, which stand for the gateway's matrix; a real matrix may
violate it, and what the theorem says of travel time then does not follow.

**IngestionStoreProofs** proves, for any sessions, runs, sources, GTINs and every
setting, `TypeOK`, `CountsMatchOutcomes`, `ResolutionIsCurrent`, `NoLockCycle`,
`NothingAcceptedAfterRevocation` and `CorrectionsMoveForward`. The invariant:

- `TxInv`: what the phase of a transaction says about the run, the source and the
  products that it has read. What was read under a lock is still so at the commit.
- `LocksInv`: no two transactions hold a lock in common.
- `JobsInv`: of the runs of a source under the current lease generation, the one whose
  job works is the newest, and nothing newer than it was written. With `WrittenInv`
  (nothing is newer than upstream) this is what keeps corrections moving forward.
- `RunsInv`: the counters of a run that has ended are those of its outcomes.

`NoLockCycle` needs no bound on the sessions: locks are taken in the order run, source,
GTINs upwards. Of a set of transactions that wait, take the one that waits for the
greatest GTIN (`HasLeast`, from the well-foundedness of `<`); whom it waits for would wait
for a greater one. Assumption: `StoreAssumption`, the shapes of a setting.

**HostProofs** has three parts.

Captures and backups, for any writers, backups and faults: `RecordedCapturesSurvive` and
`PublishedBackupIsWhole`, of `CaptureBackupSpec`. A file that was safe stays so unless it
is removed by hand (`FilesStaySafe`), a writer gets to the database only with a safe file
(`WritersHaveSafeFiles`), a dump lists rows that stay (`DumpsAreOfRows`), a bundle is its
dump once the ledger is bound (`BundlesAreDumps`), and the manifest is published when
everything else is (`ManifestIsLast`).

Drills, for any backups, drills and kills: `RestoresAreWhole`. At most one transaction has
written and is not over, and as long as there is one the target shows nothing
(`OneLoads`), which is what the emptiness check under the lock gives.

Deployment, for any number of attempts up to 98, revisions, watchdogs, faults and
rollbacks: `DeployTypeOK`, `RunningIsCommitted`, `OneVerdict` and
`SupersededLeavesAlone`. `VerdictInv` says why a verdict is final: the receipt of an
acceptance outlasts its pending record (or is damaged, which no resolver overrules), a
pending record does not outlive a rejection, and whoever holds the lock to reject found
the attempt pending and not accepted. `RunningInv` says, for a host without faults, what may
run at each step of a deploy, a reject and a rollback; a free lock then means that only
the committed revision runs, pending or not. On a host with faults that is not so
(an orphaned lock leaves containers half changed), and the property does not claim it.
`DeploymentAssumption` takes the attempts to be `1..n`; the numbers 0 and 99 and above are
the model's own.

The invariants of all these proofs were first given to TLC as invariants of small
instances.

Only model-checked are the liveness properties `AcquireEnds`, `EveryCallAnswered`,
`ShutdownCompletes`, `NewestSlotRecorded` and `PendingIsResolved`: TLAPS 1.4.5 has no
fairness or `ENABLED` reasoning. Every other property of a passing run is a theorem.

## 8. Not modelled

Durations and their configured values; the content of evidence, of snapshots and
of HTTP answers; Zod and SQL validation; logging. Whole parts that are left out,
with the reason for each, are the `not_modelled` components of `PROJECT.json`:
clients and their mapping, queries that change no state, API routes,
SQL and the migration runner, and components whose protocol another model already
has (Open Prices handlers, the public API budget).

Inside modelled parts: the store-catalog page walk of the Kassalapp handlers (its
start page is constant, and it reads every page), the gap and catalog target
queries, physical-store batches, the mapping of upstream records; listing and
paging of the review queue, corrections and the checks of a decision's fields;
parsing and extraction of offer catalogs, and rights that end by date; matching
rules, freshness and coverage in the planner; configuration, scheduling and
pruning of backups; the page a basket is composed on, its stored older versions,
and what makes a need ready to be planned; the transfer bundle, image and source checks, and Caddy in
deployment. The publication policy is committed switched off in the repository;
the model has it switched on.

Damage to a shell cache happens in the model only while no handler is checking
that cache, and a build is not deployed again after another one replaced it.
PostgreSQL, IndexedDB, the file system, Node's event loop, Docker and the browser
are modelled from how the code uses them, and marked external in the map.
