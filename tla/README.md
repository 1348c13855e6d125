# Verification of the refresh system

TLA+ specifications of the part of M+ Trust Factor that decides *which
character refresh may run, when, and what it may write*: the job table and its
queue, the admission of refreshes to the providers' budget, the permits
that bound how many refreshes run side by side, the lease around a fight's
evidence, the fan-out and fan-in of evidence slots, the publication of the score,
the bulk operations that start refreshes by the hundred, and the releases of the
ability catalog that refreshes score against.  The specifications are translated from the source; TLC checks them on small instances and TLAPS
proves theorems about them for every value of their constants.

Paths below are relative to the repository; `orchestration/` stands for
`apps/worker/src/orchestration/`, `persistence/` for
`apps/worker/src/persistence/`.

## 1. The system

A TypeScript monorepo: an API, several worker replicas, a web front end, and
packages for contracts, scoring, providers and the database.  State that
outlives a process is in PostgreSQL (through Prisma) and in Redis (BullMQ
queues, admission counters, permits).  Workers share nothing else.

| component | state it keeps | operations | correct when |
|---|---|---|---|
| producers (`orchestration/enqueue.ts`; API, scheduler, bulk and discovery call it) | `IngestionJob` row per dedupe key; BullMQ message | resolve a row, claim it, `queue.add`, record the message id, mark the failure | one execution per claim; a claimed row runs or is closed |
| refresh execution (`orchestration/refresh-pipeline.ts`) | status of the row; permit and admission of the process | look up, mark active, checkpoints, lane permit, admission, stages, publication, settle | a cancelled job publishes nothing; everything held is released on every path |
| control (`orchestration/refresh-job-control.ts`) | the same row and message | cancel, kill, kill all, prioritize, supersede | an accepted cancellation ends the job; a running one is not destroyed by accident |
| collapse of duplicates (`refresh-job-control.ts:548`, `apps/api/src/services/character-service.ts:674`) | rows of one character | mark all but the earliest superseded | the earliest survives |
| refresh admission (`orchestration/refresh-admission/`) | Redis: reserved points per rate window, global slots, leases, counters; `RefreshAdmission` row | predict, reserve, renew, release, sweep | counters agree with their hashes; never more slots than the limit, never more points than the window; everything comes back |
| lane permits (`orchestration/refresh-admission/lane-permits.ts`) | Redis: owners hash, lease sorted set, counter, per lane | acquire, renew, release | never more refreshes than the lane's limit |
| score publication (`persistence/score-repository.ts`, `orchestration/publication-flow.ts`, `packages/scoring/src/publication/coherence.ts`) | score snapshots, the published pointer | compare with what is published, publish, reject, look up | readers are shown a published snapshot; a refresh takes nothing from them; a race leaves no lasting harm |
| analysis batches, evidence slots (`persistence/evidence-v2-batch-repository.ts`, `orchestration/scoring/`: `slot-processor.ts`, `finalize.ts`, `shadow-canary/`) | one JSON per batch with its slots; the canary's row; messages | plan, claim a slot, reserve and acquire a fight, complete, claim the fan-in, freeze the manifest, bind, finalize | no fight counts twice; the manifest holds what was extracted; finalized once, after every slot |
| WCL concurrency and source leases (`orchestration/scoring/wcl-concurrency/permits.ts`, `.../run-orchestration/source-fight-lease.ts`, `orchestration/wcl-budget-manager.ts`) | Redis permits and singleflight leases | acquire, renew, complete, release, poll | at most one acquisition of a fight; waiters end |
| bulk processing (`orchestration/bulk-character-processing.ts`, `bulk-checkpoint.ts`, `persistence/bulk-operation-repository.ts`, `apps/api/src/services/bulk-character-processing-service.ts`) | bulk operation, items, checkpoint | create, pause, resume, cancel; ticks that select, dispatch a batch, save, requeue | the budget of calls holds across restarts; requests are obeyed; a closed operation has settled every item |
| scheduler (`orchestration/refresh-scheduler.ts`) | checkpoints of schedule entries | plan which entries are due (dry run: publishes nothing in production) | (unit tests) |
| ability catalog releases (`apps/api/src/services/ability-catalog-*-service.ts`) | releases with a status, replays, activation rows, drafts of rules | edit, discard, compile, replay, publish, activate, roll back, revalidate | one ACTIVE release always; a publication takes nothing back and was replayed against what it replaces |
| pinned catalogs, season authority (`packages/abilities/src/registry.ts`, `orchestration/season-authority.ts`) | the catalog a job was claimed under; the season setting | pin, look up | a refresh uses the catalog it pinned |
| provider clients (`packages/providers`) | caches, rate snapshots | HTTP calls | (external) |
| scoring, mechanics (`packages/scoring`, `packages/mechanics`) | none | formulas | (unit tests) |
| web, identity, addon, infrastructure | sessions, UI state | requests | outside the refresh system |

How they interact.  A producer *claims* the row of its dedupe key (a
compare-and-set to QUEUED) before it publishes a message.  BullMQ delivers the
message to one worker, and again when the worker stops renewing its lock.  The
worker writes the row ACTIVE, asks for a lane permit and for admission (two
independent sets of Lua scripts), keeps both alive with timers, runs the
stages, publishes in a transaction guarded by the row, writes the row's end
and releases.  Operators and the collapse write the same row, remove the same
message and release the same admission from another process, at any moment.
No component waits for another: they meet only in rows, messages and leases.
A bulk operation is driven by its own messages, one *tick* each, and calls the
producers for every item of a batch.  A shadow canary publishes a message per evidence
slot, and the slot that ends last publishes the message of the fan-in.  Administrators
change the catalog from the API, several at once; they meet in its rows and their locks.

What is hard: every decision is taken on something read earlier; permits and
admissions are leases, not locks; a message can be delivered twice and a job
claimed again while its last execution still runs; a call can fail after it
took effect; an error path must release what the success path releases; rows are
rewritten whole from what was read of them, and checkpoints are older than what they
stand for when a process dies.  The
hazards are listed one by one, with the line where each bites and the
properties that cover it, in `PROJECT.json`; what is known to go wrong today is in
section 6.

## 2. The modules

### LanePermits, PermitPool

`LanePermits` models `lane-permits.ts` whole: `ACQUIRE_LUA`, `RENEW_LUA`,
`RELEASE_LUA`, the heartbeat and what `refresh-pipeline.ts` does around them.

* State: `owners`, `lease`, `count` are the three Redis keys of one lane (the
  lanes share none); `setting` is the limit in the runtime settings; per
  execution `pc`, `seen` (the limit it read), `tok` (its ownership token) and
  `beat` (when its timer fires next).
* Actions: `SetLimit` (administrator), `ReadLimit`, then `Acquire`, one
  disjunct per outcome of the script, each with the reaping of expired leases
  that the script does first, and each with a reply that arrives or is lost;
  `Renew`, `RenewError`, `Release`, `Abandon` (the process dies, or the release
  fails and its error is swallowed), `Retire` (a denied job is deferred), `Tick`.
* Time is a countdown in ticks.  Each worker passes its own clock to Redis, so
  reaping may treat a lease as expired up to `Skew` ticks early.  `Timely`
  says whether a heartbeat may fire late.
* An execution is not a job: `JobOf` lets two executions work on one job, as
  after a redelivery.

`PermitPool` is the abstract promise: at most `Cap` permits out; a permit with
a live lease leaves the pool only by being returned.  `PoolRefined` is the
refinement (`granted` is the set of owners, `live` the leases no worker can yet
see expired).  `RefreshAdmission` is shown to implement the same pool with its slots.

### RefreshAdmission

Admission in *enforce* mode: `lua-scripts.ts`, `gate.ts`, `repository.ts`,
`lease-heartbeat.ts`, `reconcile.ts`, `ownership.ts`, with the part of
`refresh-job-control.ts` and `refresh-admission-policy.ts` that decides what
they are called with.

* State: the Redis keys (`res`, `total`, `wclLease` per rate window; `slots`,
  `slotLease`, `slotCount`; `jobWindow`), the rate snapshot `snap`, the durable
  `row`, the job's `status` and `cancelled`, the worker's `pc` and `win`, the
  heartbeat's renewal in flight, the operator's forced cancellations, the sweep.
  `epoch` and `left` are the provider's own rate window (external).
* Actions: `RefreshSnapshot`, `SnapshotAges`, `NewEpoch`; per job `Pickup`,
  `Predict`, `Refuse`, `Admit`, `Record`, `RecordFails`, `Spend`, the renewal in
  its three calls, `Finish`, `Settle`, `Crash`; `Cancel`, `Kill`, `KillRelease`;
  the sweep; `Expire` for leases that run out.
* Every Lua script is one step, being atomic in Redis.  `tryRelease` without a window,
  as operators and sweeps call it, looks for the window in the row, then in Redis,
  releases, and settles the row: four calls, four steps (`CallOfRelease`,
  `AfterCall`), between which anything else may happen.  So is the sweep a call at a time: it
  reads the job (`SweepReadJob`), the row (`SweepReadRow`), renews and writes the row
  (`SweepRenew`, `SweepRenewReads`, `SweepRenewWrites`) or releases.  Not every `await` is a step:
  the prediction's reads of the snapshot and of Redis are one, since the reserve script
  looks again; the find and the update of `upsertReserved` and of `settle` are one; the worker, which knows its
  window, releases in two (`Finish`, `Settle`).  With `Lossy` a call may fail before or after its script ran.
* A lease is live, expired or absent; both leases of a job carry one expiry.
  A window id is derived from the local clock and `pointsResetIn`; `EpochOf`
  says which rate window it stands for, so that two ids for one rate window can
  be modelled or excluded.
* Left out: shadow and off modes (they reserve nothing), the emergency
  override, the drain policy near a reset, and the scheduling state, which no
  production code sets to anything but RUNNING.  A job has one worker at a
  time here; LanePermits and JobLifecycle study the other case.
* `PoolRefined`: the global slots are a `PermitPool` with `Cap` = `Limit`, of which
  `live` are the slots whose lease has not run out.  The scripts of the two sides differ (these count
  points too, never reap, and are called by workers, operators and sweeps); the promise is the same.

### JobLifecycle

One dedupe key: its `IngestionJob` row, the BullMQ messages published for it,
producers, workers and controllers (`enqueue.ts`, `refresh-pipeline.ts`,
`refresh-job-control.ts`, `job-repository.ts`, the guard in
`score-repository.ts`).

* A step is one call to the database or the queue.  A repository method that
  finds a row and then updates it unconditionally is split where the caller has
  just read the row anyway: the decision goes with the read, the write comes
  later.  So is `markCancelled` of a forced cancellation (`ForceCancel`,
  `WriteCancelled`).  Methods that compare and set in one statement are one step.
* The publication transaction is two steps.  Its guard (`PassPublicationGuard`) is a plain read
  of the row at READ COMMITTED (`score-repository.ts:546`, no lock); the statements that
  follow until the commit do not look at the row again, so that all of them are `Publish`.  Their order
  among each other is the subject of `ScorePublication`.
* Producers: `SeasonChange`, `Resolve`, `Claim`, `Add`, `AddFails` and
  `MarkEnqueueFailed`, `SetQueueJobId`, `ProducerDies`.  Workers: `Deliver`, `LookUp`, `Revive`,
  `MarkActive`, the guards, `Admit`, every way to stop (`StopAtCheckpoint`,
  `LoseToWinner`, `Refuse`, `LosePermit`, `Throw`, `CallFails`), `PassPublicationGuard`, `Publish`, `Reject`,
  `Complete`, `Write`, `Leave`, `Crash`.  Controllers: `Request`, `Supersede`,
  `Remove`, `BecameActive`, `NotRemoved`, `Close`, `ForceCancel`, `WriteCancelled`, `MarkLoser`.
  `Redeliver` is BullMQ's stalled check (once, then the message is gone).
* `Faults` names what may go wrong in an instance: a process crashes, a lock is
  lost although its worker lives (`stall`), a row is found stale (`age`), the
  season contract changes, the queue fails, a reply is lost, or (`callFails`) a call fails
  where the pipeline catches nothing: in the look-up and `markActive`, in
  the two guards before its `try` (`refresh-pipeline.ts:670`), or in marking the row.  The row then stays as
  it is, ACTIVE if it was marked so.
* `doomed` is a history variable: the executions that were running when their
  job was cancelled.  SUPERSEDED stands for FAILED with the code
  `REFRESH_SUPERSEDED_DEDUPED`.  The stages between admission and publication
  are one state, `working`; their checkpoints are `StopAtCheckpoint`.  The forced
  end of an ACTIVE job that looks stale is a `kill` of the controller's choice.

### SourceFightLease, FetchOnce

The distributed singleflight around one source fight's evidence:
`source-fight-lease.ts`, the three singleflight calls of
`wcl-concurrency/permits.ts`, and the work under the lease
(`run-orchestration/orchestrator.ts`, `production-ports.ts`).

* State: `key` is the Redis key (absent, owned by a caller, or a ready marker),
  `package` says whether a compatible package is stored, `pc` where each caller
  of `withSourceFightLock` is.
* A step is one call.  Acquisition, completion and release are not scripts: GET,
  SET and DEL are steps of their own (`Ask`, `Claim`, `LookAgain`; `Complete`,
  `Mark`; `Release`, `Drop`), and the heartbeat (`Beat`, SET XX) may come between
  any two.  A heartbeat may fire until the last call has returned.
* `Live` are the callers that fetch a missing package; the others are forbidden
  to (`liveProviderPermission`) or are content with digests of an older package,
  and complete the lease without storing one.
* `unbacked` is a history variable: an owner left a ready marker without a package.
* `Throw` is the work or the completion failing, also with a lost reply; `Die` a
  crash, or a failing call outside the `try` that releases; `Lapse` is the expiry
  of the key, which with `"stall"` may hit a lease that is being held.
* To fetch is to call `acquireAndPersistCapabilityPackage`.  Ranking facts, which
  the work may also ask the provider for, are not part of the lease's promise.

`FetchOnce` is the abstract promise: one fetch at a time, none of what is stored.

### ScorePublication

How a score reaches the readers of one character, season and model:
`attemptPublication` (`publication-flow.ts`), `validateCoherence`, the
transactions of `score-repository.ts`, and the recalculation, which publishes
without asking (`recalculate-score.ts:238`).

* State: `rows` are the `ScoreSnapshot` rows with their evidence and status,
  `pointers` the `CharacterPublishedScore` rows, each with the time of its last
  write; per publisher `pc`, its candidate, what it found published, the row of its
  fingerprint, the rows it has still to supersede and has superseded, and the
  pointer it writes.
* A step is one statement, the last one together with the commit.  What a
  transaction has written appears at the commit; until then its rows are locked
  (`Locks`, `Free`).  PostgreSQL's READ COMMITTED is modelled where it shows:
  `updateMany` chooses its rows when it starts (`Scan`) and looks at each again when
  it gets its lock (`Supersede`).
* The unique indexes of both tables contain `scope_key`, which is NULL for a
  character's score (`schema.prisma`: `ScoreSnapshot`, `CharacterPublishedScore`),
  so that neither stops two transactions that insert at once.
* `evidence` is the set of metrics a snapshot rests on; what matters of a score is
  which skill dimensions are usable.  A candidate may rest on any evidence.
* `FingerprintOf` says which publishers share a fingerprint; those of one contract
  and catalog do (`refresh-bridge.ts:171`).
* `alone` and `overwritten` are history variables: no transaction overlapped with
  one's own, and a rejected candidate has overwritten what readers are shown.
* Left out: the merging of observations, which happens before and touches neither
  rows nor pointers; a reader's two queries are one step; the look-up for databases
  without pointers.  The publication guard is any refusal here (`Bar`) and is
  modelled in `JobLifecycle`.

### BulkProcessing

One bulk operation: the tick (`bulk-character-processing.ts`), the statements of
`bulk-operation-repository.ts`, and the requests of the API
(`bulk-character-processing-service.ts`).

* State: the operation's row (`status`, `pause` and `cancel` for the two request
  columns, `dryRun`, and of its checkpoint `selected` and `consumed`), the items' rows,
  the characters that have been deleted, the child jobs in flight, the messages of the
  operation; of the tick `pc`, what its batch still holds (`todo`), which of these had no
  character when they were listed (`orphans`), the checkpoint in memory (`calls`), and
  whether a child was new (`fresh`, `progress`); the next statement of each request.
* A step is one statement or one enqueue.  `StartTick` reads the row and decides whether
  the tick goes on; `MarkSelecting` and `SaveSelection` make the items, once; `Reread` reads
  the row again, once per batch, and obeys a cancellation, a pause or the budget before it
  takes the first pending items; per item `SkipDeleted`, `LeavePending`, or
  `Dispatch`/`DispatchLost` followed by `Record`/`RecordFails`; `SaveBatch`, then `Rest` or
  `Requeue`.  `SavePaused`, `SkipPending`, `SaveClosing` and `MarkTerminal` are what a
  tick does that stops.
* The API's pause, resume and cancel check the row (`Ask`) and then write it
  unconditionally (`WritePause`, `WriteResume`, `WriteCancel`); resume always, cancel
  sometimes, publishes a message (`Publish`), as does the creation of the operation.
* Faults are counted: `Break` is a crash (the message comes back) or a statement that
  throws (it does not); dispatches, the write of an item and enqueues may fail.
* Ticks do not overlap: the worker has concurrency 1 (`processors.ts:283`).  With several
  worker replicas, two messages of one operation could run side by side; the code makes
  no provision for that and neither does the model.
* `spent` and `late` are history: the calls of the refreshes published, and the children
  published since a cancellation was requested.
* Left out: the filters of the selection, whose effect is that items are there or
  incompatible, and the counters that only feed the display.

### EvidenceSlots, EvidenceAssignment

One shadow canary: its job (`shadow-canary/runner.ts`, `scoring/orchestrator.ts`), the job
of each slot (`slot-processor.ts`, `acquisition.ts`), and the fan-in (`finalize.ts`,
`evidence-v2-selector.ts`), over the JSON of a batch (`evidence-v2-batch-repository.ts`).

* State: the canary's row, its message and job (`canary`, `launch`, `run`); per batch the
  `chain` of candidates its slots share, the `slot` records, `fin` (finalizationStatus) and
  the attached `manifest`; the messages of slots with their deferred deliveries (`queued`,
  `tries`), the slot job (`job`, with the sibling identities it read when it claimed);
  the messages of the fan-in, the live job rows for it (`sent`), and its job (`fanin`).
* A step is one repository call, one enqueue or the acquisition of one candidate.
  `StartRun`, `Plan`, `Defer`, `PublishSlot`, `EndRun`, `RunFails` are the canary's job.
  `ClaimSlot`, `Refuse`, `Permit`, then per candidate `Skip` or `Reserve` and `Acquire` or
  `FallBack`, then a completion, which also recounts the slots, and `AskFanIn` if it was the
  last, are the job of a slot; `IgnoreSlot` is a redelivery.  A slot that fails asks for the fan-in
  too, unless it fails because the character has lost its name or realm (`slot-processor.ts:231`): then
  nobody asks, and if it was the last the batch waits for ever.  `ClaimFanIn`, `Freeze`, `Bind`,
  `Finish`, `Report` are the fan-in, `FanInFails` and `ReportFails` its errors.
* `Selected` is the manifest's choice: the i-th slot gets the i-th candidate of the chain
  that was acquired with facts, by first occurrence, as a chain may repeat one (`"facts"`; `"bare"` is an acquisition that has payloads or
  datasets, but not what the selector asks for).
* A worker process runs one job of each of the three queues at a time
  (`processors.ts:336`–`393`: concurrency 1).  A message whose lock lapses is delivered
  again (`Stall`), and a crash (`Crash`) leaves rows as they are and may bring messages
  back.  Slot messages have 12 attempts (`queues.ts:437`), those of the canary and of the
  fan-in have one.
* `MaxFaults` bounds crashes, stalls, failing calls and lost enqueues together.
* `EvidenceAssignment` is what a batch promises, without jobs, messages and faults: a slot ends once, with a
  fight no other slot has or with none; when all have ended the usable fights become the manifest,
  once; only then the batch is final.  `AssignmentRefined` maps it to the rows: a slot has ended when its
  status is terminal, holds its key when it has facts, and a manifest is the set of what it selects.
* Left out: what facts contain, the planning of slots (several dungeons never share a
  candidate, so one dungeon is enough), and the script of the per-character permit.
  Nothing in production cancels, supersedes or fails a batch.  A plan
  without slots is fanned in under another generation than it was created with
  (`runner.ts:180` and `:219` each ask for the time), so that it is never finalized; such plans
  are outside the model.

### CatalogRelease

The releases of the ability catalog: drafts (`ability-catalog-manual-edit-service.ts`),
compilation and revalidation (`ability-catalog-release-service.ts`), replays
(`ability-catalog-replay-service.ts`), publication (`ability-catalog-publish-service.ts`),
activation and rollback (`ability-catalog-release-activation-service.ts`).

* State: per release `status`, the base it was compiled on (`from`), the keys compiled into
  it (`manifest`), the content of every rule (`rules`) and its newest replay (`gate`); the
  newest activation row (`log`); the draft rows, each with the edit it holds; per request of an administrator `at`, what it
  has read or was told (`req`), and the rows it has locked.  `passed` collects the releases
  that passed a replay against their base.
* Actions: `Edit`, `Discard`; `Candidate` (compile by hand, on any base); `Replay`;
  `Publish`, `Compile`, `PublishReplay`, `PublishReplayFails`, `Check`, then `Lock` and
  `Activate`, which are one transaction; `Request` (activate or roll back by hand, with no
  expectation of what is ACTIVE); `Revalidate` and `WriteVerdict`; `GiveUp`, which is
  any refusal, failing call or death of the process.
* A step is one read or one transaction, and `activate`'s transaction is two, since others
  may work between its locks and its writes.  At READ COMMITTED the statement that locks
  may or may not have seen a row that has just become ACTIVE; `Lock` leaves open
  whether that row is locked.  The look at the drafts and the insertion are one step (the
  insertion does not read drafts); so are the look at the status and at the replay, since
  the status is looked at again under the lock.
* A draft is a row (`Draft`), of the rule `KeyOf` names.  A rule has at most one manual draft: the
  unique index on the key is only `WHERE source = 'MANUAL'` (migration `20260828100000`).  Drafts of
  review items may be of the same rule ("binding drafts may reuse runtime keys",
  `ability-catalog-review-service.ts:1246`).  A draft stays READY when it has been published, and
  pending is whatever READY draft would change the ACTIVE release (`Pending`): with two of one rule, the
  older one is pending again as soon as the newer one is live, and while both differ
  from what is live no publication can be compiled (`Consistent`, `CONTRADICTORY_CHANGESET`).
  Editing a manual draft and deciding a review item anew both rewrite the row (`Edit`).
* A rule's content is the number of the edit that wrote it; `saved`, a history variable, has the
  edits of each draft.  The digest by which a compilation finds the row of an earlier one
  covers notes too, so that equal contents may or may not share a row.
* `Refused` are the edits the validator refuses; with `Drift` the verdict may change from
  one process to another, as it does while two versions of the API run.  With `Claims`
  the client may name another release than the ACTIVE one as that which it replaces: the web client always
  names the one its page was loaded with (`AbilityCatalogPublishBar.vue:81`).  A publication
  whose client names the release that the server then reads, or none, is `by` `"publish"`; one whose client
  names another is `"stale"`; an activation by hand, which expects nothing, is `"hand"`.
* Left out: how review items are decided, drafts that add a rule (once it is live they are
  never pending again), exclusions, removals, drafts of the topology, and stored artifacts.

### MC modules and proofs

`MCLanePermits`, `MCRefreshAdmission`, `MCJobLifecycle`, `MCScorePublication`,
`MCEvidenceSlots` and `MCCatalogRelease` add model values, the functions a configuration
needs, and symmetry sets; `SourceFightLease` and `BulkProcessing` need none.  Symmetry is
used only in runs without liveness.  `LanePermitsProofs`, `RefreshAdmissionProofs`,
`JobLifecycleProofs`, `SourceFightLeaseProofs`, `ScorePublicationProofs`,
`BulkProcessingProofs`, `EvidenceSlotsProofs` and `CatalogReleaseProofs` extend the
modules they are about and hold the theorems of section 5.
Definitions marked `mutant` are plausible wrong versions of the definition that
follows them; nothing uses them, they exist to show that each property notices.

## 3. The runs

| run | what it checks | bounds, and why they are enough |
|---|---|---|
| `lane_permits` | `TypeOK`, `CounterAgreesWithOwners`, `DenialIsJustified` | two jobs, one of them executed twice at once; limits 1 and 2 that may change; lease 2 ticks, skew 1, late heartbeats.  Any disagreement needs an owner that is reaped and one that acts on it: two jobs and three executions give every pairing.  Four tokens: three held and a fresh one |
| `lane_permits_timely` | `HolderKeepsPermit`, `RunningWithinCap`, `PoolRefined` | three jobs for at most two permits, so that a third is always refused; settings 1 and 3 exercise the clamp (`HardMax` 2); lease 3, renewal 1, skew 1: the code's 45 s and 15 s have the same ratio |
| `refresh_admission` | `PoolRefined`, `GrantFitsSnapshot`, `ReservationHasSlot` | three jobs, two slots, one rate window with points for three refreshes above the reserve, which spending makes scarce: the third job is refused now for a slot, now for points; crashes, redelivery and expiry |
| `refresh_admission_rollover` | `TypeOK`, `CountersAgree` | one job across two windows, with points for one refresh each, operators, sweeps and failing calls: releases in the wrong window, twice and too late, each a call at a time |
| `job_cancel` | `TypeOK`, `GuardStopsCancelled` | two producers, two messages, two workers, a controller that kills or supersedes; crashes, calls that fail anywhere, a failing queue, lost replies, stale rows and season changes |
| `job_live` | `OneExecution`, `QueuedIsRunnable`, `Served`, `CancelTakesEffect` | two producers, two messages and workers, a controller, a failing queue; no symmetry |
| `fight_lease` | `TypeOK`, `DoneMeansStored`, `FetchedOnce`, `EveryCallerEnds` | three callers, so that there are an owner, one that waits, and one that comes late or whose late calls hit the others; one of them must not fetch; crashes, failing work, lost replies, timeouts |
| `publication` | `TypeOK`, `ShownIsPublic`, `RefreshKeepsDimensions`, `PublicationHeals` | two refreshes and a recalculation, two contracts, a metric in each of two dimensions: two publications that race, and a third that overlaps with either, both or none; one may be rejected |
| `bulk_processing` | `TypeOK`, `SpendBounded`, `ClosedMeansSettled`, `LateBounded`, `DispatchesWhileRunning`, `RequestsApplied` | three items in batches of two, so that there is a first, a last and a full batch; two full refreshes and a budget for one; one character that may be deleted; two requests and a fault, which reach every order of a pause, a resumption or a cancellation around a crash |
| `evidence_slots` | `TypeOK`, `AssignmentRefined`, `ManifestAgrees`, `OneWriter`, `BatchFinalizes` | two slots with a chain of three candidates, one more than slots, or none; every outcome of an acquisition, two attempts, two faults of any kind.  One batch: a second run of the canary plans a batch of its own, and only the canary's row joins them (two batches with a chain of two, one fault and one attempt, and three slots with one fault, were also checked and hold) |
| `catalog_release` | `TypeOK`, `OneActive`, `PublishKeepsLaterEdits`, `PublishIsReplayed` | two requests, one rule with two drafts, three releases (the bootstrap and two compiled), two edits: a publication that races another, a rollback, a revalidation or a compilation by hand.  To put an older edit over a later one takes two publications and two edits, and rules do not influence each other.  No edit is refused: with one validator a refused release is inert.  No client is stale (`Claims`): what a stale publication does to others, hand compilations, replays and activations do too; section 5 proves both properties with stale clients and refusing validators |
| `publication_rejected` | one violated property | section 6 |

Deadlock checking is off where the system may stop: all requests served, every
bounded supply (messages, rate windows, producers) used up.  LanePermits never
stops, and is checked for it.

What the properties say, beyond their comments in the modules:

* `OneExecution` holds until an operator intervenes and without crashes, stalls
  or stale rows: a redelivery after completion, a leftover message after a kill
  or a row closed as stale each give a second execution, by design.
* `SpendBounded` says how far the budget may be overdrawn, not that it holds: a fault hides
  at most one batch of refreshes from the checkpoint.
* `RequestsApplied` is about requests for which a message exists and while nothing fails;
  its exceptions, and the cancellation that is left without effect, are those of section 6.
* `BatchFinalizes` excludes what section 6 shows to strand a batch: a fault, a slot that
  used up its attempts, and a fight acquired without facts.
* `QueuedIsRunnable` is checked without crashes of producers: a producer that
  dies between claim and publication leaves a QUEUED row that only the next
  request of the same key repairs, which is all the code promises.
* `GuardStopsCancelled` is about the guard.  It says nothing of a cancellation that comes after the
  guard and before the commit: nothing stops that publication (section 6, `JobLifecycleRace`), so that the
  stronger `CancelStopsPublication` is false of the code.  It ends with the second message
  published for the row: by then a new claim may have reopened it (`JobLifecycleReclaimed`).
  Forced refreshes have a dedupe key of their own.
* `OneExecution` is checked with a queue that fails but loses no reply, and `FetchedOnce` without stalls.
* `FetchedOnce` counts fetches until an owner that must not fetch leaves a ready
  marker without a package (`unbacked`), and is about owners that do not stall
  for longer than their lease.  Both limits are needed: `SourceFightLeaseDone`
  (section 6) shows two fetches after such a marker; the second is what a lease is.
* `EveryCallerEnds` would hold without timeouts too: `TimeOut` is not fair.
* `CountersAgree` needs no order among the calls of a release: each script is idempotent.
* `ReservationHasSlot` is about the rate window that is being charged, and about workers.  An
  operator breaks it, within one window and over several (section 6, `RefreshAdmissionCancel`),
  and so does a sweep over several windows, which nothing calls today.  It is only model-checked.
* `OneActive` is about one version of the validator, and `PublishIsReplayed` about
  publications whose client names what the server reads (or leaves it to the server); section 6 shows both limits
  are needed.  The web client names the release of its page load, so that the second limit excludes a page
  that is out of date when its user publishes, and no other.
* `PublishKeepsLaterEdits` orders the edits of one draft.  Between two drafts of a rule the
  code has no order, and an older one may replace a newer one that is live
  (section 6, `CatalogReleaseStaleDraft`).
  `OneActive` has one ACTIVE release *be* that of the newest activation row, so
  that neither a late revalidation nor a second activation undoes one that was recorded.
* `ShownIsPublic` excludes two cases which section 6 shows to happen: a rejected
  candidate, and two pointer rows.  `RefreshKeepsDimensions` is about readers who are
  still shown what the candidate was compared with: it checks the coherence decision, and leaves the
  stale comparison to `ScorePublicationStale`.  `PublicationHeals` takes the
  clocks of all processes for one; pointers are compared by times that workers write.
* `DoneMeansStored` is about what a caller returns on; it would not notice a late heartbeat, which
  `FetchedOnce` does.
* `OneWriter` rests on one job at a time per queue and one worker process
  (`EvidenceSlots` above); with several replicas it is not claimed.

## 4. Fairness

Safety runs use `Spec`, without fairness.

`JobLifecycle!FairSpec` (run `job_live`): a producer, a worker or a controller
that has started keeps running (weak fairness of its next step), and a worker
with nothing to do takes a waiting message.  The code justifies it: every step is
an awaited call that returns or throws, and BullMQ workers poll for ever.
Nothing is assumed of *which* way a step goes: a run may always fail, and the
queue may always refuse.  Crashes are not part of that run, since a crashed
process has no next step; nor are `callFails`, with which an execution ends and leaves its row
ACTIVE, where only the next request that finds the row stale closes it.  `CancelTakesEffect` does not rely on a checkpoint being
reached: every way out of the pipeline's `try` looks at the request.

`RefreshAdmission!FairSpec` (only in `RefreshAdmissionUnswept.cfg`): leases run
out, calls return, a sweep that is started handles every owner it lists.

`SourceFightLease!FairSpec` (run `fight_lease`): the next step of every
caller is weakly fair, and so is the expiry of the key.  Awaited calls return or
throw, the waiting loop sleeps for a quarter of a second, and Redis expires keys.
An owner may still die or fail in every state: nothing is assumed of `Die` and
`Throw`, and a caller that has failed has ended.

`BulkProcessing!FairSpec` (run `bulk_processing`): the tick's next step and the next
statement of every request are weakly fair: awaited calls return or throw, and the worker polls
for messages.  Requests, deletions, ends of children and failures need not happen.

`EvidenceSlots!FairSpec` (run `evidence_slots`): weak fairness for each of the three
workers: the canary's job runs on, a slot job runs on and takes messages, and so does the
fan-in.  Refusals, failures and crashes are not fair.  A refusal is possible whenever the
permit is, so `BatchFinalizes` has to say that no slot used up its attempts.

## 5. What is proved

Checked by TLAPS, for all finite sets of jobs, executions, producers, messages,
workers and controllers, every set of tokens and settings, every limit, lease
time, interval, skew, estimate and reserve, any number of items, slots, candidates, requests,
releases, edits and faults:

| theorem | states | assumptions |
|---|---|---|
| **`LanePermitsProofs`** | | |
| `TypeCorrect` | `Spec => []TypeOK` | constants' types |
| `CounterNeverDrifts` | `Spec => []CounterAgreesWithOwners` | the same |
| `PermitsWithinCap` | `Spec => []CountWithinCap` | the same |
| `PermitsAreOnesOwn` | `Spec => OnlyOwnTokenReleased` | the same |
| `DenialsAreJustified` | `Spec => DenialIsJustified` | the same |
| `HoldersKeepPermits` | `Spec => []HolderKeepsPermit` | `Punctual`, `OneExecPerJob` |
| `RunningBounded` | `Spec => []RunningWithinCap` | `Punctual`, `OneExecPerJob` |
| `ImplementsPool` | `Spec => PoolRefined` | `TTL > Skew` |
| **`RefreshAdmissionProofs`** | | |
| `AdmissionTypeCorrect` | `Spec => []TypeOK` | constants' types |
| `AdmissionCountersAgree` | `Spec => []CountersAgree` | the same |
| `AdmissionSlotsAreLeased` | `Spec => []SlotsAreLeased` | the same |
| `AdmissionWithinLimit` | `Spec => []SlotsWithinLimit` | the same |
| `AdmissionGrantsFit` | `Spec => GrantFitsWindow` | the same |
| `AdmissionImplementsPool` | `Spec => PoolRefined` | the same |
| **`JobLifecycleProofs`** | | |
| `LifecycleTypeCorrect` | `Spec => []TypeOK` | constants' types |
| `ConcurrentRequestsExecuteOnce` | `Spec => []OneExecution` | `Quiet` |
| `QueuedRowsAreServed` | `Spec => []QueuedIsRunnable` | `Faults \cap {"crash", "callFails"} = {}` |
| `CancelledStopAtGuard` | `Spec => GuardStopsCancelled` | `"stall" \notin Faults` |
| **`SourceFightLeaseProofs`** | | |
| `LeaseTypeCorrect` | `Spec => []TypeOK` | constants' types |
| `DoneCallersAreServed` | `Spec => []DoneMeansStored` | the same |
| `ImplementsFetchOnce` | `Spec => FetchedOnce` | `Prompt` |
| **`ScorePublicationProofs`** | | |
| `PublicationTypeCorrect` | `Spec => []TypeOK` | constants' types |
| `ReadersSeePublished` | `Spec => []ShownIsPublic` | the same |
| `RefreshesKeepDimensions` | `Spec => RefreshKeepsDimensions` | the same |
| `PublicationsHeal` | `Spec => PublicationHeals` | the same |
| **`BulkProcessingProofs`** | | |
| `TypeCorrect` | `Spec => []TypeOK` | constants' types |
| `Closed` | `Spec => []ClosedMeansSettled` | the same |
| `Spending` | `Spec => []SpendBounded` | the same |
| `Cancelling` | `Spec => []LateBounded` | the same |
| `Dispatching` | `Spec => DispatchesWhileRunning` | the same |
| **`EvidenceSlotsProofs`** | | |
| `TypeCorrect` | `Spec => []TypeOK` | constants' types |
| `Distinct` | `Spec => []DistinctEvidence` | the same |
| `Alone` | `Spec => []OneWriter` | the same |
| `Completed` | `Spec => []CompletedIsFinal` | the same |
| `Settled` | `Spec => SettledStays` | the same |
| `ManifestsAgree` | `Spec => []ManifestAgrees` | the same |
| `SlotsImplementAssignment` | `Spec => AssignmentRefined` | the same |
| **`CatalogReleaseProofs`** | | |
| `TypeCorrect` | `Spec => []TypeOK` | constants' types |
| `NoSecondActive` | `Spec => []ActiveIsLast` | the same |
| `AlwaysOneActive` | `Spec => []OneActive` | `~Drift` |
| `PublicationsKeepLaterEdits` | `Spec => []PublishKeepsLaterEdits` | constants' types |
| `PublicationsAreReplayed` | `Spec => []PublishIsReplayed` | the same |

The assumptions.  `Punctual`: no heartbeat fires late, and renewal interval plus
skew is less than the lease.  `OneExecPerJob`: `JobOf` is injective.  Neither is
a fact of the code; both are what it relies on, and `LanePermitsShared.cfg` shows
that the second is needed.
`"stall" \notin Faults`: no message is delivered a second time while its worker lives; with a stall two workers
execute one message, and the row's next execution need not be another message's.  `Quiet`: the queue's answers
may fail, nothing else does (section 3 says why the property is about that case).
`Prompt`: no owner stalls for longer than its lease.  `~Drift`: every process validates
alike; `CatalogReleaseDrift.cfg` shows that `AlwaysOneActive` needs it.

Lane permits.  `CounterAgreesWithOwners` is inductive with `TypeOK`: reaping
removes from hash and sorted set the same jobs and subtracts as many as there
were owners among them (`ReapAccounting`), so that the guarded decrement never
meets its guard; a release decrements only under the owner's token.  It also
gives `DenialIsJustified`: the count a denial compares with is the number of
owners left after reaping, and their leases have not run out.
`CountWithinCap` alone is not inductive: the limit an execution compares with was
read earlier.  `WithinCap` adds that every limit read is at most `Cap`.
`HolderKeepsPermit` is strengthened by the time each holder has left: its lease
exceeds `Skew` by at least as many ticks as its next renewal is away, which
reaping by any clock respects (`ReapSparesHolders`) and `Tick` preserves because
it waits for renewals that are due.  `RunningWithinCap` follows: holders map
injectively to owners, which are as many as the counter says.  For
`ImplementsPool` every action is shown to be a step of `PermitPool` or a stutter;
that reaping frees only lapsed permits (`ReapedAreLapsed`) is the heart of it.

Refresh admission.  More than twenty actions touch the Redis keys in only four ways:
the reserve, renew and release scripts, and the passing of time (`HoldSteps`).
The invariant `Accounts` (counters, leases, limit) is shown for those four, and
the actions' own variables need only their types.  Type correctness is not
inductive by itself: a sweep works on a list it read earlier, and the list must
consist of jobs (`SweepsJobs`).  `GrantFitsWindow` follows from `Accounts`:
the total that the script compares is the estimate times the size of the
reservation hash of the window it names, which the script has just compared with the snapshot's.
`GrantFitsSnapshot`, which a run checks, counts the reservations under every id of the same rate window, and needs
that there is one such id; the code does not ensure that (`rate-budget.ts:45`,
`RefreshAdmissionDrift.cfg`), so it is no theorem.
`PoolRefined` maps the four ways one by one: a reservation is `Grant` with nothing reaped, since the
counter it compares with the limit is the size of the hash (`Accounts`); a release is
`Return`, whoever calls it; a renewal is `Extend`; time is `Expire`.

Job lifecycle.  `OneExecution` is not inductive.  Before an operator has acted
(`Calm`; a controller that has acted never becomes new again, `CalmBefore`) the
invariant `ExecInv` says: a claim stands on a QUEUED row, a live message belongs
to a row in flight, a delivered message is locked by a worker that is busy, a
busy worker has such a message, and there is at most one claim or live message.
Then a claim can only be won on a terminal row, that is when nothing is
pending.  `QueuedIsRunnable` needs that a message nobody has taken is not locked
(`Unlocked`), so that no worker that leaves takes a waiting message with it; and
that only a claim or a revival makes a row QUEUED, and each brings the party
that has the next step.

`GuardStopsCancelled` concerns executions that ran when an operator ended their row (`doomed`).
The guard asks for the row's status, not whose it is, so that the row must stay
unpublishable while one is left that has not passed it.  `Mine`: a worker that executes holds the lock
of a message; `Past`: a doomed one is past the points where it could revive the row or mark it ACTIVE; `Stuck`: until a second
message exists the row is not publishable while a doomed execution is before the guard.  The case to
exclude is another worker that reopens the row: it would hold the lock of the same
message (`HasMessage`), hence be the same worker.

Source-fight lease.  That the key names its holder is *not* invariant: a
heartbeat, a DEL or a SET that was under way when its sender lost the lease hits
whoever holds it now.  What saves the promise is that the deletions and completions that
can hit another's lease come from callers that know a package, or a marker.  The
invariant `Unpaid` therefore speaks of the time before either exists: at most one
caller holds the lease, the key is there while it does, and nobody believes in a
package; `Paid` says that once one is stored nobody fetches.  `FetchStep` shows
that each step begins or ends at most one fetch.  `DoneMeansStored` follows from
`SuppliedIsStored`, which lists the places a caller that fetches reaches only with
a package, and holds under every fault.

Score publication.  Types need that whatever a publisher holds on to exists
(`Refs`): rows are never deleted.  `ShownIsPublic` is inductive with that: with one
pointer row, a commit shows its own row, and a commit that shows another's row
would have made a second pointer; a rejected candidate takes no row.
`RefreshKeepsDimensions` needs `Compared`: a refresh on its way to its commit has been
compared with what it saw.  `PublicationHeals` needs `Undisturbed`, which holds while
no other transaction begins: what is public is on the publisher's list, taken, or its
own, and its pointer will be the newest.

Bulk processing.  One inductive invariant carries all five theorems.  `Sequenced` says under
which status each step of a tick runs: an administrator's write may change the status
between any two statements, but only resume writes RUNNING over PAUSED, and nothing but the tick itself
leaves RUNNING while its batch is dispatched, which is `Dispatching`.  `Settled` adds that a
tick about to close has nothing pending, and no item becomes pending after the selection.
`Budgeted` says that calls in memory and the estimate of what is left of the batch stay
within the budget and within one batch of the row; `Ledger` relates what was spent to
both, item by item while a child is published and not yet recorded.  A crash replaces the calls
in memory by the row's, which loses at most one batch and costs one fault.
`Bounded`: since a tick that rereads the row sees a cancellation, only what is left
of the batch in progress can still be published late.

Evidence slots.  `DistinctEvidence` is not inductive: a slot job decides on a view that may be
old.  `Apart` says that what siblings *hold*, by reservation or by facts, is distinct;
a reservation looks at the rows again, and completing turns a reservation into a key.  That
needs `Owned`: the slot a job works on is RUNNING, it has no facts, and its reservation is the
candidate in hand.  Hence nobody else completes it, its batch is not done, and the fan-in is not at
work (`Gathered`), which is `Alone`.  `Planned` says that messages, jobs and claims belong to batches with
a plan.  `Completed` and `Settled` follow: only the fan-in that finalized reports.
`ManifestAgrees` adds `Sourced`: what jobs try and slots hold comes from the batch's chain; and
`Agreed`: a manifest exists only when its batch is done, so that `Settled` keeps both
sides as they are.  That the choice is complete when it is made needs no induction along the chain: the
candidates offered no later than `k` (`Upto`) are nested by first occurrence and differ for
different `k` (`UptoNested`, from the least element of a set of numbers), so their sizes are distinct numbers from 1 to
the number of usable candidates (`RankApart`), of which there are no more than slots, since
each is the key of one (`UsableFits`).
`AssignmentRefined` collects all this.  But for completions, the freeze and the finishing of a
fan-in no step changes what the abstract variables are mapped to (`OnlyCompletion`, `OnlyFreeze`,
`OnlyFinish`); a completion is `Take` or `GoWithout` (by `Owned` and `Apart`), a freeze is `Choose`
(by `Gathered` and the count above) or, when an earlier attempt left a manifest, a stutter, and
finishing is `Conclude`, since a fan-in past its freeze finds the manifest (`Attached`).

Catalog releases.  That no second release is ACTIVE rests on the unique index alone
(`ActiveSteps`).  That there always *is* one needs that no revalidation takes it away: `Judged` says
that with one validator a release is REJECTED if and only if its content is invalid, so that a
verdict that waits to be written is never out of date.  Publications rest on `Grows` (rows
of releases are inserted and never change their base or rules) and on two invariants.
`Lineage`: a draft holds the latest of its edits and no two drafts share one (`Newest`), so that what is
compiled over a base is, rule by rule, the same or a later edit of whichever draft is replaced, and
stays so while drafts go on (`Rising`, by `Succeeds`).  `OnBase`: what a publication
expects to replace is the base of its release, from the compilation to the lock, unless its client named
another; its activation therefore replaces exactly that base.  Other requests, stale clients
included, only add releases and replays, or make the expectation fail.

Only model-checked: the liveness properties `Served`, `CancelTakesEffect`, `EveryCallerEnds`,
`RequestsApplied` and `BatchFinalizes`, which are beyond the prover; `GrantFitsSnapshot`, of
which `GrantFitsWindow` is the part that needs no assumption about window ids; and `ReservationHasSlot`, which
holds without operators only.  Every other property of
a run that passes is a theorem, under the assumptions of the table.  `CountWithinCap`,
`OnlyOwnTokenReleased`, `SlotsAreLeased`, `SlotsWithinLimit`, `DistinctEvidence`, `CompletedIsFinal`, `SettledStays`
and `ActiveIsLast` are proved and need no run.

## 6. Where the code and its documents disagree

Reported as a finding, a run that must end in a counterexample:

| run | what happens | what is promised |
|---|---|---|
| `publication_rejected` | a rejected candidate is saved over the row of its fingerprint (`score-repository.ts:501`); without evidence in the fingerprint that is the published row, to which the pointer still leads | `scoring-publication.md:14` "Candidate stays non-public; pointer unchanged", `system-overview.md:35` "Published snapshots are immutable; failed refresh keeps last-known-good public pointer", `refresh-pipeline.ts:4546` "keeping published snapshot" |

Further configurations.  These show, in the same way, where something one might
expect does *not* hold.  TLC ends each with a counterexample; they are kept for
a reader who changes that code.  (Document: `doc/architecture/parallel-refresh-scheduling.md`,
"PRS" below.)  Some are hazards that PROJECT.json does not list again.

| configuration | property | what the counterexample shows |
|---|---|---|
| `LanePermitsShared` | `HolderKeepsPermit` | a second execution of a job gets the first one's token (`lane-permits.ts:107`); when one releases, the other runs without a permit |
| `RefreshAdmissionDrift` | `GrantFitsSnapshot` | the window id is a sum of local time and seconds left, truncated (`rate-budget.ts:45`): two snapshots of one rate window can have two ids, each with a reserved total of its own (PRS:815 "Simultaneous atomic reservations cannot overspend window") |
| `RefreshAdmissionUnswept` | `OrphansReclaimed` | `reconcileExpiredAdmissionLeases` has no production caller: a dead worker's slot stays taken (PRS:823, 325) |
| `RefreshAdmissionCancel` | `ReservationHasSlot` | a forced release acts on a window it looked for a call or more ago: one that found none before the worker reserved frees the slot and leaves the reservation (`gate.ts:505`); over two windows, a row still RESERVED from a dead execution names the wrong one (`repository.ts:105`, PRS:323) |
| `JobLifecycleLeak` | `NothingHeldAtEnd` | a path that marks the job and throws sets `terminalized` (`refresh-pipeline.ts:3231`, also 1676, 3837, 4389, 4458, 4476, 4532); the handler then returns without `releaseAdmission`, and both heartbeats go on (PRS:839 "No reservation/slot leaks after every terminal path") |
| `JobLifecycleRevived` | `CancelledNotRevived` | a message delivered after its row was cancelled revives the row (`job-repository.ts:349`; PRS:467 "No silent resurrection") |
| `JobLifecycleOverwritten` | `TerminalStays` | `markCompleted` writes whatever the row has become (`job-repository.ts:372`): a kill that lands after the publication is overwritten (PRS:467 "stay terminal") |
| `JobLifecycleReclaimed` | `GuardAlwaysStopsCancelled` | the publication guard asks whether the row is ACTIVE, not whose (`score-repository.ts:555`): after a kill and a new claim the old execution passes it |
| `JobLifecycleRace` | `CancelStopsPublication` | a cancellation that is accepted between the guard and the commit does not stop the publication: the guard is a plain read and locks nothing (`score-repository.ts:546`, against `:544` "Atomic publication_toctou extension: cancel + contract + ACTIVE in the same TX" and PRS:797 "cancellation-aware barrier wins") |
| `SourceFightLeaseDone` | `OneFetch` | an owner that must not fetch completes with a ready marker and no package; two readers of the marker clear it, and the second DEL removes the lease the first has taken meanwhile (`source-fight-lease.ts:139`): two callers fetch |
| `ScorePublicationStale` | `DimensionsKept` | a refresh is compared with what is published before its transaction; another one publishes in between and its dimension is lost (`publication-flow.ts:65`) |
| `ScorePublicationCoverage` | `CoverageKept` | within a dimension evidence is lost even by publications that take turns: the comparison of coverage (`coherence.ts:187`) never objects, as `mapDbSnapshotToDto` sets the published coverage to 0 (`publication-flow.ts:146`) |
| `ScorePublicationPointers` | `NeverSuperseded` | two pointer rows left by a race; a publication that waits for the lock on one writes an older time over a newer one, and readers are shown what has been superseded |
| `BulkProcessingStall` | `Finishes` | a batch whose children are all in flight, or whose characters are deleted, has no new child; the tick takes it for one whose every dispatch failed and requeues nothing, though items are pending (`bulk-character-processing.ts:546`) |
| `BulkProcessingCancel` | `CancelEnds` | a cancellation comes while a tick is on its way to write PAUSED (`bulk-character-processing.ts:369`): the API sees RUNNING and publishes no message (`bulk-character-processing-service.ts:351`, "Ensure a tick runs to apply cancellation when no worker is currently looping"), the tick looks no more, and the operation stays PAUSED until somebody resumes it |
| `EvidenceSlotsReclaim` | `ReleasedIsReclaimed` | a fan-in that fails returns to READY_TO_FINALIZE "so redelivery can reclaim" (`finalize.ts:38`), but its message has one attempt |
| `EvidenceSlotsSkips` | `SkipsOnlyTaken` | a chain that is exhausted is recorded under its last candidate, which siblings then skip as taken although nobody has its evidence (`acquisition.ts:1468`) |
| `EvidenceSlotsCanary` | `CompletedStays` | slots and fan-in end before the run that published them; its last write turns COMPLETED into RUNNING for good (`runner.ts:203`) |
| `CatalogReleaseDrift` | `OneActive` | two versions of the validator disagree: a revalidation read VALIDATED and writes REJECTED after the release was activated (`ability-catalog-release-service.ts:636`, against `:654` "Keep ACTIVE/SUPERSEDED operational status"); no release is ACTIVE |
| `CatalogReleaseClaim` | `StaleIsReplayed` | the expectation a client sends overrides the release that was read and compiled on (`ability-catalog-publish-service.ts:296`; the web client sends the one of its page load, `AbilityCatalogPublishBar.vue:81`): a release goes live over another than the one it was compiled on and replayed against |
| `CatalogReleaseStaleDraft` | `PublishNeverRegresses` | a draft stays READY, published or not, when another one of its rule goes live; if that one is newer, the older draft is pending now, and the next publication puts it in the newer one's place (`ability-catalog-publish-service.ts:134`) |

Six facts need no configuration to see.  A snapshot does not know what running and ended
refreshes have spent since it was taken (`lua-scripts.ts:142`, PRS:261); the sweep acts on rows it
read earlier and may take the slot of a job admitted meanwhile (`reconcile.ts:34`; nothing
calls it); and a forced cancellation frees the slot of a worker that still runs
(`refresh-job-control.ts:157`), so that slots bound admissions, not executions.  A renewal in flight when
the timer stops reopens the settled row (`gate.ts:600`; PRS:308 "updates lease timestamps
only").  The collapse reads QUEUED, a worker starts, and the collapse writes FAILED
(`refresh-job-control.ts:631`).  And a slot that ends because its character has lost its name or realm
asks for no fan-in (`slot-processor.ts:232`): if it was the last, its batch is never finalized.

## 7. What is not modelled, and why

Planned: two rows of one character, WCL request permits, refreshes that pin a catalog
while releases are activated.
Not planned: provider parsing and scoring formulas (sequential computation over
long inputs, covered by unit tests), web and identity (no concurrent state of
their own), the scheduler (its planner computes from one snapshot of the database and
publishes nothing), the addon, deployment files and command-line tools.  BullMQ, Redis,
PostgreSQL and the providers are external: they are modelled by what the code in
the repository relies on.

## 8. Plan

Modules, in this order, the most important behaviour first:

1. `LanePermits`, `PermitPool`, `LanePermitsProofs`: done.
2. `RefreshAdmission`, `RefreshAdmissionProofs`: done, in enforce mode.
3. `JobLifecycle`, `JobLifecycleProofs`: done, for one row.
4. `SourceFightLease`, `FetchOnce`, `SourceFightLeaseProofs`: done.
5. `ScorePublication`, `ScorePublicationProofs`: done.
6. `RefreshCollapse`: several rows of one character, `pickEarliest` and the winner
   guard; the earliest survives, nobody waits for a job that is gone.
7. `EvidenceSlots`, `EvidenceAssignment`, `EvidenceSlotsProofs`: done, for batches with slots.
8. `BulkProcessing`, `BulkProcessingProofs`: done, for one worker process.
9. `CatalogRelease`, `CatalogReleaseProofs`: done, for drafts that change a rule.
10. The WCL request permits, which are the scripts of `LanePermits` under other keys but
    without heartbeats; the catalog a refresh pins, composed with `CatalogRelease`.

Runs and bounds: two or three parties each, one run for the safety of a module and
one for its liveness or refinement; violations are merged or moved to the further
configurations as modules are added.
