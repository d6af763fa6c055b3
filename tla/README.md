# Scrapeyard: TLA+ specifications

Scrapeyard accepts scrape jobs over HTTP, stores them in SQLite, hands each run
to a Redis/arq queue, executes it, stores the result as an artifact and tells
the submitter through webhooks. Cron schedules create runs by themselves.
These modules specify the part of it where correctness depends on the order of
things: who owns a run, what a crash leaves behind, which event is still owed,
who may use a domain, a browser or the state directory.
Paths below are relative to `src/src/scrapeyard/`.

## 1. Inventory

| Component | State | Operations | Interacts with |
|---|---|---|---|
| job store (`storage/job_store.py`, `job_recovery.py`, `job_deletion.py`, `job_terminal_reconciliation.py`) | `jobs`, `job_runs`, `queued_run_snapshots`, `webhook_deliveries` rows of `jobs.db` | submit, queue, claim, heartbeat, finalize, fail, recover, cancel, pause and resume, record a missed fire, reconcile webhook, prune history, reserve and finalize deletion, rollback | everything below, through compare-and-set transactions |
| submission (`api/scrape_submission.py`, `api/routes.py`) | none | commit, enqueue, roll back, replay by idempotency key; schedule mutations | job store, pool, scheduler |
| pool (`queue/pool.py`, `queue/priority.py`) | Redis: three intake queues, execution queue, job keys, in-progress keys, abort set, results; the admission cursor and the tasks | enqueue, admit, start, finish, remove an unstarted delivery, cancel, stop, release what a dead process held | workers, cancel endpoint, reconcilers |
| run execution (`api/dependencies.py` handler, `queue/worker.py`, `heartbeat.py`, `run_lifecycle.py`, `cancellation.py`) | one task per delivery, its heartbeat task, the artifact it saved | load, claim, process targets, save, finalize; handlers for lost ownership, error, budget and cancellation | job store, result store, dispatcher, engine |
| reconcilers (`queue/reconciliation.py`, `running_reconciliation.py`, `terminal_reconciliation.py`) | what an inspection saw | fail or re-enqueue stale queued runs, recover stale running ones, insert missing webhook intents | job store, pool, dispatcher |
| scheduler (`scheduler/cron.py`) | the Job object a callback holds over its awaits; APScheduler's entries | fire, manual trigger, recover, queue, enqueue, record failure; register, pause, remove, restore | job store, pool |
| webhook outbox and dispatcher (`storage/webhook_outbox.py`, `webhook/dispatcher.py`) | delivery rows; wake event, bounded queue, `_scheduled_ids`, worker tasks | insert, notify, read due and exhausted rows, reserve an attempt, POST, record, shut down | job store transactions, reconcilers |
| result store, cleanup, deletion (`storage/result_store.py`, `cleanup.py`, `job_retention.py`, `api/job_lifecycle.py`) | run directories, `results_meta` rows, the deletion reservation | save, restore, discard, expire, prune, remove orphans, delete a job over three databases | job store, run execution |
| engine (`engine/scraper.py`, `pagination.py`, `resilience.py`, `rate_limiter.py`, `domain_guard.py`, `browser_session.py`, `queue/browser_limiter.py`, `common/budgets.py`) | circuits, domain locks, permits, budgets, one task per target | check, pace, fetch, retry, paginate, validate, route, reserve and settle requests, unwind | run execution |
| lifespan (`main.py`, `runtime/`) | the instance lock, the started services, `shutdown_pending` | start and stop services in dependency order, forced exit | all of the above |
| caches, url guard, configuration, auth, metrics | mostly per request | look up, classify, validate, report | - |

**Hard behaviours.** Every `await` lets other coroutines commit; cancellation can
arrive at any of them, also inside the handler of another cancellation. Work is
committed in SQLite first and enqueued in Redis second, files are written first
and rows second, and the process may die between. Deliveries are repeated after
a crash and lost when Redis forgets them. A worker may lose its lease and not
know. Reconcilers, cleanup and the dispatcher act on what they read before an
await. Tables of locks and circuits are bounded and evict. Tasks may ignore
their cancellation while their services are being closed. `PROJECT.json` lists
these hazards at their lines.

**What makes each component correct.** Job store: a job runs while its current
run does, parents that agree with their runs, final outcomes, the admission limit. Execution: the
result that is reported exists, no outcome after a cancel was answered, every
accepted run settles, a superseded one leaves no result. Pool: one delivery per
run, no start after a cancel or a stop, no starvation. Scheduler: the delivered
configuration is the accepted one, a missed fire is recorded, APScheduler agrees
with the store. Webhooks: every subscribed outcome has its event, attempts are
bounded, a settled delivery is never sent again, a pending one is settled. Artifacts: what is listed
is readable, what is active is kept, what is over is reclaimed. Engine: one
probe per half-open circuit, one caller per domain, permits and budgets cover
what still runs. Lifespan: work only under the lock, services outlive users.

## 2. Modules

* **`JobStore`** is the abstract specification: the writing transactions of `jobs.db`,
  one action each, attempted by anybody at any time. A transaction whose
  compare-and-set fails is a stuttering step. `queue_run` accepts a job whose current
  run is queued or running, so a run can be superseded: its row then stays "running"
  until the job is deleted, because whatever settles a run compares the parent's
  current run (`OwnerEndsWithRun`). Three writers change nothing that is modelled and
  have no action: `reserve_queued_run_recovery` and
  `mark_terminal_webhook_reconciliation_failure` write a timestamp that orders a sweep,
  and of `update_scheduled_job` only `schedule_enabled` is in this module (the
  configuration is in `Scheduler`).
* **`RunWorker`** extends the store's state by Redis deliveries, one task per
  delivery, artifacts, the reconcilers and the cancel endpoint. A step ends at
  each await where something else may change the database or a cancellation may
  arrive. It *implements* `JobStore`: `StoreSpec` is one of its PROPERTYs, so each
  step is a transaction of the store, allowed there, or leaves it alone. A trigger
  that finds its job free is one step (`queue_run` compares the row it read before the
  check); one that recovers a stale run reads the job again in a later step
  (`TriggerStale`, `TriggerReread`) and may supersede what was queued in between.
* **`Delivery`** is the contract of the queue in terms of what `inspect_delivery`
  reports: which changes the delivery of a run can go through.
  **`DeliveryQueue`** is the pool with its Redis keys, weighted admission, polls,
  `cancel_run` and `stop`, and *implements* it: the intake queues are one set of
  runs per priority with their order of arrival (`ahead`), `DeliverySpec` is
  `INSTANCE Delivery` with the state of a run computed by `InspectDelivery`.
  `RunWorker`'s `delivery` is one such state per run, `Start`, `LoseDelivery`,
  `ResultExpires` and `ProcessCrash` its changes.
* **`Scheduler`** refines the triggers: the coroutine of a cron fire and of a
  manual trigger, with the Job object each holds, over the same store; and the
  schedule mutations with their registration in APScheduler and its
  compensation. Workers are reduced to their transactions.
* **`WebhookDispatcher`** starts where `JobStore`'s `intent` becomes "pending": the
  outbox row, the coordinator, the workers. `JobStore!SettleDelivery` is its
  summary.
* **`Artifacts`** is one job's directories and metadata rows, with the worker's
  save and discard, the cleanup cycle and the deletion request as three processes.
  A run is executed once; its worker may save twice, the second time when its
  budget runs out after the save (`BudgetExceeded`). `overtaken` is a history variable:
  the runs whose result was replaced like this between the selection of their row by
  a retention pass and the end of that pass. The row then survives under its new id
  and the directory goes; it takes rows of later date, from workers that do not know
  yet that they lost their run, to make the result of a run that is still active an excess one.
* **`CircuitBreaker`** and **`RateLimiter`** are the two shared tables of the
  engine, each method or await of theirs an operator or action; `Sites` holds
  their common constants. **`Targets`** composes them: the target tasks of the runs
  a process executes, with permits, budgets, attempts, pages, browser pages and
  the endings of a run. A page routes several requests at a time (`Routes`); each is a
  redirect chain that is guarded, reserved, followed by the browser, ended, and settled
  in a future of its own (`ChainSettles`) or with its page (`PageSettles`).
* **`Lifespan`** is the life of processes that share a state directory: the
  instance lock, each step of startup and shutdown, and what outlives it.
* `JobStoreProofs`, `RunWorkerProofs`, `DeliveryQueueProofs`, `SchedulerProofs`,
  `WebhookDispatcherProofs`, `ArtifactsProofs`, `LifespanProofs` and `TargetsProofs` hold
  the theorems about the module they are named after (section 5).
* `MC*.tla` give constants for TLC.

The `map` of `PROJECT.json` gives the lines of each definition. Definitions
marked "Mutant" are deliberate bugs: replacing the definition after them makes the
property named in `PROJECT.json` fail.

### Abstractions

* SQLite transactions are atomic (`BEGIN IMMEDIATE`); Lua scripts and MULTI
  pipelines are atomic; one blocking file operation is a step.
* A run id is a fresh UUID; the ids are dealt to jobs beforehand by `JobOf`.
* Times are the comparisons made with them: a heartbeat is `fresh`, a webhook row
  `due` and `aged`, a circuit `cooled`, a directory `fresh`, a metadata row `old`.
  `completed_at` is who wrote it, which is all `_run_finalized_by_owner` compares.
* An arq task is named by its run, because the in-progress key admits one
  execution of a run at a time (`TaskHoldsKey` in `QueueInv`).
* `RunWorker` processes the targets in one step with any outcome; `Targets` has
  the steps inside it and nothing of the store.
* `JobStore`: rows from older versions (`current_run_id IS NULL` in
  `_mark_run_started`, runs without stored configuration), repair branches of
  `_recover_current_run` for parents whose run row is missing or already
  terminal (`ParentAgreesWithRun` and `SingleOwner` say they do not arise) and
  error counts are left out.
* `Scheduler`: commit and registration of a mutation are one step, because the
  store is used under one asyncio lock and nothing is awaited between the two. A
  job has one compensation at a time. `adrift` records the jobs whose compensation
  gave up, which the code logs as `operator_reconcile` or `restart_from_database`, or
  itself raised (`routes.py:140`, `442`), which reaches the client as an error and is
  logged as neither; a restart reads the store again. A rollback of a creation that
  meets a resume may leave an entry of a job that no longer exists; its fires find no
  row and end.
* `WebhookDispatcher`: undecodable rows and a shutdown whose tasks ignore their
  cancellation are left out. An intent may be inserted without a `notify` after it
  (`InsertIntent(d, FALSE)`): the worker was cancelled once its transaction had
  committed, another candidate of the sweep failed and the sweep raised
  (`terminal_reconciliation.py:370`), or a scheduler trigger made the repair. A
  coordinator that waits without a timeout then sleeps on until the next notification
  or restart (`Asleep`); `PendingSettles` is about every other state.
* `Artifacts`: `Age` assumes that the retention window (at least a day) outlasts a
  run, and `Settle` that the orphan grace outlasts a save. Orphan
  removal is modelled with `storage_reconciliation_dry_run` off; a dry run, the
  default, removes nothing, and `ArtifactsAreReclaimed` is about the real one.
* `Targets`: the domain guard may answer either way whenever it is asked, which
  includes its answers; the wait for memory holds the permit as the attempt does;
  a target is validated in the step that ends its scrape. A handler that is still
  resolving names when its page is closed may reserve for a page that has settled; that
  reservation, and those of a page whose browser could not be stopped, are lost to the
  run and stay counted ("lost"). A redirect of a basic fetch paces the host it leads
  to. A caller with no interval to keep (`min_interval <= 0`) returns from `acquire` at
  once and touches nothing, so only the others are modelled. A run is launched again
  only when the acquires its cancelled predecessor left behind are over. The
  eviction of the breaker and of the limiter takes any eligible entry, the code
  the least recently used. A cancellation inside the limiter's condition, or
  while a caller waits for the condition on its way out, gives no use count
  back: the entry is then never evicted, which the model reproduces and no
  property forbids.
* `Lifespan`: after the release of the lock a cron callback may still be on its
  way out. The stores are closed then, or closing them raised (`stores = "failed"`):
  the code records that and goes on (`main.py:376-382`), the manager stays initialised
  (`database.py:547-551`) and gives such a callback another connection. An
  interruption of the shutdown coroutine itself is left out.
* `DeliveryQueue`: a run may be enqueued at any time, in the middle of a cancel too. An
  answered cancel is over when its run is enqueued again.

## 3. Runs

| Run | Module, bounds | States | Shows |
|---|---|---|---|
| `job_store` | `MCJobStore`: 2 jobs, 3 run ids, limit 1 | 626,562 | The store's invariants and action properties under every order of transactions. One job gets two runs, so a queued or running run can be superseded and a settled one pruned; limit 1 with two jobs makes admission bind. |
| `run_worker` | `MCRunWorker`: 1 job, 1 run, 2 faults, fair | 148,949 | The reported result exists, no event lost, a task holds its delivery, silence after an answered cancel, refinement of `JobStore`; an accepted run settles, a subscribed outcome is reconciled, a cancel is answered. Two faults: a failure inside the recovery from another. |
| `superseded` | `MCRunWorker`: 1 job, 3 runs, symmetry, `NotCancelled` | 1,907,503 | A worker whose job was taken by a newer run discards its result, wherever it was. The run starts where a process died while r1 was running: both triggers find r1 stale, and the later one queues its run over the other's. Behaviours end at a cancel; cancels and further faults are the subject of `run_worker`. |
| `scheduler` | `MCScheduler`: cron and manual, 3 runs, 2 configurations, 2 faults, symmetry | 1,568,914 | Snapshot and delivery agree, missed fires settle, APScheduler holds what the store says. Three runs let both triggers queue after a settled run; two faults make a registration and its compensation raise. |
| `webhook_dispatcher` | `MCWebhookDispatcher`: 1 delivery, 2 workers, batch 1, 3 attempts, 3 faults, fair | 51,009 | One worker per delivery, owned reservations, attempt budget, settled is final, a pending delivery settles, notified or not, unless the coordinator is fast asleep. Two workers compete for the one delivery through stale batches; three faults interrupt every attempt. The proofs have any number of deliveries. |
| `delivery_queue` | `MCDeliveryQueue`: a high and a low run, 1 slot, 1 fault, fair | 277,379 | One queue per run, slot bound, keys held, at most one round of bypasses, silence after `cancel_run` and `stop`, the contract `Delivery`, service of ready deliveries. The high run is enqueued again and again. |
| `artifacts` | `MCArtifacts`: 2 runs, 1 kept result, batch 1, 3 saves, 1 fault, fair, `ThirdSaveAlone` | 609,516 | Listed results are readable, active runs are left alone, everything is reclaimed. One kept result makes the excess pruning act; the third save lets the budget handler replace a result while the other run has one. The third save is explored without faults and deletions, which meet up to two. |
| `targets` | `MCTargets`: 3 targets, 2 runs, 2 domains, tables of size 1, 1 permit, 4 requests, 2 routes, 1 redirect, symmetry, `OneByOne` | 1,674,076 | Probes, pacing, permits, budget, freedom from deadlock of the limiter. Tables of size 1 make eviction and saturation happen, the second launch of run B lets old work meet a new probe. Two routes of two hops fill the budget of four. The requests of a page are explored before run B is launched, which shares neither page nor budget with it. |
| `lifespan` | `MCLifespan`: 2 processes, 4 starts, fair | 133,093 | Work only under the lock, services outlive users, shutdown ends. |
| `supersede`, `unowned_result`, `outcome_announced` | small | - | Violations, section 4. |

Deadlock is not checked by TLC: run and delivery ids are finite, so a model may have
nothing left to do; `LimiterNeverDeadlocks` states it where waiting is mutual.
Symmetry is used in the safety runs `scheduler`, `superseded` and `targets`.

**Fairness.**
* `RunWorker`: weak fairness of each task's next step (asyncio runs what is ready;
  the targets end because the run budget has a deadline), of arq's poll and abort
  poll, of the periodic reconcilers (`start_*_loop` restart their pass after an
  error), of the passing of time, and of a waiting cancel request. Nothing is
  assumed of users, faults or heartbeats.
* `WebhookDispatcher`: weak fairness of coordinator and workers (HTTP is bounded by
  its timeout), of time, of restart after death, and of the `notify` of an
  inserter that gets to call it; an inserter need not.
* `DeliveryQueue`: the poll goes on; strong fairness that memory is available in
  infinitely many polls, without which `_memory_available_for_start` may refuse for
  ever; tasks end within the job timeout, `stop` within its deadline, a stopped
  process is started again.
* `Artifacts`: the cleanup loop is periodic, a request that can go on does, and the
  runs do not all stand still. A client that never retries an interrupted deletion is allowed.
* `Lifespan`: the event loop runs the shutdown and its deadline passes.

## 4. Disagreements found

* **`supersede`**: `_trigger_job` checks for an active run, awaits, reads the job
  again (`cron.py:411`) and calls `queue_run`, which does not look for an accepted
  run. A fire and a manual trigger that both passed the check: the second takes
  the job from the run of the first. `docs/DEPLOYMENT.md:1974-1977` promises 409.
* **`unowned_result`**: the handler for lost ownership (`worker.py:292-306`) is not
  protected against a cancellation during its discard; the artifact stays when
  the cancel is answered, against `docs/JOB_LIFECYCLE.md:75-77`.
* **`outcome_announced`**: after a process death a running run is redelivered; if
  its configuration cannot be loaded, the handler (`dependencies.py:287`) fails it
  without an intent and the store marks it reconciled in the same transaction.
  `NoLostEvent` in `run_worker` excepts exactly these runs.

## 5. Proofs

Each theorem holds for every value of the constants that satisfies the named
assumptions of the module it is about: finite sets of jobs, runs or deliveries where
something is counted, positive limits, a bound on faults that is any natural number,
and that the null values (`NoRun`, `Nobody`, `NoConfig`) are not members of their sets.
Every proof has the same shape: an inductive invariant made of named parts, one
lemma `<Action>KeepsInv` per action with a step per part it can disturb, the initial
states, and a theorem that closes by PTL; each property is then a consequence of the
invariant, or of a step from it.

| Module | Theorems | Inductive invariant |
|---|---|---|
| `JobStoreProofs` | `StoreInv`, `SingleOwner`, `QueuedRunIsClaimable`, `ParentAgreesWithRun`, `IntentsMatchOutcome`, `AdmissionBound`, `OutcomeIsFinal`, `OwnerEndsWithRun`, `CancelledStaysDown` | `StoreInv` |
| `RunWorkerProofs` | `WorkerInv`, `ReportedResultExists`, `NoLostEvent`, `QuietAfterCancel`, `StoreSpec`; `WorkersKeepStore` | `WorkInv` |
| `DeliveryQueueProofs` | `QueueInv`, `BoundedBypass`, `CancelledIsQuiet`, `StopLeavesNoTask`, `DeliverySpec` | `PoolInv` |
| `SchedulerProofs` | `SchedulerInv`, `ScheduleIsRegistered` | `SoundInv` |
| `WebhookDispatcherProofs` | `DispatcherInv`, `AttemptBudget`, `SettledIsFinal` | `DispatcherInv` with `AttemptBudget` |
| `ArtifactsProofs` | `ReportedIsReadable`, `ActiveIsKept` | `ArtifactsInv` |
| `LifespanProofs` | `LockCoversWork`, `ServicesOutliveUsers` | `LifespanInv` |
| `TargetsProofs` | `EngineInv`, `OnePacerPerDomain`, `LimiterNeverDeadlocks`, `PermitCoversBrowser`, `BudgetCoversRequests` | `ScrapeInv` |

*Job store.* `SingleOwner` alone is not inductive. That claiming a queued run makes
the job run on a run that starts there needs `QueuedRunIsClaimable` (the run a queued job waits for
has no row yet) and `CurrentRunBelongs` (a job's current run is one generated for
it); that a new run starts without history needs `RowsAreOfUsedRuns` (an id that
was never generated has no row and no snapshot) and `NoRowsWithoutJob` (a rollback
or deletion leaves nothing behind for the sweeps); that a cancelled or reserved job
stays down needs `DownIsDisabled`. `AdmissionBound` needs that the accepted set grows
only in an admitted step (`AcceptedGrowsOnlyAdmitted`) and the cardinality facts of
finite sets. `OutcomeIsFinal`, `OwnerEndsWithRun` and `CancelledStaysDown` are proved step
by step. Nothing is assumed of the callers: `queue_run` over an active run and the
pruning of history are steps like the others.

*Run execution.* `WorkInv` says what the position of a worker in `scrape_task` tells of
its run. That a reported result exists rests on `OutcomeIsSaved` (what is about to
be committed is on disk, or is a failure) and `CommitsLast` (until its worker
commits, a run has no result to report, so an except block that finds it
unfinished may discard). That nothing is written after an answered cancel rests on
`RequestIsDown` (the run is down, and a delivery that is started later is still in
front of the queued-run check). A lemma per transaction (`<Transaction>KeepsRow`)
says what others do to a run's row, a lemma per action what the worker does with its
own state. Each step is shown to be a transaction of `JobStore` or to leave it alone,
which is the refinement `Spec => StoreSpec` for any number of runs, superseding triggers
included; the theorems of
`JobStoreProofs` then hold of the executed system (`WorkersKeepStore`).

*Pool.* `PoolInv` ties the Redis keys of a run together: a result excludes every other
key, a payload is a member of a queue, a start that has checked its run finds it
without a task however late it acts (`TaskIsSound`), and the room an admission counted
is still there (`PollHasRoom`, `SlotIsFree`). `TurnsAreCounted` bounds the bypasses by the
turns since the policy last preferred the watched priority. The refinement shows that
what `inspect_delivery` reports changes as `Delivery` allows.

*Scheduler.* The store's own invariant is not needed; what is needed is less:
`RegisteredOrOwed` (APScheduler has what the store has unless a compensation that may
still write is owed or was given up) and `TriggerIsSound` (a trigger enqueues what its
run was accepted with).

*Dispatcher.* An id is in `_scheduled_ids` exactly as often as it is queued or held by a
worker (`ScheduledOnce`), a reserved attempt has one owner (`ReservationIsOwned`) who has
paid for it (`ReservationPays`).

*Artifacts.* What cleanup decided earlier is still true when it acts: what it picked is
not active (`PickedIsInactive`), a row it selected is the current one unless the run
was overtaken (`SelectedIsCurrent`), a row goes before its file (`RowGoesFirst`).

*Lifespan.* `Phase` says, for each stretch of startup and shutdown, which services
are up, who uses them and whether the process has the lock; a close that raised ends
the stretch in which the stores are up as well.

*Targets.* `ScrapeInv` has five parts, one for each thing the tasks share. The limiter's
part stands alone: every step of the program is an operation of the limiter or leaves it
alone (`EngineCallsLimiter`). `OnePacerPerDomain` needs that a caller in a queue or asleep uses
the lock the table has for its host (`LockIsEntry`), which an eviction could break if the
callers were not counted (`UsesAreCounted`: the count is at least the number of callers that
will give it back, as a cancelled caller may leave its use behind); that a new lock is a
new one is the pigeonhole principle (`UnusedLockExists`). `LimiterNeverDeadlocks` needs that
somebody in a queue has nobody ahead of it, from the well-foundedness of the strict subset
order on finite sets (`SomebodyIsFirst`). For the circuits, `Decides` says what any verdict
does to the table: it ends the half-open state whose probe it brings and touches no other,
through evictions too. The permits rest on the step a target is at when its page is
open. The budget counts what the chains hold and have not used as one finite set of
pairs, with a lemma for each way it changes: a chain that reserves (`ReservingKeepsBudget`), moves
on (`RedirectingKeepsBudget`) or settles (`SettlingKeepsBudget`), and a page that settles or
forfeits all of its chains at once (`ClosingKeepsBudget`).

*Only model-checked*: the liveness properties (`AcceptedRunSettles`,
`OutcomeEventuallyReconciled`, `CancelIsAnswered`, `PendingSettles`, `QueuedIsServed`,
`ArtifactsAreReclaimed`, `ShutdownEnds`), because the prover handles neither ENABLED nor
fairness, and `SupersededLeavesNoResult`. `ShutdownEnds` is about the order of the waits: that
a single wait ends at its deadline is taken from `await_with_timeout`.

## 6. Not modelled

* Parsing, fetching and rendering of pages, the browser itself, address
  classification, configuration schemas, serialisation, authentication, metrics,
  migrations and encryption: stateless transformations, third-party code or I/O.
* In the engine: replay from the page cache, the asset cache, the single flight
  of url verdicts, the Redis rate limiter (one script), click pagination, browsers
  shared between targets, error rows.
* In the stores: validation of metadata rows against their files, paging cursors,
  time slices of the cleanup cycle, the cleanup of old errors and webhook rows.
* Stored schedules that cannot be read at startup, and the health fields of a
  schedule.
* The synchronous wait for a result and the paging of the query endpoints, which
  only read.

## 7. Plan

The control of the system is modelled, and every safety property a passing run checks
is proved but one. What is left:

1. `SupersededLeavesNoResult` as a theorem: `WorkInv` says where a worker has a result
   that no transaction reports, and would be extended to runs that lost their job.
2. `Delivery` and `DeliveryQueue`: further facts about single steps (an answered cancel
   stays answered, a result key is never overwritten) as action properties.
3. `RunWorker` with `Artifacts`: the two models of a save meet at the result a worker
   reports; a composition would replace the assumption each makes about the other.
4. The parts of section 6 that keep state across awaits: the single flight of url
   verdicts and the page cache.
