------------------------------ MODULE JobStore ------------------------------
(***************************************************************************)
(* jobs.db: the jobs, job_runs, queued_run_snapshots and                   *)
(* webhook_deliveries rows, and the compare-and-set transactions through   *)
(* which every other part of Scrapeyard changes them.                      *)
(*                                                                         *)
(* Every operation of storage/job_store.py that writes is one              *)
(* `BEGIN IMMEDIATE` transaction, so each is one action here.  An action   *)
(* describes the transaction that commits; a transaction whose             *)
(* compare-and-set fails rolls back and is a stuttering step.  The         *)
(* callers are unconstrained: StoreNext lets anybody attempt any           *)
(* transaction at any time.  RunWorker.tla and Scheduler.tla replace       *)
(* these callers by the real ones.                                         *)
(*                                                                         *)
(* Three writers leave the state modelled here alone and have no action:   *)
(* reserve_queued_run_recovery (a timestamp of the queued parent),         *)
(* mark_terminal_webhook_reconciliation_failure (a timestamp that orders   *)
(* the next sweep), and the configuration columns of update_scheduled_job, *)
(* whose schedule_enabled column SetScheduleEnabled writes.                *)
(*                                                                         *)
(* Abstractions.  A run id is a fresh UUID, so the ids are dealt out to    *)
(* the jobs beforehand by JobOf.  A heartbeat timestamp is reduced to the  *)
(* one thing compared with it: whether it is newer than the recovery       *)
(* cutoff (fresh).  completed_at is reduced to who wrote it.               *)
(***************************************************************************)
EXTENDS Integers, FiniteSets

CONSTANTS
    Jobs,           \* job ids
    Runs,           \* run ids
    NoRun,          \* current_run_id IS NULL
    JobOf,          \* the job each run id is generated for
    MaxAccepted,    \* settings.queue_max_accepted_runs
    Subscribed      \* terminal statuses the job's webhook subscribes to

ASSUME JobsFinite      == IsFiniteSet(Jobs)
ASSUME NoRunAssumption == NoRun \notin Runs
ASSUME JobOfAssumption == JobOf \in [Runs -> Jobs]
ASSUME LimitAssumption == MaxAccepted \in Nat \ {0}

\* The statuses a run can finish with and still be reported on.
Settled == {"complete", "partial", "failed"}
ActiveStatus == {"queued", "running"}

ASSUME SubscribedAssumption == Subscribed \subseteq Settled

VARIABLES
    jobStatus,   \* jobs.status; "absent" before and "deleted" after the row exists
    cur,         \* jobs.current_run_id
    cron,        \* jobs.schedule_cron IS NOT NULL
    enabled,     \* jobs.schedule_enabled
    runStatus,   \* job_runs.status; "none" when the run has no row
    fresh,       \* job_runs.heartbeat_at is newer than now - heartbeat timeout
    completedBy, \* who wrote job_runs.completed_at
    snapshot,    \* runs with a queued_run_snapshots row
    reconciled,  \* runs with webhook_reconciled_at set
    intent,      \* webhook_deliveries.status of the run's terminal event
    missed,      \* runs whose row records a scheduled fire that never started
    used         \* run ids already generated

rowVars == <<runStatus, completedBy, snapshot, reconciled, intent, missed>>
jobVars == <<jobStatus, cur, cron, enabled>>
storeVars == <<jobStatus, cur, cron, enabled, runStatus, fresh, completedBy,
               snapshot, reconciled, intent, missed, used>>

JobStatus == {"absent", "queued", "running", "complete", "partial", "failed",
              "cancelled", "deleting", "deleted"}
RunStatus == {"none", "running", "complete", "partial", "failed", "cancelled"}

StoreTypeOK ==
    /\ jobStatus \in [Jobs -> JobStatus]
    /\ cur \in [Jobs -> Runs \cup {NoRun}]
    /\ cron \in [Jobs -> BOOLEAN]
    /\ enabled \in [Jobs -> BOOLEAN]
    /\ runStatus \in [Runs -> RunStatus]
    /\ fresh \in [Runs -> BOOLEAN]
    /\ completedBy \in [Runs -> {"none", "owner", "other"}]
    /\ snapshot \subseteq Runs
    /\ reconciled \subseteq Runs
    /\ intent \in [Runs -> {"none", "pending", "done"}]
    /\ missed \subseteq Runs
    /\ used \subseteq Runs

StoreInit ==
    /\ jobStatus = [j \in Jobs |-> "absent"]
    /\ cur = [j \in Jobs |-> NoRun]
    /\ cron = [j \in Jobs |-> FALSE]
    /\ enabled = [j \in Jobs |-> FALSE]
    /\ runStatus = [r \in Runs |-> "none"]
    /\ fresh = [r \in Runs |-> FALSE]
    /\ completedBy = [r \in Runs |-> "none"]
    /\ snapshot = {}
    /\ reconciled = {}
    /\ intent = [r \in Runs |-> "none"]
    /\ missed = {}
    /\ used = {}

-----------------------------------------------------------------------------
(* State formulae *)

RunsOf(j) == {r \in Runs : JobOf[r] = j}

\* The reservations _check_admission counts.
Accepted == {j \in Jobs : jobStatus[j] \in ActiveStatus /\ cur[j] # NoRun}

\* Mutant: the limit is compared before the new reservation is counted.
AdmitsOneMore(j) == Cardinality(Accepted) <= MaxAccepted

\* _check_admission, evaluated with the run of job j already reserved.
Admits(j) == Cardinality(Accepted \cup {j}) <= MaxAccepted

QueuedOn(r) == jobStatus[JobOf[r]] = "queued" /\ cur[JobOf[r]] = r
RunningOn(r) == jobStatus[JobOf[r]] = "running" /\ cur[JobOf[r]] = r

\* No accepted run to lose: what _job_has_active_run is there to establish.
HasNoActiveRun(j) == jobStatus[j] \in ActiveStatus => jobStatus[j] = "queued" /\ cur[j] = NoRun

\* run_is_active: the check behind every cooperative checkpoint.
RunIsActive(r) == RunningOn(r) /\ runStatus[r] = "running"

PendingWebhook(j) == \E r \in RunsOf(j) : intent[r] = "pending"

\* The webhook intent inserted with a terminal status, if it is subscribed to;
\* an existing row is kept (INSERT OR IGNORE on the deterministic id).
IntentFor(r, status) ==
    IF status \in Subscribed /\ intent[r] = "none" THEN "pending" ELSE intent[r]

-----------------------------------------------------------------------------
(* Creation and queueing *)

\* save_job / create_idempotent_job: an accepted ad-hoc submission.
SubmitJob(r) ==
    LET j == JobOf[r] IN
    /\ jobStatus[j] = "absent"
    /\ r \notin used
    /\ Admits(j)
    /\ jobStatus' = [jobStatus EXCEPT ![j] = "queued"]
    /\ cur' = [cur EXCEPT ![j] = r]
    /\ snapshot' = snapshot \cup {r}
    /\ used' = used \cup {r}
    /\ UNCHANGED <<cron, enabled, runStatus, fresh, completedBy, reconciled, intent, missed>>

\* save_job for a scheduled job: no run yet, so no reservation is taken.
CreateScheduledJob(j, on) ==
    /\ jobStatus[j] = "absent"
    /\ jobStatus' = [jobStatus EXCEPT ![j] = "queued"]
    /\ cron' = [cron EXCEPT ![j] = TRUE]
    /\ enabled' = [enabled EXCEPT ![j] = on]
    /\ UNCHANGED <<cur, fresh, used>> /\ UNCHANGED rowVars

\* set_schedule_enabled: pause or resume.
SetScheduleEnabled(j, on) ==
    /\ cron[j]
    /\ jobStatus[j] \notin {"absent", "deleted", "cancelled", "deleting"}
    /\ enabled[j] # on
    /\ enabled' = [enabled EXCEPT ![j] = on]
    /\ UNCHANGED <<jobStatus, cur, cron, fresh, used>> /\ UNCHANGED rowVars

\* queue_run: give the job a new current run if the caller's view of the
\* parent (status and current run) still holds.  A scheduled fire also needs
\* the schedule to be enabled still.  The run id is freshly generated.
QueueRun(r, seenStatus, seenRun, scheduled) ==
    LET j == JobOf[r] IN
    /\ r \notin used
    /\ seenStatus \in ActiveStatus \cup Settled
    /\ jobStatus[j] = seenStatus
    /\ cur[j] = seenRun
    /\ scheduled => enabled[j]
    /\ Admits(j)
    /\ jobStatus' = [jobStatus EXCEPT ![j] = "queued"]
    /\ cur' = [cur EXCEPT ![j] = r]
    /\ snapshot' = snapshot \cup {r}
    /\ used' = used \cup {r}
    /\ UNCHANGED <<cron, enabled, runStatus, fresh, completedBy, reconciled, intent, missed>>

\* Mutant: the job_runs rows outlive their job.
DropJobKeepingRuns(j) ==
    /\ jobStatus' = [jobStatus EXCEPT ![j] = "deleted"]
    /\ cur' = [cur EXCEPT ![j] = NoRun]
    /\ enabled' = [enabled EXCEPT ![j] = FALSE]
    /\ snapshot' = snapshot \ RunsOf(j)
    /\ UNCHANGED <<cron, fresh, used, runStatus, completedBy, intent, reconciled, missed>>

\* Remove the job's rows.
DropJob(j) ==
    /\ jobStatus' = [jobStatus EXCEPT ![j] = "deleted"]
    /\ cur' = [cur EXCEPT ![j] = NoRun]
    /\ enabled' = [enabled EXCEPT ![j] = FALSE]
    /\ runStatus' = [r \in Runs |-> IF JobOf[r] = j THEN "none" ELSE runStatus[r]]
    /\ completedBy' = [r \in Runs |-> IF JobOf[r] = j THEN "none" ELSE completedBy[r]]
    /\ intent' = [r \in Runs |-> IF JobOf[r] = j THEN "none" ELSE intent[r]]
    /\ snapshot' = snapshot \ RunsOf(j)
    /\ reconciled' = reconciled \ RunsOf(j)
    /\ missed' = missed \ RunsOf(j)
    /\ UNCHANGED <<cron, fresh, used>>

NothingRan(j) == \A r \in RunsOf(j) : runStatus[r] = "none" /\ intent[r] = "none"

\* rollback_queued_submission: forget a submission whose enqueue failed.
RollbackQueuedSubmission(r) ==
    /\ QueuedOn(r)
    /\ NothingRan(JobOf[r])
    /\ DropJob(JobOf[r])

\* rollback_scheduled_job_creation.
RollbackScheduledJobCreation(j) ==
    /\ cron[j]
    /\ jobStatus[j] = "queued"
    /\ cur[j] = NoRun
    /\ NothingRan(j)
    /\ DropJob(j)

-----------------------------------------------------------------------------
(* Execution *)

\* claim_run: one queued delivery becomes the owned running run.
ClaimRun(r) ==
    LET j == JobOf[r] IN
    /\ QueuedOn(r)
    /\ runStatus[r] = "none"        \* job_runs.run_id is a primary key
    /\ jobStatus' = [jobStatus EXCEPT ![j] = "running"]
    /\ runStatus' = [runStatus EXCEPT ![r] = "running"]
    /\ fresh' = [fresh EXCEPT ![r] = TRUE]
    /\ snapshot' = snapshot \ {r}
    /\ UNCHANGED <<cur, cron, enabled, completedBy, reconciled, intent, missed, used>>

\* heartbeat_run.
HeartbeatRun(r) ==
    /\ RunIsActive(r)
    /\ fresh' = [fresh EXCEPT ![r] = TRUE]
    /\ UNCHANGED <<used>> /\ UNCHANGED jobVars /\ UNCHANGED rowVars

\* The heartbeat timeout passes since the last recorded heartbeat.
LeaseExpires(r) ==
    /\ fresh[r]
    /\ fresh' = [fresh EXCEPT ![r] = FALSE]
    /\ UNCHANGED <<used>> /\ UNCHANGED jobVars /\ UNCHANGED rowVars

\* What a transaction that settles the running run r with a status writes.
SettleRun(r, status, author) ==
    /\ jobStatus' = [jobStatus EXCEPT ![JobOf[r]] = status]
    /\ runStatus' = [runStatus EXCEPT ![r] = status]
    /\ completedBy' = [completedBy EXCEPT ![r] = author]
    /\ UNCHANGED <<cur, cron, fresh, missed, used>>

\* Mutant: the job is compared and the run's status is not.
FinalizeLate(r, status, lease) ==
    /\ cur[JobOf[r]] = r /\ runStatus[r] # "none"
    /\ lease
    /\ SettleRun(r, status, "owner")
    /\ reconciled' = reconciled \cup {r}
    /\ intent' = [intent EXCEPT ![r] = IntentFor(r, status)]
    /\ UNCHANGED <<enabled, snapshot>>

\* finalize_owned_run: run, parent and intent in one transaction.  lease says
\* that heartbeat_at is newer than the cutoff the caller computed.
FinalizeOwnedRun(r, status, lease) ==
    /\ RunIsActive(r)
    /\ lease
    /\ SettleRun(r, status, "owner")
    /\ reconciled' = reconciled \cup {r}
    /\ intent' = [intent EXCEPT ![r] = IntentFor(r, status)]
    /\ UNCHANGED <<enabled, snapshot>>

\* Mutant: the failed row is inserted and the parent stays queued.
FailRowOnly(r) ==
    /\ QueuedOn(r)
    /\ runStatus[r] = "none"
    /\ runStatus' = [runStatus EXCEPT ![r] = "failed"]
    /\ completedBy' = [completedBy EXCEPT ![r] = "other"]
    /\ snapshot' = snapshot \ {r}
    /\ UNCHANGED <<jobStatus, cur, cron, enabled, fresh, missed, used, reconciled>>

\* insert_failed_queued_run and the parent update around it: a run that never
\* started gets a failed row.  The row is left to terminal reconciliation.
FailUnstarted(r) ==
    /\ QueuedOn(r)
    /\ runStatus[r] = "none"
    /\ SettleRun(r, "failed", "other")
    /\ snapshot' = snapshot \ {r}
    /\ UNCHANGED <<enabled, reconciled>>

\* fail_queued_run and fail_queued_run_recovery.
FailQueuedRun(r) == FailUnstarted(r) /\ UNCHANGED intent

\* fail_owned_run.  Without an execution context the caller has neither a
\* heartbeat cutoff nor a webhook delivery to pass.
FailOwnedRun(r, context, lease) ==
    /\ \/ FailUnstarted(r)
       \/ /\ RunIsActive(r)
          /\ context => lease
          /\ SettleRun(r, "failed", "other")
          /\ reconciled' = reconciled \cup {r}
          /\ UNCHANGED <<enabled, snapshot>>
    /\ intent' = [intent EXCEPT ![r] = IF context THEN IntentFor(r, "failed") ELSE @]

\* Mutant: recovery sets webhook_reconciled_at without an intent.
RecoverReconciled(r) ==
    /\ RunIsActive(r)
    /\ ~fresh[r]
    /\ SettleRun(r, "failed", "other")
    /\ reconciled' = reconciled \cup {r}
    /\ UNCHANGED <<enabled, snapshot, intent>>

\* recover_stale_run / recover_stale_running_jobs (_recover_current_run).
RecoverStaleRun(r) ==
    /\ RunIsActive(r)
    /\ ~fresh[r]
    /\ SettleRun(r, "failed", "other")
    /\ UNCHANGED <<enabled, snapshot, reconciled, intent>>

\* Mutant: the running row is left to the worker.
CancelJobOnly(j) ==
    /\ jobStatus[j] \in ActiveStatus
    /\ jobStatus' = [jobStatus EXCEPT ![j] = "cancelled"]
    /\ enabled' = [enabled EXCEPT ![j] = FALSE]
    /\ UNCHANGED <<cur, cron, runStatus, fresh, completedBy, snapshot, reconciled, intent,
                   missed, used>>

\* cancel_job.  A queued run's snapshot is kept; no webhook is recorded.
CancelJob(j) ==
    /\ \/ /\ jobStatus[j] = "queued"
          /\ UNCHANGED <<runStatus, completedBy>>
       \/ /\ jobStatus[j] = "running"
          /\ cur[j] # NoRun
          /\ runStatus[cur[j]] = "running"
          /\ runStatus' = [runStatus EXCEPT ![cur[j]] = "cancelled"]
          /\ completedBy' = [completedBy EXCEPT ![cur[j]] = "other"]
    /\ jobStatus' = [jobStatus EXCEPT ![j] = "cancelled"]
    /\ enabled' = [enabled EXCEPT ![j] = FALSE]
    /\ UNCHANGED <<cur, cron, fresh, snapshot, reconciled, intent, missed, used>>

-----------------------------------------------------------------------------
(* Schedule failures, webhook reconciliation and deletion *)

\* The parent of a recorded missed fire takes the failure over unless another
\* run is queued or running.
ParentCanConverge(r) ==
    LET j == JobOf[r] IN
    \/ jobStatus[j] \in Settled
    \/ jobStatus[j] = "queued" /\ cur[j] \in {NoRun, r}

\* The schedule is enabled and the run is not one that started after all.
CanRecordFailure(r) ==
    /\ cron[JobOf[r]] /\ enabled[JobOf[r]]
    /\ jobStatus[JobOf[r]] \in ActiveStatus \cup Settled
    /\ runStatus[r] \in {"none", "failed"}

\* Mutant: the parent fails but keeps its previous current run.
RecordWithoutRun(r) ==
    LET j == JobOf[r] IN
    /\ CanRecordFailure(r)
    /\ runStatus' = [runStatus EXCEPT ![r] = "failed"]
    /\ completedBy' = [completedBy EXCEPT ![r] = "other"]
    /\ reconciled' = reconciled \cup {r}
    /\ missed' = missed \cup {r}
    /\ jobStatus' = [jobStatus EXCEPT ![j] = IF ParentCanConverge(r) THEN "failed" ELSE @]
    /\ used' = used \cup {r}
    /\ UNCHANGED <<cur, cron, enabled, fresh, snapshot, intent>>

\* record_scheduled_trigger_failure.  The row carries no config and is marked
\* reconciled at once: a missed fire has no webhook.
RecordScheduledTriggerFailure(r) ==
    LET j == JobOf[r] IN
    /\ CanRecordFailure(r)
    /\ runStatus' = [runStatus EXCEPT ![r] = "failed"]
    /\ IF runStatus[r] = "none"
         THEN /\ completedBy' = [completedBy EXCEPT ![r] = "other"]
              /\ reconciled' = reconciled \cup {r}
              /\ missed' = missed \cup {r}
         ELSE UNCHANGED <<completedBy, reconciled, missed>>
    /\ IF ParentCanConverge(r)
         THEN /\ jobStatus' = [jobStatus EXCEPT ![j] = "failed"]
              /\ cur' = [cur EXCEPT ![j] = r]
         ELSE UNCHANGED <<jobStatus, cur>>
    /\ used' = used \cup {r}
    /\ UNCHANGED <<cron, enabled, fresh, snapshot, intent>>

\* reconcile_terminal_webhook_candidate for a settled run whose intent was not
\* committed with it.  A parent still running on the run takes its status over.
ReconcileTerminalWebhook(r) ==
    /\ runStatus[r] \in Settled
    /\ r \notin reconciled
    /\ jobStatus[JobOf[r]] # "deleting"
    /\ jobStatus' = [jobStatus EXCEPT ![JobOf[r]] = IF RunningOn(r) THEN runStatus[r] ELSE @]
    /\ intent' = [intent EXCEPT ![r] = IntentFor(r, runStatus[r])]
    /\ reconciled' = reconciled \cup {r}
    /\ UNCHANGED <<cur, cron, enabled, runStatus, fresh, completedBy, snapshot, missed, used>>

\* The dispatcher delivers the event or gives it up (mark_delivered, mark_failed).
SettleDelivery(r) ==
    /\ intent[r] = "pending"
    /\ intent' = [intent EXCEPT ![r] = "done"]
    /\ UNCHANGED <<runStatus, fresh, completedBy, snapshot, reconciled, missed, used>>
    /\ UNCHANGED jobVars

\* Mutant: the current run is not spared.
PruneCurrentToo(r) ==
    /\ cron[JobOf[r]]
    /\ runStatus[r] \in Settled
    /\ r \in reconciled
    /\ intent[r] # "pending"
    /\ runStatus' = [runStatus EXCEPT ![r] = "none"]
    /\ completedBy' = [completedBy EXCEPT ![r] = "none"]
    /\ intent' = [intent EXCEPT ![r] = "none"]
    /\ reconciled' = reconciled \ {r}
    /\ missed' = missed \ {r}
    /\ UNCHANGED <<fresh, snapshot, used>> /\ UNCHANGED jobVars

\* prune_scheduled_run_for_retention: a settled run of a scheduled job that is
\* not the current one, whose event is settled and scrubbed, leaves the history
\* with its tombstones once it is too old or one too many.
PruneScheduledRun(r) ==
    /\ cron[JobOf[r]]
    /\ runStatus[r] \in Settled
    /\ cur[JobOf[r]] # r
    /\ r \in reconciled
    /\ intent[r] # "pending"
    /\ runStatus' = [runStatus EXCEPT ![r] = "none"]
    /\ completedBy' = [completedBy EXCEPT ![r] = "none"]
    /\ intent' = [intent EXCEPT ![r] = "none"]
    /\ reconciled' = reconciled \ {r}
    /\ missed' = missed \ {r}
    /\ UNCHANGED <<fresh, snapshot, used>> /\ UNCHANGED jobVars

\* reserve_job_deletion.
ReserveJobDeletion(j) ==
    /\ jobStatus[j] \in Settled \cup {"cancelled"}
    /\ ~PendingWebhook(j)
    /\ jobStatus' = [jobStatus EXCEPT ![j] = "deleting"]
    /\ enabled' = [enabled EXCEPT ![j] = FALSE]
    /\ UNCHANGED <<cur, cron, fresh, used>> /\ UNCHANGED rowVars

\* finalize_job_deletion.
FinalizeJobDeletion(j) ==
    /\ jobStatus[j] = "deleting"
    /\ ~PendingWebhook(j)
    /\ DropJob(j)

-----------------------------------------------------------------------------
StoreNext ==
    \/ \E j \in Jobs :
         \/ \E on \in BOOLEAN : CreateScheduledJob(j, on) \/ SetScheduleEnabled(j, on)
         \/ RollbackScheduledJobCreation(j)
         \/ CancelJob(j)
         \/ ReserveJobDeletion(j)
         \/ FinalizeJobDeletion(j)
    \/ \E r \in Runs :
         \/ SubmitJob(r)
         \/ \E scheduled \in BOOLEAN :
              QueueRun(r, jobStatus[JobOf[r]], cur[JobOf[r]], scheduled)
         \/ RollbackQueuedSubmission(r)
         \/ ClaimRun(r)
         \/ HeartbeatRun(r)
         \/ LeaseExpires(r)
         \/ \E s \in Settled, lease \in BOOLEAN : FinalizeOwnedRun(r, s, lease)
         \/ FailQueuedRun(r)
         \/ \E context, lease \in BOOLEAN : FailOwnedRun(r, context, lease)
         \/ RecoverStaleRun(r)
         \/ RecordScheduledTriggerFailure(r)
         \/ ReconcileTerminalWebhook(r)
         \/ SettleDelivery(r)
         \/ PruneScheduledRun(r)

StoreSpec == StoreInit /\ [][StoreNext]_storeVars

-----------------------------------------------------------------------------
(* Properties *)

\* A job is running exactly while its current run is: no transaction leaves a
\* parent running on a run that has ended, or ends a parent and leaves its
\* current run running, which no recovery sweep would ever look at (the sweeps
\* visit the current runs of running jobs only).
SingleOwner ==
    /\ \A r \in Runs : runStatus[r] = "running" /\ cur[JobOf[r]] = r => RunningOn(r)
    /\ \A j \in Jobs : jobStatus[j] = "running" =>
           /\ cur[j] \in Runs
           /\ runStatus[cur[j]] = "running"

\* The run a queued job waits for can be claimed: it has its config snapshot
\* and no job_runs row that claim_run's INSERT would collide with.
QueuedRunIsClaimable ==
    \A r \in Runs : QueuedOn(r) => r \in snapshot /\ runStatus[r] = "none"

\* A parent in a terminal status reports the outcome of its current run,
\* whichever of the worker, the crash handler, the recovery sweep, the queue
\* reconciliation or the schedule-failure record settled it.
ParentAgreesWithRun ==
    \A j \in Jobs : jobStatus[j] \in Settled =>
        cur[j] \in Runs /\ runStatus[cur[j]] = jobStatus[j]

\* A webhook event exists only for a run that ended in a status the job
\* subscribes to: never for a running or a cancelled one.
IntentsMatchOutcome ==
    \A r \in Runs : intent[r] # "none" => runStatus[r] \in Subscribed

\* The jobs holding an accepted run never exceed the configured backlog,
\* although the reservation is counted only when one is taken.
AdmissionBound == Cardinality(Accepted) <= MaxAccepted

\* The step removes run r from the history of its job: the event is settled and
\* the job has another current run.
Prunes(r) ==
    /\ runStatus'[r] = "none" /\ runStatus[r] \in Settled
    /\ r \in reconciled /\ intent[r] # "pending" /\ intent'[r] = "none"
    /\ cur'[JobOf[r]] \notin {r, NoRun}

\* The step keeps what a terminal run recorded, unless it deletes the job or
\* prunes its history.
KeepsOutcome(r) ==
    runStatus[r] \in Settled \cup {"cancelled"} =>
        \/ jobStatus'[JobOf[r]] = "deleted"
        \/ Prunes(r)
        \/ /\ runStatus'[r] = runStatus[r]
           /\ completedBy'[r] = completedBy[r]
           /\ intent[r] # "none" => intent'[r] # "none"

\* The step takes the running run r out of that state, or its job away from it,
\* only by settling both together or by queueing a fresh run over it.
KeepsOwner(r) ==
    LET j == JobOf[r] IN
    runStatus[r] = "running" =>
        \/ /\ runStatus'[r] = "running"
           /\ RunningOn(r) => \/ RunningOn(r)'
                              \/ jobStatus'[j] = "queued" /\ cur'[j] \in Runs \ used
        \/ RunningOn(r) /\ cur'[j] = r /\ jobStatus'[j] = runStatus'[r]
        \/ ~RunningOn(r) /\ jobStatus'[j] = "deleted"

\* The step leaves a cancelled or reserved job down and unscheduled.
KeepsDown(j) ==
    jobStatus[j] \in {"cancelled", "deleting"} =>
        jobStatus'[j] \in {"cancelled", "deleting", "deleted"} /\ ~enabled'[j]

\* What a terminal run recorded (status, author, webhook intent) is never
\* rewritten by a late worker, a repeated recovery or a reconciliation.  It goes
\* away with the job, or, for a run that is not the current one and whose event
\* is settled, with the retention of the job's history.
OutcomeIsFinal == [][\A r \in Runs : KeepsOutcome(r)]_storeVars

\* A running run ends in one transaction with its parent, and a job leaves a
\* running run only that way or by queue_run, which takes any status its caller
\* saw, an active one too.  The row of a run superseded like this is never
\* settled: it stays running until the job is deleted, because every settling
\* transaction compares the parent's current run.
OwnerEndsWithRun == [][\A r \in Runs : KeepsOwner(r)]_storeVars

\* A cancelled or reserved job is never queued, run or scheduled again.
CancelledStaysDown == [][\A j \in Jobs : KeepsDown(j)]_storeVars

(***************************************************************************)
(* The inductive strengthening of the invariants above: ids and rows stay  *)
(* with the job they were generated for, rows exist only for ids in use,   *)
(* and a job without a row, or without a current run, has none in the      *)
(* other tables either.                                                    *)
(***************************************************************************)
CurrentRunBelongs ==
    \A j \in Jobs : cur[j] # NoRun => JobOf[cur[j]] = j /\ cur[j] \in used

RowsAreOfUsedRuns ==
    \A r \in Runs : r \notin used => runStatus[r] = "none" /\ r \notin snapshot

NoRowsWithoutJob ==
    \A j \in Jobs :
        /\ jobStatus[j] \in {"absent", "deleted"} => cur[j] = NoRun
        /\ cur[j] = NoRun => \A r \in RunsOf(j) : runStatus[r] = "none"

\* A cancelled or reserved job is already unscheduled.
DownIsDisabled ==
    \A j \in Jobs : jobStatus[j] \in {"cancelled", "deleting"} => ~enabled[j]

\* The store's inductive invariant, from which the others are proved for any
\* number of jobs and runs.
StoreInv ==
    /\ StoreTypeOK
    /\ SingleOwner
    /\ QueuedRunIsClaimable
    /\ ParentAgreesWithRun
    /\ IntentsMatchOutcome
    /\ CurrentRunBelongs
    /\ RowsAreOfUsedRuns
    /\ NoRowsWithoutJob
    /\ DownIsDisabled
=============================================================================
