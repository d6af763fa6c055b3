------------------------------ MODULE RunWorker ------------------------------
(***************************************************************************)
(* The execution of runs: queue/worker.py's scrape_task with its heartbeat *)
(* (queue/heartbeat.py), the enqueue side (submission, scheduler, stale    *)
(* queue reconciliation), the cancel endpoint, stale-run recovery, webhook *)
(* reconciliation, and a process that can die between any two steps.       *)
(*                                                                         *)
(* A worker is named by the run it was delivered: arq's in-progress key    *)
(* keeps two deliveries of one run from executing together.  Every await   *)
(* of scrape_task at which another coroutine may change jobs.db, or at     *)
(* which the task may be cancelled, ends a step.                           *)
(***************************************************************************)
EXTENDS JobStore

CONSTANTS
    MaxFaults,      \* bound on injected faults (crashes, I/O errors, lost messages)
    Outcomes        \* the final statuses processing the targets can lead to

ASSUME FaultsAssumption == MaxFaults \in Nat
ASSUME OutcomesAssumption == Outcomes \subseteq Settled

VARIABLES
    delivery,   \* Redis: the state inspect_delivery reports for the run
    worker,     \* the scrape_task executing the run's delivery
    artifact,   \* the result artifact and its results_meta row
    sender,     \* coroutines about to queue or to enqueue the run
    recon,      \* the stale-queue reconciler between inspection and action
    abort,      \* runs in arq's abort set
    waiting,    \* cancel requests waiting for the run's delivery to end
    acked,      \* runs whose cancel request was answered 204
    blind,      \* runs whose artifact was discarded without knowing the outcome
    unannounced,\* running runs failed by a task that had no execution context
    faults      \* faults injected so far

workVars == <<delivery, worker, artifact, sender, recon, abort, waiting, acked, blind,
              unannounced, faults>>
vars == <<storeVars, workVars>>

\* Where the task stands.  The handler around scrape_task, scrape_task's main
\* path, its budget path, and its except blocks.
PreclaimPath == {"fetch", "preFail", "preSweep"}
MainPath == {"load", "claim", "work", "save", "saved", "final", "commit", "committed"}
BudgetPath == {"budget", "budgetSave", "budgetFinal"}
HandlerPath == {"handler", "discard", "delete", "crash", "fail"}

\* then: what the except block does after discarding the artifact.
\* via:  which except block is running ("none" on the main path).
Idle == [pc |-> "idle", context |-> FALSE, beat |-> FALSE, lease |-> FALSE,
         out |-> "none", given |-> FALSE, then |-> "end", via |-> "none"]

WorkerState ==
    [pc : {"idle"} \cup PreclaimPath \cup MainPath \cup BudgetPath \cup HandlerPath,
     context : BOOLEAN,     \* the execution context was loaded
     beat : BOOLEAN,        \* the heartbeat task is running
     lease : BOOLEAN,       \* heartbeat_at is newer than the cutoff it computed
     out : {"none"} \cup Settled,
     given : BOOLEAN,       \* context.finalization.completed_at is set
     then : {"end", "crash"},
     via : {"none", "pre", "lost", "error", "cancel"}]

WorkerTypeOK ==
    /\ StoreTypeOK
    /\ delivery \in [Runs -> {"missing", "queued", "in_progress", "complete"}]
    /\ worker \in [Runs -> WorkerState]
    /\ artifact \in [Runs -> {"none"} \cup Settled]
    /\ sender \in [Runs -> SUBSET {"submit", "reread", "trigger", "recover"}]
    /\ recon \in [run : Runs \cup {NoRun}, seen : {"missing", "complete"}]
    /\ abort \subseteq Runs /\ waiting \subseteq Runs /\ acked \subseteq Runs
    /\ blind \subseteq Runs /\ unannounced \subseteq Runs
    /\ faults \in 0..MaxFaults

NoRecon == [run |-> NoRun, seen |-> "missing"]

Init ==
    /\ StoreInit
    /\ delivery = [r \in Runs |-> "missing"]
    /\ worker = [r \in Runs |-> Idle]
    /\ artifact = [r \in Runs |-> "none"]
    /\ sender = [r \in Runs |-> {}]
    /\ recon = NoRecon
    /\ abort = {} /\ waiting = {} /\ acked = {} /\ blind = {} /\ unannounced = {}
    /\ faults = 0

Fault == faults < MaxFaults /\ faults' = faults + 1

-----------------------------------------------------------------------------
(* Acceptance and delivery *)

Quiet == UNCHANGED <<worker, artifact, recon, abort, waiting, acked, blind, unannounced>>

\* submit_scrape_job up to the await on pool.enqueue.
Submit(r) ==
    /\ SubmitJob(r)
    /\ sender' = [sender EXCEPT ![r] = @ \cup {"submit"}]
    /\ Quiet /\ UNCHANGED <<delivery, faults>>

\* _trigger_job up to the await on pool.enqueue, for a job it read without an
\* active run: queue_run compares the row with what was read before the check.
\* Scheduler.tla has the steps of a trigger.
Trigger(r) ==
    /\ cron[JobOf[r]]
    /\ HasNoActiveRun(JobOf[r])
    /\ QueueRun(r, jobStatus[JobOf[r]], cur[JobOf[r]], TRUE)
    /\ sender' = [sender EXCEPT ![r] = @ \cup {"trigger"}]
    /\ Quiet /\ UNCHANGED <<delivery, faults>>

\* _trigger_job for a job whose run is stale: the run is recovered first ...
TriggerStale(r) ==
    /\ cron[JobOf[r]] /\ enabled[JobOf[r]]
    /\ r \notin used
    /\ \E q \in Runs : JobOf[q] = JobOf[r] /\ RecoverStaleRun(q)
    /\ sender' = [sender EXCEPT ![r] = @ \cup {"reread"}]
    /\ Quiet /\ UNCHANGED <<delivery, faults>>

\* ... and the job is read again, without a second check: a run that was queued
\* or claimed in the meantime is superseded.  The trigger may also end here.
TriggerReread(r) ==
    /\ "reread" \in sender[r]
    /\ \/ /\ QueueRun(r, jobStatus[JobOf[r]], cur[JobOf[r]], TRUE)
          /\ sender' = [sender EXCEPT ![r] = (@ \ {"reread"}) \cup {"trigger"}]
       \/ /\ sender' = [sender EXCEPT ![r] = @ \ {"reread"}]
          /\ UNCHANGED storeVars
    /\ Quiet /\ UNCHANGED <<delivery, faults>>

CreateSchedule(j) ==
    /\ CreateScheduledJob(j, TRUE)
    /\ Quiet /\ UNCHANGED <<delivery, sender, faults>>

\* The enqueue script: nothing happens while the run has a delivery or a result.
Enqueued(r) == [delivery EXCEPT ![r] = IF @ = "missing" THEN "queued" ELSE @]

EnqueueReturns(r, who) ==
    /\ who \in sender[r]
    /\ delivery' = Enqueued(r)
    /\ sender' = [sender EXCEPT ![r] = @ \ {who}]
    /\ Quiet /\ UNCHANGED <<faults>> /\ UNCHANGED storeVars

\* pool.enqueue raises, before or after Redis ran the script.  Each caller
\* compensates: an ad-hoc submission without an idempotency receipt is rolled
\* back and one with a receipt is left to reconciliation; a scheduled or
\* recovered run is failed.  A compensation that lost its CAS does nothing.
EnqueueFails(r, who) ==
    /\ who \in sender[r]
    /\ Fault
    /\ \/ UNCHANGED delivery
       \/ delivery[r] = "missing" /\ delivery' = Enqueued(r)
    /\ sender' = [sender EXCEPT ![r] = @ \ {who}]
    /\ \/ who = "submit" /\ RollbackQueuedSubmission(r)
       \/ who = "submit" /\ UNCHANGED storeVars
       \/ who # "submit" /\ FailQueuedRun(r)
       \/ who # "submit" /\ ~QueuedOn(r) /\ UNCHANGED storeVars
    /\ Quiet

\* A queued payload is lost with Redis or outlives its TTL.
LoseDelivery(r) ==
    /\ delivery[r] = "queued"
    /\ Fault
    /\ delivery' = [delivery EXCEPT ![r] = "missing"]
    /\ Quiet /\ UNCHANGED <<sender>> /\ UNCHANGED storeVars

\* The arq result key expires (keep_result).
ResultExpires(r) ==
    /\ delivery[r] = "complete"
    /\ delivery' = [delivery EXCEPT ![r] = "missing"]
    /\ Quiet /\ UNCHANGED <<sender, faults>> /\ UNCHANGED storeVars

\* Mutant: a delivery that is missing is not noticed.
InspectCompleteOnly(r) ==
    /\ recon = NoRecon
    /\ QueuedOn(r)
    /\ delivery[r] = "complete"
    /\ recon' = [run |-> r, seen |-> "complete"]
    /\ UNCHANGED <<delivery, worker, artifact, sender, abort, waiting, acked, blind,
                   unannounced, faults>>
    /\ UNCHANGED storeVars

\* reconcile_stale_queued_job: read the delivery state of a stale queued run...
InspectQueued(r) ==
    /\ recon = NoRecon
    /\ QueuedOn(r)
    /\ delivery[r] \in {"missing", "complete"}
    /\ recon' = [run |-> r, seen |-> delivery[r]]
    /\ UNCHANGED <<delivery, worker, artifact, sender, abort, waiting, acked, blind,
                   unannounced, faults>>
    /\ UNCHANGED storeVars

\* ... then, if the run is still the queued one, fail a delivery that ended
\* without claiming it or a missing one whose stored config cannot be loaded,
\* or reserve and re-enqueue the original run id.
ReconcileQueued(r) ==
    /\ recon.run = r
    /\ recon' = NoRecon
    /\ \/ /\ \/ recon.seen = "complete" /\ UNCHANGED faults
             \/ recon.seen = "missing" /\ Fault
          /\ FailQueuedRun(r)
          /\ UNCHANGED sender
       \/ /\ recon.seen = "missing" /\ QueuedOn(r)
          /\ sender' = [sender EXCEPT ![r] = @ \cup {"recover"}]
          /\ UNCHANGED faults /\ UNCHANGED storeVars
       \/ /\ ~QueuedOn(r)
          /\ UNCHANGED <<sender, faults>> /\ UNCHANGED storeVars
    /\ UNCHANGED <<delivery, worker, artifact, abort, waiting, acked, blind,
                   unannounced>>

-----------------------------------------------------------------------------
(* The task handler and scrape_task *)

WorkerFrame == UNCHANGED <<sender, recon, waiting, acked>>

\* A step that only moves the worker.
Moves(r, state) ==
    /\ worker' = [worker EXCEPT ![r] = state]
    /\ UNCHANGED <<delivery, artifact, abort, blind, unannounced, faults>>
    /\ WorkerFrame

\* scrape_task returns or raises: arq stores the result and drops the
\* in-progress key and the abort request.
Returns(r) ==
    /\ worker' = [worker EXCEPT ![r] = Idle]
    /\ delivery' = [delivery EXCEPT ![r] = "complete"]
    /\ abort' = abort \ {r}
    /\ WorkerFrame

\* Entering an except block stops the heartbeat.
Handling(r, via, then) ==
    [worker[r] EXCEPT !.pc = "discard", !.beat = FALSE, !.via = via, !.then = then]

\* Mutant: the task just ends.
LosesQuietly(r) == Returns(r) /\ UNCHANGED <<artifact, blind, unannounced, faults>>

\* RunOwnershipError / RunHeartbeatLeaseLost.
LosesOwnership(r) == Moves(r, Handling(r, "lost", "end"))

\* arq starts the delivery (unless the run is already executing); one with an
\* abort request left from before a crash ends without reaching the handler.
Start(r) ==
    /\ delivery[r] = "queued"
    /\ \/ /\ r \notin abort
          /\ delivery' = [delivery EXCEPT ![r] = "in_progress"]
          /\ worker' = [worker EXCEPT ![r].pc = "fetch", ![r].via = "pre"]
          /\ UNCHANGED abort
       \/ /\ r \in abort
          /\ delivery' = [delivery EXCEPT ![r] = "complete"]
          /\ abort' = abort \ {r}
          /\ UNCHANGED worker
    /\ WorkerFrame /\ UNCHANGED <<artifact, blind, unannounced, faults>>
    /\ UNCHANGED storeVars

\* The task handler loads the accepted config (get_queued_run_config): a run
\* that is not the queued one any more ends the delivery.
Fetch(r) ==
    /\ worker[r].pc = "fetch"
    /\ UNCHANGED storeVars
    /\ \/ /\ QueuedOn(r)
          /\ Moves(r, [worker[r] EXCEPT !.pc = "load", !.via = "none"])
       \/ /\ ~QueuedOn(r)
          /\ Returns(r) /\ UNCHANGED <<artifact, blind, unannounced, faults>>

\* The config cannot be loaded.
FetchRaises(r) ==
    /\ worker[r].pc = "fetch"
    /\ Fault
    /\ worker' = [worker EXCEPT ![r].pc = "preFail"]
    /\ UNCHANGED <<delivery, artifact, abort, blind, unannounced>>
    /\ WorkerFrame /\ UNCHANGED storeVars

\* A running run failed by a task without an execution context.
Unannounced(r) ==
    IF RunIsActive(r) /\ ~worker[r].context THEN unannounced \cup {r} ELSE unannounced

\* The handler fails the run it was delivered, whatever its state.
PreclaimFail(r) ==
    /\ worker[r].pc = "preFail"
    /\ UNCHANGED <<artifact, blind>>
    /\ \/ /\ FailOwnedRun(r, FALSE, FALSE)
          /\ unannounced' = Unannounced(r)
          /\ worker' = [worker EXCEPT ![r].pc = "preSweep"]
          /\ UNCHANGED <<delivery, abort, faults>> /\ WorkerFrame
       \/ /\ ~QueuedOn(r) /\ ~RunIsActive(r)
          /\ Returns(r) /\ UNCHANGED <<unannounced, faults>> /\ UNCHANGED storeVars
       \/ /\ Fault
          /\ Returns(r) /\ UNCHANGED unannounced /\ UNCHANGED storeVars

\* ... reconciles the webhook intents, an error of which is logged, and ends.
PreclaimSweep(r) ==
    /\ worker[r].pc = "preSweep"
    /\ UNCHANGED <<artifact, blind, unannounced, faults>>
    /\ \/ /\ \E q \in Runs : ReconcileTerminalWebhook(q)
          /\ UNCHANGED <<worker, delivery, abort>> /\ WorkerFrame
       \/ Returns(r) /\ UNCHANGED storeVars

\* _should_skip_delivery.
ShouldSkip(r) ==
    LET j == JobOf[r] IN
    \/ cur[j] # NoRun /\ cur[j] # r
    \/ jobStatus[j] \in Settled \cup {"cancelled", "deleting", "running"}

\* _load_job_execution_context; get_job raises KeyError for a deleted job.
Load(r) ==
    /\ worker[r].pc = "load"
    /\ UNCHANGED storeVars
    /\ \/ /\ jobStatus[JobOf[r]] = "deleted"
          /\ Moves(r, Handling(r, "error", "crash"))
       \/ /\ jobStatus[JobOf[r]] # "deleted" /\ ShouldSkip(r)
          /\ Returns(r) /\ UNCHANGED <<artifact, blind, unannounced, faults>>
       \/ /\ jobStatus[JobOf[r]] # "deleted" /\ ~ShouldSkip(r)
          /\ Moves(r, [worker[r] EXCEPT !.pc = "claim", !.context = TRUE])

\* _mark_run_started, then heartbeat.start.
Claim(r) ==
    /\ worker[r].pc = "claim"
    /\ \/ /\ ClaimRun(r)
          /\ Moves(r, [worker[r] EXCEPT !.pc = "work", !.beat = TRUE])
       \/ /\ ~QueuedOn(r)
          /\ UNCHANGED storeVars
          /\ Returns(r) /\ UNCHANGED <<artifact, blind, unannounced, faults>>

\* The targets are processed; checkpoint before_result_persistence.
FinishTargets(r, out) ==
    /\ worker[r].pc = "work"
    /\ UNCHANGED storeVars
    /\ IF RunIsActive(r)
         THEN Moves(r, [worker[r] EXCEPT !.pc = "save", !.out = out])
         ELSE LosesOwnership(r)

\* save_run_result.
SaveResult(r) ==
    /\ worker[r].pc = "save"
    /\ artifact' = [artifact EXCEPT ![r] = worker[r].out]
    /\ worker' = [worker EXCEPT ![r].pc = "saved"]
    /\ UNCHANGED <<delivery, abort, blind, unannounced, faults>>
    /\ WorkerFrame /\ UNCHANGED storeVars

\* checkpoint after_result_persistence; ensure_owned; heartbeat.stop.
CheckSaved(r) ==
    /\ worker[r].pc = "saved"
    /\ UNCHANGED storeVars
    /\ IF RunIsActive(r)
         THEN Moves(r, [worker[r] EXCEPT !.pc = "final", !.beat = FALSE])
         ELSE LosesOwnership(r)

\* _finalize_job_execution up to the transaction: checkpoint
\* before_terminal_finalization, completed_at and its cutoff.
PrepareFinal(r) ==
    /\ worker[r].pc = "final"
    /\ UNCHANGED storeVars
    /\ IF RunIsActive(r)
         THEN Moves(r, [worker[r] EXCEPT !.pc = "commit", !.lease = fresh[r], !.given = TRUE])
         ELSE LosesOwnership(r)

\* finalize_owned_run, on the normal and on the budget path.
Finalize(r) ==
    /\ worker[r].pc = "commit"
    /\ \/ /\ FinalizeOwnedRun(r, worker[r].out, worker[r].lease)
          /\ Moves(r, [worker[r] EXCEPT !.pc = "committed"])
       \/ /\ ~(RunIsActive(r) /\ worker[r].lease)
          /\ UNCHANGED storeVars
          /\ LosesOwnership(r)

\* The await on the committed transaction resumes; dispatch_webhook; return.
Complete(r) ==
    /\ worker[r].pc = "committed"
    /\ UNCHANGED storeVars
    /\ Returns(r) /\ UNCHANGED <<artifact, blind, unannounced, faults>>

\* BudgetExceeded: at any point between the claim (then the heartbeat is not
\* started) and the end of save_result, which raises it also after the
\* artifact's metadata is committed.
BudgetExceeded(r) ==
    /\ worker[r].pc \in {"work", "save", "saved"}
    /\ Fault
    /\ \E beat \in {worker[r].beat, worker[r].beat /\ worker[r].pc # "work"} :
         worker' = [worker EXCEPT ![r].pc = "budget", ![r].beat = beat]
    /\ UNCHANGED <<delivery, artifact, abort, blind, unannounced>>
    /\ WorkerFrame /\ UNCHANGED storeVars

\* _handle_budget_exhaustion: checkpoint, error record, completed_at.
BudgetCheckpoint(r) ==
    /\ worker[r].pc = "budget"
    /\ UNCHANGED storeVars
    /\ IF RunIsActive(r)
         THEN Moves(r, [worker[r] EXCEPT !.pc = "budgetSave", !.out = "failed",
                                         !.lease = fresh[r]])
         ELSE LosesOwnership(r)

\* checkpoint before_budget_result_persistence and the save, whose failure is
\* only logged.
BudgetSave(r) ==
    /\ worker[r].pc = "budgetSave"
    /\ UNCHANGED storeVars
    /\ \/ ~RunIsActive(r) /\ LosesOwnership(r)
       \/ /\ RunIsActive(r)
          /\ \/ artifact' = [artifact EXCEPT ![r] = "failed"] /\ UNCHANGED faults
             \/ UNCHANGED artifact /\ Fault
          /\ worker' = [worker EXCEPT ![r].pc = "budgetFinal"]
          /\ UNCHANGED <<delivery, abort, blind, unannounced>> /\ WorkerFrame

\* checkpoint after_budget_result_persistence; ensure_owned; heartbeat.stop.
BudgetFinal(r) ==
    /\ worker[r].pc = "budgetFinal"
    /\ UNCHANGED storeVars
    /\ IF RunIsActive(r)
         THEN Moves(r, [worker[r] EXCEPT !.pc = "commit", !.beat = FALSE, !.given = TRUE])
         ELSE LosesOwnership(r)

\* Any other exception of the main path or the budget path.
Raises(r) ==
    /\ worker[r].pc \in (MainPath \ {"committed"}) \cup BudgetPath
    /\ Fault
    /\ worker' = [worker EXCEPT ![r] = Handling(r, "error", "crash")]
    /\ UNCHANGED <<delivery, artifact, abort, blind, unannounced>>
    /\ WorkerFrame /\ UNCHANGED storeVars

-----------------------------------------------------------------------------
(* The heartbeat task *)

\* A heartbeat is recorded; a cutoff computed earlier is older still.
Beat(r) ==
    /\ worker[r].beat
    /\ ~fresh[r]
    /\ HeartbeatRun(r)
    /\ Moves(r, [worker[r] EXCEPT !.lease = TRUE])

\* The store rejects the heartbeat, or writes failed for the whole timeout:
\* _mark_lost cancels the task, whose handler discards and swallows.
HeartbeatLost(r) ==
    /\ worker[r].beat
    /\ \/ ~RunIsActive(r) /\ UNCHANGED faults
       \/ ~fresh[r] /\ Fault
    /\ worker' = [worker EXCEPT ![r] = Handling(r, "lost", "end")]
    /\ UNCHANGED <<delivery, artifact, abort, blind, unannounced>>
    /\ WorkerFrame /\ UNCHANGED storeVars

PassTime(r) ==
    /\ runStatus[r] = "running"
    /\ LeaseExpires(r)
    /\ UNCHANGED workVars

-----------------------------------------------------------------------------
(* The except blocks *)

\* What a CancelledError does where it arrives.  Before scrape_task it escapes.
\* On the main path and inside
\* the handlers of BudgetExceeded and Exception it runs
\* _handle_worker_cancellation; inside the ownership-loss block, or a second
\* time inside the cancellation handler, it escapes.  The crash finalization
\* of the cancellation handler is shielded.
CancelledState(r) ==
    [worker[r] EXCEPT !.pc = "handler", !.beat = FALSE, !.via = "cancel"]

IsCancelled(r) ==
    \/ /\ worker[r].via \in {"none", "error"}
       /\ worker' = [worker EXCEPT ![r] = CancelledState(r)]
       /\ UNCHANGED delivery
    \/ /\ worker[r].via \in {"pre", "lost", "cancel"}
       /\ worker[r].pc \notin {"crash", "fail"}
       /\ worker' = [worker EXCEPT ![r] = Idle]
       /\ delivery' = [delivery EXCEPT ![r] = "complete"]

\* arq's abort poll cancels the task of a run in the abort set.
AbortTask(r) ==
    /\ r \in abort
    /\ worker[r].pc # "idle"
    /\ IsCancelled(r)
    /\ abort' = abort \ {r}
    /\ WorkerFrame /\ UNCHANGED <<artifact, blind, unannounced, faults>>
    /\ UNCHANGED storeVars

\* The pool's shutdown cancels a task that did not drain.
ShutdownTask(r) ==
    /\ worker[r].pc \in PreclaimPath \cup MainPath \cup BudgetPath
    /\ Fault
    /\ IsCancelled(r)
    /\ WorkerFrame /\ UNCHANGED <<artifact, abort, blind, unannounced>>
    /\ UNCHANGED storeVars

\* _handle_worker_cancellation: is the run still active?  An unreadable store
\* counts as active.
CheckActive(r) ==
    /\ worker[r].pc = "handler"
    /\ UNCHANGED storeVars
    /\ \/ Moves(r, [worker[r] EXCEPT !.pc = "discard",
                      !.then = IF RunIsActive(r) THEN "crash" ELSE "end"])
       \/ /\ Fault
          /\ worker' = [worker EXCEPT ![r].pc = "discard", ![r].then = "crash"]
          /\ UNCHANGED <<delivery, artifact, abort, blind, unannounced>> /\ WorkerFrame

\* Mutant: only a failed run is recognised as the owner's.
FinalizedFailedByOwner(r) == worker[r].given /\ runStatus[r] = "failed"

\* _run_finalized_by_owner.
FinalizedByOwner(r) ==
    \/ runStatus[r] \in {"complete", "partial"}
    \/ worker[r].given /\ completedBy[r] = "owner"

\* Leaving the discard: the crash handler computes its cutoff next.
AfterDiscard(r) ==
    IF worker[r].then = "crash" THEN [worker[r] EXCEPT !.pc = "crash"] ELSE Idle

DiscardEnds(r) ==
    /\ worker' = [worker EXCEPT ![r] = AfterDiscard(r)]
    /\ IF worker[r].then = "crash"
         THEN UNCHANGED <<delivery, abort>>
         ELSE delivery' = [delivery EXCEPT ![r] = "complete"] /\ abort' = abort \ {r}
    /\ WorkerFrame

\* _discard_unowned_result reads the run; an unreadable store counts as not
\* finalized.
DiscardRead(r) ==
    /\ worker[r].pc = "discard"
    /\ UNCHANGED storeVars
    /\ \/ /\ FinalizedByOwner(r)
          /\ DiscardEnds(r) /\ UNCHANGED <<artifact, blind, unannounced, faults>>
       \/ /\ ~FinalizedByOwner(r)
          /\ Moves(r, [worker[r] EXCEPT !.pc = "delete"])
       \/ /\ Fault
          /\ blind' = blind \cup {r}
          /\ worker' = [worker EXCEPT ![r].pc = "delete"]
          /\ UNCHANGED <<delivery, artifact, abort, unannounced>> /\ WorkerFrame

\* ... and deletes the artifact; a failure is logged and swallowed.
DiscardDelete(r) ==
    /\ worker[r].pc = "delete"
    /\ UNCHANGED storeVars
    /\ \/ artifact' = [artifact EXCEPT ![r] = "none"] /\ UNCHANGED <<blind, faults>>
       \/ Fault /\ blind' = blind \cup {r} /\ UNCHANGED artifact
    /\ DiscardEnds(r) /\ UNCHANGED unannounced

\* _handle_execution_crash up to the transaction: failed_at and its cutoff.
PrepareFailure(r) ==
    /\ worker[r].pc = "crash"
    /\ Moves(r, [worker[r] EXCEPT !.pc = "fail", !.lease = fresh[r]])
    /\ UNCHANGED storeVars

\* handle_crash: fail_owned_run, best effort.
Fail(r) ==
    /\ worker[r].pc = "fail"
    /\ Returns(r)
    /\ UNCHANGED <<artifact, blind>>
    /\ \/ /\ FailOwnedRun(r, worker[r].context, worker[r].lease)
          /\ unannounced' = Unannounced(r)
          /\ UNCHANGED faults
       \/ /\ ~QueuedOn(r) /\ ~(RunIsActive(r) /\ (worker[r].context => worker[r].lease))
          /\ UNCHANGED <<unannounced, faults>> /\ UNCHANGED storeVars
       \/ Fault /\ UNCHANGED unannounced /\ UNCHANGED storeVars

-----------------------------------------------------------------------------
(* Recovery, reconciliation, cancellation, process death *)

\* Mutant: the sweep fails the job in a transaction of its own.
RecoverJobOnly(r) ==
    /\ RunIsActive(r)
    /\ ~fresh[r]
    /\ jobStatus' = [jobStatus EXCEPT ![JobOf[r]] = "failed"]
    /\ UNCHANGED <<cur, cron, enabled, fresh, used>> /\ UNCHANGED rowVars
    /\ UNCHANGED workVars

\* The periodic and the startup recovery sweep.
Recover(r) == RecoverStaleRun(r) /\ UNCHANGED workVars

\* Mutant: only runs that have a delivery row are visited.
ReconcileKnown(r) ==
    intent[r] # "none" /\ ReconcileTerminalWebhook(r) /\ UNCHANGED workVars

\* reconcile_terminal_webhook_intents.
ReconcileIntent(r) == ReconcileTerminalWebhook(r) /\ UNCHANGED workVars

\* cancel_current_job: the durable cancel, then the queue.  A repeated request
\* finds the job cancelled and only waits for the queue.
CancelRequest(r) ==
    /\ cur[JobOf[r]] = r
    /\ r \notin waiting \cup acked
    /\ \/ CancelJob(JobOf[r])
       \/ jobStatus[JobOf[r]] = "cancelled" /\ UNCHANGED storeVars
    /\ waiting' = waiting \cup {r}
    /\ UNCHANGED <<delivery, worker, artifact, sender, recon, abort, acked, blind,
                   unannounced, faults>>

\* Mutant: the removal does not ask whether the delivery has started.
CancelRemovesStarted(r) ==
    /\ r \in waiting
    /\ delivery[r] \in {"queued", "in_progress"}
    /\ delivery' = [delivery EXCEPT ![r] = "missing"]
    /\ UNCHANGED <<worker, artifact, sender, recon, abort, waiting, acked, blind,
                   unannounced, faults>>
    /\ UNCHANGED storeVars

\* WorkerPool.cancel_run: remove an unstarted delivery, abort a started one.
CancelDelivery(r) ==
    /\ r \in waiting
    /\ \/ /\ delivery[r] = "queued"
          /\ delivery' = [delivery EXCEPT ![r] = "missing"]
          /\ UNCHANGED abort
       \/ /\ delivery[r] = "in_progress"
          /\ r \notin abort
          /\ abort' = abort \cup {r}
          /\ UNCHANGED delivery
    /\ UNCHANGED <<worker, artifact, sender, recon, waiting, acked, blind, unannounced,
                   faults>>
    /\ UNCHANGED storeVars

\* Mutant: the answer does not wait for the worker.
CancelAnswerAtOnce(r) ==
    /\ r \in waiting
    /\ waiting' = waiting \ {r}
    /\ acked' = acked \cup {r}
    /\ UNCHANGED <<delivery, worker, artifact, sender, recon, abort, blind, unannounced,
                   faults>>
    /\ UNCHANGED storeVars

\* Mutant: a complete delivery is not taken for the end of the run.
CancelAnswerMissing(r) ==
    /\ r \in waiting
    /\ delivery[r] = "missing"
    /\ waiting' = waiting \ {r}
    /\ acked' = acked \cup {r}
    /\ UNCHANGED <<delivery, worker, artifact, sender, recon, abort, blind, unannounced,
                   faults>>
    /\ UNCHANGED storeVars

\* The delivery is gone or complete: the request is answered 204.
CancelAnswer(r) ==
    /\ r \in waiting
    /\ delivery[r] \in {"missing", "complete"}
    /\ waiting' = waiting \ {r}
    /\ acked' = acked \cup {r}
    /\ UNCHANGED <<delivery, worker, artifact, sender, recon, abort, blind, unannounced,
                   faults>>
    /\ UNCHANGED storeVars

\* The process dies and restarts: every coroutine is gone, the databases and
\* Redis stay, and startup releases the in-progress keys it left behind
\* (_release_abandoned_deliveries).
ProcessCrash ==
    /\ Fault
    /\ delivery' = [r \in Runs |->
                      IF delivery[r] = "in_progress" THEN "queued" ELSE delivery[r]]
    /\ worker' = [r \in Runs |-> Idle]
    /\ sender' = [r \in Runs |-> {}]
    /\ recon' = NoRecon
    /\ waiting' = {}
    /\ blind' = blind \cup {r \in Runs : worker[r].pc # "idle"}
    /\ UNCHANGED <<artifact, abort, acked, unannounced>> /\ UNCHANGED storeVars

-----------------------------------------------------------------------------
\* The steps of the worker executing run r that only it decides.
WorkerStep(r) ==
    \/ Fetch(r) \/ PreclaimFail(r) \/ PreclaimSweep(r)
    \/ Load(r) \/ Claim(r) \/ SaveResult(r) \/ CheckSaved(r) \/ PrepareFinal(r)
    \/ Finalize(r) \/ Complete(r) \/ BudgetCheckpoint(r) \/ BudgetSave(r) \/ BudgetFinal(r)
    \/ CheckActive(r) \/ DiscardRead(r) \/ DiscardDelete(r) \/ PrepareFailure(r) \/ Fail(r)
    \/ \E out \in Outcomes : FinishTargets(r, out)

Next ==
    \/ \E j \in Jobs : CreateSchedule(j)
    \/ \E r \in Runs :
         \/ Submit(r) \/ Trigger(r) \/ TriggerStale(r) \/ TriggerReread(r)
         \/ \E who \in {"submit", "trigger", "recover"} :
              EnqueueReturns(r, who) \/ EnqueueFails(r, who)
         \/ LoseDelivery(r) \/ ResultExpires(r)
         \/ InspectQueued(r) \/ ReconcileQueued(r)
         \/ Start(r) \/ FetchRaises(r) \/ WorkerStep(r) \/ BudgetExceeded(r) \/ Raises(r)
         \/ Beat(r) \/ HeartbeatLost(r) \/ PassTime(r)
         \/ AbortTask(r) \/ ShutdownTask(r)
         \/ Recover(r) \/ ReconcileIntent(r)
         \/ CancelRequest(r) \/ CancelDelivery(r) \/ CancelAnswer(r)
    \/ ProcessCrash

Spec == Init /\ [][Next]_vars

(***************************************************************************)
(* Fairness.  Coroutines that can run do run, arq's poll starts and aborts *)
(* what it finds, the two reconciliation loops are periodic, and time      *)
(* passes.  Processing the targets ends because the run budget has a       *)
(* deadline.  Nothing is assumed of users, faults or heartbeats.           *)
(***************************************************************************)
Fairness ==
    \A r \in Runs :
        /\ WF_vars(Start(r))
        /\ WF_vars(WorkerStep(r))
        /\ WF_vars(AbortTask(r))
        /\ WF_vars(\E who \in {"submit", "trigger", "recover"} : EnqueueReturns(r, who))
        /\ WF_vars(InspectQueued(r))
        /\ WF_vars(ReconcileQueued(r))
        /\ WF_vars(PassTime(r))
        /\ WF_vars(Recover(r))
        /\ WF_vars(ReconcileIntent(r))
        /\ WF_vars(CancelDelivery(r))
        /\ WF_vars(CancelAnswer(r))

FairSpec == Spec /\ Fairness

-----------------------------------------------------------------------------
(* Properties *)

\* A run recorded complete or partial has the artifact it reports, whatever
\* cancellation, lease loss or exception interrupted its worker, unless the
\* worker had to decide without reading the run (_run_finalized_by_owner's
\* error branch) or the process died.
ReportedResultExists ==
    \A r \in Runs : runStatus[r] \in {"complete", "partial"} =>
        artifact[r] = runStatus[r] \/ r \in blind

\* After a cancel was answered 204 the run's worker writes nothing any more:
\* no new artifact, no terminal status, no webhook intent, even though a
\* submitter or the reconciler may still be about to enqueue the run.
QuietAfterCancel ==
    [][\A r \in acked :
          /\ runStatus'[r] = runStatus[r]
          /\ intent'[r] = intent[r]
          /\ artifact'[r] \in {artifact[r], "none"}]_vars

\* A subscribed outcome is marked reconciled only together with its intent, so
\* no event is lost between the worker's transaction, stale recovery and the
\* reconciliation; a missed fire has none, and a running run failed by a task
\* that never loaded its context is excepted here (see OutcomeAnnounced).
NoLostEvent ==
    \A r \in reconciled : runStatus[r] \in Subscribed =>
        intent[r] # "none" \/ r \in missed \cup unannounced

\* Every terminal transaction of a run inserts the webhook delivery its status
\* requires, or leaves it to the reconciliation.
OutcomeAnnounced ==
    \A r \in reconciled : runStatus[r] \in Subscribed =>
        intent[r] # "none" \/ r \in missed

\* An unowned result is removed before a cancel request is answered 204.
UnownedResultRemoved ==
    \A r \in acked \ blind : artifact[r] = "none"

\* A run that queue_run took the job away from has no result once its worker has
\* ended, wherever in the execution it was overtaken: the worker finds out at its
\* next checkpoint, heartbeat or transaction and discards what it saved, while
\* the newer run goes on.  A blind run and a cancelled one are excepted as above.
SupersededLeavesNoResult ==
    \A r \in Runs : runStatus[r] = "running" /\ cur[JobOf[r]] # r /\ worker[r].pc = "idle" =>
        artifact[r] = "none" \/ r \in blind

\* The worker of a run, running or superseded, holds its in-progress key as long
\* as it executes: the key is what keeps deletion and a second delivery away.
WorkerHoldsDelivery ==
    \A r \in Runs : worker[r].pc # "idle" <=> delivery[r] = "in_progress"

\* The type invariant with it.
WorkerInv == WorkerTypeOK /\ WorkerHoldsDelivery

\* An accepted run does not stay accepted for ever: it is executed, recovered,
\* failed or cancelled, even if its delivery is lost, the process dies while it
\* runs, or its worker is cancelled without recording an outcome.
AcceptedRunSettles ==
    \A r \in Runs : (QueuedOn(r) \/ RunningOn(r)) ~> ~(QueuedOn(r) \/ RunningOn(r))

\* A subscribed outcome is eventually announced.
OutcomeEventuallyReconciled ==
    \A r \in Runs : (runStatus[r] \in Subscribed) ~> (r \in reconciled \/ runStatus[r] = "none")

\* A cancel request whose client keeps waiting is eventually answered.
CancelIsAnswered ==
    \A r \in Runs : (r \in waiting) ~> (r \notin waiting)
=============================================================================
