--------------------------- MODULE RunWorkerProofs ---------------------------
(***************************************************************************)
(* What TLAPS proves of RunWorker.tla for any jobs and runs, any backlog   *)
(* limit and any number of faults: that the workers, senders, reconcilers  *)
(* and cancel requests implement the job store, from which the store's     *)
(* invariants follow for them, that a reported result exists, that no      *)
(* event is lost, and that a run is quiet once its cancel is answered.     *)
(*                                                                         *)
(* The inductive invariant says what the position of a worker in           *)
(* scrape_task tells about the run's row, its delivery and its artifact.   *)
(* The lemmas separate what a transaction does to the rows of a run        *)
(* (KeepsRow, Announced) from what the worker does with its own state.     *)
(***************************************************************************)
EXTENDS RunWorker, JobStoreProofs

Reportable == {"complete", "partial"}
Unfinished == (MainPath \ {"committed"}) \cup BudgetPath
Beating == {"work", "save", "saved"} \cup BudgetPath

(* A worker executes exactly while its delivery is in progress.            *)
HoldsDelivery(r) == worker[r].pc # "idle" <=> delivery[r] = "in_progress"

(* Which except block a position belongs to, and where the heartbeat runs. *)
PathIsSound(r) ==
    /\ worker[r].pc \in PreclaimPath => worker[r].via = "pre" /\ ~worker[r].context
    /\ worker[r].pc = "idle" => ~worker[r].context
    /\ worker[r].beat => worker[r].pc \in Beating

(* What was saved before the outcome is committed.                         *)
OutcomeIsSaved(r) ==
    /\ worker[r].pc \in {"save", "saved", "final", "commit"} => worker[r].out \in Settled
    /\ worker[r].pc \in {"saved", "final"} => artifact[r] = worker[r].out
    /\ worker[r].pc \in {"budgetSave", "budgetFinal"} => worker[r].out = "failed"
    /\ worker[r].pc = "commit" => worker[r].out = "failed" \/ artifact[r] = worker[r].out

(* Only the worker commits an outcome with a result, and it does so last.  *)
CommitsLast(r) ==
    /\ worker[r].pc \in Unfinished => runStatus[r] \notin Reportable
    /\ worker[r].pc = "delete" => runStatus[r] \notin Reportable \/ r \in blind

ResultExists(r) == runStatus[r] \in Reportable => artifact[r] = runStatus[r] \/ r \in blind

(* A run marked reconciled has settled, with its event where it needs one. *)
Announced(r) ==
    r \in reconciled =>
        /\ runStatus[r] \in Settled
        /\ runStatus[r] \in Subscribed => intent[r] # "none" \/ r \in missed \cup unannounced

(* A cancelled job has no running and no settled current run.              *)
CancelledIsDown(r) ==
    jobStatus[JobOf[r]] = "cancelled" /\ cur[JobOf[r]] = r => runStatus[r] \in {"none",
        "cancelled"}

(* The run of a cancel request is down; once answered, a delivery of it    *)
(* does not get past the queued-run check.                                 *)
RequestIsDown(r) ==
    /\ r \in waiting \cup acked =>
           jobStatus[JobOf[r]] = "cancelled" /\ runStatus[r] \in {"none", "cancelled"}
    /\ r \in acked => worker[r].pc \in {"idle"} \cup PreclaimPath

RunInv(r) ==
    /\ HoldsDelivery(r) /\ PathIsSound(r) /\ OutcomeIsSaved(r) /\ CommitsLast(r)
    /\ ResultExists(r) /\ Announced(r) /\ CancelledIsDown(r) /\ RequestIsDown(r)

WorkInv == StoreInv /\ WorkerTypeOK /\ \A r \in Runs : RunInv(r)

-----------------------------------------------------------------------------
(* What a transaction does to the rows of a run.                           *)

(* Nothing but a worker's commit gives a run a result to report, and a     *)
(* cancelled job stays cancelled with the rows it has.                     *)
KeepsRow(q) ==
    /\ runStatus'[q] \in Reportable => runStatus'[q] = runStatus[q]
    /\ jobStatus[JobOf[q]] = "cancelled" => jobStatus'[JobOf[q]] = "cancelled"
    /\ jobStatus[JobOf[q]] = "cancelled" /\ runStatus[q] \in {"none", "cancelled"} =>
           runStatus'[q] = runStatus[q] /\ intent'[q] = intent[q]
    /\ CancelledIsDown(q)'

(* No transaction.                                                         *)
LEMMA StutterKeepsRow ==
  ASSUME NEW q \in Runs, CancelledIsDown(q), Announced(q),
         unannounced \subseteq unannounced',
         UNCHANGED storeVars
  PROVE  KeepsRow(q) /\ Announced(q)'
  BY DEF KeepsRow, Announced, CancelledIsDown, storeVars

(* A scheduled job is created.                                             *)
LEMMA CreateScheduledJobKeepsRow ==
  ASSUME StoreInv, NEW q \in Runs, CancelledIsDown(q), Announced(q),
         unannounced \subseteq unannounced',
         NEW j \in Jobs, CreateScheduledJob(j, TRUE)
  PROVE  KeepsRow(q) /\ Announced(q)'
<1> USE JobOfAssumption, NoRunAssumption, SubscribedAssumption DEF CreateScheduledJob,
    rowVars, StoreInv, StoreTypeOK, Settled, ActiveStatus
<1>1. /\ runStatus'[q] \in Reportable => runStatus'[q] = runStatus[q]
      /\ jobStatus[JobOf[q]] = "cancelled" => jobStatus'[JobOf[q]] = "cancelled"
  BY DEF Reportable
<1>2. jobStatus[JobOf[q]] = "cancelled" /\ runStatus[q] \in {"none", "cancelled"} =>
        runStatus'[q] = runStatus[q] /\ intent'[q] = intent[q]
  OBVIOUS
<1>3. CancelledIsDown(q)'
  BY DEF CancelledIsDown, QueuedRunIsClaimable, QueuedOn, NoRowsWithoutJob,
      CurrentRunBelongs
<1>4. Announced(q)'
  BY DEF Announced
<1> QED BY <1>1, <1>2, <1>3, <1>4 DEF KeepsRow

(* A job is submitted.                                                     *)
LEMMA SubmitJobKeepsRow ==
  ASSUME StoreInv, NEW q \in Runs, CancelledIsDown(q), Announced(q),
         unannounced \subseteq unannounced',
         NEW r \in Runs, SubmitJob(r)
  PROVE  KeepsRow(q) /\ Announced(q)'
<1> USE JobOfAssumption, NoRunAssumption, SubscribedAssumption DEF SubmitJob, StoreInv,
    StoreTypeOK, Settled, ActiveStatus
<1>1. /\ runStatus'[q] \in Reportable => runStatus'[q] = runStatus[q]
      /\ jobStatus[JobOf[q]] = "cancelled" => jobStatus'[JobOf[q]] = "cancelled"
  BY DEF Reportable
<1>2. jobStatus[JobOf[q]] = "cancelled" /\ runStatus[q] \in {"none", "cancelled"} =>
        runStatus'[q] = runStatus[q] /\ intent'[q] = intent[q]
  OBVIOUS
<1>3. CancelledIsDown(q)'
  BY DEF CancelledIsDown, QueuedRunIsClaimable, QueuedOn, NoRowsWithoutJob,
      CurrentRunBelongs
<1>4. Announced(q)'
  BY DEF Announced
<1> QED BY <1>1, <1>2, <1>3, <1>4 DEF KeepsRow

(* A run is queued.                                                        *)
LEMMA QueueRunKeepsRow ==
  ASSUME StoreInv, NEW q \in Runs, CancelledIsDown(q), Announced(q),
         unannounced \subseteq unannounced',
         NEW r \in Runs, QueueRun(r, jobStatus[JobOf[r]], cur[JobOf[r]], TRUE)
  PROVE  KeepsRow(q) /\ Announced(q)'
<1> USE JobOfAssumption, NoRunAssumption, SubscribedAssumption DEF QueueRun, StoreInv, StoreTypeOK, Settled, ActiveStatus
<1>1. /\ runStatus'[q] \in Reportable => runStatus'[q] = runStatus[q]
      /\ jobStatus[JobOf[q]] = "cancelled" => jobStatus'[JobOf[q]] = "cancelled"
  BY DEF Reportable
<1>2. jobStatus[JobOf[q]] = "cancelled" /\ runStatus[q] \in {"none", "cancelled"} =>
        runStatus'[q] = runStatus[q] /\ intent'[q] = intent[q]
  OBVIOUS
<1>3. CancelledIsDown(q)'
  BY DEF CancelledIsDown, QueuedRunIsClaimable, QueuedOn, NoRowsWithoutJob,
      CurrentRunBelongs
<1>4. Announced(q)'
  BY DEF Announced
<1> QED BY <1>1, <1>2, <1>3, <1>4 DEF KeepsRow

(* A submission is rolled back.                                            *)
LEMMA RollbackQueuedSubmissionKeepsRow ==
  ASSUME StoreInv, NEW q \in Runs, CancelledIsDown(q), Announced(q),
         unannounced \subseteq unannounced',
         NEW r \in Runs, RollbackQueuedSubmission(r)
  PROVE  KeepsRow(q) /\ Announced(q)'
<1> USE JobOfAssumption, NoRunAssumption, SubscribedAssumption DEF
    RollbackQueuedSubmission, DropJob, QueuedOn, RunsOf, StoreInv, StoreTypeOK, Settled,
    ActiveStatus
<1>1. /\ runStatus'[q] \in Reportable => runStatus'[q] = runStatus[q]
      /\ jobStatus[JobOf[q]] = "cancelled" => jobStatus'[JobOf[q]] = "cancelled"
  BY DEF Reportable
<1>2. jobStatus[JobOf[q]] = "cancelled" /\ runStatus[q] \in {"none", "cancelled"} =>
        runStatus'[q] = runStatus[q] /\ intent'[q] = intent[q]
  OBVIOUS
<1>3. CancelledIsDown(q)'
  BY DEF CancelledIsDown, QueuedRunIsClaimable, QueuedOn, NoRowsWithoutJob,
      CurrentRunBelongs
<1>4. Announced(q)'
  BY DEF Announced
<1> QED BY <1>1, <1>2, <1>3, <1>4 DEF KeepsRow

(* A run is claimed.                                                       *)
LEMMA ClaimRunKeepsRow ==
  ASSUME StoreInv, NEW q \in Runs, CancelledIsDown(q), Announced(q),
         unannounced \subseteq unannounced',
         NEW r \in Runs, ClaimRun(r)
  PROVE  KeepsRow(q) /\ Announced(q)'
<1> USE JobOfAssumption, NoRunAssumption, SubscribedAssumption DEF ClaimRun, QueuedOn,
    StoreInv, StoreTypeOK, Settled, ActiveStatus
<1>1. /\ runStatus'[q] \in Reportable => runStatus'[q] = runStatus[q]
      /\ jobStatus[JobOf[q]] = "cancelled" => jobStatus'[JobOf[q]] = "cancelled"
  BY DEF Reportable
<1>2. jobStatus[JobOf[q]] = "cancelled" /\ runStatus[q] \in {"none", "cancelled"} =>
        runStatus'[q] = runStatus[q] /\ intent'[q] = intent[q]
  OBVIOUS
<1>3. CancelledIsDown(q)'
  BY DEF CancelledIsDown, QueuedRunIsClaimable, QueuedOn, NoRowsWithoutJob,
      CurrentRunBelongs
<1>4. Announced(q)'
  BY DEF Announced
<1> QED BY <1>1, <1>2, <1>3, <1>4 DEF KeepsRow

(* A heartbeat is recorded.                                                *)
LEMMA HeartbeatRunKeepsRow ==
  ASSUME StoreInv, NEW q \in Runs, CancelledIsDown(q), Announced(q),
         unannounced \subseteq unannounced',
         NEW r \in Runs, HeartbeatRun(r)
  PROVE  KeepsRow(q) /\ Announced(q)'
<1> USE JobOfAssumption, NoRunAssumption, SubscribedAssumption DEF HeartbeatRun,
    jobVars, rowVars, StoreInv, StoreTypeOK, Settled, ActiveStatus
<1>1. /\ runStatus'[q] \in Reportable => runStatus'[q] = runStatus[q]
      /\ jobStatus[JobOf[q]] = "cancelled" => jobStatus'[JobOf[q]] = "cancelled"
  BY DEF Reportable
<1>2. jobStatus[JobOf[q]] = "cancelled" /\ runStatus[q] \in {"none", "cancelled"} =>
        runStatus'[q] = runStatus[q] /\ intent'[q] = intent[q]
  OBVIOUS
<1>3. CancelledIsDown(q)'
  BY DEF CancelledIsDown, QueuedRunIsClaimable, QueuedOn, NoRowsWithoutJob,
      CurrentRunBelongs
<1>4. Announced(q)'
  BY DEF Announced
<1> QED BY <1>1, <1>2, <1>3, <1>4 DEF KeepsRow

(* A lease expires.                                                        *)
LEMMA LeaseExpiresKeepsRow ==
  ASSUME StoreInv, NEW q \in Runs, CancelledIsDown(q), Announced(q),
         unannounced \subseteq unannounced',
         NEW r \in Runs, LeaseExpires(r)
  PROVE  KeepsRow(q) /\ Announced(q)'
<1> USE JobOfAssumption, NoRunAssumption, SubscribedAssumption DEF LeaseExpires,
    jobVars, rowVars, StoreInv, StoreTypeOK, Settled, ActiveStatus
<1>1. /\ runStatus'[q] \in Reportable => runStatus'[q] = runStatus[q]
      /\ jobStatus[JobOf[q]] = "cancelled" => jobStatus'[JobOf[q]] = "cancelled"
  BY DEF Reportable
<1>2. jobStatus[JobOf[q]] = "cancelled" /\ runStatus[q] \in {"none", "cancelled"} =>
        runStatus'[q] = runStatus[q] /\ intent'[q] = intent[q]
  OBVIOUS
<1>3. CancelledIsDown(q)'
  BY DEF CancelledIsDown, QueuedRunIsClaimable, QueuedOn, NoRowsWithoutJob,
      CurrentRunBelongs
<1>4. Announced(q)'
  BY DEF Announced
<1> QED BY <1>1, <1>2, <1>3, <1>4 DEF KeepsRow

(* A queued run is failed.                                                 *)
LEMMA FailQueuedRunKeepsRow ==
  ASSUME StoreInv, NEW q \in Runs, CancelledIsDown(q), Announced(q),
         unannounced \subseteq unannounced',
         NEW r \in Runs, FailQueuedRun(r)
  PROVE  KeepsRow(q) /\ Announced(q)'
<1> USE JobOfAssumption, NoRunAssumption, SubscribedAssumption DEF FailQueuedRun,
    FailUnstarted, SettleRun, QueuedOn, StoreInv, StoreTypeOK, Settled, ActiveStatus
<1>1. /\ runStatus'[q] \in Reportable => runStatus'[q] = runStatus[q]
      /\ jobStatus[JobOf[q]] = "cancelled" => jobStatus'[JobOf[q]] = "cancelled"
  BY DEF Reportable
<1>2. jobStatus[JobOf[q]] = "cancelled" /\ runStatus[q] \in {"none", "cancelled"} =>
        runStatus'[q] = runStatus[q] /\ intent'[q] = intent[q]
  OBVIOUS
<1>3. CancelledIsDown(q)'
  BY DEF CancelledIsDown, QueuedRunIsClaimable, QueuedOn, NoRowsWithoutJob,
      CurrentRunBelongs
<1>4. Announced(q)'
  BY DEF Announced
<1> QED BY <1>1, <1>2, <1>3, <1>4 DEF KeepsRow

(* A run is failed by its task; without a context nobody is told.          *)
LEMMA FailOwnedRunKeepsRow ==
  ASSUME StoreInv, NEW q \in Runs, CancelledIsDown(q), Announced(q),
         unannounced \subseteq unannounced',
         NEW r \in Runs, NEW context \in BOOLEAN, NEW lease \in BOOLEAN,
         RunIsActive(r) /\ ~context => r \in unannounced',
         FailOwnedRun(r, context, lease)
  PROVE  KeepsRow(q) /\ Announced(q)'
<1> USE JobOfAssumption, NoRunAssumption, SubscribedAssumption DEF StoreInv, StoreTypeOK,
    Settled
<1>0. /\ jobStatus' = [jobStatus EXCEPT ![JobOf[r]] = "failed"]
      /\ runStatus' = [runStatus EXCEPT ![r] = "failed"]
      /\ cur' = cur /\ jobStatus[JobOf[r]] \in {"queued", "running"}
  BY DEF FailOwnedRun, FailUnstarted, SettleRun, QueuedOn, RunIsActive, RunningOn
<1>1. /\ runStatus'[q] \in Reportable => runStatus'[q] = runStatus[q]
      /\ jobStatus[JobOf[q]] = "cancelled" => jobStatus'[JobOf[q]] = "cancelled"
  BY <1>0 DEF Reportable
<1>2. jobStatus[JobOf[q]] = "cancelled" /\ runStatus[q] \in {"none", "cancelled"} =>
        runStatus'[q] = runStatus[q] /\ intent'[q] = intent[q]
  BY <1>0 DEF FailOwnedRun, IntentFor
<1>3. CancelledIsDown(q)'
  BY <1>0 DEF CancelledIsDown
<1>4. Announced(q)'
  BY DEF Announced, FailOwnedRun, FailUnstarted, SettleRun, QueuedOn, RunIsActive,
      RunningOn, IntentFor
<1> QED BY <1>1, <1>2, <1>3, <1>4 DEF KeepsRow

(* A stale run is recovered.                                               *)
LEMMA RecoverStaleRunKeepsRow ==
  ASSUME StoreInv, NEW q \in Runs, CancelledIsDown(q), Announced(q),
         unannounced \subseteq unannounced',
         NEW r \in Runs, RecoverStaleRun(r)
  PROVE  KeepsRow(q) /\ Announced(q)'
<1> USE JobOfAssumption, NoRunAssumption, SubscribedAssumption DEF RecoverStaleRun,
    SettleRun, RunIsActive, RunningOn, StoreInv, StoreTypeOK, Settled, ActiveStatus
<1>1. /\ runStatus'[q] \in Reportable => runStatus'[q] = runStatus[q]
      /\ jobStatus[JobOf[q]] = "cancelled" => jobStatus'[JobOf[q]] = "cancelled"
  BY DEF Reportable
<1>2. jobStatus[JobOf[q]] = "cancelled" /\ runStatus[q] \in {"none", "cancelled"} =>
        runStatus'[q] = runStatus[q] /\ intent'[q] = intent[q]
  OBVIOUS
<1>3. CancelledIsDown(q)'
  BY DEF CancelledIsDown, QueuedRunIsClaimable, QueuedOn, NoRowsWithoutJob,
      CurrentRunBelongs
<1>4. Announced(q)'
  BY DEF Announced
<1> QED BY <1>1, <1>2, <1>3, <1>4 DEF KeepsRow

(* An outcome is reconciled.                                               *)
LEMMA ReconcileTerminalWebhookKeepsRow ==
  ASSUME StoreInv, NEW q \in Runs, CancelledIsDown(q), Announced(q),
         unannounced \subseteq unannounced',
         NEW r \in Runs, ReconcileTerminalWebhook(r)
  PROVE  KeepsRow(q) /\ Announced(q)'
<1>0. jobStatus' = jobStatus /\ cur' = cur /\ runStatus' = runStatus
  <2>1. ~RunningOn(r)
    BY JobOfAssumption, NoRunAssumption DEF ReconcileTerminalWebhook, RunningOn, Settled,
        StoreInv, SingleOwner
  <2> QED BY <2>1 DEF ReconcileTerminalWebhook, StoreInv, StoreTypeOK
<1> USE <1>0, JobOfAssumption, NoRunAssumption, SubscribedAssumption DEF
    ReconcileTerminalWebhook, IntentFor, StoreInv, StoreTypeOK, Settled,
    ActiveStatus
<1>1. /\ runStatus'[q] \in Reportable => runStatus'[q] = runStatus[q]
      /\ jobStatus[JobOf[q]] = "cancelled" => jobStatus'[JobOf[q]] = "cancelled"
  BY DEF Reportable
<1>2. jobStatus[JobOf[q]] = "cancelled" /\ runStatus[q] \in {"none", "cancelled"} =>
        runStatus'[q] = runStatus[q] /\ intent'[q] = intent[q]
  OBVIOUS
<1>3. CancelledIsDown(q)'
  BY DEF CancelledIsDown, QueuedRunIsClaimable, QueuedOn, NoRowsWithoutJob,
      CurrentRunBelongs
<1>4. Announced(q)'
  BY DEF Announced
<1> QED BY <1>1, <1>2, <1>3, <1>4 DEF KeepsRow

(* A job is cancelled.                                                     *)
LEMMA CancelJobKeepsRow ==
  ASSUME StoreInv, NEW q \in Runs, CancelledIsDown(q), Announced(q),
         unannounced \subseteq unannounced',
         NEW j \in Jobs, CancelJob(j)
  PROVE  KeepsRow(q) /\ Announced(q)'
<1> USE JobOfAssumption, NoRunAssumption, SubscribedAssumption DEF CancelJob, QueuedOn,
    StoreInv, StoreTypeOK, Settled, ActiveStatus
<1>1. /\ runStatus'[q] \in Reportable => runStatus'[q] = runStatus[q]
      /\ jobStatus[JobOf[q]] = "cancelled" => jobStatus'[JobOf[q]] = "cancelled"
  BY DEF Reportable
<1>2. jobStatus[JobOf[q]] = "cancelled" /\ runStatus[q] \in {"none", "cancelled"} =>
        runStatus'[q] = runStatus[q] /\ intent'[q] = intent[q]
  OBVIOUS
<1>3. CancelledIsDown(q)'
  BY DEF CancelledIsDown, QueuedRunIsClaimable, QueuedOn, NoRowsWithoutJob,
      CurrentRunBelongs
<1>4. Announced(q)'
  BY DEF Announced
<1> QED BY <1>1, <1>2, <1>3, <1>4 DEF KeepsRow

-----------------------------------------------------------------------------
(* What a step leaves alone.                                               *)

(* A run whose worker, delivery and artifact a step does not touch keeps   *)
(* its part of the invariant.                                              *)
LEMMA UntouchedRun ==
  ASSUME NEW q \in Runs, RunInv(q), KeepsRow(q), Announced(q)',
         worker'[q] = worker[q], delivery'[q] = delivery[q], artifact'[q] = artifact[q],
         q \in blind => q \in blind', q \in waiting' => q \in waiting,
             q \in acked' <=> q \in acked
  PROVE  RunInv(q)'
<1>1. HoldsDelivery(q)' /\ PathIsSound(q)' /\ OutcomeIsSaved(q)'
  BY DEF RunInv, HoldsDelivery, PathIsSound, OutcomeIsSaved
<1>2. CommitsLast(q)' /\ ResultExists(q)'
  BY DEF RunInv, KeepsRow, CommitsLast, ResultExists, Reportable
<1>3. CancelledIsDown(q)'
  BY DEF KeepsRow
<1>4. RequestIsDown(q)'
  BY DEF RunInv, KeepsRow, RequestIsDown
<1> QED BY <1>1, <1>2, <1>3, <1>4 DEF RunInv

(* A worker that goes on changes no other.                                 *)
LEMMA OtherWorkers ==
  ASSUME WorkerTypeOK, NEW r \in Runs, NEW s \in WorkerState,
         worker' = [worker EXCEPT ![r] = s]
  PROVE  /\ worker' \in [Runs -> WorkerState] /\ worker'[r] = s
         /\ \A q \in Runs : q # r => worker'[q] = worker[q]
  BY DEF WorkerTypeOK

(* The state of a worker that is not there.                                *)
LEMMA IdleIsState == Idle \in WorkerState /\ Idle.pc = "idle" /\ ~Idle.context /\ ~Idle.beat
  BY DEF Idle, WorkerState

(* The row of a run whose outcome is committed, and of another run.        *)
LEMMA FinalizeOwnedRunKeepsRow ==
  ASSUME StoreInv, NEW q \in Runs, CancelledIsDown(q), Announced(q),
         unannounced' = unannounced,
         NEW r \in Runs, q # r, NEW status \in Settled, NEW lease \in BOOLEAN,
         FinalizeOwnedRun(r, status, lease)
  PROVE  KeepsRow(q) /\ Announced(q)'
<1> USE JobOfAssumption DEF StoreInv, StoreTypeOK, Settled
<1>1. /\ runStatus'[q] = runStatus[q] /\ intent'[q] = intent[q] /\ cur' = cur /\ missed' = missed
      /\ jobStatus' = [jobStatus EXCEPT ![JobOf[r]] = status]
      /\ jobStatus[JobOf[r]] = "running" /\ (q \in reconciled' => q \in reconciled)
  BY DEF FinalizeOwnedRun, SettleRun, RunIsActive, RunningOn
<1>2. jobStatus[JobOf[q]] = "cancelled" <=> jobStatus'[JobOf[q]] = "cancelled"
  BY <1>1
<1> QED BY <1>1, <1>2 DEF KeepsRow, CancelledIsDown, Announced

(* The row of a run whose outcome is committed.                            *)
LEMMA FinalizedRow ==
  ASSUME StoreInv, NEW r \in Runs, NEW status \in Settled, NEW lease \in BOOLEAN,
         FinalizeOwnedRun(r, status, lease)
  PROVE  /\ runStatus'[r] = status /\ jobStatus'[JobOf[r]] = status
         /\ jobStatus[JobOf[r]] = "running" /\ Announced(r)'
  BY JobOfAssumption DEF FinalizeOwnedRun, SettleRun, RunIsActive, RunningOn, IntentFor,
      Announced,
     StoreInv, StoreTypeOK

(* Once its cancel is answered, a run has no new status, event or artifact. *)
QuietStep ==
    \A r \in acked :
        /\ runStatus'[r] = runStatus[r]
        /\ intent'[r] = intent[r]
        /\ artifact'[r] \in {artifact[r], "none"}

(* A step that keeps the rows and adds no artifact to such a run is quiet. *)
LEMMA KeepsQuiet ==
  ASSUME WorkInv, \A q \in acked : KeepsRow(q),
         \A q \in acked : artifact'[q] \in {artifact[q], "none"}
  PROVE  QuietStep
<1> SUFFICES ASSUME NEW q \in acked
             PROVE  runStatus'[q] = runStatus[q] /\ intent'[q] = intent[q]
  BY DEF QuietStep
<1>1. q \in Runs /\ RequestIsDown(q)
  BY DEF WorkInv, WorkerTypeOK, RunInv
<1> QED BY <1>1 DEF RequestIsDown, KeepsRow

(* A run whose cancel is answered is not past the queued-run check.        *)
LEMMA AnsweredIsEarly ==
  ASSUME WorkInv, NEW q \in acked
  PROVE  q \in Runs /\ worker[q].pc \in {"idle"} \cup PreclaimPath
  BY DEF WorkInv, WorkerTypeOK, RunInv, RequestIsDown

(* The positions of a worker.                                              *)
Positions == {"idle"} \cup PreclaimPath \cup MainPath \cup BudgetPath \cup HandlerPath

(* A scheduled job is created.                                             *)
LEMMA CreateScheduleKeepsInv ==
  ASSUME WorkInv, NEW j \in Jobs, CreateSchedule(j)
  PROVE  WorkInv' /\ [StoreNext]_storeVars /\ QuietStep
<1> USE DEF WorkInv, CreateSchedule, Quiet
<1>1. StoreNext /\ unannounced \subseteq unannounced'
  BY JobOfAssumption DEF StoreNext
<1>2. StoreInv'
  BY <1>1, StoreNextKeepsInv
<1>3. WorkerTypeOK'
  BY <1>2, FaultsAssumption, OutcomesAssumption DEF StoreInv,
    WorkerTypeOK, WorkerState, PreclaimPath, MainPath, BudgetPath, HandlerPath
<1>4. ASSUME NEW q \in Runs PROVE KeepsRow(q) /\ Announced(q)'
  BY CreateScheduledJobKeepsRow DEF RunInv
<1>5. ASSUME NEW q \in Runs PROVE RunInv(q)'
  BY <1>4, UntouchedRun
<1>7. QuietStep
  <2>1. ASSUME NEW q \in acked PROVE q \in Runs /\ KeepsRow(q)
    BY <1>4, <2>1, AnsweredIsEarly
  <2>2. artifact' = artifact
    OBVIOUS
  <2> HIDE DEF WorkInv, CreateSchedule
  <2> QED BY <2>1, <2>2, KeepsQuiet
<1> QED BY <1>1, <1>2, <1>3, <1>5, <1>7

(* A job is submitted.                                                     *)
LEMMA SubmitKeepsInv ==
  ASSUME WorkInv, NEW r \in Runs, Submit(r)
  PROVE  WorkInv' /\ [StoreNext]_storeVars /\ QuietStep
<1> USE DEF WorkInv, Submit, Quiet
<1>1. StoreNext /\ unannounced \subseteq unannounced'
  BY JobOfAssumption DEF StoreNext
<1>2. StoreInv'
  BY <1>1, StoreNextKeepsInv
<1>3. WorkerTypeOK'
  BY <1>2, FaultsAssumption, OutcomesAssumption DEF StoreInv,
    WorkerTypeOK, WorkerState, PreclaimPath, MainPath, BudgetPath, HandlerPath
<1>4. ASSUME NEW q \in Runs PROVE KeepsRow(q) /\ Announced(q)'
  BY SubmitJobKeepsRow DEF RunInv
<1>5. ASSUME NEW q \in Runs, q # r PROVE RunInv(q)'
  BY <1>4, <1>5, UntouchedRun DEF WorkerTypeOK
<1>6. RunInv(r)'
  <2>1. KeepsRow(r) /\ Announced(r)'
    BY <1>4
  <2> QED
    BY <2>1 DEF RunInv, HoldsDelivery, PathIsSound, OutcomeIsSaved, CommitsLast,
        ResultExists, RequestIsDown, Reportable, Unfinished, Beating, PreclaimPath,
        MainPath, BudgetPath, HandlerPath, KeepsRow, WorkerTypeOK, WorkerState
<1>7. QuietStep
  <2>1. ASSUME NEW q \in acked PROVE q \in Runs /\ KeepsRow(q)
    BY <1>4, <2>1, AnsweredIsEarly
  <2>2. artifact' = artifact
    OBVIOUS
  <2> HIDE DEF WorkInv, Submit
  <2> QED BY <2>1, <2>2, KeepsQuiet
<1> QED BY <1>1, <1>2, <1>3, <1>5, <1>6, <1>7

(* A trigger queues a run.                                                 *)
LEMMA TriggerKeepsInv ==
  ASSUME WorkInv, NEW r \in Runs, Trigger(r)
  PROVE  WorkInv' /\ [StoreNext]_storeVars /\ QuietStep
<1> USE DEF WorkInv, Trigger, Quiet
<1>1. StoreNext /\ unannounced \subseteq unannounced'
  BY JobOfAssumption DEF StoreNext
<1>2. StoreInv'
  BY <1>1, StoreNextKeepsInv
<1>3. WorkerTypeOK'
  BY <1>2, FaultsAssumption, OutcomesAssumption DEF StoreInv,
    WorkerTypeOK, WorkerState, PreclaimPath, MainPath, BudgetPath, HandlerPath
<1>4. ASSUME NEW q \in Runs PROVE KeepsRow(q) /\ Announced(q)'
  BY QueueRunKeepsRow DEF RunInv
<1>5. ASSUME NEW q \in Runs, q # r PROVE RunInv(q)'
  BY <1>4, <1>5, UntouchedRun DEF WorkerTypeOK
<1>6. RunInv(r)'
  <2>1. KeepsRow(r) /\ Announced(r)'
    BY <1>4
  <2> QED
    BY <2>1 DEF RunInv, HoldsDelivery, PathIsSound, OutcomeIsSaved, CommitsLast,
        ResultExists, RequestIsDown, Reportable, Unfinished, Beating, PreclaimPath,
        MainPath, BudgetPath, HandlerPath, KeepsRow, WorkerTypeOK, WorkerState
<1>7. QuietStep
  <2>1. ASSUME NEW q \in acked PROVE q \in Runs /\ KeepsRow(q)
    BY <1>4, <2>1, AnsweredIsEarly
  <2>2. artifact' = artifact
    OBVIOUS
  <2> HIDE DEF WorkInv, Trigger
  <2> QED BY <2>1, <2>2, KeepsQuiet
<1> QED BY <1>1, <1>2, <1>3, <1>5, <1>6, <1>7

(* A trigger recovers the stale run of its job.                            *)
LEMMA TriggerStaleKeepsInv ==
  ASSUME WorkInv, NEW r \in Runs, TriggerStale(r)
  PROVE  WorkInv' /\ [StoreNext]_storeVars /\ QuietStep
<1> USE DEF WorkInv, TriggerStale, Quiet
<1>1. StoreNext /\ unannounced \subseteq unannounced'
  BY JobOfAssumption DEF StoreNext
<1>2. StoreInv'
  BY <1>1, StoreNextKeepsInv
<1>3. WorkerTypeOK'
  BY <1>2, FaultsAssumption, OutcomesAssumption DEF StoreInv,
    WorkerTypeOK, WorkerState, PreclaimPath, MainPath, BudgetPath, HandlerPath
<1>4. ASSUME NEW q \in Runs PROVE KeepsRow(q) /\ Announced(q)'
  BY RecoverStaleRunKeepsRow DEF RunInv
<1>5. ASSUME NEW q \in Runs, q # r PROVE RunInv(q)'
  BY <1>4, <1>5, UntouchedRun DEF WorkerTypeOK
<1>6. RunInv(r)'
  <2>1. KeepsRow(r) /\ Announced(r)'
    BY <1>4
  <2> QED
    BY <2>1 DEF RunInv, HoldsDelivery, PathIsSound, OutcomeIsSaved, CommitsLast,
        ResultExists, RequestIsDown, Reportable, Unfinished, Beating, PreclaimPath,
        MainPath, BudgetPath, HandlerPath, KeepsRow, WorkerTypeOK, WorkerState
<1>7. QuietStep
  <2>1. ASSUME NEW q \in acked PROVE q \in Runs /\ KeepsRow(q)
    BY <1>4, <2>1, AnsweredIsEarly
  <2>2. artifact' = artifact
    OBVIOUS
  <2> HIDE DEF WorkInv, TriggerStale
  <2> QED BY <2>1, <2>2, KeepsQuiet
<1> QED BY <1>1, <1>2, <1>3, <1>5, <1>6, <1>7

(* It reads the job again and queues its run, or ends.                     *)
LEMMA TriggerRereadKeepsInv ==
  ASSUME WorkInv, NEW r \in Runs, TriggerReread(r)
  PROVE  WorkInv' /\ [StoreNext]_storeVars /\ QuietStep
<1> USE DEF WorkInv, TriggerReread, Quiet
<1>1. [StoreNext]_storeVars /\ unannounced \subseteq unannounced'
  BY JobOfAssumption DEF StoreNext
<1>2. StoreInv'
  BY <1>1, StoreNextKeepsInv, StutterKeepsInv
<1>3. WorkerTypeOK'
  <2>1. sender' \in [Runs -> SUBSET {"submit", "reread", "trigger", "recover"}]
    <3>1. sender \in [Runs -> SUBSET {"submit", "reread", "trigger", "recover"}]
      BY DEF WorkerTypeOK
    <3>2. PICK S \in SUBSET {"submit", "reread", "trigger", "recover"} :
            sender' = [sender EXCEPT ![r] = S]
      BY <3>1
    <3> QED BY <3>1, <3>2
  <2> QED BY <1>2, <2>1 DEF StoreInv, WorkerTypeOK
<1>4. ASSUME NEW q \in Runs PROVE KeepsRow(q) /\ Announced(q)'
  BY <1>1, QueueRunKeepsRow, StutterKeepsRow DEF RunInv
<1>5. ASSUME NEW q \in Runs, q # r PROVE RunInv(q)'
  BY <1>4, <1>5, UntouchedRun DEF WorkerTypeOK
<1>6. RunInv(r)'
  <2>1. KeepsRow(r) /\ Announced(r)'
    BY <1>4
  <2> QED
    BY <2>1 DEF RunInv, HoldsDelivery, PathIsSound, OutcomeIsSaved, CommitsLast,
        ResultExists, RequestIsDown, Reportable, Unfinished, Beating, PreclaimPath,
        MainPath, BudgetPath, HandlerPath, KeepsRow, WorkerTypeOK, WorkerState
<1>7. QuietStep
  <2>1. ASSUME NEW q \in acked PROVE q \in Runs /\ KeepsRow(q)
    BY <1>4, <2>1, AnsweredIsEarly
  <2>2. artifact' = artifact
    OBVIOUS
  <2> HIDE DEF WorkInv, TriggerReread
  <2> QED BY <2>1, <2>2, KeepsQuiet
<1> QED BY <1>1, <1>2, <1>3, <1>5, <1>6, <1>7

(* An enqueue returns.                                                     *)
LEMMA EnqueueReturnsKeepsInv ==
  ASSUME WorkInv, NEW r \in Runs, NEW who \in {"submit", "trigger", "recover"},
         EnqueueReturns(r, who)
  PROVE  WorkInv' /\ [StoreNext]_storeVars /\ QuietStep
<1> USE DEF WorkInv, EnqueueReturns, Quiet, Enqueued
<1>1. UNCHANGED storeVars /\ unannounced \subseteq unannounced'
  OBVIOUS
<1>2. StoreInv'
  BY <1>1, StutterKeepsInv
<1>3. WorkerTypeOK'
  BY <1>2, FaultsAssumption, OutcomesAssumption DEF StoreInv,
    WorkerTypeOK, WorkerState, PreclaimPath, MainPath, BudgetPath, HandlerPath
<1>4. ASSUME NEW q \in Runs PROVE KeepsRow(q) /\ Announced(q)'
  BY <1>1, StutterKeepsRow DEF RunInv
<1>5. ASSUME NEW q \in Runs, q # r PROVE RunInv(q)'
  BY <1>4, <1>5, UntouchedRun DEF WorkerTypeOK
<1>6. RunInv(r)'
  <2>1. KeepsRow(r) /\ Announced(r)'
    BY <1>4
  <2> QED
    BY <2>1 DEF RunInv, HoldsDelivery, PathIsSound, OutcomeIsSaved, CommitsLast,
        ResultExists, RequestIsDown, Reportable, Unfinished, Beating, PreclaimPath,
        MainPath, BudgetPath, HandlerPath, KeepsRow, WorkerTypeOK, WorkerState
<1>7. QuietStep
  <2>1. ASSUME NEW q \in acked PROVE q \in Runs /\ KeepsRow(q)
    BY <1>4, <2>1, AnsweredIsEarly
  <2>2. artifact' = artifact
    OBVIOUS
  <2> HIDE DEF WorkInv, EnqueueReturns
  <2> QED BY <2>1, <2>2, KeepsQuiet
<1> QED BY <1>1, <1>2, <1>3, <1>5, <1>6, <1>7

(* An enqueue fails.                                                       *)
LEMMA EnqueueFailsKeepsInv ==
  ASSUME WorkInv, NEW r \in Runs, NEW who \in {"submit", "trigger", "recover"},
         EnqueueFails(r, who)
  PROVE  WorkInv' /\ [StoreNext]_storeVars /\ QuietStep
<1> USE DEF WorkInv, EnqueueFails, Quiet, Enqueued, Fault
<1>1. [StoreNext]_storeVars /\ unannounced \subseteq unannounced'
  BY JobOfAssumption DEF StoreNext
<1>2. StoreInv'
  BY <1>1, StoreNextKeepsInv, StutterKeepsInv
<1>3. WorkerTypeOK'
  BY <1>2, FaultsAssumption, OutcomesAssumption DEF StoreInv,
    WorkerTypeOK, WorkerState, PreclaimPath, MainPath, BudgetPath, HandlerPath
<1>4. ASSUME NEW q \in Runs PROVE KeepsRow(q) /\ Announced(q)'
  BY <1>1, RollbackQueuedSubmissionKeepsRow, FailQueuedRunKeepsRow,
      StutterKeepsRow DEF RunInv
<1>5. ASSUME NEW q \in Runs, q # r PROVE RunInv(q)'
  BY <1>4, <1>5, UntouchedRun DEF WorkerTypeOK
<1>6. RunInv(r)'
  <2>1. KeepsRow(r) /\ Announced(r)'
    BY <1>4
  <2> QED
    BY <2>1 DEF RunInv, HoldsDelivery, PathIsSound, OutcomeIsSaved, CommitsLast,
        ResultExists, RequestIsDown, Reportable, Unfinished, Beating, PreclaimPath,
        MainPath, BudgetPath, HandlerPath, KeepsRow, WorkerTypeOK, WorkerState
<1>7. QuietStep
  <2>1. ASSUME NEW q \in acked PROVE q \in Runs /\ KeepsRow(q)
    BY <1>4, <2>1, AnsweredIsEarly
  <2>2. artifact' = artifact
    OBVIOUS
  <2> HIDE DEF WorkInv, EnqueueFails
  <2> QED BY <2>1, <2>2, KeepsQuiet
<1> QED BY <1>1, <1>2, <1>3, <1>5, <1>6, <1>7

(* A delivery is lost.                                                     *)
LEMMA LoseDeliveryKeepsInv ==
  ASSUME WorkInv, NEW r \in Runs, LoseDelivery(r)
  PROVE  WorkInv' /\ [StoreNext]_storeVars /\ QuietStep
<1> USE DEF WorkInv, LoseDelivery, Quiet, Fault
<1>1. UNCHANGED storeVars /\ unannounced \subseteq unannounced'
  OBVIOUS
<1>2. StoreInv'
  BY <1>1, StutterKeepsInv
<1>3. WorkerTypeOK'
  BY <1>2, FaultsAssumption, OutcomesAssumption DEF StoreInv,
    WorkerTypeOK, WorkerState, PreclaimPath, MainPath, BudgetPath, HandlerPath
<1>4. ASSUME NEW q \in Runs PROVE KeepsRow(q) /\ Announced(q)'
  BY <1>1, StutterKeepsRow DEF RunInv
<1>5. ASSUME NEW q \in Runs, q # r PROVE RunInv(q)'
  BY <1>4, <1>5, UntouchedRun DEF WorkerTypeOK
<1>6. RunInv(r)'
  <2>1. KeepsRow(r) /\ Announced(r)'
    BY <1>4
  <2> QED
    BY <2>1 DEF RunInv, HoldsDelivery, PathIsSound, OutcomeIsSaved, CommitsLast,
        ResultExists, RequestIsDown, Reportable, Unfinished, Beating, PreclaimPath,
        MainPath, BudgetPath, HandlerPath, KeepsRow, WorkerTypeOK, WorkerState
<1>7. QuietStep
  <2>1. ASSUME NEW q \in acked PROVE q \in Runs /\ KeepsRow(q)
    BY <1>4, <2>1, AnsweredIsEarly
  <2>2. artifact' = artifact
    OBVIOUS
  <2> HIDE DEF WorkInv, LoseDelivery
  <2> QED BY <2>1, <2>2, KeepsQuiet
<1> QED BY <1>1, <1>2, <1>3, <1>5, <1>6, <1>7

(* A result key expires.                                                   *)
LEMMA ResultExpiresKeepsInv ==
  ASSUME WorkInv, NEW r \in Runs, ResultExpires(r)
  PROVE  WorkInv' /\ [StoreNext]_storeVars /\ QuietStep
<1> USE DEF WorkInv, ResultExpires, Quiet
<1>1. UNCHANGED storeVars /\ unannounced \subseteq unannounced'
  OBVIOUS
<1>2. StoreInv'
  BY <1>1, StutterKeepsInv
<1>3. WorkerTypeOK'
  BY <1>2, FaultsAssumption, OutcomesAssumption DEF StoreInv,
    WorkerTypeOK, WorkerState, PreclaimPath, MainPath, BudgetPath, HandlerPath
<1>4. ASSUME NEW q \in Runs PROVE KeepsRow(q) /\ Announced(q)'
  BY <1>1, StutterKeepsRow DEF RunInv
<1>5. ASSUME NEW q \in Runs, q # r PROVE RunInv(q)'
  BY <1>4, <1>5, UntouchedRun DEF WorkerTypeOK
<1>6. RunInv(r)'
  <2>1. KeepsRow(r) /\ Announced(r)'
    BY <1>4
  <2> QED
    BY <2>1 DEF RunInv, HoldsDelivery, PathIsSound, OutcomeIsSaved, CommitsLast,
        ResultExists, RequestIsDown, Reportable, Unfinished, Beating, PreclaimPath,
        MainPath, BudgetPath, HandlerPath, KeepsRow, WorkerTypeOK, WorkerState
<1>7. QuietStep
  <2>1. ASSUME NEW q \in acked PROVE q \in Runs /\ KeepsRow(q)
    BY <1>4, <2>1, AnsweredIsEarly
  <2>2. artifact' = artifact
    OBVIOUS
  <2> HIDE DEF WorkInv, ResultExpires
  <2> QED BY <2>1, <2>2, KeepsQuiet
<1> QED BY <1>1, <1>2, <1>3, <1>5, <1>6, <1>7

(* A queued run is inspected.                                              *)
LEMMA InspectQueuedKeepsInv ==
  ASSUME WorkInv, NEW r \in Runs, InspectQueued(r)
  PROVE  WorkInv' /\ [StoreNext]_storeVars /\ QuietStep
<1> USE DEF WorkInv, InspectQueued
<1>1. UNCHANGED storeVars /\ unannounced \subseteq unannounced'
  OBVIOUS
<1>2. StoreInv'
  BY <1>1, StutterKeepsInv
<1>3. WorkerTypeOK'
  BY <1>2, FaultsAssumption, OutcomesAssumption DEF StoreInv,
    WorkerTypeOK, WorkerState, PreclaimPath, MainPath, BudgetPath, HandlerPath
<1>4. ASSUME NEW q \in Runs PROVE KeepsRow(q) /\ Announced(q)'
  BY <1>1, StutterKeepsRow DEF RunInv
<1>5. ASSUME NEW q \in Runs, q # r PROVE RunInv(q)'
  BY <1>4, <1>5, UntouchedRun DEF WorkerTypeOK
<1>6. RunInv(r)'
  <2>1. KeepsRow(r) /\ Announced(r)'
    BY <1>4
  <2> QED
    BY <2>1 DEF RunInv, HoldsDelivery, PathIsSound, OutcomeIsSaved, CommitsLast,
        ResultExists, RequestIsDown, Reportable, Unfinished, Beating, PreclaimPath,
        MainPath, BudgetPath, HandlerPath, KeepsRow, WorkerTypeOK, WorkerState
<1>7. QuietStep
  <2>1. ASSUME NEW q \in acked PROVE q \in Runs /\ KeepsRow(q)
    BY <1>4, <2>1, AnsweredIsEarly
  <2>2. artifact' = artifact
    OBVIOUS
  <2> HIDE DEF WorkInv, InspectQueued
  <2> QED BY <2>1, <2>2, KeepsQuiet
<1> QED BY <1>1, <1>2, <1>3, <1>5, <1>6, <1>7

(* A queued run is reconciled.                                             *)
LEMMA ReconcileQueuedKeepsInv ==
  ASSUME WorkInv, NEW r \in Runs, ReconcileQueued(r)
  PROVE  WorkInv' /\ [StoreNext]_storeVars /\ QuietStep
<1> USE DEF WorkInv, ReconcileQueued, NoRecon, Fault
<1>1. [StoreNext]_storeVars /\ unannounced \subseteq unannounced'
  BY JobOfAssumption DEF StoreNext
<1>2. StoreInv'
  BY <1>1, StoreNextKeepsInv, StutterKeepsInv
<1>3. WorkerTypeOK'
  BY <1>2, FaultsAssumption, OutcomesAssumption DEF StoreInv,
    WorkerTypeOK, WorkerState, PreclaimPath, MainPath, BudgetPath, HandlerPath
<1>4. ASSUME NEW q \in Runs PROVE KeepsRow(q) /\ Announced(q)'
  BY <1>1, FailQueuedRunKeepsRow, StutterKeepsRow DEF RunInv
<1>5. ASSUME NEW q \in Runs, q # r PROVE RunInv(q)'
  BY <1>4, <1>5, UntouchedRun DEF WorkerTypeOK
<1>6. RunInv(r)'
  <2>1. KeepsRow(r) /\ Announced(r)'
    BY <1>4
  <2> QED
    BY <2>1 DEF RunInv, HoldsDelivery, PathIsSound, OutcomeIsSaved, CommitsLast,
        ResultExists, RequestIsDown, Reportable, Unfinished, Beating, PreclaimPath,
        MainPath, BudgetPath, HandlerPath, KeepsRow, WorkerTypeOK, WorkerState
<1>7. QuietStep
  <2>1. ASSUME NEW q \in acked PROVE q \in Runs /\ KeepsRow(q)
    BY <1>4, <2>1, AnsweredIsEarly
  <2>2. artifact' = artifact
    OBVIOUS
  <2> HIDE DEF WorkInv, ReconcileQueued
  <2> QED BY <2>1, <2>2, KeepsQuiet
<1> QED BY <1>1, <1>2, <1>3, <1>5, <1>6, <1>7

(* A delivery starts.                                                      *)
LEMMA StartKeepsInv ==
  ASSUME WorkInv, NEW r \in Runs, r \notin abort, Start(r)
  PROVE  WorkInv' /\ [StoreNext]_storeVars /\ QuietStep
<1>w. worker[r] \in WorkerState /\ worker \in [Runs -> WorkerState]
  BY DEF WorkInv, WorkerTypeOK
<1>a. delivery[r] = "queued"
  BY DEF Start
<1>b. /\ worker' = [worker EXCEPT ![r] = [worker[r] EXCEPT !.pc = "fetch", !.via = "pre"]]
      /\ delivery'[r] = "in_progress" /\ artifact'[r] = artifact[r]
  BY <1>w, <1>a DEF Start, WorkerFrame, Moves, Returns, WorkInv, WorkerTypeOK
<1>d. PICK s \in WorkerState :
        /\ worker' = [worker EXCEPT ![r] = s]
        /\ s.pc = "fetch" /\ s.context = worker[r].context /\ s.beat = worker[r].beat
        /\ s.out = worker[r].out /\ s.via = "pre"
        /\ delivery'[r] = "in_progress" /\ artifact'[r] = artifact[r]
  <2>1. PICK t : t = [worker[r] EXCEPT !.pc = "fetch", !.via = "pre"]
    OBVIOUS
  <2>2. "fetch" \in Positions
    BY OutcomesAssumption DEF Positions, PreclaimPath, MainPath, BudgetPath, HandlerPath
  <2>3. /\ t \in WorkerState /\ t.pc = "fetch" /\ t.context = worker[r].context
        /\ t.beat = worker[r].beat /\ t.out = worker[r].out /\ t.via = "pre"
    BY <1>w, <2>1, <2>2 DEF WorkerState, Positions
  <2> QED BY <1>b, <2>1, <2>3
<1>e. /\ worker' \in [Runs -> WorkerState] /\ worker'[r] = s
      /\ \A q \in Runs : q # r => worker'[q] = worker[q]
  BY <1>d, OtherWorkers DEF WorkInv
<1> USE DEF WorkInv, Start, WorkerFrame, Moves, Returns
<1>1. UNCHANGED storeVars /\ unannounced \subseteq unannounced'
  OBVIOUS
<1>2. StoreInv'
  BY <1>1, StutterKeepsInv
<1>3. WorkerTypeOK'
  <2> HIDE DEF WorkInv
  <2>1. UNCHANGED <<sender, recon, waiting, acked>>
    OBVIOUS
  <2>2. /\ delivery' \in [Runs -> {"missing", "queued", "in_progress", "complete"}]
        /\ artifact' \in [Runs -> {"none"} \cup Settled]
    BY <1>w DEF WorkInv, WorkerTypeOK, WorkerState, Settled
  <2>3. abort' \subseteq Runs /\ blind' \subseteq Runs /\ unannounced' \subseteq Runs
    BY DEF WorkInv, WorkerTypeOK
  <2>4. faults' \in 0..MaxFaults
    BY FaultsAssumption DEF WorkInv, WorkerTypeOK
  <2> HIDE DEF Start
  <2> QED BY <1>2, <1>e, <2>1, <2>2, <2>3, <2>4 DEF WorkInv, StoreInv, WorkerTypeOK
<1>4. ASSUME NEW q \in Runs PROVE KeepsRow(q) /\ Announced(q)'
  BY <1>1, StutterKeepsRow DEF RunInv
<1>5. ASSUME NEW q \in Runs, q # r PROVE RunInv(q)'
  <2>1. worker'[q] = worker[q]
    BY <1>5, <1>e
  <2>2. /\ delivery'[q] = delivery[q] /\ artifact'[q] = artifact[q] /\ (q \in blind => q \in blind')
        /\ waiting' = waiting /\ acked' = acked
    BY <1>5 DEF WorkerTypeOK
  <2> HIDE DEF Start
  <2> QED BY <1>4, <1>5, <2>1, <2>2, UntouchedRun
<1>6. RunInv(r)'
  <2>0. /\ KeepsRow(r) /\ Announced(r)' /\ RunInv(r) /\ StoreInv
        /\ acked' = acked /\ waiting' = waiting /\ (r \in blind => r \in blind')
    BY <1>4
  <2> HIDE DEF WorkInv, Start
  <2> QED BY <1>a, <1>d, <1>e, <2>0, OutcomesAssumption DEF RunInv, HoldsDelivery,
      PathIsSound, OutcomeIsSaved, CommitsLast, ResultExists, RequestIsDown, Reportable,
      Unfinished, Beating, PreclaimPath, MainPath, BudgetPath, HandlerPath, KeepsRow
<1>7. QuietStep
  <2>1. ASSUME NEW q \in acked PROVE q \in Runs /\ KeepsRow(q)
    BY <1>4, <2>1, AnsweredIsEarly
  <2>2. artifact' = artifact
    OBVIOUS
  <2> HIDE DEF WorkInv, Start
  <2> QED BY <2>1, <2>2, KeepsQuiet
<1> QED BY <1>1, <1>2, <1>3, <1>5, <1>6, <1>7

(* A delivery aborted before it could start ends.                          *)
LEMMA StartAbortedKeepsInv ==
  ASSUME WorkInv, NEW r \in Runs, r \in abort, Start(r)
  PROVE  WorkInv' /\ [StoreNext]_storeVars /\ QuietStep
<1> USE DEF WorkInv, Start, WorkerFrame
<1>1. UNCHANGED storeVars /\ unannounced \subseteq unannounced'
  OBVIOUS
<1>2. StoreInv'
  BY <1>1, StutterKeepsInv
<1>3. WorkerTypeOK'
  BY <1>2 DEF StoreInv, WorkerTypeOK
<1>4. ASSUME NEW q \in Runs PROVE KeepsRow(q) /\ Announced(q)'
  BY <1>1, StutterKeepsRow DEF RunInv
<1>5. ASSUME NEW q \in Runs, q # r PROVE RunInv(q)'
  BY <1>4, <1>5, UntouchedRun DEF WorkerTypeOK
<1>6. RunInv(r)'
  <2>1. KeepsRow(r) /\ Announced(r)'
    BY <1>4
  <2> QED
    BY <2>1 DEF RunInv, HoldsDelivery, PathIsSound, OutcomeIsSaved, CommitsLast,
        ResultExists, RequestIsDown, Reportable, Unfinished, Beating, PreclaimPath,
        MainPath, BudgetPath, HandlerPath, KeepsRow, WorkerTypeOK, WorkerState
<1>7. QuietStep
  <2>1. ASSUME NEW q \in acked PROVE q \in Runs /\ KeepsRow(q)
    BY <1>4, <2>1, AnsweredIsEarly
  <2>2. artifact' = artifact
    OBVIOUS
  <2> HIDE DEF WorkInv, Start
  <2> QED BY <2>1, <2>2, KeepsQuiet
<1> QED BY <1>1, <1>2, <1>3, <1>5, <1>6, <1>7

(* The configuration is fetched.                                           *)
LEMMA FetchKeepsInv ==
  ASSUME WorkInv, NEW r \in Runs, Fetch(r)
  PROVE  WorkInv' /\ [StoreNext]_storeVars /\ QuietStep
<1>w. worker[r] \in WorkerState /\ worker \in [Runs -> WorkerState]
  BY DEF WorkInv, WorkerTypeOK
<1>a. worker[r].pc = "fetch"
  BY DEF Fetch
<1>b. \/ /\ worker' = [worker EXCEPT ![r] = [worker[r] EXCEPT !.pc = "load",
                !.via = "none"]]
         /\ QueuedOn(r) /\ delivery'[r] = delivery[r] /\ artifact'[r] = artifact[r]
      \/ /\ worker' = [worker EXCEPT ![r] = Idle]
         /\ delivery'[r] = "complete" /\ artifact'[r] = artifact[r]
  BY <1>w, <1>a DEF Fetch, WorkerFrame, Moves, Returns, WorkInv, WorkerTypeOK
<1>d. PICK s \in WorkerState :
        /\ worker' = [worker EXCEPT ![r] = s]
        /\ \/ /\ s.pc = "load" /\ s.context = worker[r].context /\ s.beat = worker[r].beat
              /\ s.out = worker[r].out /\ s.via = "none"
              /\ QueuedOn(r) /\ delivery'[r] = delivery[r] /\ artifact'[r] = artifact[r]
           \/ /\ s.pc = "idle" /\ ~s.context /\ ~s.beat
              /\ delivery'[r] = "complete" /\ artifact'[r] = artifact[r]
  <2>1. CASE /\ worker' = [worker EXCEPT ![r] = [worker[r] EXCEPT !.pc = "load",
                    !.via = "none"]]
            /\ QueuedOn(r) /\ delivery'[r] = delivery[r] /\ artifact'[r] = artifact[r]
    <3>1. PICK t : t = [worker[r] EXCEPT !.pc = "load", !.via = "none"]
      OBVIOUS
    <3>2. "load" \in Positions
      BY OutcomesAssumption DEF Positions, PreclaimPath, MainPath, BudgetPath, HandlerPath
    <3>3. /\ t \in WorkerState /\ t.pc = "load" /\ t.context = worker[r].context
          /\ t.beat = worker[r].beat /\ t.out = worker[r].out /\ t.via = "none"
      BY <1>w, <3>1, <3>2 DEF WorkerState, Positions
    <3> QED BY <2>1, <3>1, <3>3
  <2>2. CASE /\ worker' = [worker EXCEPT ![r] = Idle]
            /\ delivery'[r] = "complete" /\ artifact'[r] = artifact[r]
    <3> QED BY <2>2, IdleIsState
  <2> QED BY <1>b, <2>1, <2>2
<1>e. /\ worker' \in [Runs -> WorkerState] /\ worker'[r] = s
      /\ \A q \in Runs : q # r => worker'[q] = worker[q]
  BY <1>d, OtherWorkers DEF WorkInv
<1> USE DEF WorkInv, Fetch, WorkerFrame, Moves, Returns, Idle
<1>1. UNCHANGED storeVars /\ unannounced \subseteq unannounced'
  OBVIOUS
<1>2. StoreInv'
  BY <1>1, StutterKeepsInv
<1>3. WorkerTypeOK'
  <2> HIDE DEF WorkInv
  <2>1. UNCHANGED <<sender, recon, waiting, acked>>
    OBVIOUS
  <2>2. /\ delivery' \in [Runs -> {"missing", "queued", "in_progress", "complete"}]
        /\ artifact' \in [Runs -> {"none"} \cup Settled]
    BY <1>w DEF WorkInv, WorkerTypeOK, WorkerState, Settled
  <2>3. abort' \subseteq Runs /\ blind' \subseteq Runs /\ unannounced' \subseteq Runs
    BY DEF WorkInv, WorkerTypeOK
  <2>4. faults' \in 0..MaxFaults
    BY FaultsAssumption DEF WorkInv, WorkerTypeOK
  <2> HIDE DEF Fetch
  <2> QED BY <1>2, <1>e, <2>1, <2>2, <2>3, <2>4 DEF WorkInv, StoreInv, WorkerTypeOK
<1>4. ASSUME NEW q \in Runs PROVE KeepsRow(q) /\ Announced(q)'
  BY <1>1, StutterKeepsRow DEF RunInv
<1>5. ASSUME NEW q \in Runs, q # r PROVE RunInv(q)'
  <2>1. worker'[q] = worker[q]
    BY <1>5, <1>e
  <2>2. /\ delivery'[q] = delivery[q] /\ artifact'[q] = artifact[q] /\ (q \in blind => q \in blind')
        /\ waiting' = waiting /\ acked' = acked
    BY <1>5 DEF WorkerTypeOK
  <2> HIDE DEF Fetch
  <2> QED BY <1>4, <1>5, <2>1, <2>2, UntouchedRun
<1>6. RunInv(r)'
  <2>0. /\ KeepsRow(r) /\ Announced(r)' /\ RunInv(r) /\ StoreInv
        /\ acked' = acked /\ waiting' = waiting /\ (r \in blind => r \in blind')
    BY <1>4
  <2> HIDE DEF WorkInv, Fetch
  <2>1. CASE /\ s.pc = "load" /\ s.context = worker[r].context /\ s.beat = worker[r].beat
            /\ s.out = worker[r].out /\ s.via = "none"
            /\ QueuedOn(r) /\ delivery'[r] = delivery[r] /\ artifact'[r] = artifact[r]
    BY <1>a, <1>e, <2>0, <2>1, OutcomesAssumption DEF RunInv, HoldsDelivery,
        PathIsSound, OutcomeIsSaved, CommitsLast, ResultExists, RequestIsDown,
        Reportable, Unfinished, Beating, PreclaimPath, MainPath, BudgetPath,
        HandlerPath, KeepsRow, QueuedOn, StoreInv, QueuedRunIsClaimable
  <2>2. CASE /\ s.pc = "idle" /\ ~s.context /\ ~s.beat
            /\ delivery'[r] = "complete" /\ artifact'[r] = artifact[r]
    BY <1>a, <1>e, <2>0, <2>2, OutcomesAssumption DEF RunInv, HoldsDelivery,
        PathIsSound, OutcomeIsSaved, CommitsLast, ResultExists, RequestIsDown,
        Reportable, Unfinished, Beating, PreclaimPath, MainPath, BudgetPath,
        HandlerPath, KeepsRow
  <2> QED BY <1>d, <2>1, <2>2
<1>7. QuietStep
  <2>1. ASSUME NEW q \in acked PROVE q \in Runs /\ KeepsRow(q)
    BY <1>4, <2>1, AnsweredIsEarly
  <2>2. artifact' = artifact
    OBVIOUS
  <2> HIDE DEF WorkInv, Fetch
  <2> QED BY <2>1, <2>2, KeepsQuiet
<1> QED BY <1>1, <1>2, <1>3, <1>5, <1>6, <1>7

(* The configuration cannot be fetched.                                    *)
LEMMA FetchRaisesKeepsInv ==
  ASSUME WorkInv, NEW r \in Runs, FetchRaises(r)
  PROVE  WorkInv' /\ [StoreNext]_storeVars /\ QuietStep
<1>w. worker[r] \in WorkerState /\ worker \in [Runs -> WorkerState]
  BY DEF WorkInv, WorkerTypeOK
<1>a. worker[r].pc = "fetch"
  BY DEF FetchRaises
<1>b. /\ worker' = [worker EXCEPT ![r] = [worker[r] EXCEPT !.pc = "preFail"]]
      /\ delivery'[r] = delivery[r] /\ artifact'[r] = artifact[r]
  BY <1>w, <1>a DEF FetchRaises, WorkerFrame, Moves, Returns, Fault, WorkInv,
      WorkerTypeOK
<1>d. PICK s \in WorkerState :
        /\ worker' = [worker EXCEPT ![r] = s]
        /\ s.pc = "preFail" /\ s.context = worker[r].context /\ s.beat = worker[r].beat
        /\ s.out = worker[r].out /\ s.via = worker[r].via
        /\ delivery'[r] = delivery[r] /\ artifact'[r] = artifact[r]
  <2>1. PICK t : t = [worker[r] EXCEPT !.pc = "preFail"]
    OBVIOUS
  <2>2. "preFail" \in Positions
    BY OutcomesAssumption DEF Positions, PreclaimPath, MainPath, BudgetPath, HandlerPath
  <2>3. /\ t \in WorkerState /\ t.pc = "preFail" /\ t.context = worker[r].context
        /\ t.beat = worker[r].beat /\ t.out = worker[r].out /\ t.via = worker[r].via
    BY <1>w, <2>1, <2>2 DEF WorkerState, Positions
  <2> QED BY <1>b, <2>1, <2>3
<1>e. /\ worker' \in [Runs -> WorkerState] /\ worker'[r] = s
      /\ \A q \in Runs : q # r => worker'[q] = worker[q]
  BY <1>d, OtherWorkers DEF WorkInv
<1> USE DEF WorkInv, FetchRaises, WorkerFrame, Moves, Returns, Fault
<1>1. UNCHANGED storeVars /\ unannounced \subseteq unannounced'
  OBVIOUS
<1>2. StoreInv'
  BY <1>1, StutterKeepsInv
<1>3. WorkerTypeOK'
  <2> HIDE DEF WorkInv
  <2>1. UNCHANGED <<sender, recon, waiting, acked>>
    OBVIOUS
  <2>2. /\ delivery' \in [Runs -> {"missing", "queued", "in_progress", "complete"}]
        /\ artifact' \in [Runs -> {"none"} \cup Settled]
    BY <1>w DEF WorkInv, WorkerTypeOK, WorkerState, Settled
  <2>3. abort' \subseteq Runs /\ blind' \subseteq Runs /\ unannounced' \subseteq Runs
    BY DEF WorkInv, WorkerTypeOK
  <2>4. faults' \in 0..MaxFaults
    BY FaultsAssumption DEF WorkInv, WorkerTypeOK
  <2> HIDE DEF FetchRaises
  <2> QED BY <1>2, <1>e, <2>1, <2>2, <2>3, <2>4 DEF WorkInv, StoreInv, WorkerTypeOK
<1>4. ASSUME NEW q \in Runs PROVE KeepsRow(q) /\ Announced(q)'
  BY <1>1, StutterKeepsRow DEF RunInv
<1>5. ASSUME NEW q \in Runs, q # r PROVE RunInv(q)'
  <2>1. worker'[q] = worker[q]
    BY <1>5, <1>e
  <2>2. /\ delivery'[q] = delivery[q] /\ artifact'[q] = artifact[q] /\ (q \in blind => q \in blind')
        /\ waiting' = waiting /\ acked' = acked
    BY <1>5 DEF WorkerTypeOK
  <2> HIDE DEF FetchRaises
  <2> QED BY <1>4, <1>5, <2>1, <2>2, UntouchedRun
<1>6. RunInv(r)'
  <2>0. /\ KeepsRow(r) /\ Announced(r)' /\ RunInv(r) /\ StoreInv
        /\ acked' = acked /\ waiting' = waiting /\ (r \in blind => r \in blind')
    BY <1>4
  <2> HIDE DEF WorkInv, FetchRaises
  <2> QED BY <1>a, <1>d, <1>e, <2>0, OutcomesAssumption DEF RunInv, HoldsDelivery,
      PathIsSound, OutcomeIsSaved, CommitsLast, ResultExists, RequestIsDown, Reportable,
      Unfinished, Beating, PreclaimPath, MainPath, BudgetPath, HandlerPath, KeepsRow
<1>7. QuietStep
  <2>1. ASSUME NEW q \in acked PROVE q \in Runs /\ KeepsRow(q)
    BY <1>4, <2>1, AnsweredIsEarly
  <2>2. artifact' = artifact
    OBVIOUS
  <2> HIDE DEF WorkInv, FetchRaises
  <2> QED BY <2>1, <2>2, KeepsQuiet
<1> QED BY <1>1, <1>2, <1>3, <1>5, <1>6, <1>7

(* The handler fails the run.                                              *)
LEMMA PreclaimFailKeepsInv ==
  ASSUME WorkInv, NEW r \in Runs, PreclaimFail(r)
  PROVE  WorkInv' /\ [StoreNext]_storeVars /\ QuietStep
<1>w. worker[r] \in WorkerState /\ worker \in [Runs -> WorkerState]
  BY DEF WorkInv, WorkerTypeOK
<1>a. worker[r].pc = "preFail"
  BY DEF PreclaimFail
<1>b. \/ /\ worker' = [worker EXCEPT ![r] = [worker[r] EXCEPT !.pc = "preSweep"]]
         /\ delivery'[r] = delivery[r] /\ artifact'[r] = artifact[r]
      \/ /\ worker' = [worker EXCEPT ![r] = Idle]
         /\ delivery'[r] = "complete" /\ artifact'[r] = artifact[r]
  BY <1>w, <1>a DEF PreclaimFail, WorkerFrame, Moves, Returns, Fault, WorkInv,
      WorkerTypeOK
<1>d. PICK s \in WorkerState :
        /\ worker' = [worker EXCEPT ![r] = s]
        /\ \/ /\ s.pc = "preSweep" /\ s.context = worker[r].context /\ s.beat = worker[r].beat
              /\ s.out = worker[r].out /\ s.via = worker[r].via
              /\ delivery'[r] = delivery[r] /\ artifact'[r] = artifact[r]
           \/ /\ s.pc = "idle" /\ ~s.context /\ ~s.beat
              /\ delivery'[r] = "complete" /\ artifact'[r] = artifact[r]
  <2>1. CASE /\ worker' = [worker EXCEPT ![r] = [worker[r] EXCEPT !.pc = "preSweep"]]
            /\ delivery'[r] = delivery[r] /\ artifact'[r] = artifact[r]
    <3>1. PICK t : t = [worker[r] EXCEPT !.pc = "preSweep"]
      OBVIOUS
    <3>2. "preSweep" \in Positions
      BY OutcomesAssumption DEF Positions, PreclaimPath, MainPath, BudgetPath, HandlerPath
    <3>3. /\ t \in WorkerState /\ t.pc = "preSweep" /\ t.context = worker[r].context
          /\ t.beat = worker[r].beat /\ t.out = worker[r].out /\ t.via = worker[r].via
      BY <1>w, <3>1, <3>2 DEF WorkerState, Positions
    <3> QED BY <2>1, <3>1, <3>3
  <2>2. CASE /\ worker' = [worker EXCEPT ![r] = Idle]
            /\ delivery'[r] = "complete" /\ artifact'[r] = artifact[r]
    <3> QED BY <2>2, IdleIsState
  <2> QED BY <1>b, <2>1, <2>2
<1>e. /\ worker' \in [Runs -> WorkerState] /\ worker'[r] = s
      /\ \A q \in Runs : q # r => worker'[q] = worker[q]
  BY <1>d, OtherWorkers DEF WorkInv
<1> USE DEF WorkInv, PreclaimFail, WorkerFrame, Moves, Returns, Fault, Idle
<1>1. [StoreNext]_storeVars /\ unannounced \subseteq unannounced'
  BY JobOfAssumption DEF StoreNext, Unannounced
<1>2. StoreInv'
  BY <1>1, StoreNextKeepsInv, StutterKeepsInv
<1>3. WorkerTypeOK'
  <2> HIDE DEF WorkInv
  <2>1. UNCHANGED <<sender, recon, waiting, acked>>
    OBVIOUS
  <2>2. /\ delivery' \in [Runs -> {"missing", "queued", "in_progress", "complete"}]
        /\ artifact' \in [Runs -> {"none"} \cup Settled]
    BY <1>w DEF WorkInv, WorkerTypeOK, WorkerState, Settled
  <2>3. abort' \subseteq Runs /\ blind' \subseteq Runs /\ unannounced' \subseteq Runs
    BY DEF WorkInv, WorkerTypeOK, Unannounced
  <2>4. faults' \in 0..MaxFaults
    <3>1. UNCHANGED faults \/ Fault
      BY DEF PreclaimFail
    <3> HIDE DEF PreclaimFail
    <3> QED BY <3>1, FaultsAssumption DEF WorkInv, WorkerTypeOK, Fault
  <2> HIDE DEF PreclaimFail
  <2> QED BY <1>2, <1>e, <2>1, <2>2, <2>3, <2>4 DEF WorkInv, StoreInv, WorkerTypeOK
<1>4. ASSUME NEW q \in Runs PROVE KeepsRow(q) /\ Announced(q)'
  <2>1. CASE FailOwnedRun(r, FALSE, FALSE) /\ unannounced' = Unannounced(r)
    <3>1. worker[r].context = FALSE
      BY <1>a DEF RunInv, PathIsSound, PreclaimPath
    <3>2. RunIsActive(r) => r \in unannounced'
      BY <2>1, <3>1 DEF Unannounced
    <3> QED BY <1>1, <2>1, <3>2, FailOwnedRunKeepsRow DEF RunInv
  <2>2. CASE UNCHANGED storeVars
    BY <1>1, <2>2, StutterKeepsRow DEF RunInv
  <2> QED BY <2>1, <2>2
<1>5. ASSUME NEW q \in Runs, q # r PROVE RunInv(q)'
  <2>1. worker'[q] = worker[q]
    BY <1>5, <1>e
  <2>2. /\ delivery'[q] = delivery[q] /\ artifact'[q] = artifact[q] /\ (q \in blind => q \in blind')
        /\ waiting' = waiting /\ acked' = acked
    BY <1>5 DEF WorkerTypeOK
  <2> HIDE DEF PreclaimFail
  <2> QED BY <1>4, <1>5, <2>1, <2>2, UntouchedRun
<1>6. RunInv(r)'
  <2>0. /\ KeepsRow(r) /\ Announced(r)' /\ RunInv(r) /\ StoreInv
        /\ acked' = acked /\ waiting' = waiting /\ (r \in blind => r \in blind')
    BY <1>4
  <2> HIDE DEF WorkInv, PreclaimFail
  <2>1. CASE /\ s.pc = "preSweep" /\ s.context = worker[r].context /\ s.beat = worker[r].beat
            /\ s.out = worker[r].out /\ s.via = worker[r].via
            /\ delivery'[r] = delivery[r] /\ artifact'[r] = artifact[r]
    BY <1>a, <1>e, <2>0, <2>1, OutcomesAssumption DEF RunInv, HoldsDelivery,
        PathIsSound, OutcomeIsSaved, CommitsLast, ResultExists, RequestIsDown,
        Reportable, Unfinished, Beating, PreclaimPath, MainPath, BudgetPath,
        HandlerPath, KeepsRow
  <2>2. CASE /\ s.pc = "idle" /\ ~s.context /\ ~s.beat
            /\ delivery'[r] = "complete" /\ artifact'[r] = artifact[r]
    BY <1>a, <1>e, <2>0, <2>2, OutcomesAssumption DEF RunInv, HoldsDelivery,
        PathIsSound, OutcomeIsSaved, CommitsLast, ResultExists, RequestIsDown,
        Reportable, Unfinished, Beating, PreclaimPath, MainPath, BudgetPath,
        HandlerPath, KeepsRow
  <2> QED BY <1>d, <2>1, <2>2
<1>7. QuietStep
  <2>1. ASSUME NEW q \in acked PROVE q \in Runs /\ KeepsRow(q)
    BY <1>4, <2>1, AnsweredIsEarly
  <2>2. artifact' = artifact
    OBVIOUS
  <2> HIDE DEF WorkInv, PreclaimFail
  <2> QED BY <2>1, <2>2, KeepsQuiet
<1> QED BY <1>1, <1>2, <1>3, <1>5, <1>6, <1>7

(* The handler sweeps.                                                     *)
LEMMA PreclaimSweepKeepsInv ==
  ASSUME WorkInv, NEW r \in Runs, PreclaimSweep(r)
  PROVE  WorkInv' /\ [StoreNext]_storeVars /\ QuietStep
<1>w. worker[r] \in WorkerState /\ worker \in [Runs -> WorkerState]
  BY DEF WorkInv, WorkerTypeOK
<1>a. worker[r].pc = "preSweep"
  BY DEF PreclaimSweep
<1>b. \/ /\ worker' = [worker EXCEPT ![r] = worker[r]]
         /\ delivery'[r] = delivery[r] /\ artifact'[r] = artifact[r]
      \/ /\ worker' = [worker EXCEPT ![r] = Idle]
         /\ delivery'[r] = "complete" /\ artifact'[r] = artifact[r]
  BY <1>w, <1>a DEF PreclaimSweep, WorkerFrame, Moves, Returns, WorkInv, WorkerTypeOK
<1>d. PICK s \in WorkerState :
        /\ worker' = [worker EXCEPT ![r] = s]
        /\ \/ /\ s.pc = worker[r].pc /\ s.context = worker[r].context /\ s.beat = worker[r].beat
              /\ s.out = worker[r].out /\ s.via = worker[r].via
              /\ delivery'[r] = delivery[r] /\ artifact'[r] = artifact[r]
           \/ /\ s.pc = "idle" /\ ~s.context /\ ~s.beat
              /\ delivery'[r] = "complete" /\ artifact'[r] = artifact[r]
  <2>1. CASE /\ worker' = [worker EXCEPT ![r] = worker[r]]
            /\ delivery'[r] = delivery[r] /\ artifact'[r] = artifact[r]
    <3> QED BY <2>1, <1>w
  <2>2. CASE /\ worker' = [worker EXCEPT ![r] = Idle]
            /\ delivery'[r] = "complete" /\ artifact'[r] = artifact[r]
    <3> QED BY <2>2, IdleIsState
  <2> QED BY <1>b, <2>1, <2>2
<1>e. /\ worker' \in [Runs -> WorkerState] /\ worker'[r] = s
      /\ \A q \in Runs : q # r => worker'[q] = worker[q]
  BY <1>d, OtherWorkers DEF WorkInv
<1> USE DEF WorkInv, PreclaimSweep, WorkerFrame, Moves, Returns, Idle
<1>1. [StoreNext]_storeVars /\ unannounced \subseteq unannounced'
  BY JobOfAssumption DEF StoreNext
<1>2. StoreInv'
  BY <1>1, StoreNextKeepsInv, StutterKeepsInv
<1>3. WorkerTypeOK'
  <2> HIDE DEF WorkInv
  <2>1. UNCHANGED <<sender, recon, waiting, acked>>
    OBVIOUS
  <2>2. /\ delivery' \in [Runs -> {"missing", "queued", "in_progress", "complete"}]
        /\ artifact' \in [Runs -> {"none"} \cup Settled]
    BY <1>w DEF WorkInv, WorkerTypeOK, WorkerState, Settled
  <2>3. abort' \subseteq Runs /\ blind' \subseteq Runs /\ unannounced' \subseteq Runs
    BY DEF WorkInv, WorkerTypeOK
  <2>4. faults' \in 0..MaxFaults
    BY FaultsAssumption DEF WorkInv, WorkerTypeOK
  <2> HIDE DEF PreclaimSweep
  <2> QED BY <1>2, <1>e, <2>1, <2>2, <2>3, <2>4 DEF WorkInv, StoreInv, WorkerTypeOK
<1>4. ASSUME NEW q \in Runs PROVE KeepsRow(q) /\ Announced(q)'
  BY <1>1, ReconcileTerminalWebhookKeepsRow, StutterKeepsRow DEF RunInv
<1>5. ASSUME NEW q \in Runs, q # r PROVE RunInv(q)'
  <2>1. worker'[q] = worker[q]
    BY <1>5, <1>e
  <2>2. /\ delivery'[q] = delivery[q] /\ artifact'[q] = artifact[q] /\ (q \in blind => q \in blind')
        /\ waiting' = waiting /\ acked' = acked
    BY <1>5 DEF WorkerTypeOK
  <2> HIDE DEF PreclaimSweep
  <2> QED BY <1>4, <1>5, <2>1, <2>2, UntouchedRun
<1>6. RunInv(r)'
  <2>0. /\ KeepsRow(r) /\ Announced(r)' /\ RunInv(r) /\ StoreInv
        /\ acked' = acked /\ waiting' = waiting /\ (r \in blind => r \in blind')
    BY <1>4
  <2> HIDE DEF WorkInv, PreclaimSweep
  <2>1. CASE /\ s.pc = worker[r].pc /\ s.context = worker[r].context /\ s.beat = worker[r].beat
            /\ s.out = worker[r].out /\ s.via = worker[r].via
            /\ delivery'[r] = delivery[r] /\ artifact'[r] = artifact[r]
    BY <1>a, <1>e, <2>0, <2>1, OutcomesAssumption DEF RunInv, HoldsDelivery,
        PathIsSound, OutcomeIsSaved, CommitsLast, ResultExists, RequestIsDown,
        Reportable, Unfinished, Beating, PreclaimPath, MainPath, BudgetPath,
        HandlerPath, KeepsRow
  <2>2. CASE /\ s.pc = "idle" /\ ~s.context /\ ~s.beat
            /\ delivery'[r] = "complete" /\ artifact'[r] = artifact[r]
    BY <1>a, <1>e, <2>0, <2>2, OutcomesAssumption DEF RunInv, HoldsDelivery,
        PathIsSound, OutcomeIsSaved, CommitsLast, ResultExists, RequestIsDown,
        Reportable, Unfinished, Beating, PreclaimPath, MainPath, BudgetPath,
        HandlerPath, KeepsRow
  <2> QED BY <1>d, <2>1, <2>2
<1>7. QuietStep
  <2>1. ASSUME NEW q \in acked PROVE q \in Runs /\ KeepsRow(q)
    BY <1>4, <2>1, AnsweredIsEarly
  <2>2. artifact' = artifact
    OBVIOUS
  <2> HIDE DEF WorkInv, PreclaimSweep
  <2> QED BY <2>1, <2>2, KeepsQuiet
<1> QED BY <1>1, <1>2, <1>3, <1>5, <1>6, <1>7

(* The context is loaded.                                                  *)
LEMMA LoadKeepsInv ==
  ASSUME WorkInv, NEW r \in Runs, Load(r)
  PROVE  WorkInv' /\ [StoreNext]_storeVars /\ QuietStep
<1>w. worker[r] \in WorkerState /\ worker \in [Runs -> WorkerState]
  BY DEF WorkInv, WorkerTypeOK
<1>a. worker[r].pc = "load"
  BY DEF Load
<1>b. \/ /\ worker' = [worker EXCEPT ![r] = [worker[r] EXCEPT !.pc = "discard",
                !.beat = FALSE, !.via = "error", !.then = "crash"]]
         /\ delivery'[r] = delivery[r] /\ artifact'[r] = artifact[r]
      \/ /\ worker' = [worker EXCEPT ![r] = Idle]
         /\ delivery'[r] = "complete" /\ artifact'[r] = artifact[r]
      \/ /\ worker' = [worker EXCEPT ![r] = [worker[r] EXCEPT !.pc = "claim",
                !.context = TRUE]]
         /\ delivery'[r] = delivery[r] /\ artifact'[r] = artifact[r]
  BY <1>w, <1>a DEF Load, WorkerFrame, Moves, Returns, Handling, WorkInv, WorkerTypeOK
<1>d. PICK s \in WorkerState :
        /\ worker' = [worker EXCEPT ![r] = s]
        /\ \/ /\ s.pc = "discard" /\ s.context = worker[r].context /\ s.beat = FALSE
              /\ s.out = worker[r].out /\ s.via = "error"
              /\ delivery'[r] = delivery[r] /\ artifact'[r] = artifact[r]
           \/ /\ s.pc = "idle" /\ ~s.context /\ ~s.beat
              /\ delivery'[r] = "complete" /\ artifact'[r] = artifact[r]
           \/ /\ s.pc = "claim" /\ s.context = TRUE /\ s.beat = worker[r].beat
              /\ s.out = worker[r].out /\ s.via = worker[r].via
              /\ delivery'[r] = delivery[r] /\ artifact'[r] = artifact[r]
  <2>1. CASE /\ worker' = [worker EXCEPT ![r] = [worker[r] EXCEPT !.pc = "discard",
                    !.beat = FALSE, !.via = "error", !.then = "crash"]]
            /\ delivery'[r] = delivery[r] /\ artifact'[r] = artifact[r]
    <3>1. PICK t : t = [worker[r] EXCEPT !.pc = "discard", !.beat = FALSE, !.via = "error",
              !.then = "crash"]
      OBVIOUS
    <3>2. "discard" \in Positions
      BY OutcomesAssumption DEF Positions, PreclaimPath, MainPath, BudgetPath, HandlerPath
    <3>3. /\ t \in WorkerState /\ t.pc = "discard" /\ t.context = worker[r].context
          /\ t.beat = FALSE /\ t.out = worker[r].out /\ t.via = "error"
      BY <1>w, <3>1, <3>2 DEF WorkerState, Positions
    <3> QED BY <2>1, <3>1, <3>3
  <2>2. CASE /\ worker' = [worker EXCEPT ![r] = Idle]
            /\ delivery'[r] = "complete" /\ artifact'[r] = artifact[r]
    <3> QED BY <2>2, IdleIsState
  <2>3. CASE /\ worker' = [worker EXCEPT ![r] = [worker[r] EXCEPT !.pc = "claim",
                    !.context = TRUE]]
            /\ delivery'[r] = delivery[r] /\ artifact'[r] = artifact[r]
    <3>1. PICK t : t = [worker[r] EXCEPT !.pc = "claim", !.context = TRUE]
      OBVIOUS
    <3>2. "claim" \in Positions
      BY OutcomesAssumption DEF Positions, PreclaimPath, MainPath, BudgetPath, HandlerPath
    <3>3. /\ t \in WorkerState /\ t.pc = "claim" /\ t.context = TRUE
          /\ t.beat = worker[r].beat /\ t.out = worker[r].out /\ t.via = worker[r].via
      BY <1>w, <3>1, <3>2 DEF WorkerState, Positions
    <3> QED BY <2>3, <3>1, <3>3
  <2> QED BY <1>b, <2>1, <2>2, <2>3
<1>e. /\ worker' \in [Runs -> WorkerState] /\ worker'[r] = s
      /\ \A q \in Runs : q # r => worker'[q] = worker[q]
  BY <1>d, OtherWorkers DEF WorkInv
<1> USE DEF WorkInv, Load, WorkerFrame, Moves, Returns, Idle, Handling
<1>1. UNCHANGED storeVars /\ unannounced \subseteq unannounced'
  OBVIOUS
<1>2. StoreInv'
  BY <1>1, StutterKeepsInv
<1>3. WorkerTypeOK'
  <2> HIDE DEF WorkInv
  <2>1. UNCHANGED <<sender, recon, waiting, acked>>
    OBVIOUS
  <2>2. /\ delivery' \in [Runs -> {"missing", "queued", "in_progress", "complete"}]
        /\ artifact' \in [Runs -> {"none"} \cup Settled]
    BY <1>w DEF WorkInv, WorkerTypeOK, WorkerState, Settled
  <2>3. abort' \subseteq Runs /\ blind' \subseteq Runs /\ unannounced' \subseteq Runs
    BY DEF WorkInv, WorkerTypeOK
  <2>4. faults' \in 0..MaxFaults
    BY FaultsAssumption DEF WorkInv, WorkerTypeOK
  <2> HIDE DEF Load
  <2> QED BY <1>2, <1>e, <2>1, <2>2, <2>3, <2>4 DEF WorkInv, StoreInv, WorkerTypeOK
<1>4. ASSUME NEW q \in Runs PROVE KeepsRow(q) /\ Announced(q)'
  BY <1>1, StutterKeepsRow DEF RunInv
<1>5. ASSUME NEW q \in Runs, q # r PROVE RunInv(q)'
  <2>1. worker'[q] = worker[q]
    BY <1>5, <1>e
  <2>2. /\ delivery'[q] = delivery[q] /\ artifact'[q] = artifact[q] /\ (q \in blind => q \in blind')
        /\ waiting' = waiting /\ acked' = acked
    BY <1>5 DEF WorkerTypeOK
  <2> HIDE DEF Load
  <2> QED BY <1>4, <1>5, <2>1, <2>2, UntouchedRun
<1>6. RunInv(r)'
  <2>0. /\ KeepsRow(r) /\ Announced(r)' /\ RunInv(r) /\ StoreInv
        /\ acked' = acked /\ waiting' = waiting /\ (r \in blind => r \in blind')
    BY <1>4
  <2> HIDE DEF WorkInv, Load
  <2>1. CASE /\ s.pc = "discard" /\ s.context = worker[r].context /\ s.beat = FALSE
            /\ s.out = worker[r].out /\ s.via = "error"
            /\ delivery'[r] = delivery[r] /\ artifact'[r] = artifact[r]
    BY <1>a, <1>e, <2>0, <2>1, OutcomesAssumption DEF RunInv, HoldsDelivery,
        PathIsSound, OutcomeIsSaved, CommitsLast, ResultExists, RequestIsDown,
        Reportable, Unfinished, Beating, PreclaimPath, MainPath, BudgetPath,
        HandlerPath, KeepsRow
  <2>2. CASE /\ s.pc = "idle" /\ ~s.context /\ ~s.beat
            /\ delivery'[r] = "complete" /\ artifact'[r] = artifact[r]
    BY <1>a, <1>e, <2>0, <2>2, OutcomesAssumption DEF RunInv, HoldsDelivery,
        PathIsSound, OutcomeIsSaved, CommitsLast, ResultExists, RequestIsDown,
        Reportable, Unfinished, Beating, PreclaimPath, MainPath, BudgetPath,
        HandlerPath, KeepsRow
  <2>3. CASE /\ s.pc = "claim" /\ s.context = TRUE /\ s.beat = worker[r].beat
            /\ s.out = worker[r].out /\ s.via = worker[r].via
            /\ delivery'[r] = delivery[r] /\ artifact'[r] = artifact[r]
    BY <1>a, <1>e, <2>0, <2>3, OutcomesAssumption DEF RunInv, HoldsDelivery,
        PathIsSound, OutcomeIsSaved, CommitsLast, ResultExists, RequestIsDown,
        Reportable, Unfinished, Beating, PreclaimPath, MainPath, BudgetPath,
        HandlerPath, KeepsRow
  <2> QED BY <1>d, <2>1, <2>2, <2>3
<1>7. QuietStep
  <2>1. ASSUME NEW q \in acked PROVE q \in Runs /\ KeepsRow(q)
    BY <1>4, <2>1, AnsweredIsEarly
  <2>2. artifact' = artifact
    OBVIOUS
  <2> HIDE DEF WorkInv, Load
  <2> QED BY <2>1, <2>2, KeepsQuiet
<1> QED BY <1>1, <1>2, <1>3, <1>5, <1>6, <1>7

(* The run is claimed.                                                     *)
LEMMA ClaimKeepsInv ==
  ASSUME WorkInv, NEW r \in Runs, Claim(r)
  PROVE  WorkInv' /\ [StoreNext]_storeVars /\ QuietStep
<1>w. worker[r] \in WorkerState /\ worker \in [Runs -> WorkerState]
  BY DEF WorkInv, WorkerTypeOK
<1>a. worker[r].pc = "claim"
  BY DEF Claim
<1>b. \/ /\ worker' = [worker EXCEPT ![r] = [worker[r] EXCEPT !.pc = "work", !.beat = TRUE]]
         /\ delivery'[r] = delivery[r] /\ artifact'[r] = artifact[r]
      \/ /\ worker' = [worker EXCEPT ![r] = Idle]
         /\ delivery'[r] = "complete" /\ artifact'[r] = artifact[r]
  BY <1>w, <1>a DEF Claim, WorkerFrame, Moves, Returns, WorkInv, WorkerTypeOK
<1>d. PICK s \in WorkerState :
        /\ worker' = [worker EXCEPT ![r] = s]
        /\ \/ /\ s.pc = "work" /\ s.context = worker[r].context /\ s.beat = TRUE
              /\ s.out = worker[r].out /\ s.via = worker[r].via
              /\ delivery'[r] = delivery[r] /\ artifact'[r] = artifact[r]
           \/ /\ s.pc = "idle" /\ ~s.context /\ ~s.beat
              /\ delivery'[r] = "complete" /\ artifact'[r] = artifact[r]
  <2>1. CASE /\ worker' = [worker EXCEPT ![r] = [worker[r] EXCEPT !.pc = "work",
                    !.beat = TRUE]]
            /\ delivery'[r] = delivery[r] /\ artifact'[r] = artifact[r]
    <3>1. PICK t : t = [worker[r] EXCEPT !.pc = "work", !.beat = TRUE]
      OBVIOUS
    <3>2. "work" \in Positions
      BY OutcomesAssumption DEF Positions, PreclaimPath, MainPath, BudgetPath, HandlerPath
    <3>3. /\ t \in WorkerState /\ t.pc = "work" /\ t.context = worker[r].context
          /\ t.beat = TRUE /\ t.out = worker[r].out /\ t.via = worker[r].via
      BY <1>w, <3>1, <3>2 DEF WorkerState, Positions
    <3> QED BY <2>1, <3>1, <3>3
  <2>2. CASE /\ worker' = [worker EXCEPT ![r] = Idle]
            /\ delivery'[r] = "complete" /\ artifact'[r] = artifact[r]
    <3> QED BY <2>2, IdleIsState
  <2> QED BY <1>b, <2>1, <2>2
<1>e. /\ worker' \in [Runs -> WorkerState] /\ worker'[r] = s
      /\ \A q \in Runs : q # r => worker'[q] = worker[q]
  BY <1>d, OtherWorkers DEF WorkInv
<1> USE DEF WorkInv, Claim, WorkerFrame, Moves, Returns, Idle
<1>1. [StoreNext]_storeVars /\ unannounced \subseteq unannounced'
  BY JobOfAssumption DEF StoreNext
<1>2. StoreInv'
  BY <1>1, StoreNextKeepsInv, StutterKeepsInv
<1>3. WorkerTypeOK'
  <2> HIDE DEF WorkInv
  <2>1. UNCHANGED <<sender, recon, waiting, acked>>
    OBVIOUS
  <2>2. /\ delivery' \in [Runs -> {"missing", "queued", "in_progress", "complete"}]
        /\ artifact' \in [Runs -> {"none"} \cup Settled]
    BY <1>w DEF WorkInv, WorkerTypeOK, WorkerState, Settled
  <2>3. abort' \subseteq Runs /\ blind' \subseteq Runs /\ unannounced' \subseteq Runs
    BY DEF WorkInv, WorkerTypeOK
  <2>4. faults' \in 0..MaxFaults
    BY FaultsAssumption DEF WorkInv, WorkerTypeOK
  <2> HIDE DEF Claim
  <2> QED BY <1>2, <1>e, <2>1, <2>2, <2>3, <2>4 DEF WorkInv, StoreInv, WorkerTypeOK
<1>4. ASSUME NEW q \in Runs PROVE KeepsRow(q) /\ Announced(q)'
  BY <1>1, ClaimRunKeepsRow, StutterKeepsRow DEF RunInv
<1>5. ASSUME NEW q \in Runs, q # r PROVE RunInv(q)'
  <2>1. worker'[q] = worker[q]
    BY <1>5, <1>e
  <2>2. /\ delivery'[q] = delivery[q] /\ artifact'[q] = artifact[q] /\ (q \in blind => q \in blind')
        /\ waiting' = waiting /\ acked' = acked
    BY <1>5 DEF WorkerTypeOK
  <2> HIDE DEF Claim
  <2> QED BY <1>4, <1>5, <2>1, <2>2, UntouchedRun
<1>6. RunInv(r)'
  <2>0. /\ KeepsRow(r) /\ Announced(r)' /\ RunInv(r) /\ StoreInv
        /\ acked' = acked /\ waiting' = waiting /\ (r \in blind => r \in blind')
    BY <1>4
  <2> HIDE DEF WorkInv, Claim
  <2>1. CASE /\ s.pc = "work" /\ s.context = worker[r].context /\ s.beat = TRUE
            /\ s.out = worker[r].out /\ s.via = worker[r].via
            /\ delivery'[r] = delivery[r] /\ artifact'[r] = artifact[r]
    BY <1>a, <1>e, <2>0, <2>1, OutcomesAssumption DEF RunInv, HoldsDelivery,
        PathIsSound, OutcomeIsSaved, CommitsLast, ResultExists, RequestIsDown,
        Reportable, Unfinished, Beating, PreclaimPath, MainPath, BudgetPath,
        HandlerPath, KeepsRow
  <2>2. CASE /\ s.pc = "idle" /\ ~s.context /\ ~s.beat
            /\ delivery'[r] = "complete" /\ artifact'[r] = artifact[r]
    BY <1>a, <1>e, <2>0, <2>2, OutcomesAssumption DEF RunInv, HoldsDelivery,
        PathIsSound, OutcomeIsSaved, CommitsLast, ResultExists, RequestIsDown,
        Reportable, Unfinished, Beating, PreclaimPath, MainPath, BudgetPath,
        HandlerPath, KeepsRow
  <2> QED BY <1>d, <2>1, <2>2
<1>7. QuietStep
  <2>1. ASSUME NEW q \in acked PROVE q \in Runs /\ KeepsRow(q)
    BY <1>4, <2>1, AnsweredIsEarly
  <2>2. artifact' = artifact
    OBVIOUS
  <2> HIDE DEF WorkInv, Claim
  <2> QED BY <2>1, <2>2, KeepsQuiet
<1> QED BY <1>1, <1>2, <1>3, <1>5, <1>6, <1>7

(* The targets are processed.                                              *)
LEMMA FinishTargetsKeepsInv ==
  ASSUME WorkInv, NEW r \in Runs, NEW out \in Outcomes, FinishTargets(r, out)
  PROVE  WorkInv' /\ [StoreNext]_storeVars /\ QuietStep
<1>w. worker[r] \in WorkerState /\ worker \in [Runs -> WorkerState]
  BY DEF WorkInv, WorkerTypeOK
<1>a. worker[r].pc = "work"
  BY DEF FinishTargets
<1>b. \/ /\ worker' = [worker EXCEPT ![r] = [worker[r] EXCEPT !.pc = "save", !.out = out]]
         /\ delivery'[r] = delivery[r] /\ artifact'[r] = artifact[r]
      \/ /\ worker' = [worker EXCEPT ![r] = [worker[r] EXCEPT !.pc = "discard",
                !.beat = FALSE, !.via = "lost", !.then = "end"]]
         /\ delivery'[r] = delivery[r] /\ artifact'[r] = artifact[r]
  BY <1>w, <1>a DEF FinishTargets, WorkerFrame, Moves, Returns, LosesOwnership,
      Handling, WorkInv, WorkerTypeOK
<1>d. PICK s \in WorkerState :
        /\ worker' = [worker EXCEPT ![r] = s]
        /\ \/ /\ s.pc = "save" /\ s.context = worker[r].context /\ s.beat = worker[r].beat
              /\ s.out = out /\ s.via = worker[r].via
              /\ delivery'[r] = delivery[r] /\ artifact'[r] = artifact[r]
           \/ /\ s.pc = "discard" /\ s.context = worker[r].context /\ s.beat = FALSE
              /\ s.out = worker[r].out /\ s.via = "lost"
              /\ delivery'[r] = delivery[r] /\ artifact'[r] = artifact[r]
  <2>1. CASE /\ worker' = [worker EXCEPT ![r] = [worker[r] EXCEPT !.pc = "save",
                    !.out = out]]
            /\ delivery'[r] = delivery[r] /\ artifact'[r] = artifact[r]
    <3>1. PICK t : t = [worker[r] EXCEPT !.pc = "save", !.out = out]
      OBVIOUS
    <3>2. "save" \in Positions /\ out \in {"none"} \cup Settled
      BY OutcomesAssumption DEF Positions, PreclaimPath, MainPath, BudgetPath, HandlerPath,
          Settled
    <3>3. /\ t \in WorkerState /\ t.pc = "save" /\ t.context = worker[r].context
          /\ t.beat = worker[r].beat /\ t.out = out /\ t.via = worker[r].via
      BY <1>w, <3>1, <3>2 DEF WorkerState, Positions
    <3> QED BY <2>1, <3>1, <3>3
  <2>2. CASE /\ worker' = [worker EXCEPT ![r] = [worker[r] EXCEPT !.pc = "discard",
                    !.beat = FALSE, !.via = "lost", !.then = "end"]]
            /\ delivery'[r] = delivery[r] /\ artifact'[r] = artifact[r]
    <3>1. PICK t : t = [worker[r] EXCEPT !.pc = "discard", !.beat = FALSE, !.via = "lost",
              !.then = "end"]
      OBVIOUS
    <3>2. "discard" \in Positions
      BY OutcomesAssumption DEF Positions, PreclaimPath, MainPath, BudgetPath, HandlerPath
    <3>3. /\ t \in WorkerState /\ t.pc = "discard" /\ t.context = worker[r].context
          /\ t.beat = FALSE /\ t.out = worker[r].out /\ t.via = "lost"
      BY <1>w, <3>1, <3>2 DEF WorkerState, Positions
    <3> QED BY <2>2, <3>1, <3>3
  <2> QED BY <1>b, <2>1, <2>2
<1>e. /\ worker' \in [Runs -> WorkerState] /\ worker'[r] = s
      /\ \A q \in Runs : q # r => worker'[q] = worker[q]
  BY <1>d, OtherWorkers DEF WorkInv
<1> USE DEF WorkInv, FinishTargets, WorkerFrame, Moves, Returns, LosesOwnership,
    Handling
<1>1. UNCHANGED storeVars /\ unannounced \subseteq unannounced'
  OBVIOUS
<1>2. StoreInv'
  BY <1>1, StutterKeepsInv
<1>3. WorkerTypeOK'
  <2> HIDE DEF WorkInv
  <2>1. UNCHANGED <<sender, recon, waiting, acked>>
    OBVIOUS
  <2>2. /\ delivery' \in [Runs -> {"missing", "queued", "in_progress", "complete"}]
        /\ artifact' \in [Runs -> {"none"} \cup Settled]
    BY <1>w DEF WorkInv, WorkerTypeOK, WorkerState, Settled
  <2>3. abort' \subseteq Runs /\ blind' \subseteq Runs /\ unannounced' \subseteq Runs
    BY DEF WorkInv, WorkerTypeOK
  <2>4. faults' \in 0..MaxFaults
    BY FaultsAssumption DEF WorkInv, WorkerTypeOK
  <2> HIDE DEF FinishTargets
  <2> QED BY <1>2, <1>e, <2>1, <2>2, <2>3, <2>4 DEF WorkInv, StoreInv, WorkerTypeOK
<1>4. ASSUME NEW q \in Runs PROVE KeepsRow(q) /\ Announced(q)'
  BY <1>1, StutterKeepsRow DEF RunInv
<1>5. ASSUME NEW q \in Runs, q # r PROVE RunInv(q)'
  <2>1. worker'[q] = worker[q]
    BY <1>5, <1>e
  <2>2. /\ delivery'[q] = delivery[q] /\ artifact'[q] = artifact[q] /\ (q \in blind => q \in blind')
        /\ waiting' = waiting /\ acked' = acked
    BY <1>5 DEF WorkerTypeOK
  <2> HIDE DEF FinishTargets
  <2> QED BY <1>4, <1>5, <2>1, <2>2, UntouchedRun
<1>6. RunInv(r)'
  <2>0. /\ KeepsRow(r) /\ Announced(r)' /\ RunInv(r) /\ StoreInv
        /\ acked' = acked /\ waiting' = waiting /\ (r \in blind => r \in blind')
    BY <1>4
  <2> HIDE DEF WorkInv, FinishTargets
  <2>1. CASE /\ s.pc = "save" /\ s.context = worker[r].context /\ s.beat = worker[r].beat
            /\ s.out = out /\ s.via = worker[r].via
            /\ delivery'[r] = delivery[r] /\ artifact'[r] = artifact[r]
    BY <1>a, <1>e, <2>0, <2>1, OutcomesAssumption DEF RunInv, HoldsDelivery,
        PathIsSound, OutcomeIsSaved, CommitsLast, ResultExists, RequestIsDown,
        Reportable, Unfinished, Beating, PreclaimPath, MainPath, BudgetPath,
        HandlerPath, KeepsRow, Settled
  <2>2. CASE /\ s.pc = "discard" /\ s.context = worker[r].context /\ s.beat = FALSE
            /\ s.out = worker[r].out /\ s.via = "lost"
            /\ delivery'[r] = delivery[r] /\ artifact'[r] = artifact[r]
    BY <1>a, <1>e, <2>0, <2>2, OutcomesAssumption DEF RunInv, HoldsDelivery,
        PathIsSound, OutcomeIsSaved, CommitsLast, ResultExists, RequestIsDown,
        Reportable, Unfinished, Beating, PreclaimPath, MainPath, BudgetPath,
        HandlerPath, KeepsRow
  <2> QED BY <1>d, <2>1, <2>2
<1>7. QuietStep
  <2>1. ASSUME NEW q \in acked PROVE q \in Runs /\ KeepsRow(q)
    BY <1>4, <2>1, AnsweredIsEarly
  <2>2. artifact' = artifact
    OBVIOUS
  <2> HIDE DEF WorkInv, FinishTargets
  <2> QED BY <2>1, <2>2, KeepsQuiet
<1> QED BY <1>1, <1>2, <1>3, <1>5, <1>6, <1>7

(* The result is saved.                                                    *)
LEMMA SaveResultKeepsInv ==
  ASSUME WorkInv, NEW r \in Runs, SaveResult(r)
  PROVE  WorkInv' /\ [StoreNext]_storeVars /\ QuietStep
<1>w. worker[r] \in WorkerState /\ worker \in [Runs -> WorkerState]
  BY DEF WorkInv, WorkerTypeOK
<1>a. worker[r].pc = "save"
  BY DEF SaveResult
<1>b. /\ worker' = [worker EXCEPT ![r] = [worker[r] EXCEPT !.pc = "saved"]]
      /\ delivery'[r] = delivery[r] /\ artifact'[r] = worker[r].out
  BY <1>w, <1>a DEF SaveResult, WorkerFrame, Moves, Returns, WorkInv, WorkerTypeOK
<1>d. PICK s \in WorkerState :
        /\ worker' = [worker EXCEPT ![r] = s]
        /\ s.pc = "saved" /\ s.context = worker[r].context /\ s.beat = worker[r].beat
        /\ s.out = worker[r].out /\ s.via = worker[r].via
        /\ delivery'[r] = delivery[r] /\ artifact'[r] = worker[r].out
  <2>1. PICK t : t = [worker[r] EXCEPT !.pc = "saved"]
    OBVIOUS
  <2>2. "saved" \in Positions
    BY OutcomesAssumption DEF Positions, PreclaimPath, MainPath, BudgetPath, HandlerPath
  <2>3. /\ t \in WorkerState /\ t.pc = "saved" /\ t.context = worker[r].context
        /\ t.beat = worker[r].beat /\ t.out = worker[r].out /\ t.via = worker[r].via
    BY <1>w, <2>1, <2>2 DEF WorkerState, Positions
  <2> QED BY <1>b, <2>1, <2>3
<1>e. /\ worker' \in [Runs -> WorkerState] /\ worker'[r] = s
      /\ \A q \in Runs : q # r => worker'[q] = worker[q]
  BY <1>d, OtherWorkers DEF WorkInv
<1> USE DEF WorkInv, SaveResult, WorkerFrame, Moves, Returns
<1>1. UNCHANGED storeVars /\ unannounced \subseteq unannounced'
  OBVIOUS
<1>2. StoreInv'
  BY <1>1, StutterKeepsInv
<1>3. WorkerTypeOK'
  <2> HIDE DEF WorkInv
  <2>1. UNCHANGED <<sender, recon, waiting, acked>>
    OBVIOUS
  <2>2. /\ delivery' \in [Runs -> {"missing", "queued", "in_progress", "complete"}]
        /\ artifact' \in [Runs -> {"none"} \cup Settled]
    BY <1>w DEF WorkInv, WorkerTypeOK, WorkerState, Settled
  <2>3. abort' \subseteq Runs /\ blind' \subseteq Runs /\ unannounced' \subseteq Runs
    BY DEF WorkInv, WorkerTypeOK
  <2>4. faults' \in 0..MaxFaults
    BY FaultsAssumption DEF WorkInv, WorkerTypeOK
  <2> HIDE DEF SaveResult
  <2> QED BY <1>2, <1>e, <2>1, <2>2, <2>3, <2>4 DEF WorkInv, StoreInv, WorkerTypeOK
<1>4. ASSUME NEW q \in Runs PROVE KeepsRow(q) /\ Announced(q)'
  BY <1>1, StutterKeepsRow DEF RunInv
<1>5. ASSUME NEW q \in Runs, q # r PROVE RunInv(q)'
  <2>1. worker'[q] = worker[q]
    BY <1>5, <1>e
  <2>2. /\ delivery'[q] = delivery[q] /\ artifact'[q] = artifact[q] /\ (q \in blind => q \in blind')
        /\ waiting' = waiting /\ acked' = acked
    BY <1>5 DEF WorkerTypeOK
  <2> HIDE DEF SaveResult
  <2> QED BY <1>4, <1>5, <2>1, <2>2, UntouchedRun
<1>6. RunInv(r)'
  <2>0. /\ KeepsRow(r) /\ Announced(r)' /\ RunInv(r) /\ StoreInv
        /\ acked' = acked /\ waiting' = waiting /\ (r \in blind => r \in blind')
    BY <1>4
  <2> HIDE DEF WorkInv, SaveResult
  <2> QED BY <1>a, <1>d, <1>e, <2>0, OutcomesAssumption DEF RunInv, HoldsDelivery,
      PathIsSound, OutcomeIsSaved, CommitsLast, ResultExists, RequestIsDown, Reportable,
      Unfinished, Beating, PreclaimPath, MainPath, BudgetPath, HandlerPath, KeepsRow
<1>7. QuietStep
  <2>1. ASSUME NEW q \in acked PROVE q \in Runs /\ KeepsRow(q)
    BY <1>4, <2>1, AnsweredIsEarly
  <2>2. ASSUME NEW q \in acked PROVE artifact'[q] \in {artifact[q], "none"}
    <3>1. q \in Runs /\ (worker[r].pc \notin {"idle"} \cup PreclaimPath => q # r)
      BY <2>2, AnsweredIsEarly
    <3> QED BY <1>a, <3>1 DEF WorkerTypeOK, PreclaimPath
  <2> HIDE DEF WorkInv, SaveResult
  <2> QED BY <2>1, <2>2, KeepsQuiet
<1> QED BY <1>1, <1>2, <1>3, <1>5, <1>6, <1>7

(* The checkpoint after the save.                                          *)
LEMMA CheckSavedKeepsInv ==
  ASSUME WorkInv, NEW r \in Runs, CheckSaved(r)
  PROVE  WorkInv' /\ [StoreNext]_storeVars /\ QuietStep
<1>w. worker[r] \in WorkerState /\ worker \in [Runs -> WorkerState]
  BY DEF WorkInv, WorkerTypeOK
<1>a. worker[r].pc = "saved"
  BY DEF CheckSaved
<1>b. \/ /\ worker' = [worker EXCEPT ![r] = [worker[r] EXCEPT !.pc = "final",
                !.beat = FALSE]]
         /\ delivery'[r] = delivery[r] /\ artifact'[r] = artifact[r]
      \/ /\ worker' = [worker EXCEPT ![r] = [worker[r] EXCEPT !.pc = "discard",
                !.beat = FALSE, !.via = "lost", !.then = "end"]]
         /\ delivery'[r] = delivery[r] /\ artifact'[r] = artifact[r]
  BY <1>w, <1>a DEF CheckSaved, WorkerFrame, Moves, Returns, LosesOwnership, Handling,
      WorkInv, WorkerTypeOK
<1>d. PICK s \in WorkerState :
        /\ worker' = [worker EXCEPT ![r] = s]
        /\ \/ /\ s.pc = "final" /\ s.context = worker[r].context /\ s.beat = FALSE
              /\ s.out = worker[r].out /\ s.via = worker[r].via
              /\ delivery'[r] = delivery[r] /\ artifact'[r] = artifact[r]
           \/ /\ s.pc = "discard" /\ s.context = worker[r].context /\ s.beat = FALSE
              /\ s.out = worker[r].out /\ s.via = "lost"
              /\ delivery'[r] = delivery[r] /\ artifact'[r] = artifact[r]
  <2>1. CASE /\ worker' = [worker EXCEPT ![r] = [worker[r] EXCEPT !.pc = "final",
                    !.beat = FALSE]]
            /\ delivery'[r] = delivery[r] /\ artifact'[r] = artifact[r]
    <3>1. PICK t : t = [worker[r] EXCEPT !.pc = "final", !.beat = FALSE]
      OBVIOUS
    <3>2. "final" \in Positions
      BY OutcomesAssumption DEF Positions, PreclaimPath, MainPath, BudgetPath, HandlerPath
    <3>3. /\ t \in WorkerState /\ t.pc = "final" /\ t.context = worker[r].context
          /\ t.beat = FALSE /\ t.out = worker[r].out /\ t.via = worker[r].via
      BY <1>w, <3>1, <3>2 DEF WorkerState, Positions
    <3> QED BY <2>1, <3>1, <3>3
  <2>2. CASE /\ worker' = [worker EXCEPT ![r] = [worker[r] EXCEPT !.pc = "discard",
                    !.beat = FALSE, !.via = "lost", !.then = "end"]]
            /\ delivery'[r] = delivery[r] /\ artifact'[r] = artifact[r]
    <3>1. PICK t : t = [worker[r] EXCEPT !.pc = "discard", !.beat = FALSE, !.via = "lost",
              !.then = "end"]
      OBVIOUS
    <3>2. "discard" \in Positions
      BY OutcomesAssumption DEF Positions, PreclaimPath, MainPath, BudgetPath, HandlerPath
    <3>3. /\ t \in WorkerState /\ t.pc = "discard" /\ t.context = worker[r].context
          /\ t.beat = FALSE /\ t.out = worker[r].out /\ t.via = "lost"
      BY <1>w, <3>1, <3>2 DEF WorkerState, Positions
    <3> QED BY <2>2, <3>1, <3>3
  <2> QED BY <1>b, <2>1, <2>2
<1>e. /\ worker' \in [Runs -> WorkerState] /\ worker'[r] = s
      /\ \A q \in Runs : q # r => worker'[q] = worker[q]
  BY <1>d, OtherWorkers DEF WorkInv
<1> USE DEF WorkInv, CheckSaved, WorkerFrame, Moves, Returns, LosesOwnership, Handling
<1>1. UNCHANGED storeVars /\ unannounced \subseteq unannounced'
  OBVIOUS
<1>2. StoreInv'
  BY <1>1, StutterKeepsInv
<1>3. WorkerTypeOK'
  <2> HIDE DEF WorkInv
  <2>1. UNCHANGED <<sender, recon, waiting, acked>>
    OBVIOUS
  <2>2. /\ delivery' \in [Runs -> {"missing", "queued", "in_progress", "complete"}]
        /\ artifact' \in [Runs -> {"none"} \cup Settled]
    BY <1>w DEF WorkInv, WorkerTypeOK, WorkerState, Settled
  <2>3. abort' \subseteq Runs /\ blind' \subseteq Runs /\ unannounced' \subseteq Runs
    BY DEF WorkInv, WorkerTypeOK
  <2>4. faults' \in 0..MaxFaults
    BY FaultsAssumption DEF WorkInv, WorkerTypeOK
  <2> HIDE DEF CheckSaved
  <2> QED BY <1>2, <1>e, <2>1, <2>2, <2>3, <2>4 DEF WorkInv, StoreInv, WorkerTypeOK
<1>4. ASSUME NEW q \in Runs PROVE KeepsRow(q) /\ Announced(q)'
  BY <1>1, StutterKeepsRow DEF RunInv
<1>5. ASSUME NEW q \in Runs, q # r PROVE RunInv(q)'
  <2>1. worker'[q] = worker[q]
    BY <1>5, <1>e
  <2>2. /\ delivery'[q] = delivery[q] /\ artifact'[q] = artifact[q] /\ (q \in blind => q \in blind')
        /\ waiting' = waiting /\ acked' = acked
    BY <1>5 DEF WorkerTypeOK
  <2> HIDE DEF CheckSaved
  <2> QED BY <1>4, <1>5, <2>1, <2>2, UntouchedRun
<1>6. RunInv(r)'
  <2>0. /\ KeepsRow(r) /\ Announced(r)' /\ RunInv(r) /\ StoreInv
        /\ acked' = acked /\ waiting' = waiting /\ (r \in blind => r \in blind')
    BY <1>4
  <2> HIDE DEF WorkInv, CheckSaved
  <2>1. CASE /\ s.pc = "final" /\ s.context = worker[r].context /\ s.beat = FALSE
            /\ s.out = worker[r].out /\ s.via = worker[r].via
            /\ delivery'[r] = delivery[r] /\ artifact'[r] = artifact[r]
    BY <1>a, <1>e, <2>0, <2>1, OutcomesAssumption DEF RunInv, HoldsDelivery,
        PathIsSound, OutcomeIsSaved, CommitsLast, ResultExists, RequestIsDown,
        Reportable, Unfinished, Beating, PreclaimPath, MainPath, BudgetPath,
        HandlerPath, KeepsRow
  <2>2. CASE /\ s.pc = "discard" /\ s.context = worker[r].context /\ s.beat = FALSE
            /\ s.out = worker[r].out /\ s.via = "lost"
            /\ delivery'[r] = delivery[r] /\ artifact'[r] = artifact[r]
    BY <1>a, <1>e, <2>0, <2>2, OutcomesAssumption DEF RunInv, HoldsDelivery,
        PathIsSound, OutcomeIsSaved, CommitsLast, ResultExists, RequestIsDown,
        Reportable, Unfinished, Beating, PreclaimPath, MainPath, BudgetPath,
        HandlerPath, KeepsRow
  <2> QED BY <1>d, <2>1, <2>2
<1>7. QuietStep
  <2>1. ASSUME NEW q \in acked PROVE q \in Runs /\ KeepsRow(q)
    BY <1>4, <2>1, AnsweredIsEarly
  <2>2. artifact' = artifact
    OBVIOUS
  <2> HIDE DEF WorkInv, CheckSaved
  <2> QED BY <2>1, <2>2, KeepsQuiet
<1> QED BY <1>1, <1>2, <1>3, <1>5, <1>6, <1>7

(* The checkpoint before the commit.                                       *)
LEMMA PrepareFinalKeepsInv ==
  ASSUME WorkInv, NEW r \in Runs, PrepareFinal(r)
  PROVE  WorkInv' /\ [StoreNext]_storeVars /\ QuietStep
<1>w. worker[r] \in WorkerState /\ worker \in [Runs -> WorkerState]
  BY DEF WorkInv, WorkerTypeOK
<1>a. worker[r].pc = "final"
  BY DEF PrepareFinal
<1>b. \/ /\ worker' = [worker EXCEPT ![r] = [worker[r] EXCEPT !.pc = "commit",
                !.lease = fresh[r], !.given = TRUE]]
         /\ delivery'[r] = delivery[r] /\ artifact'[r] = artifact[r]
      \/ /\ worker' = [worker EXCEPT ![r] = [worker[r] EXCEPT !.pc = "discard",
                !.beat = FALSE, !.via = "lost", !.then = "end"]]
         /\ delivery'[r] = delivery[r] /\ artifact'[r] = artifact[r]
  BY <1>w, <1>a DEF PrepareFinal, WorkerFrame, Moves, Returns, LosesOwnership, Handling,
      WorkInv, WorkerTypeOK
<1>d. PICK s \in WorkerState :
        /\ worker' = [worker EXCEPT ![r] = s]
        /\ \/ /\ s.pc = "commit" /\ s.context = worker[r].context /\ s.beat = worker[r].beat
              /\ s.out = worker[r].out /\ s.via = worker[r].via
              /\ delivery'[r] = delivery[r] /\ artifact'[r] = artifact[r]
           \/ /\ s.pc = "discard" /\ s.context = worker[r].context /\ s.beat = FALSE
              /\ s.out = worker[r].out /\ s.via = "lost"
              /\ delivery'[r] = delivery[r] /\ artifact'[r] = artifact[r]
  <2>1. CASE /\ worker' = [worker EXCEPT ![r] = [worker[r] EXCEPT !.pc = "commit",
                    !.lease = fresh[r], !.given = TRUE]]
            /\ delivery'[r] = delivery[r] /\ artifact'[r] = artifact[r]
    <3>1. PICK t : t = [worker[r] EXCEPT !.pc = "commit", !.lease = fresh[r],
              !.given = TRUE]
      OBVIOUS
    <3>2. "commit" \in Positions /\ fresh[r] \in BOOLEAN
      BY OutcomesAssumption DEF Positions, PreclaimPath, MainPath, BudgetPath, HandlerPath,
          WorkInv, StoreInv, StoreTypeOK
    <3>3. /\ t \in WorkerState /\ t.pc = "commit" /\ t.context = worker[r].context
          /\ t.beat = worker[r].beat /\ t.out = worker[r].out /\ t.via = worker[r].via
      BY <1>w, <3>1, <3>2 DEF WorkerState, Positions
    <3> QED BY <2>1, <3>1, <3>3
  <2>2. CASE /\ worker' = [worker EXCEPT ![r] = [worker[r] EXCEPT !.pc = "discard",
                    !.beat = FALSE, !.via = "lost", !.then = "end"]]
            /\ delivery'[r] = delivery[r] /\ artifact'[r] = artifact[r]
    <3>1. PICK t : t = [worker[r] EXCEPT !.pc = "discard", !.beat = FALSE, !.via = "lost",
              !.then = "end"]
      OBVIOUS
    <3>2. "discard" \in Positions
      BY OutcomesAssumption DEF Positions, PreclaimPath, MainPath, BudgetPath, HandlerPath
    <3>3. /\ t \in WorkerState /\ t.pc = "discard" /\ t.context = worker[r].context
          /\ t.beat = FALSE /\ t.out = worker[r].out /\ t.via = "lost"
      BY <1>w, <3>1, <3>2 DEF WorkerState, Positions
    <3> QED BY <2>2, <3>1, <3>3
  <2> QED BY <1>b, <2>1, <2>2
<1>e. /\ worker' \in [Runs -> WorkerState] /\ worker'[r] = s
      /\ \A q \in Runs : q # r => worker'[q] = worker[q]
  BY <1>d, OtherWorkers DEF WorkInv
<1> USE DEF WorkInv, PrepareFinal, WorkerFrame, Moves, Returns, LosesOwnership, Handling
<1>1. UNCHANGED storeVars /\ unannounced \subseteq unannounced'
  OBVIOUS
<1>2. StoreInv'
  BY <1>1, StutterKeepsInv
<1>3. WorkerTypeOK'
  <2> HIDE DEF WorkInv
  <2>1. UNCHANGED <<sender, recon, waiting, acked>>
    OBVIOUS
  <2>2. /\ delivery' \in [Runs -> {"missing", "queued", "in_progress", "complete"}]
        /\ artifact' \in [Runs -> {"none"} \cup Settled]
    BY <1>w DEF WorkInv, WorkerTypeOK, WorkerState, Settled
  <2>3. abort' \subseteq Runs /\ blind' \subseteq Runs /\ unannounced' \subseteq Runs
    BY DEF WorkInv, WorkerTypeOK
  <2>4. faults' \in 0..MaxFaults
    BY FaultsAssumption DEF WorkInv, WorkerTypeOK
  <2> HIDE DEF PrepareFinal
  <2> QED BY <1>2, <1>e, <2>1, <2>2, <2>3, <2>4 DEF WorkInv, StoreInv, WorkerTypeOK
<1>4. ASSUME NEW q \in Runs PROVE KeepsRow(q) /\ Announced(q)'
  BY <1>1, StutterKeepsRow DEF RunInv
<1>5. ASSUME NEW q \in Runs, q # r PROVE RunInv(q)'
  <2>1. worker'[q] = worker[q]
    BY <1>5, <1>e
  <2>2. /\ delivery'[q] = delivery[q] /\ artifact'[q] = artifact[q] /\ (q \in blind => q \in blind')
        /\ waiting' = waiting /\ acked' = acked
    BY <1>5 DEF WorkerTypeOK
  <2> HIDE DEF PrepareFinal
  <2> QED BY <1>4, <1>5, <2>1, <2>2, UntouchedRun
<1>6. RunInv(r)'
  <2>0. /\ KeepsRow(r) /\ Announced(r)' /\ RunInv(r) /\ StoreInv
        /\ acked' = acked /\ waiting' = waiting /\ (r \in blind => r \in blind')
    BY <1>4
  <2> HIDE DEF WorkInv, PrepareFinal
  <2>1. CASE /\ s.pc = "commit" /\ s.context = worker[r].context /\ s.beat = worker[r].beat
            /\ s.out = worker[r].out /\ s.via = worker[r].via
            /\ delivery'[r] = delivery[r] /\ artifact'[r] = artifact[r]
    BY <1>a, <1>e, <2>0, <2>1, OutcomesAssumption DEF RunInv, HoldsDelivery,
        PathIsSound, OutcomeIsSaved, CommitsLast, ResultExists, RequestIsDown,
        Reportable, Unfinished, Beating, PreclaimPath, MainPath, BudgetPath,
        HandlerPath, KeepsRow
  <2>2. CASE /\ s.pc = "discard" /\ s.context = worker[r].context /\ s.beat = FALSE
            /\ s.out = worker[r].out /\ s.via = "lost"
            /\ delivery'[r] = delivery[r] /\ artifact'[r] = artifact[r]
    BY <1>a, <1>e, <2>0, <2>2, OutcomesAssumption DEF RunInv, HoldsDelivery,
        PathIsSound, OutcomeIsSaved, CommitsLast, ResultExists, RequestIsDown,
        Reportable, Unfinished, Beating, PreclaimPath, MainPath, BudgetPath,
        HandlerPath, KeepsRow
  <2> QED BY <1>d, <2>1, <2>2
<1>7. QuietStep
  <2>1. ASSUME NEW q \in acked PROVE q \in Runs /\ KeepsRow(q)
    BY <1>4, <2>1, AnsweredIsEarly
  <2>2. artifact' = artifact
    OBVIOUS
  <2> HIDE DEF WorkInv, PrepareFinal
  <2> QED BY <2>1, <2>2, KeepsQuiet
<1> QED BY <1>1, <1>2, <1>3, <1>5, <1>6, <1>7

(* The outcome is committed.                                               *)
LEMMA FinalizeKeepsInv ==
  ASSUME WorkInv, NEW r \in Runs, Finalize(r)
  PROVE  WorkInv' /\ [StoreNext]_storeVars /\ QuietStep
<1>w. worker[r] \in WorkerState /\ worker \in [Runs -> WorkerState]
  BY DEF WorkInv, WorkerTypeOK
<1>a. worker[r].pc = "commit"
  BY DEF Finalize
<1>b. \/ /\ worker' = [worker EXCEPT ![r] = [worker[r] EXCEPT !.pc = "committed"]]
         /\ FinalizeOwnedRun(r, worker[r].out,
             worker[r].lease) /\ delivery'[r] = delivery[r] /\ artifact'[r] = artifact[r]
      \/ /\ worker' = [worker EXCEPT ![r] = [worker[r] EXCEPT !.pc = "discard",
                !.beat = FALSE, !.via = "lost", !.then = "end"]]
         /\ UNCHANGED storeVars /\ delivery'[r] = delivery[r] /\ artifact'[r] = artifact[r]
  BY <1>w, <1>a DEF Finalize, WorkerFrame, Moves, Returns, LosesOwnership, Handling,
      WorkInv, WorkerTypeOK
<1>d. PICK s \in WorkerState :
        /\ worker' = [worker EXCEPT ![r] = s]
        /\ \/ /\ s.pc = "committed" /\ s.context = worker[r].context /\ s.beat = worker[r].beat
              /\ s.out = worker[r].out /\ s.via = worker[r].via
              /\ FinalizeOwnedRun(r, worker[r].out,
                  worker[r].lease) /\ delivery'[r] = delivery[r] /\ artifact'[r] = artifact[r]
           \/ /\ s.pc = "discard" /\ s.context = worker[r].context /\ s.beat = FALSE
              /\ s.out = worker[r].out /\ s.via = "lost"
              /\ UNCHANGED storeVars /\ delivery'[r] = delivery[r] /\ artifact'[r] = artifact[r]
  <2>1. CASE /\ worker' = [worker EXCEPT ![r] = [worker[r] EXCEPT !.pc = "committed"]]
            /\ FinalizeOwnedRun(r, worker[r].out,
                worker[r].lease) /\ delivery'[r] = delivery[r] /\ artifact'[r] = artifact[r]
    <3>1. PICK t : t = [worker[r] EXCEPT !.pc = "committed"]
      OBVIOUS
    <3>2. "committed" \in Positions
      BY OutcomesAssumption DEF Positions, PreclaimPath, MainPath, BudgetPath, HandlerPath
    <3>3. /\ t \in WorkerState /\ t.pc = "committed" /\ t.context = worker[r].context
          /\ t.beat = worker[r].beat /\ t.out = worker[r].out /\ t.via = worker[r].via
      BY <1>w, <3>1, <3>2 DEF WorkerState, Positions
    <3> QED BY <2>1, <3>1, <3>3
  <2>2. CASE /\ worker' = [worker EXCEPT ![r] = [worker[r] EXCEPT !.pc = "discard",
                    !.beat = FALSE, !.via = "lost", !.then = "end"]]
            /\ UNCHANGED storeVars /\ delivery'[r] = delivery[r] /\ artifact'[r] = artifact[r]
    <3>1. PICK t : t = [worker[r] EXCEPT !.pc = "discard", !.beat = FALSE, !.via = "lost",
              !.then = "end"]
      OBVIOUS
    <3>2. "discard" \in Positions
      BY OutcomesAssumption DEF Positions, PreclaimPath, MainPath, BudgetPath, HandlerPath
    <3>3. /\ t \in WorkerState /\ t.pc = "discard" /\ t.context = worker[r].context
          /\ t.beat = FALSE /\ t.out = worker[r].out /\ t.via = "lost"
      BY <1>w, <3>1, <3>2 DEF WorkerState, Positions
    <3> QED BY <2>2, <3>1, <3>3
  <2> QED BY <1>b, <2>1, <2>2
<1>e. /\ worker' \in [Runs -> WorkerState] /\ worker'[r] = s
      /\ \A q \in Runs : q # r => worker'[q] = worker[q]
  BY <1>d, OtherWorkers DEF WorkInv
<1> USE DEF WorkInv, Finalize, WorkerFrame, Moves, Returns, LosesOwnership, Handling
<1>o. /\ worker[r].out \in Settled /\ worker[r].lease \in BOOLEAN
      /\ worker[r].out = "failed" \/ artifact[r] = worker[r].out
  BY <1>w, <1>a DEF RunInv, OutcomeIsSaved, WorkerState
<1>1. [StoreNext]_storeVars /\ unannounced' = unannounced
  <2>1. CASE FinalizeOwnedRun(r, worker[r].out, worker[r].lease)
    BY <1>o, <2>1 DEF StoreNext
  <2>2. CASE UNCHANGED storeVars
    BY <2>2
  <2> QED BY <2>1, <2>2
<1>2. StoreInv'
  BY <1>1, StoreNextKeepsInv, StutterKeepsInv
<1>3. WorkerTypeOK'
  <2> HIDE DEF WorkInv
  <2>1. UNCHANGED <<sender, recon, waiting, acked>>
    OBVIOUS
  <2>2. /\ delivery' \in [Runs -> {"missing", "queued", "in_progress", "complete"}]
        /\ artifact' \in [Runs -> {"none"} \cup Settled]
    BY <1>w DEF WorkInv, WorkerTypeOK, WorkerState, Settled
  <2>3. abort' \subseteq Runs /\ blind' \subseteq Runs /\ unannounced' \subseteq Runs
    BY DEF WorkInv, WorkerTypeOK
  <2>4. faults' \in 0..MaxFaults
    BY FaultsAssumption DEF WorkInv, WorkerTypeOK
  <2> HIDE DEF Finalize
  <2> QED BY <1>2, <1>e, <2>1, <2>2, <2>3, <2>4 DEF WorkInv, StoreInv, WorkerTypeOK
<1>4. ASSUME NEW q \in Runs, q # r \/ UNCHANGED storeVars PROVE KeepsRow(q) /\ Announced(q)'
  <2>1. CancelledIsDown(q) /\ Announced(q)
    BY DEF RunInv
  <2>2. CASE FinalizeOwnedRun(r, worker[r].out, worker[r].lease) /\ q # r
    BY <1>1, <1>o, <2>1, <2>2, FinalizeOwnedRunKeepsRow
  <2>3. CASE UNCHANGED storeVars
    BY <1>1, <2>1, <2>3, StutterKeepsRow
  <2> QED BY <1>4, <2>2, <2>3
<1>5. ASSUME NEW q \in Runs, q # r PROVE RunInv(q)'
  <2>1. worker'[q] = worker[q]
    BY <1>5, <1>e
  <2>2. /\ delivery'[q] = delivery[q] /\ artifact'[q] = artifact[q] /\ (q \in blind => q \in blind')
        /\ waiting' = waiting /\ acked' = acked
    BY <1>5 DEF WorkerTypeOK
  <2> HIDE DEF Finalize
  <2> QED BY <1>4, <1>5, <2>1, <2>2, UntouchedRun
<1>6. RunInv(r)'
  <2>0. /\ RunInv(r) /\ StoreInv /\ acked' = acked /\ waiting' = waiting /\ blind' = blind
        /\ delivery'[r] = delivery[r] /\ artifact'[r] = artifact[r]
    OBVIOUS
  <2>1. CASE s.pc = "committed" /\ ~s.beat /\ FinalizeOwnedRun(r, worker[r].out,
            worker[r].lease)
    <3> HIDE DEF WorkInv, Finalize
    <3>1. /\ runStatus'[r] = worker[r].out /\ jobStatus'[JobOf[r]] = worker[r].out
          /\ jobStatus[JobOf[r]] = "running" /\ Announced(r)'
      BY <1>o, <2>0, <2>1, FinalizedRow
    <3>2. CancelledIsDown(r)' /\ RequestIsDown(r)'
      BY <1>o, <2>0, <3>1 DEF RunInv, CancelledIsDown, RequestIsDown, Settled
    <3>3. HoldsDelivery(r)' /\ PathIsSound(r)'
      BY <1>a, <1>e, <2>0, <2>1 DEF RunInv, HoldsDelivery, PathIsSound, PreclaimPath
    <3>4. OutcomeIsSaved(r)' /\ CommitsLast(r)'
      BY <1>e, <2>1 DEF OutcomeIsSaved, CommitsLast, Unfinished, MainPath, BudgetPath
    <3>5. ResultExists(r)'
      BY <1>o, <2>0, <3>1 DEF ResultExists, Reportable
    <3> QED BY <3>1, <3>2, <3>3, <3>4, <3>5 DEF RunInv
  <2>2. CASE /\ s.pc = "discard" /\ ~s.beat /\ UNCHANGED storeVars
    <3>1. KeepsRow(r) /\ Announced(r)'
      BY <1>4, <2>2
    <3> HIDE DEF WorkInv, Finalize
    <3> QED BY <1>a, <1>e, <2>0, <2>2, <3>1 DEF RunInv, HoldsDelivery, PathIsSound,
        OutcomeIsSaved,
        CommitsLast, ResultExists, RequestIsDown, Reportable, Unfinished, Beating,
            PreclaimPath,
        MainPath, BudgetPath, HandlerPath, KeepsRow
  <2>3. ~worker[r].beat
    BY <1>a, <2>0 DEF RunInv, PathIsSound, Beating, BudgetPath
  <2> QED BY <1>d, <2>1, <2>2, <2>3
<1>7. QuietStep
  <2>1. ASSUME NEW q \in acked PROVE q \in Runs /\ KeepsRow(q)
    <3>1. q \in Runs /\ q # r
      BY <1>a, <2>1, AnsweredIsEarly DEF PreclaimPath
    <3> QED BY <1>4, <3>1
  <2>2. artifact' = artifact
    OBVIOUS
  <2> HIDE DEF WorkInv, Finalize
  <2> QED BY <2>1, <2>2, KeepsQuiet
<1> QED BY <1>1, <1>2, <1>3, <1>5, <1>6, <1>7

(* The task returns.                                                       *)
LEMMA CompleteKeepsInv ==
  ASSUME WorkInv, NEW r \in Runs, Complete(r)
  PROVE  WorkInv' /\ [StoreNext]_storeVars /\ QuietStep
<1>w. worker[r] \in WorkerState /\ worker \in [Runs -> WorkerState]
  BY DEF WorkInv, WorkerTypeOK
<1>a. worker[r].pc = "committed"
  BY DEF Complete
<1>b. /\ worker' = [worker EXCEPT ![r] = Idle]
      /\ delivery'[r] = "complete" /\ artifact'[r] = artifact[r]
  BY <1>w, <1>a DEF Complete, WorkerFrame, Moves, Returns, WorkInv, WorkerTypeOK
<1>d. PICK s \in WorkerState :
        /\ worker' = [worker EXCEPT ![r] = s]
        /\ s.pc = "idle" /\ ~s.context /\ ~s.beat
        /\ delivery'[r] = "complete" /\ artifact'[r] = artifact[r]
  <2> QED BY <1>b, IdleIsState
<1>e. /\ worker' \in [Runs -> WorkerState] /\ worker'[r] = s
      /\ \A q \in Runs : q # r => worker'[q] = worker[q]
  BY <1>d, OtherWorkers DEF WorkInv
<1> USE DEF WorkInv, Complete, WorkerFrame, Moves, Returns, Idle
<1>1. UNCHANGED storeVars /\ unannounced \subseteq unannounced'
  OBVIOUS
<1>2. StoreInv'
  BY <1>1, StutterKeepsInv
<1>3. WorkerTypeOK'
  <2> HIDE DEF WorkInv
  <2>1. UNCHANGED <<sender, recon, waiting, acked>>
    OBVIOUS
  <2>2. /\ delivery' \in [Runs -> {"missing", "queued", "in_progress", "complete"}]
        /\ artifact' \in [Runs -> {"none"} \cup Settled]
    BY <1>w DEF WorkInv, WorkerTypeOK, WorkerState, Settled
  <2>3. abort' \subseteq Runs /\ blind' \subseteq Runs /\ unannounced' \subseteq Runs
    BY DEF WorkInv, WorkerTypeOK
  <2>4. faults' \in 0..MaxFaults
    BY FaultsAssumption DEF WorkInv, WorkerTypeOK
  <2> HIDE DEF Complete
  <2> QED BY <1>2, <1>e, <2>1, <2>2, <2>3, <2>4 DEF WorkInv, StoreInv, WorkerTypeOK
<1>4. ASSUME NEW q \in Runs PROVE KeepsRow(q) /\ Announced(q)'
  BY <1>1, StutterKeepsRow DEF RunInv
<1>5. ASSUME NEW q \in Runs, q # r PROVE RunInv(q)'
  <2>1. worker'[q] = worker[q]
    BY <1>5, <1>e
  <2>2. /\ delivery'[q] = delivery[q] /\ artifact'[q] = artifact[q] /\ (q \in blind => q \in blind')
        /\ waiting' = waiting /\ acked' = acked
    BY <1>5 DEF WorkerTypeOK
  <2> HIDE DEF Complete
  <2> QED BY <1>4, <1>5, <2>1, <2>2, UntouchedRun
<1>6. RunInv(r)'
  <2>0. /\ KeepsRow(r) /\ Announced(r)' /\ RunInv(r) /\ StoreInv
        /\ acked' = acked /\ waiting' = waiting /\ (r \in blind => r \in blind')
    BY <1>4
  <2> HIDE DEF WorkInv, Complete
  <2> QED BY <1>a, <1>d, <1>e, <2>0, OutcomesAssumption DEF RunInv, HoldsDelivery,
      PathIsSound, OutcomeIsSaved, CommitsLast, ResultExists, RequestIsDown, Reportable,
      Unfinished, Beating, PreclaimPath, MainPath, BudgetPath, HandlerPath, KeepsRow
<1>7. QuietStep
  <2>1. ASSUME NEW q \in acked PROVE q \in Runs /\ KeepsRow(q)
    BY <1>4, <2>1, AnsweredIsEarly
  <2>2. artifact' = artifact
    OBVIOUS
  <2> HIDE DEF WorkInv, Complete
  <2> QED BY <2>1, <2>2, KeepsQuiet
<1> QED BY <1>1, <1>2, <1>3, <1>5, <1>6, <1>7

(* A budget is exceeded.                                                   *)
LEMMA BudgetExceededKeepsInv ==
  ASSUME WorkInv, NEW r \in Runs, BudgetExceeded(r)
  PROVE  WorkInv' /\ [StoreNext]_storeVars /\ QuietStep
<1>w. worker[r] \in WorkerState /\ worker \in [Runs -> WorkerState]
  BY DEF WorkInv, WorkerTypeOK
<1>a. worker[r].pc \in {"work", "save", "saved"}
  BY DEF BudgetExceeded
<1>b. \/ /\ worker' = [worker EXCEPT ![r] = [worker[r] EXCEPT !.pc = "budget",
                !.beat = worker[r].beat]]
         /\ delivery'[r] = delivery[r] /\ artifact'[r] = artifact[r]
      \/ /\ worker' = [worker EXCEPT ![r] = [worker[r] EXCEPT !.pc = "budget",
                !.beat = FALSE]]
         /\ delivery'[r] = delivery[r] /\ artifact'[r] = artifact[r]
  <2>1. PICK beat \in {worker[r].beat, worker[r].beat /\ worker[r].pc # "work"} :
          worker' = [worker EXCEPT ![r].pc = "budget", ![r].beat = beat]
    BY DEF BudgetExceeded
  <2>2. worker' = [worker EXCEPT ![r] = [worker[r] EXCEPT !.pc = "budget", !.beat = beat]]
    BY <1>w, <2>1
  <2>3. beat = worker[r].beat \/ beat = FALSE
    <3>1. worker[r].beat \in BOOLEAN
      BY <1>w DEF WorkerState
    <3> QED BY <2>1, <3>1
  <2>4. delivery' = delivery /\ artifact' = artifact
    BY DEF BudgetExceeded
  <2> QED BY <2>2, <2>3, <2>4
<1>d. PICK s \in WorkerState :
        /\ worker' = [worker EXCEPT ![r] = s]
        /\ \/ /\ s.pc = "budget" /\ s.context = worker[r].context /\ s.beat = worker[r].beat
              /\ s.out = worker[r].out /\ s.via = worker[r].via
              /\ delivery'[r] = delivery[r] /\ artifact'[r] = artifact[r]
           \/ /\ s.pc = "budget" /\ s.context = worker[r].context /\ s.beat = FALSE
              /\ s.out = worker[r].out /\ s.via = worker[r].via
              /\ delivery'[r] = delivery[r] /\ artifact'[r] = artifact[r]
  <2>1. CASE /\ worker' = [worker EXCEPT ![r] = [worker[r] EXCEPT !.pc = "budget",
                    !.beat = worker[r].beat]]
            /\ delivery'[r] = delivery[r] /\ artifact'[r] = artifact[r]
    <3>1. PICK t : t = [worker[r] EXCEPT !.pc = "budget", !.beat = worker[r].beat]
      OBVIOUS
    <3>2. "budget" \in Positions
      BY OutcomesAssumption DEF Positions, PreclaimPath, MainPath, BudgetPath, HandlerPath
    <3>3. /\ t \in WorkerState /\ t.pc = "budget" /\ t.context = worker[r].context
          /\ t.beat = worker[r].beat /\ t.out = worker[r].out /\ t.via = worker[r].via
      BY <1>w, <3>1, <3>2 DEF WorkerState, Positions
    <3> QED BY <2>1, <3>1, <3>3
  <2>2. CASE /\ worker' = [worker EXCEPT ![r] = [worker[r] EXCEPT !.pc = "budget",
                    !.beat = FALSE]]
            /\ delivery'[r] = delivery[r] /\ artifact'[r] = artifact[r]
    <3>1. PICK t : t = [worker[r] EXCEPT !.pc = "budget", !.beat = FALSE]
      OBVIOUS
    <3>2. "budget" \in Positions
      BY OutcomesAssumption DEF Positions, PreclaimPath, MainPath, BudgetPath, HandlerPath
    <3>3. /\ t \in WorkerState /\ t.pc = "budget" /\ t.context = worker[r].context
          /\ t.beat = FALSE /\ t.out = worker[r].out /\ t.via = worker[r].via
      BY <1>w, <3>1, <3>2 DEF WorkerState, Positions
    <3> QED BY <2>2, <3>1, <3>3
  <2> QED BY <1>b, <2>1, <2>2
<1>e. /\ worker' \in [Runs -> WorkerState] /\ worker'[r] = s
      /\ \A q \in Runs : q # r => worker'[q] = worker[q]
  BY <1>d, OtherWorkers DEF WorkInv
<1> USE DEF WorkInv, BudgetExceeded, WorkerFrame, Moves, Returns, Fault
<1>1. UNCHANGED storeVars /\ unannounced \subseteq unannounced'
  OBVIOUS
<1>2. StoreInv'
  BY <1>1, StutterKeepsInv
<1>3. WorkerTypeOK'
  <2> HIDE DEF WorkInv
  <2>1. UNCHANGED <<sender, recon, waiting, acked>>
    OBVIOUS
  <2>2. /\ delivery' \in [Runs -> {"missing", "queued", "in_progress", "complete"}]
        /\ artifact' \in [Runs -> {"none"} \cup Settled]
    BY <1>w DEF WorkInv, WorkerTypeOK, WorkerState, Settled
  <2>3. abort' \subseteq Runs /\ blind' \subseteq Runs /\ unannounced' \subseteq Runs
    BY DEF WorkInv, WorkerTypeOK
  <2>4. faults' \in 0..MaxFaults
    BY FaultsAssumption DEF WorkInv, WorkerTypeOK
  <2> HIDE DEF BudgetExceeded
  <2> QED BY <1>2, <1>e, <2>1, <2>2, <2>3, <2>4 DEF WorkInv, StoreInv, WorkerTypeOK
<1>4. ASSUME NEW q \in Runs PROVE KeepsRow(q) /\ Announced(q)'
  BY <1>1, StutterKeepsRow DEF RunInv
<1>5. ASSUME NEW q \in Runs, q # r PROVE RunInv(q)'
  <2>1. worker'[q] = worker[q]
    BY <1>5, <1>e
  <2>2. /\ delivery'[q] = delivery[q] /\ artifact'[q] = artifact[q] /\ (q \in blind => q \in blind')
        /\ waiting' = waiting /\ acked' = acked
    BY <1>5 DEF WorkerTypeOK
  <2> HIDE DEF BudgetExceeded
  <2> QED BY <1>4, <1>5, <2>1, <2>2, UntouchedRun
<1>6. RunInv(r)'
  <2>0. /\ KeepsRow(r) /\ Announced(r)' /\ RunInv(r) /\ StoreInv
        /\ acked' = acked /\ waiting' = waiting /\ (r \in blind => r \in blind')
    BY <1>4
  <2> HIDE DEF WorkInv, BudgetExceeded
  <2>1. CASE /\ s.pc = "budget" /\ s.context = worker[r].context /\ s.beat = worker[r].beat
            /\ s.out = worker[r].out /\ s.via = worker[r].via
            /\ delivery'[r] = delivery[r] /\ artifact'[r] = artifact[r]
    BY <1>a, <1>e, <2>0, <2>1, OutcomesAssumption DEF RunInv, HoldsDelivery,
        PathIsSound, OutcomeIsSaved, CommitsLast, ResultExists, RequestIsDown,
        Reportable, Unfinished, Beating, PreclaimPath, MainPath, BudgetPath,
        HandlerPath, KeepsRow
  <2>2. CASE /\ s.pc = "budget" /\ s.context = worker[r].context /\ s.beat = FALSE
            /\ s.out = worker[r].out /\ s.via = worker[r].via
            /\ delivery'[r] = delivery[r] /\ artifact'[r] = artifact[r]
    BY <1>a, <1>e, <2>0, <2>2, OutcomesAssumption DEF RunInv, HoldsDelivery,
        PathIsSound, OutcomeIsSaved, CommitsLast, ResultExists, RequestIsDown,
        Reportable, Unfinished, Beating, PreclaimPath, MainPath, BudgetPath,
        HandlerPath, KeepsRow
  <2> QED BY <1>d, <2>1, <2>2
<1>7. QuietStep
  <2>1. ASSUME NEW q \in acked PROVE q \in Runs /\ KeepsRow(q)
    BY <1>4, <2>1, AnsweredIsEarly
  <2>2. artifact' = artifact
    OBVIOUS
  <2> HIDE DEF WorkInv, BudgetExceeded
  <2> QED BY <2>1, <2>2, KeepsQuiet
<1> QED BY <1>1, <1>2, <1>3, <1>5, <1>6, <1>7

(* The checkpoint of the budget path.                                      *)
LEMMA BudgetCheckpointKeepsInv ==
  ASSUME WorkInv, NEW r \in Runs, BudgetCheckpoint(r)
  PROVE  WorkInv' /\ [StoreNext]_storeVars /\ QuietStep
<1>w. worker[r] \in WorkerState /\ worker \in [Runs -> WorkerState]
  BY DEF WorkInv, WorkerTypeOK
<1>a. worker[r].pc = "budget"
  BY DEF BudgetCheckpoint
<1>b. \/ /\ worker' = [worker EXCEPT ![r] = [worker[r] EXCEPT !.pc = "budgetSave",
                !.out = "failed", !.lease = fresh[r]]]
         /\ delivery'[r] = delivery[r] /\ artifact'[r] = artifact[r]
      \/ /\ worker' = [worker EXCEPT ![r] = [worker[r] EXCEPT !.pc = "discard",
                !.beat = FALSE, !.via = "lost", !.then = "end"]]
         /\ delivery'[r] = delivery[r] /\ artifact'[r] = artifact[r]
  BY <1>w, <1>a DEF BudgetCheckpoint, WorkerFrame, Moves, Returns, LosesOwnership,
      Handling, WorkInv, WorkerTypeOK
<1>d. PICK s \in WorkerState :
        /\ worker' = [worker EXCEPT ![r] = s]
        /\ \/ /\ s.pc = "budgetSave" /\ s.context = worker[r].context /\ s.beat = worker[r].beat
              /\ s.out = "failed" /\ s.via = worker[r].via
              /\ delivery'[r] = delivery[r] /\ artifact'[r] = artifact[r]
           \/ /\ s.pc = "discard" /\ s.context = worker[r].context /\ s.beat = FALSE
              /\ s.out = worker[r].out /\ s.via = "lost"
              /\ delivery'[r] = delivery[r] /\ artifact'[r] = artifact[r]
  <2>1. CASE /\ worker' = [worker EXCEPT ![r] = [worker[r] EXCEPT !.pc = "budgetSave",
                    !.out = "failed", !.lease = fresh[r]]]
            /\ delivery'[r] = delivery[r] /\ artifact'[r] = artifact[r]
    <3>1. PICK t : t = [worker[r] EXCEPT !.pc = "budgetSave", !.out = "failed",
              !.lease = fresh[r]]
      OBVIOUS
    <3>2. "budgetSave" \in Positions /\ "failed" \in {"none"} \cup Settled /\ fresh[r] \in BOOLEAN
      BY OutcomesAssumption DEF Positions, PreclaimPath, MainPath, BudgetPath, HandlerPath,
          WorkInv, StoreInv, StoreTypeOK, Settled
    <3>3. /\ t \in WorkerState /\ t.pc = "budgetSave" /\ t.context = worker[r].context
          /\ t.beat = worker[r].beat /\ t.out = "failed" /\ t.via = worker[r].via
      BY <1>w, <3>1, <3>2 DEF WorkerState, Positions
    <3> QED BY <2>1, <3>1, <3>3
  <2>2. CASE /\ worker' = [worker EXCEPT ![r] = [worker[r] EXCEPT !.pc = "discard",
                    !.beat = FALSE, !.via = "lost", !.then = "end"]]
            /\ delivery'[r] = delivery[r] /\ artifact'[r] = artifact[r]
    <3>1. PICK t : t = [worker[r] EXCEPT !.pc = "discard", !.beat = FALSE, !.via = "lost",
              !.then = "end"]
      OBVIOUS
    <3>2. "discard" \in Positions
      BY OutcomesAssumption DEF Positions, PreclaimPath, MainPath, BudgetPath, HandlerPath
    <3>3. /\ t \in WorkerState /\ t.pc = "discard" /\ t.context = worker[r].context
          /\ t.beat = FALSE /\ t.out = worker[r].out /\ t.via = "lost"
      BY <1>w, <3>1, <3>2 DEF WorkerState, Positions
    <3> QED BY <2>2, <3>1, <3>3
  <2> QED BY <1>b, <2>1, <2>2
<1>e. /\ worker' \in [Runs -> WorkerState] /\ worker'[r] = s
      /\ \A q \in Runs : q # r => worker'[q] = worker[q]
  BY <1>d, OtherWorkers DEF WorkInv
<1> USE DEF WorkInv, BudgetCheckpoint, WorkerFrame, Moves, Returns, LosesOwnership,
    Handling
<1>1. UNCHANGED storeVars /\ unannounced \subseteq unannounced'
  OBVIOUS
<1>2. StoreInv'
  BY <1>1, StutterKeepsInv
<1>3. WorkerTypeOK'
  <2> HIDE DEF WorkInv
  <2>1. UNCHANGED <<sender, recon, waiting, acked>>
    OBVIOUS
  <2>2. /\ delivery' \in [Runs -> {"missing", "queued", "in_progress", "complete"}]
        /\ artifact' \in [Runs -> {"none"} \cup Settled]
    BY <1>w DEF WorkInv, WorkerTypeOK, WorkerState, Settled
  <2>3. abort' \subseteq Runs /\ blind' \subseteq Runs /\ unannounced' \subseteq Runs
    BY DEF WorkInv, WorkerTypeOK
  <2>4. faults' \in 0..MaxFaults
    BY FaultsAssumption DEF WorkInv, WorkerTypeOK
  <2> HIDE DEF BudgetCheckpoint
  <2> QED BY <1>2, <1>e, <2>1, <2>2, <2>3, <2>4 DEF WorkInv, StoreInv, WorkerTypeOK
<1>4. ASSUME NEW q \in Runs PROVE KeepsRow(q) /\ Announced(q)'
  BY <1>1, StutterKeepsRow DEF RunInv
<1>5. ASSUME NEW q \in Runs, q # r PROVE RunInv(q)'
  <2>1. worker'[q] = worker[q]
    BY <1>5, <1>e
  <2>2. /\ delivery'[q] = delivery[q] /\ artifact'[q] = artifact[q] /\ (q \in blind => q \in blind')
        /\ waiting' = waiting /\ acked' = acked
    BY <1>5 DEF WorkerTypeOK
  <2> HIDE DEF BudgetCheckpoint
  <2> QED BY <1>4, <1>5, <2>1, <2>2, UntouchedRun
<1>6. RunInv(r)'
  <2>0. /\ KeepsRow(r) /\ Announced(r)' /\ RunInv(r) /\ StoreInv
        /\ acked' = acked /\ waiting' = waiting /\ (r \in blind => r \in blind')
    BY <1>4
  <2> HIDE DEF WorkInv, BudgetCheckpoint
  <2>1. CASE /\ s.pc = "budgetSave" /\ s.context = worker[r].context /\ s.beat = worker[r].beat
            /\ s.out = "failed" /\ s.via = worker[r].via
            /\ delivery'[r] = delivery[r] /\ artifact'[r] = artifact[r]
    BY <1>a, <1>e, <2>0, <2>1, OutcomesAssumption DEF RunInv, HoldsDelivery,
        PathIsSound, OutcomeIsSaved, CommitsLast, ResultExists, RequestIsDown,
        Reportable, Unfinished, Beating, PreclaimPath, MainPath, BudgetPath,
        HandlerPath, KeepsRow, Settled
  <2>2. CASE /\ s.pc = "discard" /\ s.context = worker[r].context /\ s.beat = FALSE
            /\ s.out = worker[r].out /\ s.via = "lost"
            /\ delivery'[r] = delivery[r] /\ artifact'[r] = artifact[r]
    BY <1>a, <1>e, <2>0, <2>2, OutcomesAssumption DEF RunInv, HoldsDelivery,
        PathIsSound, OutcomeIsSaved, CommitsLast, ResultExists, RequestIsDown,
        Reportable, Unfinished, Beating, PreclaimPath, MainPath, BudgetPath,
        HandlerPath, KeepsRow
  <2> QED BY <1>d, <2>1, <2>2
<1>7. QuietStep
  <2>1. ASSUME NEW q \in acked PROVE q \in Runs /\ KeepsRow(q)
    BY <1>4, <2>1, AnsweredIsEarly
  <2>2. artifact' = artifact
    OBVIOUS
  <2> HIDE DEF WorkInv, BudgetCheckpoint
  <2> QED BY <2>1, <2>2, KeepsQuiet
<1> QED BY <1>1, <1>2, <1>3, <1>5, <1>6, <1>7

(* The budget path saves.                                                  *)
LEMMA BudgetSaveKeepsInv ==
  ASSUME WorkInv, NEW r \in Runs, BudgetSave(r)
  PROVE  WorkInv' /\ [StoreNext]_storeVars /\ QuietStep
<1>w. worker[r] \in WorkerState /\ worker \in [Runs -> WorkerState]
  BY DEF WorkInv, WorkerTypeOK
<1>a. worker[r].pc = "budgetSave"
  BY DEF BudgetSave
<1>b. \/ /\ worker' = [worker EXCEPT ![r] = [worker[r] EXCEPT !.pc = "budgetFinal"]]
         /\ delivery'[r] = delivery[r] /\ runStatus[r] = "running"
      \/ /\ worker' = [worker EXCEPT ![r] = [worker[r] EXCEPT !.pc = "discard",
                !.beat = FALSE, !.via = "lost", !.then = "end"]]
         /\ delivery'[r] = delivery[r] /\ artifact'[r] = artifact[r]
  BY <1>w, <1>a DEF BudgetSave, WorkerFrame, Moves, Returns, LosesOwnership, Handling,
      Fault, WorkInv, WorkerTypeOK, RunIsActive
<1>d. PICK s \in WorkerState :
        /\ worker' = [worker EXCEPT ![r] = s]
        /\ \/ /\ s.pc = "budgetFinal" /\ s.context = worker[r].context /\ s.beat = worker[r].beat
              /\ s.out = worker[r].out /\ s.via = worker[r].via
              /\ delivery'[r] = delivery[r] /\ runStatus[r] = "running"
           \/ /\ s.pc = "discard" /\ s.context = worker[r].context /\ s.beat = FALSE
              /\ s.out = worker[r].out /\ s.via = "lost"
              /\ delivery'[r] = delivery[r] /\ artifact'[r] = artifact[r]
  <2>1. CASE /\ worker' = [worker EXCEPT ![r] = [worker[r] EXCEPT !.pc = "budgetFinal"]]
            /\ delivery'[r] = delivery[r] /\ runStatus[r] = "running"
    <3>1. PICK t : t = [worker[r] EXCEPT !.pc = "budgetFinal"]
      OBVIOUS
    <3>2. "budgetFinal" \in Positions
      BY OutcomesAssumption DEF Positions, PreclaimPath, MainPath, BudgetPath, HandlerPath
    <3>3. /\ t \in WorkerState /\ t.pc = "budgetFinal" /\ t.context = worker[r].context
          /\ t.beat = worker[r].beat /\ t.out = worker[r].out /\ t.via = worker[r].via
      BY <1>w, <3>1, <3>2 DEF WorkerState, Positions
    <3> QED BY <2>1, <3>1, <3>3
  <2>2. CASE /\ worker' = [worker EXCEPT ![r] = [worker[r] EXCEPT !.pc = "discard",
                    !.beat = FALSE, !.via = "lost", !.then = "end"]]
            /\ delivery'[r] = delivery[r] /\ artifact'[r] = artifact[r]
    <3>1. PICK t : t = [worker[r] EXCEPT !.pc = "discard", !.beat = FALSE, !.via = "lost",
              !.then = "end"]
      OBVIOUS
    <3>2. "discard" \in Positions
      BY OutcomesAssumption DEF Positions, PreclaimPath, MainPath, BudgetPath, HandlerPath
    <3>3. /\ t \in WorkerState /\ t.pc = "discard" /\ t.context = worker[r].context
          /\ t.beat = FALSE /\ t.out = worker[r].out /\ t.via = "lost"
      BY <1>w, <3>1, <3>2 DEF WorkerState, Positions
    <3> QED BY <2>2, <3>1, <3>3
  <2> QED BY <1>b, <2>1, <2>2
<1>e. /\ worker' \in [Runs -> WorkerState] /\ worker'[r] = s
      /\ \A q \in Runs : q # r => worker'[q] = worker[q]
  BY <1>d, OtherWorkers DEF WorkInv
<1> USE DEF WorkInv, BudgetSave, WorkerFrame, Moves, Returns, LosesOwnership, Handling,
    Fault
<1>1. UNCHANGED storeVars /\ unannounced \subseteq unannounced'
  OBVIOUS
<1>2. StoreInv'
  BY <1>1, StutterKeepsInv
<1>3. WorkerTypeOK'
  <2> HIDE DEF WorkInv
  <2>1. UNCHANGED <<sender, recon, waiting, acked>>
    OBVIOUS
  <2>2. /\ delivery' \in [Runs -> {"missing", "queued", "in_progress", "complete"}]
        /\ artifact' \in [Runs -> {"none"} \cup Settled]
    BY <1>w DEF WorkInv, WorkerTypeOK, WorkerState, Settled
  <2>3. abort' \subseteq Runs /\ blind' \subseteq Runs /\ unannounced' \subseteq Runs
    BY DEF WorkInv, WorkerTypeOK
  <2>4. faults' \in 0..MaxFaults
    BY FaultsAssumption DEF WorkInv, WorkerTypeOK
  <2> HIDE DEF BudgetSave
  <2> QED BY <1>2, <1>e, <2>1, <2>2, <2>3, <2>4 DEF WorkInv, StoreInv, WorkerTypeOK
<1>4. ASSUME NEW q \in Runs PROVE KeepsRow(q) /\ Announced(q)'
  BY <1>1, StutterKeepsRow DEF RunInv
<1>5. ASSUME NEW q \in Runs, q # r PROVE RunInv(q)'
  <2>1. worker'[q] = worker[q]
    BY <1>5, <1>e
  <2>2. /\ delivery'[q] = delivery[q] /\ artifact'[q] = artifact[q] /\ (q \in blind => q \in blind')
        /\ waiting' = waiting /\ acked' = acked
    BY <1>5 DEF WorkerTypeOK
  <2> HIDE DEF BudgetSave
  <2> QED BY <1>4, <1>5, <2>1, <2>2, UntouchedRun
<1>6. RunInv(r)'
  <2>0. /\ KeepsRow(r) /\ Announced(r)' /\ RunInv(r) /\ StoreInv
        /\ acked' = acked /\ waiting' = waiting /\ (r \in blind => r \in blind')
    BY <1>4
  <2> HIDE DEF WorkInv, BudgetSave
  <2>1. CASE /\ s.pc = "budgetFinal" /\ s.context = worker[r].context /\ s.beat = worker[r].beat
            /\ s.out = worker[r].out /\ s.via = worker[r].via
            /\ delivery'[r] = delivery[r] /\ runStatus[r] = "running"
    BY <1>a, <1>e, <2>0, <2>1, OutcomesAssumption DEF RunInv, HoldsDelivery,
        PathIsSound, OutcomeIsSaved, CommitsLast, ResultExists, RequestIsDown,
        Reportable, Unfinished, Beating, PreclaimPath, MainPath, BudgetPath,
        HandlerPath, KeepsRow
  <2>2. CASE /\ s.pc = "discard" /\ s.context = worker[r].context /\ s.beat = FALSE
            /\ s.out = worker[r].out /\ s.via = "lost"
            /\ delivery'[r] = delivery[r] /\ artifact'[r] = artifact[r]
    BY <1>a, <1>e, <2>0, <2>2, OutcomesAssumption DEF RunInv, HoldsDelivery,
        PathIsSound, OutcomeIsSaved, CommitsLast, ResultExists, RequestIsDown,
        Reportable, Unfinished, Beating, PreclaimPath, MainPath, BudgetPath,
        HandlerPath, KeepsRow
  <2> QED BY <1>d, <2>1, <2>2
<1>7. QuietStep
  <2>1. ASSUME NEW q \in acked PROVE q \in Runs /\ KeepsRow(q)
    BY <1>4, <2>1, AnsweredIsEarly
  <2>2. ASSUME NEW q \in acked PROVE artifact'[q] \in {artifact[q], "none"}
    <3>1. q \in Runs /\ (worker[r].pc \notin {"idle"} \cup PreclaimPath => q # r)
      BY <2>2, AnsweredIsEarly
    <3> QED BY <1>a, <3>1 DEF WorkerTypeOK, PreclaimPath
  <2> HIDE DEF WorkInv, BudgetSave
  <2> QED BY <2>1, <2>2, KeepsQuiet
<1> QED BY <1>1, <1>2, <1>3, <1>5, <1>6, <1>7

(* The budget path goes on to the commit.                                  *)
LEMMA BudgetFinalKeepsInv ==
  ASSUME WorkInv, NEW r \in Runs, BudgetFinal(r)
  PROVE  WorkInv' /\ [StoreNext]_storeVars /\ QuietStep
<1>w. worker[r] \in WorkerState /\ worker \in [Runs -> WorkerState]
  BY DEF WorkInv, WorkerTypeOK
<1>a. worker[r].pc = "budgetFinal"
  BY DEF BudgetFinal
<1>b. \/ /\ worker' = [worker EXCEPT ![r] = [worker[r] EXCEPT !.pc = "commit",
                !.beat = FALSE, !.given = TRUE]]
         /\ delivery'[r] = delivery[r] /\ artifact'[r] = artifact[r]
      \/ /\ worker' = [worker EXCEPT ![r] = [worker[r] EXCEPT !.pc = "discard",
                !.beat = FALSE, !.via = "lost", !.then = "end"]]
         /\ delivery'[r] = delivery[r] /\ artifact'[r] = artifact[r]
  BY <1>w, <1>a DEF BudgetFinal, WorkerFrame, Moves, Returns, LosesOwnership, Handling,
      WorkInv, WorkerTypeOK
<1>d. PICK s \in WorkerState :
        /\ worker' = [worker EXCEPT ![r] = s]
        /\ \/ /\ s.pc = "commit" /\ s.context = worker[r].context /\ s.beat = FALSE
              /\ s.out = worker[r].out /\ s.via = worker[r].via
              /\ delivery'[r] = delivery[r] /\ artifact'[r] = artifact[r]
           \/ /\ s.pc = "discard" /\ s.context = worker[r].context /\ s.beat = FALSE
              /\ s.out = worker[r].out /\ s.via = "lost"
              /\ delivery'[r] = delivery[r] /\ artifact'[r] = artifact[r]
  <2>1. CASE /\ worker' = [worker EXCEPT ![r] = [worker[r] EXCEPT !.pc = "commit",
                    !.beat = FALSE, !.given = TRUE]]
            /\ delivery'[r] = delivery[r] /\ artifact'[r] = artifact[r]
    <3>1. PICK t : t = [worker[r] EXCEPT !.pc = "commit", !.beat = FALSE, !.given = TRUE]
      OBVIOUS
    <3>2. "commit" \in Positions
      BY OutcomesAssumption DEF Positions, PreclaimPath, MainPath, BudgetPath, HandlerPath
    <3>3. /\ t \in WorkerState /\ t.pc = "commit" /\ t.context = worker[r].context
          /\ t.beat = FALSE /\ t.out = worker[r].out /\ t.via = worker[r].via
      BY <1>w, <3>1, <3>2 DEF WorkerState, Positions
    <3> QED BY <2>1, <3>1, <3>3
  <2>2. CASE /\ worker' = [worker EXCEPT ![r] = [worker[r] EXCEPT !.pc = "discard",
                    !.beat = FALSE, !.via = "lost", !.then = "end"]]
            /\ delivery'[r] = delivery[r] /\ artifact'[r] = artifact[r]
    <3>1. PICK t : t = [worker[r] EXCEPT !.pc = "discard", !.beat = FALSE, !.via = "lost",
              !.then = "end"]
      OBVIOUS
    <3>2. "discard" \in Positions
      BY OutcomesAssumption DEF Positions, PreclaimPath, MainPath, BudgetPath, HandlerPath
    <3>3. /\ t \in WorkerState /\ t.pc = "discard" /\ t.context = worker[r].context
          /\ t.beat = FALSE /\ t.out = worker[r].out /\ t.via = "lost"
      BY <1>w, <3>1, <3>2 DEF WorkerState, Positions
    <3> QED BY <2>2, <3>1, <3>3
  <2> QED BY <1>b, <2>1, <2>2
<1>e. /\ worker' \in [Runs -> WorkerState] /\ worker'[r] = s
      /\ \A q \in Runs : q # r => worker'[q] = worker[q]
  BY <1>d, OtherWorkers DEF WorkInv
<1> USE DEF WorkInv, BudgetFinal, WorkerFrame, Moves, Returns, LosesOwnership, Handling
<1>1. UNCHANGED storeVars /\ unannounced \subseteq unannounced'
  OBVIOUS
<1>2. StoreInv'
  BY <1>1, StutterKeepsInv
<1>3. WorkerTypeOK'
  <2> HIDE DEF WorkInv
  <2>1. UNCHANGED <<sender, recon, waiting, acked>>
    OBVIOUS
  <2>2. /\ delivery' \in [Runs -> {"missing", "queued", "in_progress", "complete"}]
        /\ artifact' \in [Runs -> {"none"} \cup Settled]
    BY <1>w DEF WorkInv, WorkerTypeOK, WorkerState, Settled
  <2>3. abort' \subseteq Runs /\ blind' \subseteq Runs /\ unannounced' \subseteq Runs
    BY DEF WorkInv, WorkerTypeOK
  <2>4. faults' \in 0..MaxFaults
    BY FaultsAssumption DEF WorkInv, WorkerTypeOK
  <2> HIDE DEF BudgetFinal
  <2> QED BY <1>2, <1>e, <2>1, <2>2, <2>3, <2>4 DEF WorkInv, StoreInv, WorkerTypeOK
<1>4. ASSUME NEW q \in Runs PROVE KeepsRow(q) /\ Announced(q)'
  BY <1>1, StutterKeepsRow DEF RunInv
<1>5. ASSUME NEW q \in Runs, q # r PROVE RunInv(q)'
  <2>1. worker'[q] = worker[q]
    BY <1>5, <1>e
  <2>2. /\ delivery'[q] = delivery[q] /\ artifact'[q] = artifact[q] /\ (q \in blind => q \in blind')
        /\ waiting' = waiting /\ acked' = acked
    BY <1>5 DEF WorkerTypeOK
  <2> HIDE DEF BudgetFinal
  <2> QED BY <1>4, <1>5, <2>1, <2>2, UntouchedRun
<1>6. RunInv(r)'
  <2>0. /\ KeepsRow(r) /\ Announced(r)' /\ RunInv(r) /\ StoreInv
        /\ acked' = acked /\ waiting' = waiting /\ (r \in blind => r \in blind')
    BY <1>4
  <2> HIDE DEF WorkInv, BudgetFinal
  <2>1. CASE /\ s.pc = "commit" /\ s.context = worker[r].context /\ s.beat = FALSE
            /\ s.out = worker[r].out /\ s.via = worker[r].via
            /\ delivery'[r] = delivery[r] /\ artifact'[r] = artifact[r]
    BY <1>a, <1>e, <2>0, <2>1, OutcomesAssumption DEF RunInv, HoldsDelivery,
        PathIsSound, OutcomeIsSaved, CommitsLast, ResultExists, RequestIsDown,
        Reportable, Unfinished, Beating, PreclaimPath, MainPath, BudgetPath,
        HandlerPath, KeepsRow, Settled
  <2>2. CASE /\ s.pc = "discard" /\ s.context = worker[r].context /\ s.beat = FALSE
            /\ s.out = worker[r].out /\ s.via = "lost"
            /\ delivery'[r] = delivery[r] /\ artifact'[r] = artifact[r]
    BY <1>a, <1>e, <2>0, <2>2, OutcomesAssumption DEF RunInv, HoldsDelivery,
        PathIsSound, OutcomeIsSaved, CommitsLast, ResultExists, RequestIsDown,
        Reportable, Unfinished, Beating, PreclaimPath, MainPath, BudgetPath,
        HandlerPath, KeepsRow
  <2> QED BY <1>d, <2>1, <2>2
<1>7. QuietStep
  <2>1. ASSUME NEW q \in acked PROVE q \in Runs /\ KeepsRow(q)
    BY <1>4, <2>1, AnsweredIsEarly
  <2>2. artifact' = artifact
    OBVIOUS
  <2> HIDE DEF WorkInv, BudgetFinal
  <2> QED BY <2>1, <2>2, KeepsQuiet
<1> QED BY <1>1, <1>2, <1>3, <1>5, <1>6, <1>7

(* The task raises.                                                        *)
LEMMA RaisesKeepsInv ==
  ASSUME WorkInv, NEW r \in Runs, Raises(r)
  PROVE  WorkInv' /\ [StoreNext]_storeVars /\ QuietStep
<1>w. worker[r] \in WorkerState /\ worker \in [Runs -> WorkerState]
  BY DEF WorkInv, WorkerTypeOK
<1>a. worker[r].pc \in (MainPath \ {"committed"}) \cup BudgetPath
  BY DEF Raises
<1>b. /\ worker' = [worker EXCEPT ![r] = [worker[r] EXCEPT !.pc = "discard",
             !.beat = FALSE, !.via = "error", !.then = "crash"]]
      /\ delivery'[r] = delivery[r] /\ artifact'[r] = artifact[r]
  BY <1>w, <1>a DEF Raises, WorkerFrame, Moves, Returns, Fault, Handling, WorkInv,
      WorkerTypeOK
<1>d. PICK s \in WorkerState :
        /\ worker' = [worker EXCEPT ![r] = s]
        /\ s.pc = "discard" /\ s.context = worker[r].context /\ s.beat = FALSE
        /\ s.out = worker[r].out /\ s.via = "error"
        /\ delivery'[r] = delivery[r] /\ artifact'[r] = artifact[r]
  <2>1. PICK t : t = [worker[r] EXCEPT !.pc = "discard", !.beat = FALSE, !.via = "error",
            !.then = "crash"]
    OBVIOUS
  <2>2. "discard" \in Positions
    BY OutcomesAssumption DEF Positions, PreclaimPath, MainPath, BudgetPath, HandlerPath
  <2>3. /\ t \in WorkerState /\ t.pc = "discard" /\ t.context = worker[r].context
        /\ t.beat = FALSE /\ t.out = worker[r].out /\ t.via = "error"
    BY <1>w, <2>1, <2>2 DEF WorkerState, Positions
  <2> QED BY <1>b, <2>1, <2>3
<1>e. /\ worker' \in [Runs -> WorkerState] /\ worker'[r] = s
      /\ \A q \in Runs : q # r => worker'[q] = worker[q]
  BY <1>d, OtherWorkers DEF WorkInv
<1> USE DEF WorkInv, Raises, WorkerFrame, Moves, Returns, Fault, Handling
<1>1. UNCHANGED storeVars /\ unannounced \subseteq unannounced'
  OBVIOUS
<1>2. StoreInv'
  BY <1>1, StutterKeepsInv
<1>3. WorkerTypeOK'
  <2> HIDE DEF WorkInv
  <2>1. UNCHANGED <<sender, recon, waiting, acked>>
    OBVIOUS
  <2>2. /\ delivery' \in [Runs -> {"missing", "queued", "in_progress", "complete"}]
        /\ artifact' \in [Runs -> {"none"} \cup Settled]
    BY <1>w DEF WorkInv, WorkerTypeOK, WorkerState, Settled
  <2>3. abort' \subseteq Runs /\ blind' \subseteq Runs /\ unannounced' \subseteq Runs
    BY DEF WorkInv, WorkerTypeOK
  <2>4. faults' \in 0..MaxFaults
    BY FaultsAssumption DEF WorkInv, WorkerTypeOK
  <2> HIDE DEF Raises
  <2> QED BY <1>2, <1>e, <2>1, <2>2, <2>3, <2>4 DEF WorkInv, StoreInv, WorkerTypeOK
<1>4. ASSUME NEW q \in Runs PROVE KeepsRow(q) /\ Announced(q)'
  BY <1>1, StutterKeepsRow DEF RunInv
<1>5. ASSUME NEW q \in Runs, q # r PROVE RunInv(q)'
  <2>1. worker'[q] = worker[q]
    BY <1>5, <1>e
  <2>2. /\ delivery'[q] = delivery[q] /\ artifact'[q] = artifact[q] /\ (q \in blind => q \in blind')
        /\ waiting' = waiting /\ acked' = acked
    BY <1>5 DEF WorkerTypeOK
  <2> HIDE DEF Raises
  <2> QED BY <1>4, <1>5, <2>1, <2>2, UntouchedRun
<1>6. RunInv(r)'
  <2>0. /\ KeepsRow(r) /\ Announced(r)' /\ RunInv(r) /\ StoreInv
        /\ acked' = acked /\ waiting' = waiting /\ (r \in blind => r \in blind')
    BY <1>4
  <2> HIDE DEF WorkInv, Raises
  <2> QED BY <1>a, <1>d, <1>e, <2>0, OutcomesAssumption DEF RunInv, HoldsDelivery,
      PathIsSound, OutcomeIsSaved, CommitsLast, ResultExists, RequestIsDown, Reportable,
      Unfinished, Beating, PreclaimPath, MainPath, BudgetPath, HandlerPath, KeepsRow
<1>7. QuietStep
  <2>1. ASSUME NEW q \in acked PROVE q \in Runs /\ KeepsRow(q)
    BY <1>4, <2>1, AnsweredIsEarly
  <2>2. artifact' = artifact
    OBVIOUS
  <2> HIDE DEF WorkInv, Raises
  <2> QED BY <2>1, <2>2, KeepsQuiet
<1> QED BY <1>1, <1>2, <1>3, <1>5, <1>6, <1>7

(* A heartbeat.                                                            *)
LEMMA BeatKeepsInv ==
  ASSUME WorkInv, NEW r \in Runs, Beat(r)
  PROVE  WorkInv' /\ [StoreNext]_storeVars /\ QuietStep
<1>w. worker[r] \in WorkerState /\ worker \in [Runs -> WorkerState]
  BY DEF WorkInv, WorkerTypeOK
<1>a. worker[r].beat = TRUE
  BY DEF Beat
<1>b. /\ worker' = [worker EXCEPT ![r] = [worker[r] EXCEPT !.lease = TRUE]]
      /\ delivery'[r] = delivery[r] /\ artifact'[r] = artifact[r]
  BY <1>w, <1>a DEF Beat, WorkerFrame, Moves, Returns, WorkInv, WorkerTypeOK
<1>d. PICK s \in WorkerState :
        /\ worker' = [worker EXCEPT ![r] = s]
        /\ s.pc = worker[r].pc /\ s.context = worker[r].context /\ s.beat = worker[r].beat
        /\ s.out = worker[r].out /\ s.via = worker[r].via
        /\ delivery'[r] = delivery[r] /\ artifact'[r] = artifact[r]
  <2>1. PICK t : t = [worker[r] EXCEPT !.lease = TRUE]
    OBVIOUS
  <2>3. /\ t \in WorkerState /\ t.pc = worker[r].pc /\ t.context = worker[r].context
        /\ t.beat = worker[r].beat /\ t.out = worker[r].out /\ t.via = worker[r].via
    BY <1>w, <2>1 DEF WorkerState, Positions
  <2> QED BY <1>b, <2>1, <2>3
<1>e. /\ worker' \in [Runs -> WorkerState] /\ worker'[r] = s
      /\ \A q \in Runs : q # r => worker'[q] = worker[q]
  BY <1>d, OtherWorkers DEF WorkInv
<1> USE DEF WorkInv, Beat, WorkerFrame, Moves, Returns
<1>1. StoreNext /\ unannounced \subseteq unannounced'
  BY JobOfAssumption DEF StoreNext
<1>2. StoreInv'
  BY <1>1, StoreNextKeepsInv
<1>3. WorkerTypeOK'
  <2> HIDE DEF WorkInv
  <2>1. UNCHANGED <<sender, recon, waiting, acked>>
    OBVIOUS
  <2>2. /\ delivery' \in [Runs -> {"missing", "queued", "in_progress", "complete"}]
        /\ artifact' \in [Runs -> {"none"} \cup Settled]
    BY <1>w DEF WorkInv, WorkerTypeOK, WorkerState, Settled
  <2>3. abort' \subseteq Runs /\ blind' \subseteq Runs /\ unannounced' \subseteq Runs
    BY DEF WorkInv, WorkerTypeOK
  <2>4. faults' \in 0..MaxFaults
    BY FaultsAssumption DEF WorkInv, WorkerTypeOK
  <2> HIDE DEF Beat
  <2> QED BY <1>2, <1>e, <2>1, <2>2, <2>3, <2>4 DEF WorkInv, StoreInv, WorkerTypeOK
<1>4. ASSUME NEW q \in Runs PROVE KeepsRow(q) /\ Announced(q)'
  BY HeartbeatRunKeepsRow DEF RunInv
<1>5. ASSUME NEW q \in Runs, q # r PROVE RunInv(q)'
  <2>1. worker'[q] = worker[q]
    BY <1>5, <1>e
  <2>2. /\ delivery'[q] = delivery[q] /\ artifact'[q] = artifact[q] /\ (q \in blind => q \in blind')
        /\ waiting' = waiting /\ acked' = acked
    BY <1>5 DEF WorkerTypeOK
  <2> HIDE DEF Beat
  <2> QED BY <1>4, <1>5, <2>1, <2>2, UntouchedRun
<1>6. RunInv(r)'
  <2>0. /\ KeepsRow(r) /\ Announced(r)' /\ RunInv(r) /\ StoreInv
        /\ acked' = acked /\ waiting' = waiting /\ (r \in blind => r \in blind')
    BY <1>4
  <2> HIDE DEF WorkInv, Beat
  <2> QED BY <1>a, <1>d, <1>e, <2>0, OutcomesAssumption DEF RunInv, HoldsDelivery,
      PathIsSound, OutcomeIsSaved, CommitsLast, ResultExists, RequestIsDown, Reportable,
      Unfinished, Beating, PreclaimPath, MainPath, BudgetPath, HandlerPath, KeepsRow
<1>7. QuietStep
  <2>1. ASSUME NEW q \in acked PROVE q \in Runs /\ KeepsRow(q)
    BY <1>4, <2>1, AnsweredIsEarly
  <2>2. artifact' = artifact
    OBVIOUS
  <2> HIDE DEF WorkInv, Beat
  <2> QED BY <2>1, <2>2, KeepsQuiet
<1> QED BY <1>1, <1>2, <1>3, <1>5, <1>6, <1>7

(* The heartbeat is lost.                                                  *)
LEMMA HeartbeatLostKeepsInv ==
  ASSUME WorkInv, NEW r \in Runs, HeartbeatLost(r)
  PROVE  WorkInv' /\ [StoreNext]_storeVars /\ QuietStep
<1>w. worker[r] \in WorkerState /\ worker \in [Runs -> WorkerState]
  BY DEF WorkInv, WorkerTypeOK
<1>a. worker[r].beat = TRUE
  BY DEF HeartbeatLost
<1>b. /\ worker' = [worker EXCEPT ![r] = [worker[r] EXCEPT !.pc = "discard",
             !.beat = FALSE, !.via = "lost", !.then = "end"]]
      /\ delivery'[r] = delivery[r] /\ artifact'[r] = artifact[r]
  BY <1>w, <1>a DEF HeartbeatLost, WorkerFrame, Moves, Returns, Fault, Handling,
      WorkInv, WorkerTypeOK
<1>d. PICK s \in WorkerState :
        /\ worker' = [worker EXCEPT ![r] = s]
        /\ s.pc = "discard" /\ s.context = worker[r].context /\ s.beat = FALSE
        /\ s.out = worker[r].out /\ s.via = "lost"
        /\ delivery'[r] = delivery[r] /\ artifact'[r] = artifact[r]
  <2>1. PICK t : t = [worker[r] EXCEPT !.pc = "discard", !.beat = FALSE, !.via = "lost",
            !.then = "end"]
    OBVIOUS
  <2>2. "discard" \in Positions
    BY OutcomesAssumption DEF Positions, PreclaimPath, MainPath, BudgetPath, HandlerPath
  <2>3. /\ t \in WorkerState /\ t.pc = "discard" /\ t.context = worker[r].context
        /\ t.beat = FALSE /\ t.out = worker[r].out /\ t.via = "lost"
    BY <1>w, <2>1, <2>2 DEF WorkerState, Positions
  <2> QED BY <1>b, <2>1, <2>3
<1>e. /\ worker' \in [Runs -> WorkerState] /\ worker'[r] = s
      /\ \A q \in Runs : q # r => worker'[q] = worker[q]
  BY <1>d, OtherWorkers DEF WorkInv
<1> USE DEF WorkInv, HeartbeatLost, WorkerFrame, Moves, Returns, Fault, Handling
<1>1. UNCHANGED storeVars /\ unannounced \subseteq unannounced'
  OBVIOUS
<1>2. StoreInv'
  BY <1>1, StutterKeepsInv
<1>3. WorkerTypeOK'
  <2> HIDE DEF WorkInv
  <2>1. UNCHANGED <<sender, recon, waiting, acked>>
    OBVIOUS
  <2>2. /\ delivery' \in [Runs -> {"missing", "queued", "in_progress", "complete"}]
        /\ artifact' \in [Runs -> {"none"} \cup Settled]
    BY <1>w DEF WorkInv, WorkerTypeOK, WorkerState, Settled
  <2>3. abort' \subseteq Runs /\ blind' \subseteq Runs /\ unannounced' \subseteq Runs
    BY DEF WorkInv, WorkerTypeOK
  <2>4. faults' \in 0..MaxFaults
    BY FaultsAssumption DEF WorkInv, WorkerTypeOK
  <2> HIDE DEF HeartbeatLost
  <2> QED BY <1>2, <1>e, <2>1, <2>2, <2>3, <2>4 DEF WorkInv, StoreInv, WorkerTypeOK
<1>4. ASSUME NEW q \in Runs PROVE KeepsRow(q) /\ Announced(q)'
  BY <1>1, StutterKeepsRow DEF RunInv
<1>5. ASSUME NEW q \in Runs, q # r PROVE RunInv(q)'
  <2>1. worker'[q] = worker[q]
    BY <1>5, <1>e
  <2>2. /\ delivery'[q] = delivery[q] /\ artifact'[q] = artifact[q] /\ (q \in blind => q \in blind')
        /\ waiting' = waiting /\ acked' = acked
    BY <1>5 DEF WorkerTypeOK
  <2> HIDE DEF HeartbeatLost
  <2> QED BY <1>4, <1>5, <2>1, <2>2, UntouchedRun
<1>6. RunInv(r)'
  <2>0. /\ KeepsRow(r) /\ Announced(r)' /\ RunInv(r) /\ StoreInv
        /\ acked' = acked /\ waiting' = waiting /\ (r \in blind => r \in blind')
    BY <1>4
  <2> HIDE DEF WorkInv, HeartbeatLost
  <2> QED BY <1>a, <1>d, <1>e, <2>0, OutcomesAssumption DEF RunInv, HoldsDelivery,
      PathIsSound, OutcomeIsSaved, CommitsLast, ResultExists, RequestIsDown, Reportable,
      Unfinished, Beating, PreclaimPath, MainPath, BudgetPath, HandlerPath, KeepsRow
<1>7. QuietStep
  <2>1. ASSUME NEW q \in acked PROVE q \in Runs /\ KeepsRow(q)
    BY <1>4, <2>1, AnsweredIsEarly
  <2>2. artifact' = artifact
    OBVIOUS
  <2> HIDE DEF WorkInv, HeartbeatLost
  <2> QED BY <2>1, <2>2, KeepsQuiet
<1> QED BY <1>1, <1>2, <1>3, <1>5, <1>6, <1>7

(* A lease expires.                                                        *)
LEMMA PassTimeKeepsInv ==
  ASSUME WorkInv, NEW r \in Runs, PassTime(r)
  PROVE  WorkInv' /\ [StoreNext]_storeVars /\ QuietStep
<1> USE DEF WorkInv, PassTime, workVars
<1>1. StoreNext /\ unannounced \subseteq unannounced'
  BY JobOfAssumption DEF StoreNext
<1>2. StoreInv'
  BY <1>1, StoreNextKeepsInv
<1>3. WorkerTypeOK'
  BY <1>2, FaultsAssumption, OutcomesAssumption DEF StoreInv,
    WorkerTypeOK, WorkerState, PreclaimPath, MainPath, BudgetPath, HandlerPath
<1>4. ASSUME NEW q \in Runs PROVE KeepsRow(q) /\ Announced(q)'
  BY LeaseExpiresKeepsRow DEF RunInv
<1>5. ASSUME NEW q \in Runs PROVE RunInv(q)'
  BY <1>4, UntouchedRun
<1>7. QuietStep
  <2>1. ASSUME NEW q \in acked PROVE q \in Runs /\ KeepsRow(q)
    BY <1>4, <2>1, AnsweredIsEarly
  <2>2. artifact' = artifact
    OBVIOUS
  <2> HIDE DEF WorkInv, PassTime
  <2> QED BY <2>1, <2>2, KeepsQuiet
<1> QED BY <1>1, <1>2, <1>3, <1>5, <1>7

(* An abort reaches the task.                                              *)
LEMMA AbortTaskKeepsInv ==
  ASSUME WorkInv, NEW r \in Runs, AbortTask(r)
  PROVE  WorkInv' /\ [StoreNext]_storeVars /\ QuietStep
<1>w. worker[r] \in WorkerState /\ worker \in [Runs -> WorkerState]
  BY DEF WorkInv, WorkerTypeOK
<1>a. worker[r].pc # "idle"
  BY DEF AbortTask
<1>b. \/ /\ worker' = [worker EXCEPT ![r] = [worker[r] EXCEPT !.pc = "handler",
                !.beat = FALSE, !.via = "cancel"]]
         /\ worker[r].via \in {"none",
             "error"} /\ delivery'[r] = delivery[r] /\ artifact'[r] = artifact[r]
      \/ /\ worker' = [worker EXCEPT ![r] = Idle]
         /\ delivery'[r] = "complete" /\ artifact'[r] = artifact[r]
  BY <1>w, <1>a DEF AbortTask, WorkerFrame, Moves, Returns, IsCancelled, CancelledState,
      WorkInv, WorkerTypeOK
<1>d. PICK s \in WorkerState :
        /\ worker' = [worker EXCEPT ![r] = s]
        /\ \/ /\ s.pc = "handler" /\ s.context = worker[r].context /\ s.beat = FALSE
              /\ s.out = worker[r].out /\ s.via = "cancel"
              /\ worker[r].via \in {"none",
                  "error"} /\ delivery'[r] = delivery[r] /\ artifact'[r] = artifact[r]
           \/ /\ s.pc = "idle" /\ ~s.context /\ ~s.beat
              /\ delivery'[r] = "complete" /\ artifact'[r] = artifact[r]
  <2>1. CASE /\ worker' = [worker EXCEPT ![r] = [worker[r] EXCEPT !.pc = "handler",
                    !.beat = FALSE, !.via = "cancel"]]
            /\ worker[r].via \in {"none",
                "error"} /\ delivery'[r] = delivery[r] /\ artifact'[r] = artifact[r]
    <3>1. PICK t : t = [worker[r] EXCEPT !.pc = "handler", !.beat = FALSE, !.via = "cancel"]
      OBVIOUS
    <3>2. "handler" \in Positions
      BY OutcomesAssumption DEF Positions, PreclaimPath, MainPath, BudgetPath, HandlerPath
    <3>3. /\ t \in WorkerState /\ t.pc = "handler" /\ t.context = worker[r].context
          /\ t.beat = FALSE /\ t.out = worker[r].out /\ t.via = "cancel"
      BY <1>w, <3>1, <3>2 DEF WorkerState, Positions
    <3> QED BY <2>1, <3>1, <3>3
  <2>2. CASE /\ worker' = [worker EXCEPT ![r] = Idle]
            /\ delivery'[r] = "complete" /\ artifact'[r] = artifact[r]
    <3> QED BY <2>2, IdleIsState
  <2> QED BY <1>b, <2>1, <2>2
<1>e. /\ worker' \in [Runs -> WorkerState] /\ worker'[r] = s
      /\ \A q \in Runs : q # r => worker'[q] = worker[q]
  BY <1>d, OtherWorkers DEF WorkInv
<1> USE DEF WorkInv, AbortTask, WorkerFrame, Moves, Returns, IsCancelled,
    CancelledState, Idle
<1>1. UNCHANGED storeVars /\ unannounced \subseteq unannounced'
  OBVIOUS
<1>2. StoreInv'
  BY <1>1, StutterKeepsInv
<1>3. WorkerTypeOK'
  <2> HIDE DEF WorkInv
  <2>1. UNCHANGED <<sender, recon, waiting, acked>>
    OBVIOUS
  <2>2. /\ delivery' \in [Runs -> {"missing", "queued", "in_progress", "complete"}]
        /\ artifact' \in [Runs -> {"none"} \cup Settled]
    BY <1>w DEF WorkInv, WorkerTypeOK, WorkerState, Settled
  <2>3. abort' \subseteq Runs /\ blind' \subseteq Runs /\ unannounced' \subseteq Runs
    BY DEF WorkInv, WorkerTypeOK
  <2>4. faults' \in 0..MaxFaults
    BY FaultsAssumption DEF WorkInv, WorkerTypeOK
  <2> HIDE DEF AbortTask
  <2> QED BY <1>2, <1>e, <2>1, <2>2, <2>3, <2>4 DEF WorkInv, StoreInv, WorkerTypeOK
<1>4. ASSUME NEW q \in Runs PROVE KeepsRow(q) /\ Announced(q)'
  BY <1>1, StutterKeepsRow DEF RunInv
<1>5. ASSUME NEW q \in Runs, q # r PROVE RunInv(q)'
  <2>1. worker'[q] = worker[q]
    BY <1>5, <1>e
  <2>2. /\ delivery'[q] = delivery[q] /\ artifact'[q] = artifact[q] /\ (q \in blind => q \in blind')
        /\ waiting' = waiting /\ acked' = acked
    BY <1>5 DEF WorkerTypeOK
  <2> HIDE DEF AbortTask
  <2> QED BY <1>4, <1>5, <2>1, <2>2, UntouchedRun
<1>6. RunInv(r)'
  <2>0. /\ KeepsRow(r) /\ Announced(r)' /\ RunInv(r) /\ StoreInv
        /\ acked' = acked /\ waiting' = waiting /\ (r \in blind => r \in blind')
    BY <1>4
  <2> HIDE DEF WorkInv, AbortTask
  <2>1. CASE /\ s.pc = "handler" /\ s.context = worker[r].context /\ s.beat = FALSE
            /\ s.out = worker[r].out /\ s.via = "cancel"
            /\ worker[r].via \in {"none",
                "error"} /\ delivery'[r] = delivery[r] /\ artifact'[r] = artifact[r]
    BY <1>a, <1>e, <2>0, <2>1, OutcomesAssumption DEF RunInv, HoldsDelivery,
        PathIsSound, OutcomeIsSaved, CommitsLast, ResultExists, RequestIsDown,
        Reportable, Unfinished, Beating, PreclaimPath, MainPath, BudgetPath,
        HandlerPath, KeepsRow
  <2>2. CASE /\ s.pc = "idle" /\ ~s.context /\ ~s.beat
            /\ delivery'[r] = "complete" /\ artifact'[r] = artifact[r]
    BY <1>a, <1>e, <2>0, <2>2, OutcomesAssumption DEF RunInv, HoldsDelivery,
        PathIsSound, OutcomeIsSaved, CommitsLast, ResultExists, RequestIsDown,
        Reportable, Unfinished, Beating, PreclaimPath, MainPath, BudgetPath,
        HandlerPath, KeepsRow
  <2> QED BY <1>d, <2>1, <2>2
<1>7. QuietStep
  <2>1. ASSUME NEW q \in acked PROVE q \in Runs /\ KeepsRow(q)
    BY <1>4, <2>1, AnsweredIsEarly
  <2>2. artifact' = artifact
    OBVIOUS
  <2> HIDE DEF WorkInv, AbortTask
  <2> QED BY <2>1, <2>2, KeepsQuiet
<1> QED BY <1>1, <1>2, <1>3, <1>5, <1>6, <1>7

(* A shutdown reaches the task.                                            *)
LEMMA ShutdownTaskKeepsInv ==
  ASSUME WorkInv, NEW r \in Runs, ShutdownTask(r)
  PROVE  WorkInv' /\ [StoreNext]_storeVars /\ QuietStep
<1>w. worker[r] \in WorkerState /\ worker \in [Runs -> WorkerState]
  BY DEF WorkInv, WorkerTypeOK
<1>a. worker[r].pc \in PreclaimPath \cup MainPath \cup BudgetPath
  BY DEF ShutdownTask
<1>b. \/ /\ worker' = [worker EXCEPT ![r] = [worker[r] EXCEPT !.pc = "handler",
                !.beat = FALSE, !.via = "cancel"]]
         /\ worker[r].via \in {"none",
             "error"} /\ delivery'[r] = delivery[r] /\ artifact'[r] = artifact[r]
      \/ /\ worker' = [worker EXCEPT ![r] = Idle]
         /\ delivery'[r] = "complete" /\ artifact'[r] = artifact[r]
  BY <1>w, <1>a DEF ShutdownTask, WorkerFrame, Moves, Returns, IsCancelled,
      CancelledState, Fault, WorkInv, WorkerTypeOK
<1>d. PICK s \in WorkerState :
        /\ worker' = [worker EXCEPT ![r] = s]
        /\ \/ /\ s.pc = "handler" /\ s.context = worker[r].context /\ s.beat = FALSE
              /\ s.out = worker[r].out /\ s.via = "cancel"
              /\ worker[r].via \in {"none",
                  "error"} /\ delivery'[r] = delivery[r] /\ artifact'[r] = artifact[r]
           \/ /\ s.pc = "idle" /\ ~s.context /\ ~s.beat
              /\ delivery'[r] = "complete" /\ artifact'[r] = artifact[r]
  <2>1. CASE /\ worker' = [worker EXCEPT ![r] = [worker[r] EXCEPT !.pc = "handler",
                    !.beat = FALSE, !.via = "cancel"]]
            /\ worker[r].via \in {"none",
                "error"} /\ delivery'[r] = delivery[r] /\ artifact'[r] = artifact[r]
    <3>1. PICK t : t = [worker[r] EXCEPT !.pc = "handler", !.beat = FALSE, !.via = "cancel"]
      OBVIOUS
    <3>2. "handler" \in Positions
      BY OutcomesAssumption DEF Positions, PreclaimPath, MainPath, BudgetPath, HandlerPath
    <3>3. /\ t \in WorkerState /\ t.pc = "handler" /\ t.context = worker[r].context
          /\ t.beat = FALSE /\ t.out = worker[r].out /\ t.via = "cancel"
      BY <1>w, <3>1, <3>2 DEF WorkerState, Positions
    <3> QED BY <2>1, <3>1, <3>3
  <2>2. CASE /\ worker' = [worker EXCEPT ![r] = Idle]
            /\ delivery'[r] = "complete" /\ artifact'[r] = artifact[r]
    <3> QED BY <2>2, IdleIsState
  <2> QED BY <1>b, <2>1, <2>2
<1>e. /\ worker' \in [Runs -> WorkerState] /\ worker'[r] = s
      /\ \A q \in Runs : q # r => worker'[q] = worker[q]
  BY <1>d, OtherWorkers DEF WorkInv
<1> USE DEF WorkInv, ShutdownTask, WorkerFrame, Moves, Returns, IsCancelled,
    CancelledState, Idle, Fault
<1>1. UNCHANGED storeVars /\ unannounced \subseteq unannounced'
  OBVIOUS
<1>2. StoreInv'
  BY <1>1, StutterKeepsInv
<1>3. WorkerTypeOK'
  <2> HIDE DEF WorkInv
  <2>1. UNCHANGED <<sender, recon, waiting, acked>>
    OBVIOUS
  <2>2. /\ delivery' \in [Runs -> {"missing", "queued", "in_progress", "complete"}]
        /\ artifact' \in [Runs -> {"none"} \cup Settled]
    BY <1>w DEF WorkInv, WorkerTypeOK, WorkerState, Settled
  <2>3. abort' \subseteq Runs /\ blind' \subseteq Runs /\ unannounced' \subseteq Runs
    BY DEF WorkInv, WorkerTypeOK
  <2>4. faults' \in 0..MaxFaults
    BY FaultsAssumption DEF WorkInv, WorkerTypeOK
  <2> HIDE DEF ShutdownTask
  <2> QED BY <1>2, <1>e, <2>1, <2>2, <2>3, <2>4 DEF WorkInv, StoreInv, WorkerTypeOK
<1>4. ASSUME NEW q \in Runs PROVE KeepsRow(q) /\ Announced(q)'
  BY <1>1, StutterKeepsRow DEF RunInv
<1>5. ASSUME NEW q \in Runs, q # r PROVE RunInv(q)'
  <2>1. worker'[q] = worker[q]
    BY <1>5, <1>e
  <2>2. /\ delivery'[q] = delivery[q] /\ artifact'[q] = artifact[q] /\ (q \in blind => q \in blind')
        /\ waiting' = waiting /\ acked' = acked
    BY <1>5 DEF WorkerTypeOK
  <2> HIDE DEF ShutdownTask
  <2> QED BY <1>4, <1>5, <2>1, <2>2, UntouchedRun
<1>6. RunInv(r)'
  <2>0. /\ KeepsRow(r) /\ Announced(r)' /\ RunInv(r) /\ StoreInv
        /\ acked' = acked /\ waiting' = waiting /\ (r \in blind => r \in blind')
    BY <1>4
  <2> HIDE DEF WorkInv, ShutdownTask
  <2>1. CASE /\ s.pc = "handler" /\ s.context = worker[r].context /\ s.beat = FALSE
            /\ s.out = worker[r].out /\ s.via = "cancel"
            /\ worker[r].via \in {"none",
                "error"} /\ delivery'[r] = delivery[r] /\ artifact'[r] = artifact[r]
    BY <1>a, <1>e, <2>0, <2>1, OutcomesAssumption DEF RunInv, HoldsDelivery,
        PathIsSound, OutcomeIsSaved, CommitsLast, ResultExists, RequestIsDown,
        Reportable, Unfinished, Beating, PreclaimPath, MainPath, BudgetPath,
        HandlerPath, KeepsRow
  <2>2. CASE /\ s.pc = "idle" /\ ~s.context /\ ~s.beat
            /\ delivery'[r] = "complete" /\ artifact'[r] = artifact[r]
    BY <1>a, <1>e, <2>0, <2>2, OutcomesAssumption DEF RunInv, HoldsDelivery,
        PathIsSound, OutcomeIsSaved, CommitsLast, ResultExists, RequestIsDown,
        Reportable, Unfinished, Beating, PreclaimPath, MainPath, BudgetPath,
        HandlerPath, KeepsRow
  <2> QED BY <1>d, <2>1, <2>2
<1>7. QuietStep
  <2>1. ASSUME NEW q \in acked PROVE q \in Runs /\ KeepsRow(q)
    BY <1>4, <2>1, AnsweredIsEarly
  <2>2. artifact' = artifact
    OBVIOUS
  <2> HIDE DEF WorkInv, ShutdownTask
  <2> QED BY <2>1, <2>2, KeepsQuiet
<1> QED BY <1>1, <1>2, <1>3, <1>5, <1>6, <1>7

(* The cancellation handler looks.                                         *)
LEMMA CheckActiveKeepsInv ==
  ASSUME WorkInv, NEW r \in Runs, CheckActive(r)
  PROVE  WorkInv' /\ [StoreNext]_storeVars /\ QuietStep
<1>w. worker[r] \in WorkerState /\ worker \in [Runs -> WorkerState]
  BY DEF WorkInv, WorkerTypeOK
<1>a. worker[r].pc = "handler"
  BY DEF CheckActive
<1>b. \/ /\ worker' = [worker EXCEPT ![r] = [worker[r] EXCEPT !.pc = "discard",
                !.then = "crash"]]
         /\ delivery'[r] = delivery[r] /\ artifact'[r] = artifact[r]
      \/ /\ worker' = [worker EXCEPT ![r] = [worker[r] EXCEPT !.pc = "discard",
                !.then = "end"]]
         /\ delivery'[r] = delivery[r] /\ artifact'[r] = artifact[r]
  BY <1>w, <1>a DEF CheckActive, WorkerFrame, Moves, Returns, Fault, WorkInv,
      WorkerTypeOK
<1>d. PICK s \in WorkerState :
        /\ worker' = [worker EXCEPT ![r] = s]
        /\ \/ /\ s.pc = "discard" /\ s.context = worker[r].context /\ s.beat = worker[r].beat
              /\ s.out = worker[r].out /\ s.via = worker[r].via
              /\ delivery'[r] = delivery[r] /\ artifact'[r] = artifact[r]
           \/ /\ s.pc = "discard" /\ s.context = worker[r].context /\ s.beat = worker[r].beat
              /\ s.out = worker[r].out /\ s.via = worker[r].via
              /\ delivery'[r] = delivery[r] /\ artifact'[r] = artifact[r]
  <2>1. CASE /\ worker' = [worker EXCEPT ![r] = [worker[r] EXCEPT !.pc = "discard",
                    !.then = "crash"]]
            /\ delivery'[r] = delivery[r] /\ artifact'[r] = artifact[r]
    <3>1. PICK t : t = [worker[r] EXCEPT !.pc = "discard", !.then = "crash"]
      OBVIOUS
    <3>2. "discard" \in Positions
      BY OutcomesAssumption DEF Positions, PreclaimPath, MainPath, BudgetPath, HandlerPath
    <3>3. /\ t \in WorkerState /\ t.pc = "discard" /\ t.context = worker[r].context
          /\ t.beat = worker[r].beat /\ t.out = worker[r].out /\ t.via = worker[r].via
      BY <1>w, <3>1, <3>2 DEF WorkerState, Positions
    <3> QED BY <2>1, <3>1, <3>3
  <2>2. CASE /\ worker' = [worker EXCEPT ![r] = [worker[r] EXCEPT !.pc = "discard",
                    !.then = "end"]]
            /\ delivery'[r] = delivery[r] /\ artifact'[r] = artifact[r]
    <3>1. PICK t : t = [worker[r] EXCEPT !.pc = "discard", !.then = "end"]
      OBVIOUS
    <3>2. "discard" \in Positions
      BY OutcomesAssumption DEF Positions, PreclaimPath, MainPath, BudgetPath, HandlerPath
    <3>3. /\ t \in WorkerState /\ t.pc = "discard" /\ t.context = worker[r].context
          /\ t.beat = worker[r].beat /\ t.out = worker[r].out /\ t.via = worker[r].via
      BY <1>w, <3>1, <3>2 DEF WorkerState, Positions
    <3> QED BY <2>2, <3>1, <3>3
  <2> QED BY <1>b, <2>1, <2>2
<1>e. /\ worker' \in [Runs -> WorkerState] /\ worker'[r] = s
      /\ \A q \in Runs : q # r => worker'[q] = worker[q]
  BY <1>d, OtherWorkers DEF WorkInv
<1> USE DEF WorkInv, CheckActive, WorkerFrame, Moves, Returns, Fault
<1>1. UNCHANGED storeVars /\ unannounced \subseteq unannounced'
  OBVIOUS
<1>2. StoreInv'
  BY <1>1, StutterKeepsInv
<1>3. WorkerTypeOK'
  <2> HIDE DEF WorkInv
  <2>1. UNCHANGED <<sender, recon, waiting, acked>>
    OBVIOUS
  <2>2. /\ delivery' \in [Runs -> {"missing", "queued", "in_progress", "complete"}]
        /\ artifact' \in [Runs -> {"none"} \cup Settled]
    BY <1>w DEF WorkInv, WorkerTypeOK, WorkerState, Settled
  <2>3. abort' \subseteq Runs /\ blind' \subseteq Runs /\ unannounced' \subseteq Runs
    BY DEF WorkInv, WorkerTypeOK
  <2>4. faults' \in 0..MaxFaults
    BY FaultsAssumption DEF WorkInv, WorkerTypeOK
  <2> HIDE DEF CheckActive
  <2> QED BY <1>2, <1>e, <2>1, <2>2, <2>3, <2>4 DEF WorkInv, StoreInv, WorkerTypeOK
<1>4. ASSUME NEW q \in Runs PROVE KeepsRow(q) /\ Announced(q)'
  BY <1>1, StutterKeepsRow DEF RunInv
<1>5. ASSUME NEW q \in Runs, q # r PROVE RunInv(q)'
  <2>1. worker'[q] = worker[q]
    BY <1>5, <1>e
  <2>2. /\ delivery'[q] = delivery[q] /\ artifact'[q] = artifact[q] /\ (q \in blind => q \in blind')
        /\ waiting' = waiting /\ acked' = acked
    BY <1>5 DEF WorkerTypeOK
  <2> HIDE DEF CheckActive
  <2> QED BY <1>4, <1>5, <2>1, <2>2, UntouchedRun
<1>6. RunInv(r)'
  <2>0. /\ KeepsRow(r) /\ Announced(r)' /\ RunInv(r) /\ StoreInv
        /\ acked' = acked /\ waiting' = waiting /\ (r \in blind => r \in blind')
    BY <1>4
  <2> HIDE DEF WorkInv, CheckActive
  <2>1. CASE /\ s.pc = "discard" /\ s.context = worker[r].context /\ s.beat = worker[r].beat
            /\ s.out = worker[r].out /\ s.via = worker[r].via
            /\ delivery'[r] = delivery[r] /\ artifact'[r] = artifact[r]
    BY <1>a, <1>e, <2>0, <2>1, OutcomesAssumption DEF RunInv, HoldsDelivery,
        PathIsSound, OutcomeIsSaved, CommitsLast, ResultExists, RequestIsDown,
        Reportable, Unfinished, Beating, PreclaimPath, MainPath, BudgetPath,
        HandlerPath, KeepsRow
  <2>2. CASE /\ s.pc = "discard" /\ s.context = worker[r].context /\ s.beat = worker[r].beat
            /\ s.out = worker[r].out /\ s.via = worker[r].via
            /\ delivery'[r] = delivery[r] /\ artifact'[r] = artifact[r]
    BY <1>a, <1>e, <2>0, <2>2, OutcomesAssumption DEF RunInv, HoldsDelivery,
        PathIsSound, OutcomeIsSaved, CommitsLast, ResultExists, RequestIsDown,
        Reportable, Unfinished, Beating, PreclaimPath, MainPath, BudgetPath,
        HandlerPath, KeepsRow
  <2> QED BY <1>d, <2>1, <2>2
<1>7. QuietStep
  <2>1. ASSUME NEW q \in acked PROVE q \in Runs /\ KeepsRow(q)
    BY <1>4, <2>1, AnsweredIsEarly
  <2>2. artifact' = artifact
    OBVIOUS
  <2> HIDE DEF WorkInv, CheckActive
  <2> QED BY <2>1, <2>2, KeepsQuiet
<1> QED BY <1>1, <1>2, <1>3, <1>5, <1>6, <1>7

(* The discard reads the run.                                              *)
LEMMA DiscardReadKeepsInv ==
  ASSUME WorkInv, NEW r \in Runs, DiscardRead(r)
  PROVE  WorkInv' /\ [StoreNext]_storeVars /\ QuietStep
<1>w. worker[r] \in WorkerState /\ worker \in [Runs -> WorkerState]
  BY DEF WorkInv, WorkerTypeOK
<1>a. worker[r].pc = "discard"
  BY DEF DiscardRead
<1>b. \/ /\ worker' = [worker EXCEPT ![r] = [worker[r] EXCEPT !.pc = "crash"]]
         /\ delivery'[r] = delivery[r] /\ artifact'[r] = artifact[r]
      \/ /\ worker' = [worker EXCEPT ![r] = Idle]
         /\ delivery'[r] = "complete" /\ artifact'[r] = artifact[r]
      \/ /\ worker' = [worker EXCEPT ![r] = [worker[r] EXCEPT !.pc = "delete"]]
         /\ (runStatus[r] \notin Reportable \/ r \in blind') /\ delivery'[r] = delivery[r] /\ artifact'[r] = artifact[r]
  BY <1>w, <1>a DEF DiscardRead, WorkerFrame, Moves, Returns, Fault, DiscardEnds,
      AfterDiscard, WorkInv, WorkerTypeOK, FinalizedByOwner, Reportable
<1>d. PICK s \in WorkerState :
        /\ worker' = [worker EXCEPT ![r] = s]
        /\ \/ /\ s.pc = "crash" /\ s.context = worker[r].context /\ s.beat = worker[r].beat
              /\ s.out = worker[r].out /\ s.via = worker[r].via
              /\ delivery'[r] = delivery[r] /\ artifact'[r] = artifact[r]
           \/ /\ s.pc = "idle" /\ ~s.context /\ ~s.beat
              /\ delivery'[r] = "complete" /\ artifact'[r] = artifact[r]
           \/ /\ s.pc = "delete" /\ s.context = worker[r].context /\ s.beat = worker[r].beat
              /\ s.out = worker[r].out /\ s.via = worker[r].via
              /\ (runStatus[r] \notin Reportable \/ r \in blind') /\ delivery'[r] = delivery[r] /\ artifact'[r] = artifact[r]
  <2>1. CASE /\ worker' = [worker EXCEPT ![r] = [worker[r] EXCEPT !.pc = "crash"]]
            /\ delivery'[r] = delivery[r] /\ artifact'[r] = artifact[r]
    <3>1. PICK t : t = [worker[r] EXCEPT !.pc = "crash"]
      OBVIOUS
    <3>2. "crash" \in Positions
      BY OutcomesAssumption DEF Positions, PreclaimPath, MainPath, BudgetPath, HandlerPath
    <3>3. /\ t \in WorkerState /\ t.pc = "crash" /\ t.context = worker[r].context
          /\ t.beat = worker[r].beat /\ t.out = worker[r].out /\ t.via = worker[r].via
      BY <1>w, <3>1, <3>2 DEF WorkerState, Positions
    <3> QED BY <2>1, <3>1, <3>3
  <2>2. CASE /\ worker' = [worker EXCEPT ![r] = Idle]
            /\ delivery'[r] = "complete" /\ artifact'[r] = artifact[r]
    <3> QED BY <2>2, IdleIsState
  <2>3. CASE /\ worker' = [worker EXCEPT ![r] = [worker[r] EXCEPT !.pc = "delete"]]
            /\ (runStatus[r] \notin Reportable \/ r \in blind') /\ delivery'[r] = delivery[r] /\ artifact'[r] = artifact[r]
    <3>1. PICK t : t = [worker[r] EXCEPT !.pc = "delete"]
      OBVIOUS
    <3>2. "delete" \in Positions
      BY OutcomesAssumption DEF Positions, PreclaimPath, MainPath, BudgetPath, HandlerPath
    <3>3. /\ t \in WorkerState /\ t.pc = "delete" /\ t.context = worker[r].context
          /\ t.beat = worker[r].beat /\ t.out = worker[r].out /\ t.via = worker[r].via
      BY <1>w, <3>1, <3>2 DEF WorkerState, Positions
    <3> QED BY <2>3, <3>1, <3>3
  <2> QED BY <1>b, <2>1, <2>2, <2>3
<1>e. /\ worker' \in [Runs -> WorkerState] /\ worker'[r] = s
      /\ \A q \in Runs : q # r => worker'[q] = worker[q]
  BY <1>d, OtherWorkers DEF WorkInv
<1> USE DEF WorkInv, DiscardRead, WorkerFrame, Moves, Returns, Fault, DiscardEnds,
    AfterDiscard, Idle
<1>1. UNCHANGED storeVars /\ unannounced \subseteq unannounced'
  OBVIOUS
<1>2. StoreInv'
  BY <1>1, StutterKeepsInv
<1>3. WorkerTypeOK'
  <2> HIDE DEF WorkInv
  <2>1. UNCHANGED <<sender, recon, waiting, acked>>
    OBVIOUS
  <2>2. /\ delivery' \in [Runs -> {"missing", "queued", "in_progress", "complete"}]
        /\ artifact' \in [Runs -> {"none"} \cup Settled]
    BY <1>w DEF WorkInv, WorkerTypeOK, WorkerState, Settled
  <2>3. abort' \subseteq Runs /\ blind' \subseteq Runs /\ unannounced' \subseteq Runs
    BY DEF WorkInv, WorkerTypeOK
  <2>4. faults' \in 0..MaxFaults
    BY FaultsAssumption DEF WorkInv, WorkerTypeOK
  <2> HIDE DEF DiscardRead
  <2> QED BY <1>2, <1>e, <2>1, <2>2, <2>3, <2>4 DEF WorkInv, StoreInv, WorkerTypeOK
<1>4. ASSUME NEW q \in Runs PROVE KeepsRow(q) /\ Announced(q)'
  BY <1>1, StutterKeepsRow DEF RunInv
<1>5. ASSUME NEW q \in Runs, q # r PROVE RunInv(q)'
  <2>1. worker'[q] = worker[q]
    BY <1>5, <1>e
  <2>2. /\ delivery'[q] = delivery[q] /\ artifact'[q] = artifact[q] /\ (q \in blind => q \in blind')
        /\ waiting' = waiting /\ acked' = acked
    BY <1>5 DEF WorkerTypeOK
  <2> HIDE DEF DiscardRead
  <2> QED BY <1>4, <1>5, <2>1, <2>2, UntouchedRun
<1>6. RunInv(r)'
  <2>0. /\ KeepsRow(r) /\ Announced(r)' /\ RunInv(r) /\ StoreInv
        /\ acked' = acked /\ waiting' = waiting /\ (r \in blind => r \in blind')
    BY <1>4
  <2> HIDE DEF WorkInv, DiscardRead
  <2>1. CASE /\ s.pc = "crash" /\ s.context = worker[r].context /\ s.beat = worker[r].beat
            /\ s.out = worker[r].out /\ s.via = worker[r].via
            /\ delivery'[r] = delivery[r] /\ artifact'[r] = artifact[r]
    BY <1>a, <1>e, <2>0, <2>1, OutcomesAssumption DEF RunInv, HoldsDelivery,
        PathIsSound, OutcomeIsSaved, CommitsLast, ResultExists, RequestIsDown,
        Reportable, Unfinished, Beating, PreclaimPath, MainPath, BudgetPath,
        HandlerPath, KeepsRow
  <2>2. CASE /\ s.pc = "idle" /\ ~s.context /\ ~s.beat
            /\ delivery'[r] = "complete" /\ artifact'[r] = artifact[r]
    BY <1>a, <1>e, <2>0, <2>2, OutcomesAssumption DEF RunInv, HoldsDelivery,
        PathIsSound, OutcomeIsSaved, CommitsLast, ResultExists, RequestIsDown,
        Reportable, Unfinished, Beating, PreclaimPath, MainPath, BudgetPath,
        HandlerPath, KeepsRow
  <2>3. CASE /\ s.pc = "delete" /\ s.context = worker[r].context /\ s.beat = worker[r].beat
            /\ s.out = worker[r].out /\ s.via = worker[r].via
            /\ (runStatus[r] \notin Reportable \/ r \in blind') /\ delivery'[r] = delivery[r] /\ artifact'[r] = artifact[r]
    BY <1>a, <1>e, <2>0, <2>3, OutcomesAssumption DEF RunInv, HoldsDelivery,
        PathIsSound, OutcomeIsSaved, CommitsLast, ResultExists, RequestIsDown,
        Reportable, Unfinished, Beating, PreclaimPath, MainPath, BudgetPath,
        HandlerPath, KeepsRow
  <2> QED BY <1>d, <2>1, <2>2, <2>3
<1>7. QuietStep
  <2>1. ASSUME NEW q \in acked PROVE q \in Runs /\ KeepsRow(q)
    BY <1>4, <2>1, AnsweredIsEarly
  <2>2. artifact' = artifact
    OBVIOUS
  <2> HIDE DEF WorkInv, DiscardRead
  <2> QED BY <2>1, <2>2, KeepsQuiet
<1> QED BY <1>1, <1>2, <1>3, <1>5, <1>6, <1>7

(* The discard deletes the artifact.                                       *)
LEMMA DiscardDeleteKeepsInv ==
  ASSUME WorkInv, NEW r \in Runs, DiscardDelete(r)
  PROVE  WorkInv' /\ [StoreNext]_storeVars /\ QuietStep
<1>w. worker[r] \in WorkerState /\ worker \in [Runs -> WorkerState]
  BY DEF WorkInv, WorkerTypeOK
<1>a. worker[r].pc = "delete"
  BY DEF DiscardDelete
<1>b. \/ /\ worker' = [worker EXCEPT ![r] = [worker[r] EXCEPT !.pc = "crash"]]
         /\ delivery'[r] = delivery[r] /\ (artifact'[r] = artifact[r] \/ artifact'[r] = "none")
      \/ /\ worker' = [worker EXCEPT ![r] = Idle]
         /\ delivery'[r] = "complete" /\ (artifact'[r] = artifact[r] \/ artifact'[r] = "none")
  BY <1>w, <1>a DEF DiscardDelete, WorkerFrame, Moves, Returns, Fault, DiscardEnds,
      AfterDiscard, WorkInv, WorkerTypeOK
<1>d. PICK s \in WorkerState :
        /\ worker' = [worker EXCEPT ![r] = s]
        /\ \/ /\ s.pc = "crash" /\ s.context = worker[r].context /\ s.beat = worker[r].beat
              /\ s.out = worker[r].out /\ s.via = worker[r].via
              /\ delivery'[r] = delivery[r] /\ (artifact'[r] = artifact[r] \/ artifact'[r] = "none")
           \/ /\ s.pc = "idle" /\ ~s.context /\ ~s.beat
              /\ delivery'[r] = "complete" /\ (artifact'[r] = artifact[r] \/ artifact'[r] = "none")
  <2>1. CASE /\ worker' = [worker EXCEPT ![r] = [worker[r] EXCEPT !.pc = "crash"]]
            /\ delivery'[r] = delivery[r] /\ (artifact'[r] = artifact[r] \/ artifact'[r] = "none")
    <3>1. PICK t : t = [worker[r] EXCEPT !.pc = "crash"]
      OBVIOUS
    <3>2. "crash" \in Positions
      BY OutcomesAssumption DEF Positions, PreclaimPath, MainPath, BudgetPath, HandlerPath
    <3>3. /\ t \in WorkerState /\ t.pc = "crash" /\ t.context = worker[r].context
          /\ t.beat = worker[r].beat /\ t.out = worker[r].out /\ t.via = worker[r].via
      BY <1>w, <3>1, <3>2 DEF WorkerState, Positions
    <3> QED BY <2>1, <3>1, <3>3
  <2>2. CASE /\ worker' = [worker EXCEPT ![r] = Idle]
            /\ delivery'[r] = "complete" /\ (artifact'[r] = artifact[r] \/ artifact'[r] = "none")
    <3> QED BY <2>2, IdleIsState
  <2> QED BY <1>b, <2>1, <2>2
<1>e. /\ worker' \in [Runs -> WorkerState] /\ worker'[r] = s
      /\ \A q \in Runs : q # r => worker'[q] = worker[q]
  BY <1>d, OtherWorkers DEF WorkInv
<1> USE DEF WorkInv, DiscardDelete, WorkerFrame, Moves, Returns, Fault, DiscardEnds,
    AfterDiscard, Idle
<1>1. UNCHANGED storeVars /\ unannounced \subseteq unannounced'
  OBVIOUS
<1>2. StoreInv'
  BY <1>1, StutterKeepsInv
<1>3. WorkerTypeOK'
  <2> HIDE DEF WorkInv
  <2>1. UNCHANGED <<sender, recon, waiting, acked>>
    OBVIOUS
  <2>2. /\ delivery' \in [Runs -> {"missing", "queued", "in_progress", "complete"}]
        /\ artifact' \in [Runs -> {"none"} \cup Settled]
    BY <1>w DEF WorkInv, WorkerTypeOK, WorkerState, Settled
  <2>3. abort' \subseteq Runs /\ blind' \subseteq Runs /\ unannounced' \subseteq Runs
    BY DEF WorkInv, WorkerTypeOK
  <2>4. faults' \in 0..MaxFaults
    BY FaultsAssumption DEF WorkInv, WorkerTypeOK
  <2> HIDE DEF DiscardDelete
  <2> QED BY <1>2, <1>e, <2>1, <2>2, <2>3, <2>4 DEF WorkInv, StoreInv, WorkerTypeOK
<1>4. ASSUME NEW q \in Runs PROVE KeepsRow(q) /\ Announced(q)'
  BY <1>1, StutterKeepsRow DEF RunInv
<1>5. ASSUME NEW q \in Runs, q # r PROVE RunInv(q)'
  <2>1. worker'[q] = worker[q]
    BY <1>5, <1>e
  <2>2. /\ delivery'[q] = delivery[q] /\ artifact'[q] = artifact[q] /\ (q \in blind => q \in blind')
        /\ waiting' = waiting /\ acked' = acked
    BY <1>5 DEF WorkerTypeOK
  <2> HIDE DEF DiscardDelete
  <2> QED BY <1>4, <1>5, <2>1, <2>2, UntouchedRun
<1>6. RunInv(r)'
  <2>0. /\ KeepsRow(r) /\ Announced(r)' /\ RunInv(r) /\ StoreInv
        /\ acked' = acked /\ waiting' = waiting /\ (r \in blind => r \in blind')
    BY <1>4
  <2> HIDE DEF WorkInv, DiscardDelete
  <2>1. CASE /\ s.pc = "crash" /\ s.context = worker[r].context /\ s.beat = worker[r].beat
            /\ s.out = worker[r].out /\ s.via = worker[r].via
            /\ delivery'[r] = delivery[r] /\ (artifact'[r] = artifact[r] \/ artifact'[r] = "none")
    BY <1>a, <1>e, <2>0, <2>1, OutcomesAssumption DEF RunInv, HoldsDelivery,
        PathIsSound, OutcomeIsSaved, CommitsLast, ResultExists, RequestIsDown,
        Reportable, Unfinished, Beating, PreclaimPath, MainPath, BudgetPath,
        HandlerPath, KeepsRow
  <2>2. CASE /\ s.pc = "idle" /\ ~s.context /\ ~s.beat
            /\ delivery'[r] = "complete" /\ (artifact'[r] = artifact[r] \/ artifact'[r] = "none")
    BY <1>a, <1>e, <2>0, <2>2, OutcomesAssumption DEF RunInv, HoldsDelivery,
        PathIsSound, OutcomeIsSaved, CommitsLast, ResultExists, RequestIsDown,
        Reportable, Unfinished, Beating, PreclaimPath, MainPath, BudgetPath,
        HandlerPath, KeepsRow
  <2> QED BY <1>d, <2>1, <2>2
<1>7. QuietStep
  <2>1. ASSUME NEW q \in acked PROVE q \in Runs /\ KeepsRow(q)
    BY <1>4, <2>1, AnsweredIsEarly
  <2>2. ASSUME NEW q \in acked PROVE artifact'[q] \in {artifact[q], "none"}
    <3>1. q \in Runs /\ (worker[r].pc \notin {"idle"} \cup PreclaimPath => q # r)
      BY <2>2, AnsweredIsEarly
    <3> QED BY <1>a, <3>1 DEF WorkerTypeOK, PreclaimPath
  <2> HIDE DEF WorkInv, DiscardDelete
  <2> QED BY <2>1, <2>2, KeepsQuiet
<1> QED BY <1>1, <1>2, <1>3, <1>5, <1>6, <1>7

(* The crash handler prepares.                                             *)
LEMMA PrepareFailureKeepsInv ==
  ASSUME WorkInv, NEW r \in Runs, PrepareFailure(r)
  PROVE  WorkInv' /\ [StoreNext]_storeVars /\ QuietStep
<1>w. worker[r] \in WorkerState /\ worker \in [Runs -> WorkerState]
  BY DEF WorkInv, WorkerTypeOK
<1>a. worker[r].pc = "crash"
  BY DEF PrepareFailure
<1>b. /\ worker' = [worker EXCEPT ![r] = [worker[r] EXCEPT !.pc = "fail",
             !.lease = fresh[r]]]
      /\ delivery'[r] = delivery[r] /\ artifact'[r] = artifact[r]
  BY <1>w, <1>a DEF PrepareFailure, WorkerFrame, Moves, Returns, WorkInv, WorkerTypeOK
<1>d. PICK s \in WorkerState :
        /\ worker' = [worker EXCEPT ![r] = s]
        /\ s.pc = "fail" /\ s.context = worker[r].context /\ s.beat = worker[r].beat
        /\ s.out = worker[r].out /\ s.via = worker[r].via
        /\ delivery'[r] = delivery[r] /\ artifact'[r] = artifact[r]
  <2>1. PICK t : t = [worker[r] EXCEPT !.pc = "fail", !.lease = fresh[r]]
    OBVIOUS
  <2>2. "fail" \in Positions /\ fresh[r] \in BOOLEAN
    BY OutcomesAssumption DEF Positions, PreclaimPath, MainPath, BudgetPath, HandlerPath,
        WorkInv, StoreInv, StoreTypeOK
  <2>3. /\ t \in WorkerState /\ t.pc = "fail" /\ t.context = worker[r].context
        /\ t.beat = worker[r].beat /\ t.out = worker[r].out /\ t.via = worker[r].via
    BY <1>w, <2>1, <2>2 DEF WorkerState, Positions
  <2> QED BY <1>b, <2>1, <2>3
<1>e. /\ worker' \in [Runs -> WorkerState] /\ worker'[r] = s
      /\ \A q \in Runs : q # r => worker'[q] = worker[q]
  BY <1>d, OtherWorkers DEF WorkInv
<1> USE DEF WorkInv, PrepareFailure, WorkerFrame, Moves, Returns
<1>1. UNCHANGED storeVars /\ unannounced \subseteq unannounced'
  OBVIOUS
<1>2. StoreInv'
  BY <1>1, StutterKeepsInv
<1>3. WorkerTypeOK'
  <2> HIDE DEF WorkInv
  <2>1. UNCHANGED <<sender, recon, waiting, acked>>
    OBVIOUS
  <2>2. /\ delivery' \in [Runs -> {"missing", "queued", "in_progress", "complete"}]
        /\ artifact' \in [Runs -> {"none"} \cup Settled]
    BY <1>w DEF WorkInv, WorkerTypeOK, WorkerState, Settled
  <2>3. abort' \subseteq Runs /\ blind' \subseteq Runs /\ unannounced' \subseteq Runs
    BY DEF WorkInv, WorkerTypeOK
  <2>4. faults' \in 0..MaxFaults
    BY FaultsAssumption DEF WorkInv, WorkerTypeOK
  <2> HIDE DEF PrepareFailure
  <2> QED BY <1>2, <1>e, <2>1, <2>2, <2>3, <2>4 DEF WorkInv, StoreInv, WorkerTypeOK
<1>4. ASSUME NEW q \in Runs PROVE KeepsRow(q) /\ Announced(q)'
  BY <1>1, StutterKeepsRow DEF RunInv
<1>5. ASSUME NEW q \in Runs, q # r PROVE RunInv(q)'
  <2>1. worker'[q] = worker[q]
    BY <1>5, <1>e
  <2>2. /\ delivery'[q] = delivery[q] /\ artifact'[q] = artifact[q] /\ (q \in blind => q \in blind')
        /\ waiting' = waiting /\ acked' = acked
    BY <1>5 DEF WorkerTypeOK
  <2> HIDE DEF PrepareFailure
  <2> QED BY <1>4, <1>5, <2>1, <2>2, UntouchedRun
<1>6. RunInv(r)'
  <2>0. /\ KeepsRow(r) /\ Announced(r)' /\ RunInv(r) /\ StoreInv
        /\ acked' = acked /\ waiting' = waiting /\ (r \in blind => r \in blind')
    BY <1>4
  <2> HIDE DEF WorkInv, PrepareFailure
  <2> QED BY <1>a, <1>d, <1>e, <2>0, OutcomesAssumption DEF RunInv, HoldsDelivery,
      PathIsSound, OutcomeIsSaved, CommitsLast, ResultExists, RequestIsDown, Reportable,
      Unfinished, Beating, PreclaimPath, MainPath, BudgetPath, HandlerPath, KeepsRow
<1>7. QuietStep
  <2>1. ASSUME NEW q \in acked PROVE q \in Runs /\ KeepsRow(q)
    BY <1>4, <2>1, AnsweredIsEarly
  <2>2. artifact' = artifact
    OBVIOUS
  <2> HIDE DEF WorkInv, PrepareFailure
  <2> QED BY <2>1, <2>2, KeepsQuiet
<1> QED BY <1>1, <1>2, <1>3, <1>5, <1>6, <1>7

(* The crash handler fails the run.                                        *)
LEMMA FailKeepsInv ==
  ASSUME WorkInv, NEW r \in Runs, Fail(r)
  PROVE  WorkInv' /\ [StoreNext]_storeVars /\ QuietStep
<1>w. worker[r] \in WorkerState /\ worker \in [Runs -> WorkerState]
  BY DEF WorkInv, WorkerTypeOK
<1>a. worker[r].pc = "fail"
  BY DEF Fail
<1>b. /\ worker' = [worker EXCEPT ![r] = Idle]
      /\ delivery'[r] = "complete" /\ artifact'[r] = artifact[r]
  BY <1>w, <1>a DEF Fail, WorkerFrame, Moves, Returns, Fault, WorkInv, WorkerTypeOK
<1>d. PICK s \in WorkerState :
        /\ worker' = [worker EXCEPT ![r] = s]
        /\ s.pc = "idle" /\ ~s.context /\ ~s.beat
        /\ delivery'[r] = "complete" /\ artifact'[r] = artifact[r]
  <2> QED BY <1>b, IdleIsState
<1>e. /\ worker' \in [Runs -> WorkerState] /\ worker'[r] = s
      /\ \A q \in Runs : q # r => worker'[q] = worker[q]
  BY <1>d, OtherWorkers DEF WorkInv
<1> USE DEF WorkInv, Fail, WorkerFrame, Moves, Returns, Fault, Idle
<1>1. [StoreNext]_storeVars /\ unannounced \subseteq unannounced'
  BY JobOfAssumption DEF StoreNext, Unannounced, WorkerTypeOK, WorkerState
<1>2. StoreInv'
  BY <1>1, StoreNextKeepsInv, StutterKeepsInv
<1>3. WorkerTypeOK'
  <2> HIDE DEF WorkInv
  <2>1. UNCHANGED <<sender, recon, waiting, acked>>
    OBVIOUS
  <2>2. /\ delivery' \in [Runs -> {"missing", "queued", "in_progress", "complete"}]
        /\ artifact' \in [Runs -> {"none"} \cup Settled]
    BY <1>w DEF WorkInv, WorkerTypeOK, WorkerState, Settled
  <2>3. abort' \subseteq Runs /\ blind' \subseteq Runs /\ unannounced' \subseteq Runs
    BY DEF WorkInv, WorkerTypeOK, Unannounced
  <2>4. faults' \in 0..MaxFaults
    BY FaultsAssumption DEF WorkInv, WorkerTypeOK
  <2> HIDE DEF Fail
  <2> QED BY <1>2, <1>e, <2>1, <2>2, <2>3, <2>4 DEF WorkInv, StoreInv, WorkerTypeOK
<1>4. ASSUME NEW q \in Runs PROVE KeepsRow(q) /\ Announced(q)'
  <2>0. worker[r].context \in BOOLEAN /\ worker[r].lease \in BOOLEAN
    BY DEF WorkerTypeOK, WorkerState
  <2>1. CASE FailOwnedRun(r, worker[r].context,
            worker[r].lease) /\ unannounced' = Unannounced(r)
    <3>1. RunIsActive(r) /\ ~worker[r].context => r \in unannounced'
      BY <2>1 DEF Unannounced
    <3> QED BY <1>1, <2>0, <2>1, <3>1, FailOwnedRunKeepsRow DEF RunInv
  <2>2. CASE UNCHANGED storeVars
    BY <1>1, <2>2, StutterKeepsRow DEF RunInv
  <2> QED BY <2>1, <2>2
<1>5. ASSUME NEW q \in Runs, q # r PROVE RunInv(q)'
  <2>1. worker'[q] = worker[q]
    BY <1>5, <1>e
  <2>2. /\ delivery'[q] = delivery[q] /\ artifact'[q] = artifact[q] /\ (q \in blind => q \in blind')
        /\ waiting' = waiting /\ acked' = acked
    BY <1>5 DEF WorkerTypeOK
  <2> HIDE DEF Fail
  <2> QED BY <1>4, <1>5, <2>1, <2>2, UntouchedRun
<1>6. RunInv(r)'
  <2>0. /\ KeepsRow(r) /\ Announced(r)' /\ RunInv(r) /\ StoreInv
        /\ acked' = acked /\ waiting' = waiting /\ (r \in blind => r \in blind')
    BY <1>4
  <2> HIDE DEF WorkInv, Fail
  <2> QED BY <1>a, <1>d, <1>e, <2>0, OutcomesAssumption DEF RunInv, HoldsDelivery,
      PathIsSound, OutcomeIsSaved, CommitsLast, ResultExists, RequestIsDown, Reportable,
      Unfinished, Beating, PreclaimPath, MainPath, BudgetPath, HandlerPath, KeepsRow
<1>7. QuietStep
  <2>1. ASSUME NEW q \in acked PROVE q \in Runs /\ KeepsRow(q)
    BY <1>4, <2>1, AnsweredIsEarly
  <2>2. artifact' = artifact
    OBVIOUS
  <2> HIDE DEF WorkInv, Fail
  <2> QED BY <2>1, <2>2, KeepsQuiet
<1> QED BY <1>1, <1>2, <1>3, <1>5, <1>6, <1>7

(* A stale run is recovered.                                               *)
LEMMA RecoverKeepsInv ==
  ASSUME WorkInv, NEW r \in Runs, Recover(r)
  PROVE  WorkInv' /\ [StoreNext]_storeVars /\ QuietStep
<1> USE DEF WorkInv, Recover, workVars
<1>1. StoreNext /\ unannounced \subseteq unannounced'
  BY JobOfAssumption DEF StoreNext
<1>2. StoreInv'
  BY <1>1, StoreNextKeepsInv
<1>3. WorkerTypeOK'
  BY <1>2, FaultsAssumption, OutcomesAssumption DEF StoreInv,
    WorkerTypeOK, WorkerState, PreclaimPath, MainPath, BudgetPath, HandlerPath
<1>4. ASSUME NEW q \in Runs PROVE KeepsRow(q) /\ Announced(q)'
  BY RecoverStaleRunKeepsRow DEF RunInv
<1>5. ASSUME NEW q \in Runs PROVE RunInv(q)'
  BY <1>4, UntouchedRun
<1>7. QuietStep
  <2>1. ASSUME NEW q \in acked PROVE q \in Runs /\ KeepsRow(q)
    BY <1>4, <2>1, AnsweredIsEarly
  <2>2. artifact' = artifact
    OBVIOUS
  <2> HIDE DEF WorkInv, Recover
  <2> QED BY <2>1, <2>2, KeepsQuiet
<1> QED BY <1>1, <1>2, <1>3, <1>5, <1>7

(* An outcome is reconciled.                                               *)
LEMMA ReconcileIntentKeepsInv ==
  ASSUME WorkInv, NEW r \in Runs, ReconcileIntent(r)
  PROVE  WorkInv' /\ [StoreNext]_storeVars /\ QuietStep
<1> USE DEF WorkInv, ReconcileIntent, workVars
<1>1. StoreNext /\ unannounced \subseteq unannounced'
  BY JobOfAssumption DEF StoreNext
<1>2. StoreInv'
  BY <1>1, StoreNextKeepsInv
<1>3. WorkerTypeOK'
  BY <1>2, FaultsAssumption, OutcomesAssumption DEF StoreInv,
    WorkerTypeOK, WorkerState, PreclaimPath, MainPath, BudgetPath, HandlerPath
<1>4. ASSUME NEW q \in Runs PROVE KeepsRow(q) /\ Announced(q)'
  BY ReconcileTerminalWebhookKeepsRow DEF RunInv
<1>5. ASSUME NEW q \in Runs PROVE RunInv(q)'
  BY <1>4, UntouchedRun
<1>7. QuietStep
  <2>1. ASSUME NEW q \in acked PROVE q \in Runs /\ KeepsRow(q)
    BY <1>4, <2>1, AnsweredIsEarly
  <2>2. artifact' = artifact
    OBVIOUS
  <2> HIDE DEF WorkInv, ReconcileIntent
  <2> QED BY <2>1, <2>2, KeepsQuiet
<1> QED BY <1>1, <1>2, <1>3, <1>5, <1>7

(* A cancel request arrives.                                               *)
LEMMA CancelRequestKeepsInv ==
  ASSUME WorkInv, NEW r \in Runs, CancelRequest(r)
  PROVE  WorkInv' /\ [StoreNext]_storeVars /\ QuietStep
<1> USE DEF WorkInv, CancelRequest
<1>1. [StoreNext]_storeVars /\ unannounced \subseteq unannounced'
  BY JobOfAssumption DEF StoreNext
<1>2. StoreInv'
  BY <1>1, StoreNextKeepsInv, StutterKeepsInv
<1>3. WorkerTypeOK'
  BY <1>2, FaultsAssumption, OutcomesAssumption DEF StoreInv,
    WorkerTypeOK, WorkerState, PreclaimPath, MainPath, BudgetPath, HandlerPath
<1>4. ASSUME NEW q \in Runs PROVE KeepsRow(q) /\ Announced(q)'
  BY <1>1, CancelJobKeepsRow, StutterKeepsRow, JobOfAssumption DEF RunInv
<1>5. ASSUME NEW q \in Runs, q # r PROVE RunInv(q)'
  BY <1>4, <1>5, UntouchedRun DEF WorkerTypeOK
<1>6. RunInv(r)'
  <2>1. KeepsRow(r) /\ Announced(r)' /\ RunInv(r)
    BY <1>4
  <2>2. jobStatus'[JobOf[r]] = "cancelled" /\ cur'[JobOf[r]] = r
    BY JobOfAssumption DEF StoreInv, StoreTypeOK, CancelJob, storeVars
  <2>3. runStatus'[r] \in {"none", "cancelled"}
    BY <2>1, <2>2 DEF KeepsRow, CancelledIsDown
  <2>4. /\ worker' = worker /\ delivery' = delivery /\ artifact' = artifact
        /\ acked' = acked /\ blind' = blind
    OBVIOUS
  <2> HIDE DEF WorkInv, CancelRequest
  <2>5. HoldsDelivery(r)' /\ PathIsSound(r)' /\ OutcomeIsSaved(r)'
    BY <2>1, <2>4 DEF RunInv, HoldsDelivery, PathIsSound, OutcomeIsSaved
  <2>6. CommitsLast(r)' /\ ResultExists(r)'
    BY <2>3 DEF CommitsLast, ResultExists, Reportable
  <2>7. RequestIsDown(r)'
    BY <2>1, <2>2, <2>3, <2>4 DEF RunInv, RequestIsDown
  <2> QED BY <2>1, <2>5, <2>6, <2>7 DEF RunInv, KeepsRow
<1>7. QuietStep
  <2>1. ASSUME NEW q \in acked PROVE q \in Runs /\ KeepsRow(q)
    BY <1>4, <2>1, AnsweredIsEarly
  <2>2. artifact' = artifact
    OBVIOUS
  <2> HIDE DEF WorkInv, CancelRequest
  <2> QED BY <2>1, <2>2, KeepsQuiet
<1> QED BY <1>1, <1>2, <1>3, <1>5, <1>6, <1>7

(* A cancel request reaches the queue.                                     *)
LEMMA CancelDeliveryKeepsInv ==
  ASSUME WorkInv, NEW r \in Runs, CancelDelivery(r)
  PROVE  WorkInv' /\ [StoreNext]_storeVars /\ QuietStep
<1> USE DEF WorkInv, CancelDelivery
<1>1. UNCHANGED storeVars /\ unannounced \subseteq unannounced'
  OBVIOUS
<1>2. StoreInv'
  BY <1>1, StutterKeepsInv
<1>3. WorkerTypeOK'
  BY <1>2, FaultsAssumption, OutcomesAssumption DEF StoreInv,
    WorkerTypeOK, WorkerState, PreclaimPath, MainPath, BudgetPath, HandlerPath
<1>4. ASSUME NEW q \in Runs PROVE KeepsRow(q) /\ Announced(q)'
  BY <1>1, StutterKeepsRow DEF RunInv
<1>5. ASSUME NEW q \in Runs, q # r PROVE RunInv(q)'
  BY <1>4, <1>5, UntouchedRun DEF WorkerTypeOK
<1>6. RunInv(r)'
  <2>1. KeepsRow(r) /\ Announced(r)'
    BY <1>4
  <2> QED
    BY <2>1 DEF RunInv, HoldsDelivery, PathIsSound, OutcomeIsSaved, CommitsLast,
        ResultExists, RequestIsDown, Reportable, Unfinished, Beating, PreclaimPath,
        MainPath, BudgetPath, HandlerPath, KeepsRow, WorkerTypeOK, WorkerState
<1>7. QuietStep
  <2>1. ASSUME NEW q \in acked PROVE q \in Runs /\ KeepsRow(q)
    BY <1>4, <2>1, AnsweredIsEarly
  <2>2. artifact' = artifact
    OBVIOUS
  <2> HIDE DEF WorkInv, CancelDelivery
  <2> QED BY <2>1, <2>2, KeepsQuiet
<1> QED BY <1>1, <1>2, <1>3, <1>5, <1>6, <1>7

(* A cancel request is answered.                                           *)
LEMMA CancelAnswerKeepsInv ==
  ASSUME WorkInv, NEW r \in Runs, CancelAnswer(r)
  PROVE  WorkInv' /\ [StoreNext]_storeVars /\ QuietStep
<1> USE DEF WorkInv, CancelAnswer
<1>1. UNCHANGED storeVars /\ unannounced \subseteq unannounced'
  OBVIOUS
<1>2. StoreInv'
  BY <1>1, StutterKeepsInv
<1>3. WorkerTypeOK'
  BY <1>2, FaultsAssumption, OutcomesAssumption DEF StoreInv,
    WorkerTypeOK, WorkerState, PreclaimPath, MainPath, BudgetPath, HandlerPath
<1>4. ASSUME NEW q \in Runs PROVE KeepsRow(q) /\ Announced(q)'
  BY <1>1, StutterKeepsRow DEF RunInv
<1>5. ASSUME NEW q \in Runs, q # r PROVE RunInv(q)'
  BY <1>4, <1>5, UntouchedRun DEF WorkerTypeOK
<1>6. RunInv(r)'
  <2>1. KeepsRow(r) /\ Announced(r)'
    BY <1>4
  <2> QED
    BY <2>1 DEF RunInv, HoldsDelivery, PathIsSound, OutcomeIsSaved, CommitsLast,
        ResultExists, RequestIsDown, Reportable, Unfinished, Beating, PreclaimPath,
        MainPath, BudgetPath, HandlerPath, KeepsRow, WorkerTypeOK, WorkerState
<1>7. QuietStep
  <2>1. ASSUME NEW q \in acked PROVE q \in Runs /\ KeepsRow(q)
    BY <1>4, <2>1, AnsweredIsEarly
  <2>2. artifact' = artifact
    OBVIOUS
  <2> HIDE DEF WorkInv, CancelAnswer
  <2> QED BY <2>1, <2>2, KeepsQuiet
<1> QED BY <1>1, <1>2, <1>3, <1>5, <1>6, <1>7

(* The process dies.                                                       *)
LEMMA ProcessCrashKeepsInv ==
  ASSUME WorkInv, ProcessCrash
  PROVE  WorkInv' /\ [StoreNext]_storeVars /\ QuietStep
<1>1. UNCHANGED storeVars /\ unannounced' = unannounced
  BY DEF ProcessCrash
<1>2. StoreInv'
  BY <1>1, StutterKeepsInv DEF WorkInv
<1>3. WorkerTypeOK'
  <2>1. worker' \in [Runs -> WorkerState]
    BY IdleIsState DEF ProcessCrash
  <2>2. faults' \in 0..MaxFaults
    BY FaultsAssumption DEF WorkInv, WorkerTypeOK, ProcessCrash, Fault
  <2>3. /\ delivery' \in [Runs -> {"missing", "queued", "in_progress", "complete"}]
        /\ sender' \in [Runs -> SUBSET {"submit", "reread", "trigger", "recover"}]
        /\ recon' \in [run : Runs \cup {NoRun}, seen : {"missing", "complete"}]
    BY DEF WorkInv, WorkerTypeOK, ProcessCrash, NoRecon
  <2>4. /\ artifact' = artifact /\ acked' = acked /\ abort' = abort /\ waiting' = {}
        /\ blind' \subseteq Runs
    BY DEF WorkInv, WorkerTypeOK, ProcessCrash
  <2> QED BY <1>1, <1>2, <2>1, <2>2, <2>3, <2>4 DEF WorkInv, StoreInv, WorkerTypeOK
<1>4. ASSUME NEW q \in Runs PROVE RunInv(q)'
  <2>1. KeepsRow(q) /\ Announced(q)' /\ RunInv(q)
    BY <1>1, StutterKeepsRow DEF WorkInv, RunInv
  <2>2. /\ worker'[q].pc = "idle" /\ ~worker'[q].context /\ ~worker'[q].beat
        /\ delivery'[q] # "in_progress" /\ artifact' = artifact
        /\ acked' = acked /\ waiting' = {} /\ blind \subseteq blind'
    BY IdleIsState DEF ProcessCrash, WorkInv, WorkerTypeOK
  <2>3. HoldsDelivery(q)' /\ PathIsSound(q)' /\ OutcomeIsSaved(q)' /\ CommitsLast(q)'
    BY <2>2 DEF HoldsDelivery, PathIsSound, OutcomeIsSaved, CommitsLast, PreclaimPath,
        Unfinished,
       MainPath, BudgetPath
  <2>4. ResultExists(q)' /\ RequestIsDown(q)'
    BY <2>1, <2>2 DEF RunInv, KeepsRow, ResultExists, RequestIsDown
  <2> QED BY <2>1, <2>3, <2>4 DEF RunInv, KeepsRow
<1>5. QuietStep
  <2>1. ASSUME NEW q \in acked PROVE KeepsRow(q)
    BY <1>1, <2>1, AnsweredIsEarly, StutterKeepsRow DEF WorkInv, RunInv
  <2>2. artifact' = artifact
    BY DEF ProcessCrash
  <2> QED BY <2>1, <2>2, KeepsQuiet
<1> QED BY <1>1, <1>2, <1>3, <1>4, <1>5 DEF WorkInv

(* The initial states.                                                     *)
LEMMA WorkInitInv == Init => WorkInv
<1> SUFFICES ASSUME Init PROVE WorkInv
  OBVIOUS
<1>1. StoreInv
  BY StoreInitInv DEF Init
<1>2. WorkerTypeOK
  <2>1. worker \in [Runs -> WorkerState]
    BY IdleIsState DEF Init
  <2>2. recon \in [run : Runs \cup {NoRun}, seen : {"missing", "complete"}]
    BY DEF Init, NoRecon
  <2> QED BY <1>1, <2>1, <2>2, FaultsAssumption DEF Init, StoreInv, WorkerTypeOK
<1>3. ASSUME NEW r \in Runs PROVE RunInv(r)
  <2>1. /\ worker[r].pc = "idle" /\ ~worker[r].context /\ ~worker[r].beat
        /\ delivery[r] = "missing" /\ waiting = {} /\ acked = {}
    BY IdleIsState DEF Init
  <2>2. runStatus[r] = "none" /\ r \notin reconciled
    BY DEF Init, StoreInit
  <2> QED BY <2>1, <2>2 DEF RunInv, HoldsDelivery, PathIsSound, OutcomeIsSaved, CommitsLast,
      ResultExists, Announced, CancelledIsDown, RequestIsDown, Reportable, Unfinished,
      PreclaimPath, MainPath, BudgetPath
<1> QED BY <1>1, <1>2, <1>3 DEF WorkInv

(* Every step keeps the invariant, is a transaction of the store or leaves *)
(* it alone, and is quiet for the runs whose cancel is answered.           *)
LEMMA WorkNextKeepsInv ==
  ASSUME WorkInv, Next
  PROVE  WorkInv' /\ [StoreNext]_storeVars /\ QuietStep
<1>1. CASE \E j \in Jobs : CreateSchedule(j)
  BY <1>1, CreateScheduleKeepsInv
<1>2. CASE ProcessCrash
  BY <1>2, ProcessCrashKeepsInv
<1>3. ASSUME NEW r \in Runs,
             \/ Submit(r) \/ Trigger(r) \/ TriggerStale(r) \/ TriggerReread(r)
             \/ \E who \in {"submit", "trigger", "recover"} :
                  EnqueueReturns(r, who) \/ EnqueueFails(r, who)
             \/ LoseDelivery(r) \/ ResultExpires(r)
             \/ InspectQueued(r) \/ ReconcileQueued(r)
             \/ CancelRequest(r) \/ CancelDelivery(r) \/ CancelAnswer(r)
      PROVE  WorkInv' /\ [StoreNext]_storeVars /\ QuietStep
  BY <1>3, SubmitKeepsInv, TriggerKeepsInv, TriggerStaleKeepsInv,
     TriggerRereadKeepsInv, EnqueueReturnsKeepsInv, EnqueueFailsKeepsInv,
     LoseDeliveryKeepsInv, ResultExpiresKeepsInv, InspectQueuedKeepsInv,
         ReconcileQueuedKeepsInv,
     CancelRequestKeepsInv, CancelDeliveryKeepsInv, CancelAnswerKeepsInv
<1>4. ASSUME NEW r \in Runs, WorkerStep(r)
      PROVE  WorkInv' /\ [StoreNext]_storeVars /\ QuietStep
  BY <1>4, FetchKeepsInv, PreclaimFailKeepsInv, PreclaimSweepKeepsInv, LoadKeepsInv,
     ClaimKeepsInv, SaveResultKeepsInv, CheckSavedKeepsInv, PrepareFinalKeepsInv,
     FinalizeKeepsInv, CompleteKeepsInv, BudgetCheckpointKeepsInv, BudgetSaveKeepsInv,
     BudgetFinalKeepsInv, CheckActiveKeepsInv, DiscardReadKeepsInv, DiscardDeleteKeepsInv,
     PrepareFailureKeepsInv, FailKeepsInv, FinishTargetsKeepsInv DEF WorkerStep
<1>5. ASSUME NEW r \in Runs,
             \/ Start(r) \/ FetchRaises(r) \/ BudgetExceeded(r) \/ Raises(r)
             \/ Beat(r) \/ HeartbeatLost(r) \/ PassTime(r)
             \/ AbortTask(r) \/ ShutdownTask(r)
             \/ Recover(r) \/ ReconcileIntent(r)
      PROVE  WorkInv' /\ [StoreNext]_storeVars /\ QuietStep
  BY <1>5, StartKeepsInv, StartAbortedKeepsInv, FetchRaisesKeepsInv, BudgetExceededKeepsInv, RaisesKeepsInv,
     BeatKeepsInv, HeartbeatLostKeepsInv, PassTimeKeepsInv, AbortTaskKeepsInv,
     ShutdownTaskKeepsInv, RecoverKeepsInv, ReconcileIntentKeepsInv
<1> QED BY <1>1, <1>2, <1>3, <1>4, <1>5 DEF Next

(* A stuttering step keeps it.                                             *)
LEMMA WorkStutterKeepsInv == WorkInv /\ UNCHANGED vars => WorkInv'
<1> SUFFICES ASSUME WorkInv, UNCHANGED vars PROVE WorkInv'
  OBVIOUS
<1>1. UNCHANGED storeVars /\ UNCHANGED workVars
  BY DEF vars
<1>2. StoreInv'
  BY <1>1, StutterKeepsInv DEF WorkInv
<1>3. WorkerTypeOK'
  BY <1>1, <1>2 DEF WorkInv, StoreInv, WorkerTypeOK, workVars
<1>4. ASSUME NEW q \in Runs PROVE RunInv(q)'
  <2>1. RunInv(q) /\ KeepsRow(q) /\ Announced(q)'
    BY <1>1, StutterKeepsRow DEF WorkInv, RunInv, workVars
  <2> QED BY <1>1, <2>1, UntouchedRun DEF workVars
<1> QED BY <1>2, <1>3, <1>4 DEF WorkInv

-----------------------------------------------------------------------------
(* The theorems.                                                           *)

\* The position of every worker in scrape_task agrees with its run's row, its
\* delivery, its artifact and the cancel requests for it, in every interleaving
\* of workers, senders, reconcilers and crashes.
THEOREM WorkInvariant == Spec => []WorkInv
<1>1. WorkInv /\ [Next]_vars => WorkInv'
  BY WorkNextKeepsInv, WorkStutterKeepsInv
<1> QED BY <1>1, WorkInitInv, PTL DEF Spec

\* The types, and the in-progress key of arq held by the worker of a run for
\* exactly as long as scrape_task executes.
THEOREM WorkerInvHolds == Spec => []WorkerInv
<1>1. WorkInv => WorkerInv
  BY DEF WorkInv, RunInv, HoldsDelivery, WorkerInv, WorkerHoldsDelivery
<1> QED BY <1>1, WorkInvariant, PTL

\* A run recorded complete or partial has the artifact it reports, unless its
\* worker had to decide without reading the run or the process died.
THEOREM ReportedResultExistsHolds == Spec => []ReportedResultExists
<1>1. WorkInv => ReportedResultExists
  BY DEF WorkInv, RunInv, ResultExists, Reportable, ReportedResultExists
<1> QED BY <1>1, WorkInvariant, PTL

\* A subscribed outcome marked reconciled has its webhook intent.
THEOREM NoLostEventHolds == Spec => []NoLostEvent
<1>1. WorkInv => NoLostEvent
  BY DEF WorkInv, StoreInv, StoreTypeOK, RunInv, Announced, NoLostEvent
<1> QED BY <1>1, WorkInvariant, PTL

\* After a cancel was answered 204 the run's worker writes no status, no intent
\* and no artifact any more.
THEOREM QuietAfterCancelHolds == Spec => QuietAfterCancel
<1>1. WorkInv /\ [Next]_vars => [QuietStep]_vars
  BY WorkNextKeepsInv
<1> QED BY <1>1, WorkInvariant, PTL DEF Spec, QuietAfterCancel, QuietStep

\* Everything the workers, senders, reconcilers and cancel requests do to jobs.db
\* is one of the store's transactions: the execution of runs implements the job
\* store's specification.
THEOREM WorkersImplementStore == Spec => StoreSpec
<1>1. WorkInv /\ [Next]_vars => [StoreNext]_storeVars
  BY WorkNextKeepsInv DEF vars
<1>2. Init => StoreInit
  BY DEF Init
<1> QED BY <1>1, <1>2, WorkInvariant, PTL DEF Spec, StoreSpec

\* So in the executed system a job is running exactly while its current run is,
\* the backlog is bounded, outcomes are final, and a running run loses its job
\* only to its own end or to a trigger that takes the job over.
THEOREM WorkersKeepStore ==
    Spec => [](SingleOwner /\ AdmissionBound) /\ OutcomeIsFinal /\ OwnerEndsWithRun
  BY WorkersImplementStore, SingleOwnerHolds, AdmissionBoundHolds, OutcomeIsFinalHolds,
     OwnerEndsWithRunHolds, PTL
=============================================================================
