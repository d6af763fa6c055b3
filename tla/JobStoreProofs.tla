--------------------------- MODULE JobStoreProofs ---------------------------
(***************************************************************************)
(* What TLAPS proves of JobStore.tla for any sets of jobs and runs and any *)
(* backlog limit: the inductive invariant StoreInv, the safety invariants  *)
(* it contains, the admission bound, and the three action properties.      *)
(*                                                                         *)
(* One lemma per transaction shows that it keeps StoreInv; each has one    *)
(* step per conjunct.                                                      *)
(***************************************************************************)
EXTENDS JobStore, FiniteSetTheorems, TLAPS

\* A scheduled job starts without a run.
LEMMA CreateScheduledJobKeepsInv ==
  ASSUME StoreInv, NEW j \in Jobs, NEW on \in BOOLEAN,
         CreateScheduledJob(j, on)
  PROVE  StoreInv'
<1> USE NoRunAssumption, JobOfAssumption, SubscribedAssumption
<1> USE DEF CreateScheduledJob, rowVars,
            Settled, ActiveStatus, JobStatus, RunStatus, RunsOf, RunningOn, QueuedOn
<1>1. StoreTypeOK'
  BY DEF StoreInv, StoreTypeOK
<1>2. SingleOwner'
  BY DEF StoreInv, SingleOwner
<1>3. QueuedRunIsClaimable'
  BY DEF StoreInv, QueuedRunIsClaimable, StoreTypeOK, CurrentRunBelongs, NoRowsWithoutJob
<1>4. ParentAgreesWithRun'
  BY DEF StoreInv, ParentAgreesWithRun
<1>5. IntentsMatchOutcome'
  BY DEF StoreInv, IntentsMatchOutcome
<1>6. CurrentRunBelongs'
  BY DEF StoreInv, CurrentRunBelongs
<1>7. RowsAreOfUsedRuns'
  BY DEF StoreInv, RowsAreOfUsedRuns
<1>8. NoRowsWithoutJob'
  BY DEF StoreInv, NoRowsWithoutJob
<1>9. DownIsDisabled'
  BY DEF StoreInv, DownIsDisabled
<1> QED BY <1>1, <1>2, <1>3, <1>4, <1>5, <1>6, <1>7, <1>8, <1>9 DEF StoreInv

\* Pausing and resuming touches no run.
LEMMA SetScheduleEnabledKeepsInv ==
  ASSUME StoreInv, NEW j \in Jobs, NEW on \in BOOLEAN,
         SetScheduleEnabled(j, on)
  PROVE  StoreInv'
<1> USE NoRunAssumption, JobOfAssumption, SubscribedAssumption
<1> USE DEF SetScheduleEnabled, rowVars,
            Settled, ActiveStatus, JobStatus, RunStatus, RunsOf, RunningOn, QueuedOn
<1>1. StoreTypeOK'
  BY DEF StoreInv, StoreTypeOK
<1>2. SingleOwner'
  BY DEF StoreInv, SingleOwner
<1>3. QueuedRunIsClaimable'
  BY DEF StoreInv, QueuedRunIsClaimable
<1>4. ParentAgreesWithRun'
  BY DEF StoreInv, ParentAgreesWithRun
<1>5. IntentsMatchOutcome'
  BY DEF StoreInv, IntentsMatchOutcome
<1>6. CurrentRunBelongs'
  BY DEF StoreInv, CurrentRunBelongs
<1>7. RowsAreOfUsedRuns'
  BY DEF StoreInv, RowsAreOfUsedRuns
<1>8. NoRowsWithoutJob'
  BY DEF StoreInv, NoRowsWithoutJob
<1>9. DownIsDisabled'
  BY DEF StoreInv, DownIsDisabled
<1> QED BY <1>1, <1>2, <1>3, <1>4, <1>5, <1>6, <1>7, <1>8, <1>9 DEF StoreInv

\* Dropping a job that never ran.
LEMMA RollbackScheduledJobCreationKeepsInv ==
  ASSUME StoreInv, NEW j \in Jobs,
         RollbackScheduledJobCreation(j)
  PROVE  StoreInv'
<1> USE NoRunAssumption, JobOfAssumption, SubscribedAssumption
<1> USE DEF RollbackScheduledJobCreation, DropJob,
            Settled, ActiveStatus, JobStatus, RunStatus, RunsOf, RunningOn, QueuedOn
<1>1. StoreTypeOK'
  BY DEF StoreInv, StoreTypeOK
<1>2. SingleOwner'
  BY DEF StoreInv, SingleOwner, StoreTypeOK, CurrentRunBelongs
<1>3. QueuedRunIsClaimable'
  BY DEF StoreInv, QueuedRunIsClaimable
<1>4. ParentAgreesWithRun'
  BY DEF StoreInv, ParentAgreesWithRun, StoreTypeOK, CurrentRunBelongs
<1>5. IntentsMatchOutcome'
  BY DEF StoreInv, IntentsMatchOutcome
<1>6. CurrentRunBelongs'
  BY DEF StoreInv, CurrentRunBelongs
<1>7. RowsAreOfUsedRuns'
  BY DEF StoreInv, RowsAreOfUsedRuns
<1>8. NoRowsWithoutJob'
  BY DEF StoreInv, NoRowsWithoutJob
<1>9. DownIsDisabled'
  BY DEF StoreInv, DownIsDisabled
<1> QED BY <1>1, <1>2, <1>3, <1>4, <1>5, <1>6, <1>7, <1>8, <1>9 DEF StoreInv

\* Cancelling takes the run down with its parent.
LEMMA CancelJobKeepsInv ==
  ASSUME StoreInv, NEW j \in Jobs,
         CancelJob(j)
  PROVE  StoreInv'
<1> USE NoRunAssumption, JobOfAssumption, SubscribedAssumption
<1> USE DEF CancelJob,
            Settled, ActiveStatus, JobStatus, RunStatus, RunsOf, RunningOn, QueuedOn
<1>1. StoreTypeOK'
  BY DEF StoreInv, StoreTypeOK
<1>2. SingleOwner'
  BY DEF StoreInv, SingleOwner, StoreTypeOK, CurrentRunBelongs
<1>3. QueuedRunIsClaimable'
  BY DEF StoreInv, QueuedRunIsClaimable, StoreTypeOK
<1>4. ParentAgreesWithRun'
  BY DEF StoreInv, ParentAgreesWithRun, StoreTypeOK
<1>5. IntentsMatchOutcome'
  BY DEF StoreInv, IntentsMatchOutcome, StoreTypeOK
<1>6. CurrentRunBelongs'
  BY DEF StoreInv, CurrentRunBelongs
<1>7. RowsAreOfUsedRuns'
  BY DEF StoreInv, RowsAreOfUsedRuns, StoreTypeOK
<1>8. NoRowsWithoutJob'
  BY DEF StoreInv, NoRowsWithoutJob, StoreTypeOK
<1>9. DownIsDisabled'
  BY DEF StoreInv, DownIsDisabled, StoreTypeOK
<1> QED BY <1>1, <1>2, <1>3, <1>4, <1>5, <1>6, <1>7, <1>8, <1>9 DEF StoreInv

\* Only a job without an accepted run is reserved.
LEMMA ReserveJobDeletionKeepsInv ==
  ASSUME StoreInv, NEW j \in Jobs,
         ReserveJobDeletion(j)
  PROVE  StoreInv'
<1> USE NoRunAssumption, JobOfAssumption, SubscribedAssumption
<1> USE DEF ReserveJobDeletion, rowVars,
            Settled, ActiveStatus, JobStatus, RunStatus, RunsOf, RunningOn, QueuedOn
<1>1. StoreTypeOK'
  BY DEF StoreInv, StoreTypeOK
<1>2. SingleOwner'
  BY DEF StoreInv, SingleOwner
<1>3. QueuedRunIsClaimable'
  BY DEF StoreInv, QueuedRunIsClaimable
<1>4. ParentAgreesWithRun'
  BY DEF StoreInv, ParentAgreesWithRun
<1>5. IntentsMatchOutcome'
  BY DEF StoreInv, IntentsMatchOutcome
<1>6. CurrentRunBelongs'
  BY DEF StoreInv, CurrentRunBelongs
<1>7. RowsAreOfUsedRuns'
  BY DEF StoreInv, RowsAreOfUsedRuns
<1>8. NoRowsWithoutJob'
  BY DEF StoreInv, NoRowsWithoutJob
<1>9. DownIsDisabled'
  BY DEF StoreInv, DownIsDisabled, StoreTypeOK
<1> QED BY <1>1, <1>2, <1>3, <1>4, <1>5, <1>6, <1>7, <1>8, <1>9 DEF StoreInv

\* The rows of the reserved job go, all others stay.
LEMMA FinalizeJobDeletionKeepsInv ==
  ASSUME StoreInv, NEW j \in Jobs,
         FinalizeJobDeletion(j)
  PROVE  StoreInv'
<1> USE NoRunAssumption, JobOfAssumption, SubscribedAssumption
<1> USE DEF FinalizeJobDeletion, DropJob,
            Settled, ActiveStatus, JobStatus, RunStatus, RunsOf, RunningOn, QueuedOn
<1>1. StoreTypeOK'
  BY DEF StoreInv, StoreTypeOK
<1>2. SingleOwner'
  BY DEF StoreInv, SingleOwner, StoreTypeOK, CurrentRunBelongs
<1>3. QueuedRunIsClaimable'
  BY DEF StoreInv, QueuedRunIsClaimable
<1>4. ParentAgreesWithRun'
  BY DEF StoreInv, ParentAgreesWithRun, StoreTypeOK, CurrentRunBelongs
<1>5. IntentsMatchOutcome'
  BY DEF StoreInv, IntentsMatchOutcome
<1>6. CurrentRunBelongs'
  BY DEF StoreInv, CurrentRunBelongs
<1>7. RowsAreOfUsedRuns'
  BY DEF StoreInv, RowsAreOfUsedRuns
<1>8. NoRowsWithoutJob'
  BY DEF StoreInv, NoRowsWithoutJob, StoreTypeOK
<1>9. DownIsDisabled'
  BY DEF StoreInv, DownIsDisabled
<1> QED BY <1>1, <1>2, <1>3, <1>4, <1>5, <1>6, <1>7, <1>8, <1>9 DEF StoreInv

\* A submission brings its snapshot.
LEMMA SubmitJobKeepsInv ==
  ASSUME StoreInv, NEW r \in Runs,
         SubmitJob(r)
  PROVE  StoreInv'
<1> USE NoRunAssumption, JobOfAssumption, SubscribedAssumption
<1> USE DEF SubmitJob,
            Settled, ActiveStatus, JobStatus, RunStatus, RunsOf, RunningOn, QueuedOn
<1>1. StoreTypeOK'
  BY DEF StoreInv, StoreTypeOK
<1>2. SingleOwner'
  BY DEF StoreInv, SingleOwner, StoreTypeOK, RowsAreOfUsedRuns
<1>3. QueuedRunIsClaimable'
  BY DEF StoreInv, QueuedRunIsClaimable, StoreTypeOK, CurrentRunBelongs, RowsAreOfUsedRuns
<1>4. ParentAgreesWithRun'
  BY DEF StoreInv, ParentAgreesWithRun
<1>5. IntentsMatchOutcome'
  BY DEF StoreInv, IntentsMatchOutcome
<1>6. CurrentRunBelongs'
  BY DEF StoreInv, CurrentRunBelongs
<1>7. RowsAreOfUsedRuns'
  BY DEF StoreInv, RowsAreOfUsedRuns
<1>8. NoRowsWithoutJob'
  BY DEF StoreInv, NoRowsWithoutJob, StoreTypeOK
<1>9. DownIsDisabled'
  BY DEF StoreInv, DownIsDisabled
<1> QED BY <1>1, <1>2, <1>3, <1>4, <1>5, <1>6, <1>7, <1>8, <1>9 DEF StoreInv

\* A new run takes the job over, from a settled or from an active run.
LEMMA QueueRunKeepsInv ==
  ASSUME StoreInv, NEW r \in Runs,
         NEW scheduled \in BOOLEAN,
         QueueRun(r, jobStatus[JobOf[r]], cur[JobOf[r]], scheduled)
  PROVE  StoreInv'
<1> USE NoRunAssumption, JobOfAssumption, SubscribedAssumption
<1> USE DEF QueueRun,
            Settled, ActiveStatus, JobStatus, RunStatus, RunsOf, RunningOn, QueuedOn
<1>1. StoreTypeOK'
  BY DEF StoreInv, StoreTypeOK
<1>2. SingleOwner'
  BY DEF StoreInv, SingleOwner, StoreTypeOK, RowsAreOfUsedRuns
<1>3. QueuedRunIsClaimable'
  BY DEF StoreInv, QueuedRunIsClaimable, StoreTypeOK, CurrentRunBelongs, RowsAreOfUsedRuns
<1>4. ParentAgreesWithRun'
  BY DEF StoreInv, ParentAgreesWithRun, StoreTypeOK
<1>5. IntentsMatchOutcome'
  BY DEF StoreInv, IntentsMatchOutcome
<1>6. CurrentRunBelongs'
  BY DEF StoreInv, CurrentRunBelongs
<1>7. RowsAreOfUsedRuns'
  BY DEF StoreInv, RowsAreOfUsedRuns
<1>8. NoRowsWithoutJob'
  BY DEF StoreInv, NoRowsWithoutJob
<1>9. DownIsDisabled'
  BY DEF StoreInv, DownIsDisabled
<1> QED BY <1>1, <1>2, <1>3, <1>4, <1>5, <1>6, <1>7, <1>8, <1>9 DEF StoreInv

\* Dropping a submission that never started.
LEMMA RollbackQueuedSubmissionKeepsInv ==
  ASSUME StoreInv, NEW r \in Runs,
         RollbackQueuedSubmission(r)
  PROVE  StoreInv'
<1> USE NoRunAssumption, JobOfAssumption, SubscribedAssumption
<1> USE DEF RollbackQueuedSubmission, DropJob, QueuedOn,
            Settled, ActiveStatus, JobStatus, RunStatus, RunsOf, RunningOn, QueuedOn
<1>1. StoreTypeOK'
  BY DEF StoreInv, StoreTypeOK
<1>2. SingleOwner'
  BY DEF StoreInv, SingleOwner, StoreTypeOK, CurrentRunBelongs
<1>3. QueuedRunIsClaimable'
  BY DEF StoreInv, QueuedRunIsClaimable, StoreTypeOK
<1>4. ParentAgreesWithRun'
  BY DEF StoreInv, ParentAgreesWithRun, StoreTypeOK, CurrentRunBelongs
<1>5. IntentsMatchOutcome'
  BY DEF StoreInv, IntentsMatchOutcome
<1>6. CurrentRunBelongs'
  BY DEF StoreInv, CurrentRunBelongs
<1>7. RowsAreOfUsedRuns'
  BY DEF StoreInv, RowsAreOfUsedRuns
<1>8. NoRowsWithoutJob'
  BY DEF StoreInv, NoRowsWithoutJob, StoreTypeOK
<1>9. DownIsDisabled'
  BY DEF StoreInv, DownIsDisabled
<1> QED BY <1>1, <1>2, <1>3, <1>4, <1>5, <1>6, <1>7, <1>8, <1>9 DEF StoreInv

\* The claim moves the queued run to running with its parent.
LEMMA ClaimRunKeepsInv ==
  ASSUME StoreInv, NEW r \in Runs,
         ClaimRun(r)
  PROVE  StoreInv'
<1> USE NoRunAssumption, JobOfAssumption, SubscribedAssumption
<1> USE DEF ClaimRun,
            Settled, ActiveStatus, JobStatus, RunStatus, RunsOf, RunningOn, QueuedOn
<1>1. StoreTypeOK'
  BY DEF StoreInv, StoreTypeOK
<1>2. SingleOwner'
  <2>1. ASSUME NEW q \in Runs, runStatus'[q] = "running", cur'[JobOf[q]] = q
        PROVE  RunningOn(q)'
    <3>1. CASE q = r
      BY <3>1 DEF StoreInv, StoreTypeOK
    <3>2. CASE q # r
      <4>1. runStatus[q] = "running" /\ cur[JobOf[q]] = q
        BY <2>1, <3>2 DEF StoreInv, StoreTypeOK
      <4>2. jobStatus[JobOf[q]] = "running" /\ cur[JobOf[q]] = q
        BY <4>1 DEF StoreInv, SingleOwner
      <4>3. JobOf[q] # JobOf[r]
        BY <4>2
      <4> QED BY <4>2, <4>3 DEF StoreInv, StoreTypeOK
    <3> QED BY <3>1, <3>2
  <2>2. ASSUME NEW i \in Jobs, jobStatus'[i] = "running"
        PROVE  cur'[i] \in Runs /\ runStatus'[cur'[i]] = "running"
    <3>1. CASE i = JobOf[r]
      BY <3>1 DEF StoreInv, StoreTypeOK
    <3>2. CASE i # JobOf[r]
      <4>1. jobStatus[i] = "running"
        BY <2>2, <3>2 DEF StoreInv, StoreTypeOK
      <4>2. cur[i] \in Runs /\ runStatus[cur[i]] = "running"
        BY <4>1 DEF StoreInv, SingleOwner
      <4>3. cur[i] # r
        BY <4>2
      <4> QED BY <4>2, <4>3 DEF StoreInv, StoreTypeOK
    <3> QED BY <3>1, <3>2
  <2> QED BY <2>1, <2>2 DEF SingleOwner
<1>3. QueuedRunIsClaimable'
  BY DEF StoreInv, QueuedRunIsClaimable, StoreTypeOK
<1>4. ParentAgreesWithRun'
  BY DEF StoreInv, ParentAgreesWithRun
<1>5. IntentsMatchOutcome'
  BY DEF StoreInv, IntentsMatchOutcome
<1>6. CurrentRunBelongs'
  BY DEF StoreInv, CurrentRunBelongs
<1>7. RowsAreOfUsedRuns'
  BY DEF StoreInv, RowsAreOfUsedRuns, StoreTypeOK, CurrentRunBelongs, SingleOwner, QueuedRunIsClaimable
<1>8. NoRowsWithoutJob'
  BY DEF StoreInv, NoRowsWithoutJob
<1>9. DownIsDisabled'
  BY DEF StoreInv, DownIsDisabled
<1> QED BY <1>1, <1>2, <1>3, <1>4, <1>5, <1>6, <1>7, <1>8, <1>9 DEF StoreInv

\* A heartbeat changes no status.
LEMMA HeartbeatRunKeepsInv ==
  ASSUME StoreInv, NEW r \in Runs,
         HeartbeatRun(r)
  PROVE  StoreInv'
<1> USE NoRunAssumption, JobOfAssumption, SubscribedAssumption
<1> USE DEF HeartbeatRun, jobVars, rowVars,
            Settled, ActiveStatus, JobStatus, RunStatus, RunsOf, RunningOn, QueuedOn
<1>1. StoreTypeOK'
  BY DEF StoreInv, StoreTypeOK
<1>2. SingleOwner'
  BY DEF StoreInv, SingleOwner
<1>3. QueuedRunIsClaimable'
  BY DEF StoreInv, QueuedRunIsClaimable
<1>4. ParentAgreesWithRun'
  BY DEF StoreInv, ParentAgreesWithRun
<1>5. IntentsMatchOutcome'
  BY DEF StoreInv, IntentsMatchOutcome
<1>6. CurrentRunBelongs'
  BY DEF StoreInv, CurrentRunBelongs
<1>7. RowsAreOfUsedRuns'
  BY DEF StoreInv, RowsAreOfUsedRuns
<1>8. NoRowsWithoutJob'
  BY DEF StoreInv, NoRowsWithoutJob
<1>9. DownIsDisabled'
  BY DEF StoreInv, DownIsDisabled
<1> QED BY <1>1, <1>2, <1>3, <1>4, <1>5, <1>6, <1>7, <1>8, <1>9 DEF StoreInv

\* Neither does the passing of time.
LEMMA LeaseExpiresKeepsInv ==
  ASSUME StoreInv, NEW r \in Runs,
         LeaseExpires(r)
  PROVE  StoreInv'
<1> USE NoRunAssumption, JobOfAssumption, SubscribedAssumption
<1> USE DEF LeaseExpires, jobVars, rowVars,
            Settled, ActiveStatus, JobStatus, RunStatus, RunsOf, RunningOn, QueuedOn
<1>1. StoreTypeOK'
  BY DEF StoreInv, StoreTypeOK
<1>2. SingleOwner'
  BY DEF StoreInv, SingleOwner
<1>3. QueuedRunIsClaimable'
  BY DEF StoreInv, QueuedRunIsClaimable
<1>4. ParentAgreesWithRun'
  BY DEF StoreInv, ParentAgreesWithRun
<1>5. IntentsMatchOutcome'
  BY DEF StoreInv, IntentsMatchOutcome
<1>6. CurrentRunBelongs'
  BY DEF StoreInv, CurrentRunBelongs
<1>7. RowsAreOfUsedRuns'
  BY DEF StoreInv, RowsAreOfUsedRuns
<1>8. NoRowsWithoutJob'
  BY DEF StoreInv, NoRowsWithoutJob
<1>9. DownIsDisabled'
  BY DEF StoreInv, DownIsDisabled
<1> QED BY <1>1, <1>2, <1>3, <1>4, <1>5, <1>6, <1>7, <1>8, <1>9 DEF StoreInv

\* The owner settles run, parent and intent together.
LEMMA FinalizeOwnedRunKeepsInv ==
  ASSUME StoreInv, NEW r \in Runs,
         NEW s \in Settled, NEW lease \in BOOLEAN, FinalizeOwnedRun(r, s, lease)
  PROVE  StoreInv'
<1> USE NoRunAssumption, JobOfAssumption, SubscribedAssumption
<1> USE DEF FinalizeOwnedRun, SettleRun, RunIsActive, IntentFor,
            Settled, ActiveStatus, JobStatus, RunStatus, RunsOf, RunningOn, QueuedOn
<1>1. StoreTypeOK'
  BY DEF StoreInv, StoreTypeOK
<1>2. SingleOwner'
  BY DEF StoreInv, SingleOwner, StoreTypeOK, CurrentRunBelongs
<1>3. QueuedRunIsClaimable'
  BY DEF StoreInv, QueuedRunIsClaimable
<1>4. ParentAgreesWithRun'
  BY DEF StoreInv, ParentAgreesWithRun, StoreTypeOK
<1>5. IntentsMatchOutcome'
  BY DEF StoreInv, IntentsMatchOutcome, StoreTypeOK
<1>6. CurrentRunBelongs'
  BY DEF StoreInv, CurrentRunBelongs
<1>7. RowsAreOfUsedRuns'
  BY DEF StoreInv, RowsAreOfUsedRuns
<1>8. NoRowsWithoutJob'
  BY DEF StoreInv, NoRowsWithoutJob
<1>9. DownIsDisabled'
  BY DEF StoreInv, DownIsDisabled
<1> QED BY <1>1, <1>2, <1>3, <1>4, <1>5, <1>6, <1>7, <1>8, <1>9 DEF StoreInv

\* A run that never started is failed with its parent.
LEMMA FailQueuedRunKeepsInv ==
  ASSUME StoreInv, NEW r \in Runs,
         FailQueuedRun(r)
  PROVE  StoreInv'
<1> USE NoRunAssumption, JobOfAssumption, SubscribedAssumption
<1> USE DEF FailQueuedRun, FailUnstarted, SettleRun,
            Settled, ActiveStatus, JobStatus, RunStatus, RunsOf, RunningOn, QueuedOn
<1>1. StoreTypeOK'
  BY DEF StoreInv, StoreTypeOK
<1>2. SingleOwner'
  BY DEF StoreInv, SingleOwner
<1>3. QueuedRunIsClaimable'
  BY DEF StoreInv, QueuedRunIsClaimable, StoreTypeOK
<1>4. ParentAgreesWithRun'
  BY DEF StoreInv, ParentAgreesWithRun, StoreTypeOK
<1>5. IntentsMatchOutcome'
  BY DEF StoreInv, IntentsMatchOutcome
<1>6. CurrentRunBelongs'
  BY DEF StoreInv, CurrentRunBelongs
<1>7. RowsAreOfUsedRuns'
  BY DEF StoreInv, RowsAreOfUsedRuns, StoreTypeOK, CurrentRunBelongs, SingleOwner, QueuedRunIsClaimable
<1>8. NoRowsWithoutJob'
  BY DEF StoreInv, NoRowsWithoutJob
<1>9. DownIsDisabled'
  BY DEF StoreInv, DownIsDisabled
<1> QED BY <1>1, <1>2, <1>3, <1>4, <1>5, <1>6, <1>7, <1>8, <1>9 DEF StoreInv

\* The crash handler fails a queued or a running run.
LEMMA FailOwnedRunKeepsInv ==
  ASSUME StoreInv, NEW r \in Runs,
         NEW context \in BOOLEAN, NEW lease \in BOOLEAN, FailOwnedRun(r, context, lease)
  PROVE  StoreInv'
<1> USE NoRunAssumption, JobOfAssumption, SubscribedAssumption
<1> USE DEF FailOwnedRun, FailUnstarted, SettleRun, RunIsActive, IntentFor,
            Settled, ActiveStatus, JobStatus, RunStatus, RunsOf, RunningOn, QueuedOn
<1>1. StoreTypeOK'
  BY DEF StoreInv, StoreTypeOK
<1>2. SingleOwner'
  <2>0. /\ jobStatus' = [jobStatus EXCEPT ![JobOf[r]] = "failed"]
        /\ runStatus' = [runStatus EXCEPT ![r] = "failed"]
        /\ cur' = cur
        /\ cur[JobOf[r]] = r
    OBVIOUS
  <2>1. ASSUME NEW q \in Runs, runStatus'[q] = "running", cur'[JobOf[q]] = q
        PROVE  RunningOn(q)'
    <3>1. q # r /\ runStatus[q] = "running" /\ cur[JobOf[q]] = q
      BY <2>0, <2>1 DEF StoreInv, StoreTypeOK
    <3>2. jobStatus[JobOf[q]] = "running" /\ cur[JobOf[q]] = q
      BY <3>1 DEF StoreInv, SingleOwner
    <3>3. JobOf[q] # JobOf[r]
      BY <2>0, <3>1, <3>2
    <3> QED BY <2>0, <3>2, <3>3 DEF StoreInv, StoreTypeOK
  <2>2. ASSUME NEW i \in Jobs, jobStatus'[i] = "running"
        PROVE  cur'[i] \in Runs /\ runStatus'[cur'[i]] = "running"
    <3>1. i # JobOf[r] /\ jobStatus[i] = "running"
      BY <2>0, <2>2 DEF StoreInv, StoreTypeOK
    <3>2. cur[i] \in Runs /\ runStatus[cur[i]] = "running"
      BY <3>1 DEF StoreInv, SingleOwner
    <3>3. cur[i] # r
      BY <3>1, <3>2 DEF StoreInv, CurrentRunBelongs
    <3> QED BY <2>0, <3>2, <3>3 DEF StoreInv, StoreTypeOK
  <2> QED BY <2>1, <2>2 DEF SingleOwner
<1>3. QueuedRunIsClaimable'
  <2>0. /\ jobStatus' = [jobStatus EXCEPT ![JobOf[r]] = "failed"]
        /\ runStatus' = [runStatus EXCEPT ![r] = "failed"]
        /\ cur' = cur
        /\ snapshot' \in {snapshot, snapshot \ {r}}
    OBVIOUS
  <2>1. ASSUME NEW q \in Runs, QueuedOn(q)'
        PROVE  q \in snapshot' /\ runStatus'[q] = "none"
    <3>1. JobOf[q] # JobOf[r] /\ QueuedOn(q)
      BY <2>0, <2>1 DEF StoreInv, StoreTypeOK
    <3>2. q \in snapshot /\ runStatus[q] = "none" /\ q # r
      BY <3>1 DEF StoreInv, QueuedRunIsClaimable
    <3> QED BY <2>0, <3>2 DEF StoreInv, StoreTypeOK
  <2> QED BY <2>1 DEF QueuedRunIsClaimable
<1>4. ParentAgreesWithRun'
  BY DEF StoreInv, ParentAgreesWithRun, StoreTypeOK
<1>5. IntentsMatchOutcome'
  BY DEF StoreInv, IntentsMatchOutcome, StoreTypeOK
<1>6. CurrentRunBelongs'
  BY DEF StoreInv, CurrentRunBelongs
<1>7. RowsAreOfUsedRuns'
  BY DEF StoreInv, RowsAreOfUsedRuns, StoreTypeOK, CurrentRunBelongs, SingleOwner, QueuedRunIsClaimable
<1>8. NoRowsWithoutJob'
  BY DEF StoreInv, NoRowsWithoutJob, StoreTypeOK
<1>9. DownIsDisabled'
  BY DEF StoreInv, DownIsDisabled, StoreTypeOK
<1> QED BY <1>1, <1>2, <1>3, <1>4, <1>5, <1>6, <1>7, <1>8, <1>9 DEF StoreInv

\* Recovery settles run and parent together.
LEMMA RecoverStaleRunKeepsInv ==
  ASSUME StoreInv, NEW r \in Runs,
         RecoverStaleRun(r)
  PROVE  StoreInv'
<1> USE NoRunAssumption, JobOfAssumption, SubscribedAssumption
<1> USE DEF RecoverStaleRun, SettleRun, RunIsActive,
            Settled, ActiveStatus, JobStatus, RunStatus, RunsOf, RunningOn, QueuedOn
<1>1. StoreTypeOK'
  BY DEF StoreInv, StoreTypeOK
<1>2. SingleOwner'
  BY DEF StoreInv, SingleOwner, StoreTypeOK, CurrentRunBelongs
<1>3. QueuedRunIsClaimable'
  BY DEF StoreInv, QueuedRunIsClaimable
<1>4. ParentAgreesWithRun'
  BY DEF StoreInv, ParentAgreesWithRun, StoreTypeOK
<1>5. IntentsMatchOutcome'
  BY DEF StoreInv, IntentsMatchOutcome
<1>6. CurrentRunBelongs'
  BY DEF StoreInv, CurrentRunBelongs
<1>7. RowsAreOfUsedRuns'
  BY DEF StoreInv, RowsAreOfUsedRuns
<1>8. NoRowsWithoutJob'
  BY DEF StoreInv, NoRowsWithoutJob
<1>9. DownIsDisabled'
  BY DEF StoreInv, DownIsDisabled
<1> QED BY <1>1, <1>2, <1>3, <1>4, <1>5, <1>6, <1>7, <1>8, <1>9 DEF StoreInv

\* A missed fire settles its own run, and its parent if nothing else is active.
LEMMA RecordScheduledTriggerFailureKeepsInv ==
  ASSUME StoreInv, NEW r \in Runs,
         RecordScheduledTriggerFailure(r)
  PROVE  StoreInv'
<1> USE NoRunAssumption, JobOfAssumption, SubscribedAssumption
<1> USE DEF RecordScheduledTriggerFailure, CanRecordFailure,
            Settled, ActiveStatus, JobStatus, RunStatus, RunsOf, RunningOn, QueuedOn
<1>1. StoreTypeOK'
  BY DEF StoreInv, StoreTypeOK
<1>2. SingleOwner'
  <2>0. /\ runStatus' = [runStatus EXCEPT ![r] = "failed"]
        /\ runStatus[r] # "running"
    BY Zenon
  <2>1. ASSUME NEW q \in Runs, runStatus'[q] = "running", cur'[JobOf[q]] = q
        PROVE  RunningOn(q)'
    <3>1. q # r /\ runStatus[q] = "running"
      BY <2>0, <2>1 DEF StoreInv, StoreTypeOK
    <3>3. CASE ParentCanConverge(r)
      <4>1. /\ jobStatus' = [jobStatus EXCEPT ![JobOf[r]] = "failed"]
            /\ cur' = [cur EXCEPT ![JobOf[r]] = r]
        BY <3>3, Zenon
      <4> HIDE DEF RecordScheduledTriggerFailure
      <4>2. JobOf[q] # JobOf[r] /\ cur[JobOf[q]] = q
        BY <2>1, <3>1, <4>1 DEF StoreInv, StoreTypeOK
      <4>3. jobStatus[JobOf[q]] = "running"
        BY <3>1, <4>2 DEF StoreInv, SingleOwner
      <4> QED BY <4>1, <4>2, <4>3 DEF StoreInv, StoreTypeOK
    <3>4. CASE ~ParentCanConverge(r)
      <4>1. UNCHANGED <<jobStatus, cur>>
        BY <3>4
      <4> QED BY <2>1, <3>1, <4>1 DEF StoreInv, SingleOwner
    <3> QED BY <3>3, <3>4
  <2>2. ASSUME NEW i \in Jobs, jobStatus'[i] = "running"
        PROVE  cur'[i] \in Runs /\ runStatus'[cur'[i]] = "running"
    <3>1. jobStatus[i] = "running" /\ cur'[i] = cur[i]
      BY <2>2 DEF StoreInv, StoreTypeOK
    <3>2. cur[i] \in Runs /\ runStatus[cur[i]] = "running"
      BY <3>1 DEF StoreInv, SingleOwner
    <3> QED BY <2>0, <3>1, <3>2 DEF StoreInv, StoreTypeOK
  <2> QED BY <2>1, <2>2 DEF SingleOwner
<1>3. QueuedRunIsClaimable'
  <2>0. runStatus' = [runStatus EXCEPT ![r] = "failed"] /\ snapshot' = snapshot
    BY Zenon
  <2>1. ASSUME NEW q \in Runs, QueuedOn(q)'
        PROVE  q \in snapshot' /\ runStatus'[q] = "none"
    <3>1. QueuedOn(q) /\ q # r
      <4>1. CASE ParentCanConverge(r)
        <5>1. /\ jobStatus' = [jobStatus EXCEPT ![JobOf[r]] = "failed"]
              /\ cur' = [cur EXCEPT ![JobOf[r]] = r]
          BY <4>1, Zenon
        <5> HIDE DEF RecordScheduledTriggerFailure
        <5>2. JobOf[q] # JobOf[r]
          BY <2>1, <5>1 DEF StoreInv, StoreTypeOK
        <5> QED BY <2>1, <5>1, <5>2 DEF StoreInv, StoreTypeOK
      <4>2. CASE ~ParentCanConverge(r)
        <5>1. UNCHANGED <<jobStatus, cur>>
          BY <4>2
        <5>2. QueuedOn(q)
          BY <2>1, <5>1
        <5>3. q # r
          BY <4>2, <5>2 DEF ParentCanConverge
        <5> QED BY <5>2, <5>3
      <4> QED BY <4>1, <4>2
    <3>2. q \in snapshot /\ runStatus[q] = "none"
      BY <3>1 DEF StoreInv, QueuedRunIsClaimable
    <3> QED BY <2>0, <3>1, <3>2 DEF StoreInv, StoreTypeOK
  <2> QED BY <2>1 DEF QueuedRunIsClaimable
<1>4. ParentAgreesWithRun'
  BY DEF StoreInv, ParentAgreesWithRun, StoreTypeOK, ParentCanConverge
<1>5. IntentsMatchOutcome'
  BY DEF StoreInv, IntentsMatchOutcome
<1>6. CurrentRunBelongs'
  BY DEF StoreInv, CurrentRunBelongs, StoreTypeOK, ParentCanConverge
<1>7. RowsAreOfUsedRuns'
  BY DEF StoreInv, RowsAreOfUsedRuns
<1>8. NoRowsWithoutJob'
  <2>1. /\ runStatus' = [runStatus EXCEPT ![r] = "failed"]
        /\ jobStatus[JobOf[r]] \notin {"absent", "deleted"}
        /\ ~ParentCanConverge(r) => cur[JobOf[r]] # NoRun
    BY DEF ParentCanConverge, StoreInv, SingleOwner
  <2>2. CASE ParentCanConverge(r)
    <3>1. /\ jobStatus' = [jobStatus EXCEPT ![JobOf[r]] = "failed"]
          /\ cur' = [cur EXCEPT ![JobOf[r]] = r]
      BY <2>2, Zenon
    <3> HIDE DEF RecordScheduledTriggerFailure
    <3> QED BY <2>1, <3>1 DEF StoreInv, NoRowsWithoutJob, StoreTypeOK
  <2>3. CASE ~ParentCanConverge(r)
    <3>1. UNCHANGED <<jobStatus, cur>>
      BY <2>3
    <3> HIDE DEF RecordScheduledTriggerFailure
    <3> QED BY <2>1, <2>3, <3>1 DEF StoreInv, NoRowsWithoutJob, StoreTypeOK
  <2> QED BY <2>2, <2>3
<1>9. DownIsDisabled'
  BY DEF StoreInv, DownIsDisabled, StoreTypeOK, ParentCanConverge
<1> QED BY <1>1, <1>2, <1>3, <1>4, <1>5, <1>6, <1>7, <1>8, <1>9 DEF StoreInv

\* Reconciliation adds an intent to a settled run.  Its parent is not running on
\* it any more, so it has nothing to take over.
LEMMA ReconcileTerminalWebhookKeepsInv ==
  ASSUME StoreInv, NEW r \in Runs,
         ReconcileTerminalWebhook(r)
  PROVE  StoreInv'
<1> USE NoRunAssumption, JobOfAssumption, SubscribedAssumption
<1>0. jobStatus' = jobStatus /\ cur' = cur
  <2>1. ~RunningOn(r)
    BY DEF ReconcileTerminalWebhook, RunningOn, Settled, StoreInv, SingleOwner
  <2> QED BY <2>1 DEF ReconcileTerminalWebhook, StoreInv, StoreTypeOK
<1>00. UNCHANGED <<cron, enabled, runStatus, fresh, completedBy, snapshot, missed, used>>
  BY DEF ReconcileTerminalWebhook
<1> USE <1>0, <1>00
<1> USE DEF Settled, ActiveStatus, JobStatus, RunStatus, RunsOf, RunningOn, QueuedOn
<1>1. StoreTypeOK'
  <2>1. /\ intent' \in [Runs -> {"none", "pending", "done"}]
        /\ reconciled' \subseteq Runs
    BY DEF StoreInv, StoreTypeOK, ReconcileTerminalWebhook, IntentFor
  <2> QED BY <2>1 DEF StoreInv, StoreTypeOK
<1>2. SingleOwner'
  BY DEF StoreInv, SingleOwner
<1>3. QueuedRunIsClaimable'
  BY DEF StoreInv, QueuedRunIsClaimable
<1>4. ParentAgreesWithRun'
  BY DEF StoreInv, ParentAgreesWithRun
<1>5. IntentsMatchOutcome'
  BY DEF StoreInv, IntentsMatchOutcome, StoreTypeOK, ReconcileTerminalWebhook, IntentFor
<1>6. CurrentRunBelongs'
  BY DEF StoreInv, CurrentRunBelongs
<1>7. RowsAreOfUsedRuns'
  BY DEF StoreInv, RowsAreOfUsedRuns
<1>8. NoRowsWithoutJob'
  BY DEF StoreInv, NoRowsWithoutJob
<1>9. DownIsDisabled'
  BY DEF StoreInv, DownIsDisabled
<1> QED BY <1>1, <1>2, <1>3, <1>4, <1>5, <1>6, <1>7, <1>8, <1>9 DEF StoreInv

\* The dispatcher only touches an existing intent.
LEMMA SettleDeliveryKeepsInv ==
  ASSUME StoreInv, NEW r \in Runs,
         SettleDelivery(r)
  PROVE  StoreInv'
<1> USE NoRunAssumption, JobOfAssumption, SubscribedAssumption
<1> USE DEF SettleDelivery, jobVars,
            Settled, ActiveStatus, JobStatus, RunStatus, RunsOf, RunningOn, QueuedOn
<1>1. StoreTypeOK'
  BY DEF StoreInv, StoreTypeOK
<1>2. SingleOwner'
  BY DEF StoreInv, SingleOwner
<1>3. QueuedRunIsClaimable'
  BY DEF StoreInv, QueuedRunIsClaimable
<1>4. ParentAgreesWithRun'
  BY DEF StoreInv, ParentAgreesWithRun
<1>5. IntentsMatchOutcome'
  BY DEF StoreInv, IntentsMatchOutcome, StoreTypeOK
<1>6. CurrentRunBelongs'
  BY DEF StoreInv, CurrentRunBelongs
<1>7. RowsAreOfUsedRuns'
  BY DEF StoreInv, RowsAreOfUsedRuns
<1>8. NoRowsWithoutJob'
  BY DEF StoreInv, NoRowsWithoutJob
<1>9. DownIsDisabled'
  BY DEF StoreInv, DownIsDisabled
<1> QED BY <1>1, <1>2, <1>3, <1>4, <1>5, <1>6, <1>7, <1>8, <1>9 DEF StoreInv

\* Pruning removes the row of a run that is not the current one.
LEMMA PruneScheduledRunKeepsInv ==
  ASSUME StoreInv, NEW r \in Runs,
         PruneScheduledRun(r)
  PROVE  StoreInv'
<1> USE NoRunAssumption, JobOfAssumption, SubscribedAssumption
<1> USE DEF PruneScheduledRun, jobVars,
            Settled, ActiveStatus, JobStatus, RunStatus, RunsOf, RunningOn, QueuedOn
<1>1. StoreTypeOK'
  BY DEF StoreInv, StoreTypeOK
<1>2. SingleOwner'
  BY DEF StoreInv, SingleOwner, StoreTypeOK
<1>3. QueuedRunIsClaimable'
  BY DEF StoreInv, QueuedRunIsClaimable, StoreTypeOK
<1>4. ParentAgreesWithRun'
  BY DEF StoreInv, ParentAgreesWithRun, StoreTypeOK, CurrentRunBelongs
<1>5. IntentsMatchOutcome'
  BY DEF StoreInv, IntentsMatchOutcome, StoreTypeOK
<1>6. CurrentRunBelongs'
  BY DEF StoreInv, CurrentRunBelongs
<1>7. RowsAreOfUsedRuns'
  BY DEF StoreInv, RowsAreOfUsedRuns, StoreTypeOK
<1>8. NoRowsWithoutJob'
  BY DEF StoreInv, NoRowsWithoutJob, StoreTypeOK
<1>9. DownIsDisabled'
  BY DEF StoreInv, DownIsDisabled
<1> QED BY <1>1, <1>2, <1>3, <1>4, <1>5, <1>6, <1>7, <1>8, <1>9 DEF StoreInv

-----------------------------------------------------------------------------
(* The invariant *)

\* The empty database satisfies the invariant.
LEMMA StoreInitInv == StoreInit => StoreInv
<1> SUFFICES ASSUME StoreInit PROVE StoreInv
  OBVIOUS
<1> USE DEF StoreInit, JobStatus, RunStatus, RunsOf, RunningOn, QueuedOn, Settled
<1>1. StoreTypeOK
  BY DEF StoreTypeOK
<1>2. SingleOwner
  BY DEF SingleOwner
<1>3. QueuedRunIsClaimable
  BY JobOfAssumption DEF QueuedRunIsClaimable
<1>4. ParentAgreesWithRun
  BY DEF ParentAgreesWithRun
<1>5. IntentsMatchOutcome
  BY DEF IntentsMatchOutcome
<1>6. CurrentRunBelongs /\ RowsAreOfUsedRuns /\ NoRowsWithoutJob /\ DownIsDisabled
  BY DEF CurrentRunBelongs, RowsAreOfUsedRuns, NoRowsWithoutJob, DownIsDisabled
<1> QED BY <1>1, <1>2, <1>3, <1>4, <1>5, <1>6 DEF StoreInv

\* Rolled back transactions and reads change no row.
LEMMA StutterKeepsInv == StoreInv /\ UNCHANGED storeVars => StoreInv'
  BY DEF storeVars, StoreInv, StoreTypeOK, SingleOwner, QueuedRunIsClaimable,
         ParentAgreesWithRun, IntentsMatchOutcome, CurrentRunBelongs,
         RowsAreOfUsedRuns, NoRowsWithoutJob, DownIsDisabled,
         RunsOf, RunningOn, QueuedOn

\* Every transaction of the store keeps the invariant.
LEMMA StoreNextKeepsInv == StoreInv /\ StoreNext => StoreInv'
<1> SUFFICES ASSUME StoreInv, StoreNext PROVE StoreInv'
  OBVIOUS
<1>1. ASSUME NEW j \in Jobs, NEW on \in BOOLEAN, CreateScheduledJob(j, on) PROVE StoreInv'
  BY <1>1, CreateScheduledJobKeepsInv
<1>2. ASSUME NEW j \in Jobs, NEW on \in BOOLEAN, SetScheduleEnabled(j, on)
      PROVE  StoreInv'
  BY <1>2, SetScheduleEnabledKeepsInv
<1>3. ASSUME NEW j \in Jobs, RollbackScheduledJobCreation(j) PROVE StoreInv'
  BY <1>3, RollbackScheduledJobCreationKeepsInv
<1>4. ASSUME NEW j \in Jobs, CancelJob(j) PROVE StoreInv'
  BY <1>4, CancelJobKeepsInv
<1>5. ASSUME NEW j \in Jobs, ReserveJobDeletion(j) PROVE StoreInv'
  BY <1>5, ReserveJobDeletionKeepsInv
<1>6. ASSUME NEW j \in Jobs, FinalizeJobDeletion(j) PROVE StoreInv'
  BY <1>6, FinalizeJobDeletionKeepsInv
<1>7. ASSUME NEW r \in Runs, SubmitJob(r) PROVE StoreInv'
  BY <1>7, SubmitJobKeepsInv
<1>8. ASSUME NEW r \in Runs, NEW scheduled \in BOOLEAN,
             QueueRun(r, jobStatus[JobOf[r]], cur[JobOf[r]], scheduled)
      PROVE  StoreInv'
  BY <1>8, QueueRunKeepsInv
<1>9. ASSUME NEW r \in Runs, RollbackQueuedSubmission(r) PROVE StoreInv'
  BY <1>9, RollbackQueuedSubmissionKeepsInv
<1>10. ASSUME NEW r \in Runs, ClaimRun(r) PROVE StoreInv'
  BY <1>10, ClaimRunKeepsInv
<1>11. ASSUME NEW r \in Runs, HeartbeatRun(r) PROVE StoreInv'
  BY <1>11, HeartbeatRunKeepsInv
<1>12. ASSUME NEW r \in Runs, LeaseExpires(r) PROVE StoreInv'
  BY <1>12, LeaseExpiresKeepsInv
<1>13. ASSUME NEW r \in Runs, NEW s \in Settled, NEW lease \in BOOLEAN,
              FinalizeOwnedRun(r, s, lease)
       PROVE  StoreInv'
  BY <1>13, FinalizeOwnedRunKeepsInv
<1>14. ASSUME NEW r \in Runs, FailQueuedRun(r) PROVE StoreInv'
  BY <1>14, FailQueuedRunKeepsInv
<1>15. ASSUME NEW r \in Runs, NEW context \in BOOLEAN, NEW lease \in BOOLEAN,
              FailOwnedRun(r, context, lease)
       PROVE  StoreInv'
  BY <1>15, FailOwnedRunKeepsInv
<1>16. ASSUME NEW r \in Runs, RecoverStaleRun(r) PROVE StoreInv'
  BY <1>16, RecoverStaleRunKeepsInv
<1>17. ASSUME NEW r \in Runs, RecordScheduledTriggerFailure(r) PROVE StoreInv'
  BY <1>17, RecordScheduledTriggerFailureKeepsInv
<1>18. ASSUME NEW r \in Runs, ReconcileTerminalWebhook(r) PROVE StoreInv'
  BY <1>18, ReconcileTerminalWebhookKeepsInv
<1>19. ASSUME NEW r \in Runs, SettleDelivery(r) PROVE StoreInv'
  BY <1>19, SettleDeliveryKeepsInv
<1>20. ASSUME NEW r \in Runs, PruneScheduledRun(r) PROVE StoreInv'
  BY <1>20, PruneScheduledRunKeepsInv
<1> QED BY <1>1, <1>2, <1>3, <1>4, <1>5, <1>6, <1>7, <1>8, <1>9, <1>10, <1>11,
           <1>12, <1>13, <1>14, <1>15, <1>16, <1>17, <1>18, <1>19, <1>20 DEF StoreNext

\* The inductive invariant holds in every state of the store, whatever the
\* callers of its transactions do and in whatever order.
THEOREM StoreInvariant == StoreSpec => []StoreInv
<1>1. StoreInv /\ [StoreNext]_storeVars => StoreInv'
  BY StoreNextKeepsInv, StutterKeepsInv
<1> QED BY <1>1, StoreInitInv, PTL DEF StoreSpec

\* A job is running exactly while its current run is.
THEOREM SingleOwnerHolds == StoreSpec => []SingleOwner
<1>1. StoreInv => SingleOwner
  BY DEF StoreInv
<1> QED BY <1>1, StoreInvariant, PTL

\* claim_run finds the snapshot, and no row, of the run a queued job waits for.
THEOREM QueuedRunIsClaimableHolds == StoreSpec => []QueuedRunIsClaimable
<1>1. StoreInv => QueuedRunIsClaimable
  BY DEF StoreInv
<1> QED BY <1>1, StoreInvariant, PTL

\* A terminal job reports the outcome of its current run.
THEOREM ParentAgreesWithRunHolds == StoreSpec => []ParentAgreesWithRun
<1>1. StoreInv => ParentAgreesWithRun
  BY DEF StoreInv
<1> QED BY <1>1, StoreInvariant, PTL

\* A webhook event exists only for a run that ended in a subscribed status.
THEOREM IntentsMatchOutcomeHolds == StoreSpec => []IntentsMatchOutcome
<1>1. StoreInv => IntentsMatchOutcome
  BY DEF StoreInv
<1> QED BY <1>1, StoreInvariant, PTL

-----------------------------------------------------------------------------
(* Admission *)

\* Only an admitted submission or an admitted new run adds to the accepted
\* jobs: every other transaction leaves them or takes some away.
LEMMA AcceptedGrowsOnlyAdmitted ==
  ASSUME StoreInv, [StoreNext]_storeVars
  PROVE  Accepted' \subseteq Accepted
           \/ \E j \in Jobs : Admits(j) /\ Accepted' \subseteq Accepted \cup {j}
<1> USE NoRunAssumption, JobOfAssumption
<1> USE DEF Accepted, ActiveStatus, Settled
<1>1. ASSUME NEW r \in Runs, SubmitJob(r)
      PROVE  Admits(JobOf[r]) /\ Accepted' \subseteq Accepted \cup {JobOf[r]}
  BY <1>1 DEF SubmitJob, StoreInv, StoreTypeOK
<1>2. ASSUME NEW r \in Runs, NEW scheduled \in BOOLEAN,
             QueueRun(r, jobStatus[JobOf[r]], cur[JobOf[r]], scheduled)
      PROVE  Admits(JobOf[r]) /\ Accepted' \subseteq Accepted \cup {JobOf[r]}
  BY <1>2 DEF QueueRun, StoreInv, StoreTypeOK
<1>3. ASSUME NEW j \in Jobs, NEW on \in BOOLEAN, CreateScheduledJob(j, on) PROVE Accepted' \subseteq Accepted
  BY <1>3 DEF CreateScheduledJob, StoreInv, StoreTypeOK, NoRowsWithoutJob
<1>4. ASSUME NEW j \in Jobs, NEW on \in BOOLEAN, SetScheduleEnabled(j, on)
      PROVE  Accepted' \subseteq Accepted
  BY <1>4 DEF SetScheduleEnabled
<1>5. ASSUME NEW j \in Jobs, DropJob(j) PROVE Accepted' \subseteq Accepted
  BY <1>5 DEF DropJob, StoreInv, StoreTypeOK
<1>6. ASSUME NEW j \in Jobs, CancelJob(j) PROVE Accepted' \subseteq Accepted
  BY <1>6 DEF CancelJob, StoreInv, StoreTypeOK
<1>7. ASSUME NEW j \in Jobs, ReserveJobDeletion(j) PROVE Accepted' \subseteq Accepted
  BY <1>7 DEF ReserveJobDeletion, StoreInv, StoreTypeOK
<1>8. ASSUME NEW r \in Runs, ClaimRun(r) PROVE Accepted' \subseteq Accepted
  BY <1>8 DEF ClaimRun, QueuedOn, StoreInv, StoreTypeOK
<1>9. ASSUME NEW r \in Runs, HeartbeatRun(r) \/ LeaseExpires(r)
      PROVE  Accepted' \subseteq Accepted
  BY <1>9 DEF HeartbeatRun, LeaseExpires, jobVars
<1>10. ASSUME NEW r \in Runs, NEW s \in Settled, NEW author, SettleRun(r, s, author)
       PROVE  Accepted' \subseteq Accepted
  BY <1>10 DEF SettleRun, StoreInv, StoreTypeOK
<1>11. ASSUME NEW r \in Runs, FailUnstarted(r) PROVE Accepted' \subseteq Accepted
  BY <1>10, <1>11 DEF FailUnstarted
<1>12. ASSUME NEW r \in Runs, NEW context \in BOOLEAN, NEW lease \in BOOLEAN,
              FailOwnedRun(r, context, lease)
       PROVE  Accepted' \subseteq Accepted
  BY <1>10, <1>11, <1>12 DEF FailOwnedRun
<1>13. ASSUME NEW r \in Runs, RecordScheduledTriggerFailure(r)
       PROVE  Accepted' \subseteq Accepted
  BY <1>13 DEF RecordScheduledTriggerFailure, StoreInv, StoreTypeOK
<1>14. ASSUME NEW r \in Runs,
              ReconcileTerminalWebhook(r) \/ SettleDelivery(r) \/ PruneScheduledRun(r)
       PROVE  Accepted' \subseteq Accepted
  BY <1>14 DEF ReconcileTerminalWebhook, SettleDelivery, PruneScheduledRun, jobVars,
               StoreInv, StoreTypeOK
<1>15. ASSUME UNCHANGED storeVars PROVE Accepted' \subseteq Accepted
  BY <1>15 DEF storeVars
<1>16. ASSUME NEW r \in Runs, NEW s \in Settled, NEW lease \in BOOLEAN,
              FinalizeOwnedRun(r, s, lease)
       PROVE  Accepted' \subseteq Accepted
  BY <1>10, <1>16 DEF FinalizeOwnedRun
<1>17. ASSUME NEW r \in Runs, FailQueuedRun(r) \/ RecoverStaleRun(r)
       PROVE  Accepted' \subseteq Accepted
  BY <1>10, <1>11, <1>17 DEF FailQueuedRun, RecoverStaleRun
<1>18. ASSUME NEW j \in Jobs,
              RollbackScheduledJobCreation(j) \/ FinalizeJobDeletion(j)
       PROVE  Accepted' \subseteq Accepted
  BY <1>5, <1>18 DEF RollbackScheduledJobCreation, FinalizeJobDeletion
<1>19. ASSUME NEW r \in Runs, RollbackQueuedSubmission(r)
       PROVE  Accepted' \subseteq Accepted
  BY <1>5, <1>19 DEF RollbackQueuedSubmission
<1>20. \A r \in Runs : JobOf[r] \in Jobs
  OBVIOUS
<1> HIDE DEF Accepted, ActiveStatus, Settled
<1>21. CASE \E r \in Runs : SubmitJob(r)
  BY <1>1, <1>20, <1>21
<1>22. CASE \E r \in Runs, scheduled \in BOOLEAN :
              QueueRun(r, jobStatus[JobOf[r]], cur[JobOf[r]], scheduled)
  BY <1>2, <1>20, <1>22
<1> QED BY <1>3, <1>4, <1>6, <1>7, <1>8, <1>9, <1>12, <1>13, <1>14, <1>15,
           <1>16, <1>17, <1>18, <1>19, <1>21, <1>22 DEF StoreNext

\* The accepted jobs are a finite set, so they can be counted.
LEMMA AcceptedFinite ==
  /\ IsFiniteSet(Accepted)
  /\ \A j \in Jobs : IsFiniteSet(Accepted \cup {j})
<1>1. Accepted \subseteq Jobs /\ \A j \in Jobs : Accepted \cup {j} \subseteq Jobs
  BY DEF Accepted
<1> QED BY <1>1, JobsFinite, FS_Subset

\* The accepted backlog never exceeds queue_max_accepted_runs.
THEOREM AdmissionBoundHolds == StoreSpec => []AdmissionBound
<1>1. StoreInit => AdmissionBound
  <2> SUFFICES ASSUME StoreInit PROVE AdmissionBound
    OBVIOUS
  <2>1. Accepted = {}
    BY DEF StoreInit, Accepted
  <2> QED BY <2>1, FS_EmptySet, LimitAssumption DEF AdmissionBound
<1>2. StoreInv /\ AdmissionBound /\ [StoreNext]_storeVars => AdmissionBound'
  <2> SUFFICES ASSUME StoreInv, AdmissionBound, [StoreNext]_storeVars
               PROVE  Cardinality(Accepted') <= MaxAccepted
    BY DEF AdmissionBound
  <2>1. CASE Accepted' \subseteq Accepted
    <3>1. Cardinality(Accepted') <= Cardinality(Accepted)
      BY <2>1, AcceptedFinite, FS_Subset
    <3>2. Cardinality(Accepted') \in Nat /\ Cardinality(Accepted) \in Nat
      BY <2>1, AcceptedFinite, FS_Subset, FS_CardinalityType
    <3> QED BY <3>1, <3>2, LimitAssumption DEF AdmissionBound
  <2>2. ASSUME NEW j \in Jobs, Admits(j), Accepted' \subseteq Accepted \cup {j}
        PROVE  Cardinality(Accepted') <= MaxAccepted
    <3>1. Cardinality(Accepted') <= Cardinality(Accepted \cup {j})
      BY <2>2, AcceptedFinite, FS_Subset
    <3>2. /\ Cardinality(Accepted') \in Nat
          /\ Cardinality(Accepted \cup {j}) \in Nat
      BY <2>2, AcceptedFinite, FS_Subset, FS_CardinalityType
    <3> QED BY <2>2, <3>1, <3>2, LimitAssumption DEF Admits
  <2> QED BY <2>1, <2>2, AcceptedGrowsOnlyAdmitted
<1> QED BY <1>1, <1>2, StoreInvariant, PTL DEF StoreSpec

-----------------------------------------------------------------------------
(* Action properties *)

\* No transaction rewrites a recorded outcome.
LEMMA StepKeepsOutcome ==
  ASSUME StoreInv, StoreNext, NEW r \in Runs
  PROVE  KeepsOutcome(r)
<1> USE JobOfAssumption, NoRunAssumption
<1> USE DEF KeepsOutcome, Settled, ActiveStatus, StoreInv, StoreTypeOK
<1>1. ASSUME NEW j \in Jobs, NEW on \in BOOLEAN, CreateScheduledJob(j, on)
      PROVE  KeepsOutcome(r)
  BY <1>1 DEF CreateScheduledJob, rowVars
<1>2. ASSUME NEW j \in Jobs, NEW on \in BOOLEAN, SetScheduleEnabled(j, on)
      PROVE  KeepsOutcome(r)
  BY <1>2 DEF SetScheduleEnabled, rowVars
<1>3. ASSUME NEW j \in Jobs, DropJob(j)
      PROVE  KeepsOutcome(r)
  BY <1>3 DEF DropJob, RunsOf
<1>4. ASSUME NEW j \in Jobs, CancelJob(j)
      PROVE  KeepsOutcome(r)
  BY <1>4 DEF CancelJob
<1>5. ASSUME NEW j \in Jobs, ReserveJobDeletion(j)
      PROVE  KeepsOutcome(r)
  BY <1>5 DEF ReserveJobDeletion, rowVars
<1>6. ASSUME NEW q \in Runs, SubmitJob(q)
      PROVE  KeepsOutcome(r)
  BY <1>6 DEF SubmitJob
<1>7. ASSUME NEW q \in Runs, NEW scheduled \in BOOLEAN,
             QueueRun(q, jobStatus[JobOf[q]], cur[JobOf[q]], scheduled)
      PROVE  KeepsOutcome(r)
  BY <1>7 DEF QueueRun
<1>8. ASSUME NEW q \in Runs, ClaimRun(q)
      PROVE  KeepsOutcome(r)
  BY <1>8 DEF ClaimRun, QueuedOn
<1>9. ASSUME NEW q \in Runs, HeartbeatRun(q) \/ LeaseExpires(q)
      PROVE  KeepsOutcome(r)
  BY <1>9 DEF HeartbeatRun, LeaseExpires, jobVars, rowVars
<1>10. ASSUME NEW q \in Runs, NEW s \in Settled, NEW lease \in BOOLEAN,
             FinalizeOwnedRun(q, s, lease)
      PROVE  KeepsOutcome(r)
  BY <1>10 DEF FinalizeOwnedRun, RunIsActive, RunningOn, SettleRun, IntentFor
<1>11. ASSUME NEW q \in Runs, FailQueuedRun(q)
      PROVE  KeepsOutcome(r)
  BY <1>11 DEF FailQueuedRun, FailUnstarted, QueuedOn, SettleRun
<1>12. ASSUME NEW q \in Runs, NEW context \in BOOLEAN, NEW lease \in BOOLEAN,
             FailOwnedRun(q, context, lease)
      PROVE  KeepsOutcome(r)
  BY <1>12 DEF FailOwnedRun, FailUnstarted, QueuedOn, RunIsActive, RunningOn,
                SettleRun, IntentFor
<1>13. ASSUME NEW q \in Runs, RecoverStaleRun(q)
      PROVE  KeepsOutcome(r)
  BY <1>13 DEF RecoverStaleRun, RunIsActive, RunningOn, SettleRun
<1>14. ASSUME NEW q \in Runs, RecordScheduledTriggerFailure(q)
      PROVE  KeepsOutcome(r)
  BY <1>14 DEF RecordScheduledTriggerFailure, CanRecordFailure
<1>15. ASSUME NEW q \in Runs, ReconcileTerminalWebhook(q) \/ SettleDelivery(q)
      PROVE  KeepsOutcome(r)
  BY <1>15 DEF ReconcileTerminalWebhook, SettleDelivery, RunningOn, IntentFor, jobVars
<1>16. ASSUME NEW j \in Jobs,
             RollbackScheduledJobCreation(j) \/ FinalizeJobDeletion(j)
      PROVE  KeepsOutcome(r)
  BY <1>3, <1>16 DEF RollbackScheduledJobCreation, FinalizeJobDeletion
<1>17. ASSUME NEW q \in Runs, RollbackQueuedSubmission(q)
      PROVE  KeepsOutcome(r)
  BY <1>3, <1>17 DEF RollbackQueuedSubmission
<1>18. ASSUME NEW q \in Runs, PruneScheduledRun(q)
      PROVE  KeepsOutcome(r)
  <2>1. runStatus[q] # "none" => cur[JobOf[q]] # NoRun
    BY DEF NoRowsWithoutJob, RunsOf
  <2> QED BY <1>18, <2>1 DEF PruneScheduledRun, Prunes, jobVars
<1> HIDE DEF KeepsOutcome, Settled, ActiveStatus, StoreInv, StoreTypeOK
<1> QED BY <1>1, <1>2, <1>4, <1>5, <1>6, <1>7, <1>8, <1>9, <1>10, <1>11, <1>12,
           <1>13, <1>14, <1>15, <1>16, <1>17, <1>18 DEF StoreNext

\* The outcome a run recorded is never rewritten by a late worker, a second
\* recovery or a reconciliation.
THEOREM OutcomeIsFinalHolds == StoreSpec => OutcomeIsFinal
<1>1. StoreInv /\ [StoreNext]_storeVars => [\A r \in Runs : KeepsOutcome(r)]_storeVars
  BY StepKeepsOutcome
<1> QED BY <1>1, StoreInvariant, PTL DEF StoreSpec, OutcomeIsFinal

\* No transaction revives a cancelled or reserved job.
LEMMA StepKeepsDown ==
  ASSUME StoreInv, StoreNext, NEW i \in Jobs
  PROVE  KeepsDown(i)
<1> USE JobOfAssumption, NoRunAssumption
<1> USE DEF KeepsDown, DownIsDisabled, Settled, ActiveStatus, StoreInv, StoreTypeOK
<1>1. ASSUME NEW j \in Jobs, NEW on \in BOOLEAN, CreateScheduledJob(j, on)
      PROVE  KeepsDown(i)
  BY <1>1 DEF CreateScheduledJob, rowVars
<1>2. ASSUME NEW j \in Jobs, NEW on \in BOOLEAN, SetScheduleEnabled(j, on)
      PROVE  KeepsDown(i)
  BY <1>2 DEF SetScheduleEnabled, rowVars
<1>3. ASSUME NEW j \in Jobs, DropJob(j)
      PROVE  KeepsDown(i)
  BY <1>3 DEF DropJob, RunsOf
<1>4. ASSUME NEW j \in Jobs, CancelJob(j)
      PROVE  KeepsDown(i)
  BY <1>4 DEF CancelJob
<1>5. ASSUME NEW j \in Jobs, ReserveJobDeletion(j)
      PROVE  KeepsDown(i)
  BY <1>5 DEF ReserveJobDeletion, rowVars
<1>6. ASSUME NEW q \in Runs, SubmitJob(q)
      PROVE  KeepsDown(i)
  BY <1>6 DEF SubmitJob
<1>7. ASSUME NEW q \in Runs, NEW scheduled \in BOOLEAN,
             QueueRun(q, jobStatus[JobOf[q]], cur[JobOf[q]], scheduled)
      PROVE  KeepsDown(i)
  BY <1>7 DEF QueueRun
<1>8. ASSUME NEW q \in Runs, ClaimRun(q)
      PROVE  KeepsDown(i)
  BY <1>8 DEF ClaimRun, QueuedOn
<1>9. ASSUME NEW q \in Runs, HeartbeatRun(q) \/ LeaseExpires(q)
      PROVE  KeepsDown(i)
  BY <1>9 DEF HeartbeatRun, LeaseExpires, jobVars, rowVars
<1>10. ASSUME NEW q \in Runs, NEW s \in Settled, NEW lease \in BOOLEAN,
             FinalizeOwnedRun(q, s, lease)
      PROVE  KeepsDown(i)
  BY <1>10 DEF FinalizeOwnedRun, RunIsActive, RunningOn, SettleRun, IntentFor
<1>11. ASSUME NEW q \in Runs, FailQueuedRun(q)
      PROVE  KeepsDown(i)
  BY <1>11 DEF FailQueuedRun, FailUnstarted, QueuedOn, SettleRun
<1>12. ASSUME NEW q \in Runs, NEW context \in BOOLEAN, NEW lease \in BOOLEAN,
             FailOwnedRun(q, context, lease)
      PROVE  KeepsDown(i)
  BY <1>12 DEF FailOwnedRun, FailUnstarted, QueuedOn, RunIsActive, RunningOn,
                SettleRun, IntentFor
<1>13. ASSUME NEW q \in Runs, RecoverStaleRun(q)
      PROVE  KeepsDown(i)
  BY <1>13 DEF RecoverStaleRun, RunIsActive, RunningOn, SettleRun
<1>14. ASSUME NEW q \in Runs, RecordScheduledTriggerFailure(q)
      PROVE  KeepsDown(i)
  BY <1>14 DEF RecordScheduledTriggerFailure, CanRecordFailure
<1>15. ASSUME NEW q \in Runs, ReconcileTerminalWebhook(q) \/ SettleDelivery(q)
      PROVE  KeepsDown(i)
  BY <1>15 DEF ReconcileTerminalWebhook, SettleDelivery, RunningOn, IntentFor, jobVars
<1>16. ASSUME NEW j \in Jobs,
             RollbackScheduledJobCreation(j) \/ FinalizeJobDeletion(j)
      PROVE  KeepsDown(i)
  BY <1>3, <1>16 DEF RollbackScheduledJobCreation, FinalizeJobDeletion
<1>17. ASSUME NEW q \in Runs, RollbackQueuedSubmission(q)
      PROVE  KeepsDown(i)
  BY <1>3, <1>17 DEF RollbackQueuedSubmission
<1>18. ASSUME NEW q \in Runs, PruneScheduledRun(q)
      PROVE  KeepsDown(i)
  BY <1>18 DEF PruneScheduledRun, jobVars
<1> HIDE DEF KeepsDown, DownIsDisabled, Settled, ActiveStatus, StoreInv, StoreTypeOK
<1> QED BY <1>1, <1>2, <1>4, <1>5, <1>6, <1>7, <1>8, <1>9, <1>10, <1>11, <1>12,
           <1>13, <1>14, <1>15, <1>16, <1>17, <1>18 DEF StoreNext

\* Once cancelled or reserved for deletion, a job stays down.
THEOREM CancelledStaysDownHolds == StoreSpec => CancelledStaysDown
<1>1. StoreInv /\ [StoreNext]_storeVars => [\A j \in Jobs : KeepsDown(j)]_storeVars
  BY StepKeepsDown
<1> QED BY <1>1, StoreInvariant, PTL DEF StoreSpec, CancelledStaysDown

\* No transaction ends a running run or its job without the other, and only
\* queue_run takes the job away from it.
LEMMA StepKeepsOwner ==
  ASSUME StoreInv, StoreNext, NEW r \in Runs
  PROVE  KeepsOwner(r)
<1> USE JobOfAssumption, NoRunAssumption
<1> USE DEF KeepsOwner, RunningOn, SingleOwner, CurrentRunBelongs, Settled, ActiveStatus, StoreInv, StoreTypeOK
<1>1. ASSUME NEW j \in Jobs, NEW on \in BOOLEAN, CreateScheduledJob(j, on)
      PROVE  KeepsOwner(r)
  BY <1>1 DEF CreateScheduledJob, rowVars
<1>2. ASSUME NEW j \in Jobs, NEW on \in BOOLEAN, SetScheduleEnabled(j, on)
      PROVE  KeepsOwner(r)
  BY <1>2 DEF SetScheduleEnabled, rowVars
<1>3. ASSUME NEW j \in Jobs, DropJob(j), jobStatus[j] # "running"
      PROVE  KeepsOwner(r)
  BY <1>3 DEF DropJob, RunsOf
<1>4. ASSUME NEW j \in Jobs, CancelJob(j)
      PROVE  KeepsOwner(r)
  BY <1>4 DEF CancelJob
<1>5. ASSUME NEW j \in Jobs, ReserveJobDeletion(j)
      PROVE  KeepsOwner(r)
  BY <1>5 DEF ReserveJobDeletion, rowVars
<1>6. ASSUME NEW q \in Runs, SubmitJob(q)
      PROVE  KeepsOwner(r)
  BY <1>6 DEF SubmitJob
<1>7. ASSUME NEW q \in Runs, NEW scheduled \in BOOLEAN,
             QueueRun(q, jobStatus[JobOf[q]], cur[JobOf[q]], scheduled)
      PROVE  KeepsOwner(r)
  BY <1>7 DEF QueueRun
<1>8. ASSUME NEW q \in Runs, ClaimRun(q)
      PROVE  KeepsOwner(r)
  BY <1>8 DEF ClaimRun, QueuedOn
<1>9. ASSUME NEW q \in Runs, HeartbeatRun(q) \/ LeaseExpires(q)
      PROVE  KeepsOwner(r)
  BY <1>9 DEF HeartbeatRun, LeaseExpires, jobVars, rowVars
<1>10. ASSUME NEW q \in Runs, NEW s \in Settled, NEW lease \in BOOLEAN,
             FinalizeOwnedRun(q, s, lease)
      PROVE  KeepsOwner(r)
  BY <1>10 DEF FinalizeOwnedRun, RunIsActive, SettleRun, IntentFor
<1>11. ASSUME NEW q \in Runs, FailQueuedRun(q)
      PROVE  KeepsOwner(r)
  BY <1>11 DEF FailQueuedRun, FailUnstarted, QueuedOn, SettleRun
<1>12. ASSUME NEW q \in Runs, NEW context \in BOOLEAN, NEW lease \in BOOLEAN,
             FailOwnedRun(q, context, lease)
      PROVE  KeepsOwner(r)
  BY <1>12 DEF FailOwnedRun, FailUnstarted, QueuedOn, RunIsActive,
                SettleRun, IntentFor
<1>13. ASSUME NEW q \in Runs, RecoverStaleRun(q)
      PROVE  KeepsOwner(r)
  BY <1>13 DEF RecoverStaleRun, RunIsActive, SettleRun
<1>14. ASSUME NEW q \in Runs, RecordScheduledTriggerFailure(q)
      PROVE  KeepsOwner(r)
  <2>1. /\ runStatus' = [runStatus EXCEPT ![q] = "failed"]
        /\ runStatus[q] # "running"
    BY <1>14 DEF RecordScheduledTriggerFailure, CanRecordFailure
  <2>2. RunningOn(r) => RunningOn(r)'
    <3>1. CASE ParentCanConverge(q)
      <4>1. /\ jobStatus' = [jobStatus EXCEPT ![JobOf[q]] = "failed"]
            /\ cur' = [cur EXCEPT ![JobOf[q]] = q]
        BY <1>14, <3>1, Zenon DEF RecordScheduledTriggerFailure
      <4> QED BY <3>1, <4>1 DEF ParentCanConverge
    <3>2. CASE ~ParentCanConverge(q)
      <4>1. UNCHANGED <<jobStatus, cur>>
        BY <1>14, <3>2 DEF RecordScheduledTriggerFailure
      <4> QED BY <4>1
    <3> QED BY <3>1, <3>2
  <2> QED BY <2>1, <2>2
<1>15. ASSUME NEW q \in Runs, ReconcileTerminalWebhook(q) \/ SettleDelivery(q)
      PROVE  KeepsOwner(r)
  BY <1>15 DEF ReconcileTerminalWebhook, SettleDelivery, RunningOn, IntentFor, jobVars
<1>16. ASSUME NEW j \in Jobs,
             RollbackScheduledJobCreation(j) \/ FinalizeJobDeletion(j)
      PROVE  KeepsOwner(r)
  BY <1>3, <1>16 DEF RollbackScheduledJobCreation, FinalizeJobDeletion
<1>17. ASSUME NEW q \in Runs, RollbackQueuedSubmission(q)
      PROVE  KeepsOwner(r)
  BY <1>3, <1>17 DEF RollbackQueuedSubmission, QueuedOn
<1>18. ASSUME NEW q \in Runs, PruneScheduledRun(q)
      PROVE  KeepsOwner(r)
  BY <1>18 DEF PruneScheduledRun, jobVars
<1> HIDE DEF KeepsOwner, RunningOn, SingleOwner, CurrentRunBelongs, Settled, ActiveStatus, StoreInv, StoreTypeOK
<1> QED BY <1>1, <1>2, <1>4, <1>5, <1>6, <1>7, <1>8, <1>9, <1>10, <1>11, <1>12,
           <1>13, <1>14, <1>15, <1>16, <1>17, <1>18 DEF StoreNext

\* A running run ends with its parent or is superseded by a fresh run, and a
\* superseded one is never settled.
THEOREM OwnerEndsWithRunHolds == StoreSpec => OwnerEndsWithRun
<1>1. StoreInv /\ [StoreNext]_storeVars => [\A r \in Runs : KeepsOwner(r)]_storeVars
  BY StepKeepsOwner
<1> QED BY <1>1, StoreInvariant, PTL DEF StoreSpec, OwnerEndsWithRun
=============================================================================
