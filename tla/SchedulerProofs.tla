--------------------------- MODULE SchedulerProofs ---------------------------
(***************************************************************************)
(* What TLAPS proves of Scheduler.tla for any jobs, runs, configurations   *)
(* and any number of faults: deliveries match the snapshots of their runs, *)
(* missed fires settle, and APScheduler agrees with the store whenever no  *)
(* compensation is owed.  What this needs of the store is less than its    *)
(* own invariant.                                                          *)
(***************************************************************************)
EXTENDS Scheduler, TLAPS

(* A job has no run before its first one, and one while it runs.           *)
RunIsThere(j) ==
    /\ jobStatus[j] = "absent" => cur[j] = NoRun
    /\ jobStatus[j] = "running" => cur[j] # NoRun

(* A run id that was delivered or recorded as missed is not a new one.     *)
KnownIsUsed == missed \subseteq used /\ \A r \in Runs : redis[r] # NoConfig => r \in used

(* A trigger at work has a run; it recovers the run its job was running;   *)
(* and it enqueues the configuration that its run was accepted with.       *)
TriggerIsSound(t) ==
    /\ trig[t].pc # "idle" => trig[t].run \in Runs
    /\ trig[t].pc = "recover" \/ (trig[t].pc = "check" /\ trig[t].job = "running")
         => trig[t].cur # NoRun
    /\ trig[t].pc = "enqueue" =>
         trig[t].run \in used /\ snapConfig[trig[t].run] = trig[t].config

(* A compensation that may still write the row is under way.               *)
RepairIsPending(j) ==
    /\ repair[j].valid => repair[j].pc # "idle"
    /\ repair[j].pc = "restore" => repair[j].config \in Configs

(* Unless a compensation is owed or was given up, APScheduler has what the *)
(* store has: also while a compensation is pending that came too late.     *)
RegisteredOrOwed(j) ==
    Mutable(j) /\ ~repair[j].valid /\ j \notin adrift =>
        registered[j] = [config |-> config[j], active |-> enabled[j]]

SoundInv ==
    /\ SchedulerInv /\ KnownIsUsed
    /\ \A j \in Jobs : RunIsThere(j) /\ RepairIsPending(j) /\ RegisteredOrOwed(j)
    /\ \A t \in Triggers : TriggerIsSound(t)

-----------------------------------------------------------------------------
(* Types of what the actions write.                                        *)

(* A trigger moves on, ends, or reads its job again.                       *)
LEMMA TriggerTypes ==
  ASSUME SchedulerTypeOK, NEW t \in Triggers
  PROVE  /\ Ends(t) => trig' \in [Triggers -> TriggerState]
         /\ \A pc \in {"reread", "queue", "recover", "enqueue", "record"} :
                Goes(t, pc) => trig' \in [Triggers -> TriggerState]
         /\ trig[t].run \in Runs => Holding(t, "queue") \in TriggerState
<1>1. NoTrigger \in TriggerState
  BY DEF NoTrigger, TriggerState, JobStatus
<1>2. Ends(t) => trig' \in [Triggers -> TriggerState]
  BY <1>1 DEF SchedulerTypeOK, Ends
<1>3. ASSUME NEW pc \in {"reread", "queue", "recover", "enqueue", "record"}, Goes(t, pc)
      PROVE  trig' \in [Triggers -> TriggerState]
  BY <1>3 DEF SchedulerTypeOK, Goes, TriggerState
<1>4. ASSUME trig[t].run \in Runs PROVE Holding(t, "queue") \in TriggerState
  <2>1. JobOf[trig[t].run] \in Jobs
    BY <1>4, JobOfAssumption
  <2> DEFINE j == JobOf[trig[t].run]
  <2>2. /\ jobStatus[j] \in JobStatus /\ cur[j] \in Runs \cup {NoRun}
        /\ config[j] \in Configs \cup {NoConfig} /\ trig[t] \in TriggerState
    BY <2>1 DEF SchedulerTypeOK, StoreTypeOK
  <2>3. Holding(t, "queue") = [trig[t] EXCEPT !.pc = "queue", !.job = jobStatus[j],
                                              !.cur = cur[j], !.config = config[j]]
    BY DEF Holding
  <2> HIDE DEF j
  <2> QED BY <2>2, <2>3 DEF TriggerState
<1> QED BY <1>2, <1>3, <1>4

(* What APScheduler is given, and what a mutation leaves to compensate.    *)
LEMMA EntryTypes ==
  /\ Unregistered \in Entry
  /\ \A c \in Configs, on \in BOOLEAN : [config |-> c, active |-> on] \in Entry
  BY DEF Unregistered, Entry

(* A registration that succeeds, or raises, leaves APScheduler a schedule. *)
LEMMA RegisterTypes ==
  ASSUME SchedulerTypeOK, NEW j \in Jobs, NEW c \in Configs, NEW on \in BOOLEAN,
         Register(j, c, on) \/ RegisterRaises(j, c, on)
  PROVE  registered' \in [Jobs -> Entry]
<1>1. CASE registered' = registered
  BY <1>1 DEF SchedulerTypeOK
<1>2. ASSUME NEW e \in Entry, registered' = [registered EXCEPT ![j] = e]
      PROVE  registered' \in [Jobs -> Entry]
  BY <1>2 DEF SchedulerTypeOK
<1>3. /\ registered' = registered \/ \E e \in Entry : registered' = [registered EXCEPT ![j] = e]
  BY EntryTypes DEF Register, RegisterRaises
<1> QED BY <1>1, <1>2, <1>3

(* A compensation begins, is overtaken, or is over.                        *)
LEMMA RepairTypes ==
  ASSUME SchedulerTypeOK, NEW j \in Jobs
  PROVE  /\ NoRepair \in RepairState
         /\ [NoRepair EXCEPT !.pc = "rollback", !.valid = TRUE] \in RepairState
         /\ [pc |-> "restore", valid |-> TRUE, config |-> config[j], on |-> enabled[j],
             status |-> jobStatus[j], cur |-> cur[j]] \in RepairState
  BY DEF NoRepair, RepairState, JobStatus, SchedulerTypeOK, StoreTypeOK

(* A mutation is applied.                                                  *)
LEMMA AppliedTypes ==
  ASSUME SchedulerTypeOK, NEW j \in Jobs, NEW c \in Configs, NEW on \in BOOLEAN,
         NEW wrote \in BOOLEAN, Applied(j, c, on, wrote)
  PROVE  /\ registered' \in [Jobs -> Entry] /\ adrift' \subseteq Jobs
         /\ repair' \in [Jobs -> RepairState]
<1>1. registered' \in [Jobs -> Entry] /\ adrift' \subseteq Jobs
  <2>1. adrift' \subseteq Jobs
    BY DEF Applied, Register, SchedulerTypeOK
  <2> QED BY <2>1, RegisterTypes DEF Applied
<1>2. CASE repair' = [repair EXCEPT ![j].valid = @ /\ ~wrote]
  <2>1. PICK b \in BOOLEAN : b = (repair[j].valid /\ ~wrote)
    OBVIOUS
  <2>2. repair' = [repair EXCEPT ![j] = [repair[j] EXCEPT !.valid = b]]
    BY <1>2, <2>1
  <2>3. repair \in [Jobs -> RepairState]
    BY DEF SchedulerTypeOK
  <2>4. [repair[j] EXCEPT !.valid = b] \in RepairState
    BY <2>3 DEF RepairState
  <2> QED BY <1>1, <2>2, <2>3, <2>4
<1>3. CASE repair' = [repair EXCEPT ![j] = [pc |-> "restore", valid |-> TRUE,
                        config |-> config[j], on |-> enabled[j],
                        status |-> jobStatus[j], cur |-> cur[j]]]
  BY <1>1, <1>3, RepairTypes DEF SchedulerTypeOK
<1> QED BY <1>1, <1>2, <1>3 DEF Applied

(* A settled, a claimed and a failed run.                                  *)
LEMMA SettleTypes ==
  ASSUME StoreTypeOK, NEW r \in Runs
  PROVE  /\ RecoverStaleRun(r) => StoreTypeOK'
         /\ ClaimRun(r) => StoreTypeOK'
         /\ RecordScheduledTriggerFailure(r) => StoreTypeOK'
<1> USE JobOfAssumption DEF StoreTypeOK, JobStatus, RunStatus
<1>1. RecoverStaleRun(r) => StoreTypeOK'
  BY DEF RecoverStaleRun, SettleRun
<1>2. ClaimRun(r) => StoreTypeOK'
  BY DEF ClaimRun
<1>3. ASSUME RecordScheduledTriggerFailure(r) PROVE StoreTypeOK'
  <2>1. /\ jobStatus' \in [Jobs -> JobStatus] /\ cur' \in [Jobs -> Runs \cup {NoRun}]
    BY <1>3 DEF RecordScheduledTriggerFailure
  <2>2. /\ runStatus' \in [Runs -> RunStatus]
        /\ completedBy' \in [Runs -> {"none", "owner", "other"}]
    BY <1>3 DEF RecordScheduledTriggerFailure
  <2>3. reconciled' \subseteq Runs /\ missed' \subseteq Runs /\ used' \subseteq Runs
    BY <1>3 DEF RecordScheduledTriggerFailure
  <2> QED BY <1>3, <2>1, <2>2, <2>3 DEF RecordScheduledTriggerFailure
<1> QED BY <1>1, <1>2, <1>3

(* The rows of a job are dropped; its schedule is written.                 *)
LEMMA JobTypes ==
  ASSUME StoreTypeOK, NEW j \in Jobs
  PROVE  /\ DropJob(j) => StoreTypeOK'
         /\ \A c \in Configs, on \in BOOLEAN : WriteSchedule(j, c, on) => StoreTypeOK'
<1> USE DEF StoreTypeOK
<1>1. ASSUME DropJob(j) PROVE StoreTypeOK'
  <2>1. /\ jobStatus' \in [Jobs -> JobStatus] /\ cur' \in [Jobs -> Runs \cup {NoRun}]
        /\ enabled' \in [Jobs -> BOOLEAN]
    BY <1>1 DEF DropJob, JobStatus
  <2>2. runStatus' \in [Runs -> RunStatus]
    BY <1>1 DEF DropJob, RunStatus
  <2>3. completedBy' \in [Runs -> {"none", "owner", "other"}]
    BY <1>1 DEF DropJob
  <2>4. intent' \in [Runs -> {"none", "pending", "done"}]
    BY <1>1 DEF DropJob
  <2>5. snapshot' \subseteq Runs /\ reconciled' \subseteq Runs /\ missed' \subseteq Runs
    BY <1>1 DEF DropJob
  <2> QED BY <1>1, <2>1, <2>2, <2>3, <2>4, <2>5 DEF DropJob
<1>2. \A c \in Configs, on \in BOOLEAN : WriteSchedule(j, c, on) => StoreTypeOK'
  BY DEF WriteSchedule, rowVars
<1> QED BY <1>1, <1>2

(* Nothing is written to the store.                                        *)
LEMMA StoreStutters == StoreTypeOK /\ UNCHANGED storeVars => StoreTypeOK'
  BY DEF StoreTypeOK, storeVars

-----------------------------------------------------------------------------
(* One lemma per action.                                                   *)

(* A trigger reads its job.                                                *)
LEMMA FireKeepsInv ==
  ASSUME SoundInv, NEW t \in Triggers, NEW r \in Runs, Fire(t, r)
  PROVE  SoundInv'
<1> USE NoRunAssumption, JobOfAssumption, NoConfigAssumption
<1> USE DEF SoundInv, SchedulerInv, SchedulerTypeOK, Fire, OnlyTrig, regVars, storeVars,
    Held, JobStatus, RunStatus, Settled, ActiveStatus, Mutable, QueuedOn, RunningOn
<1>1. StoreTypeOK'
  BY DEF StoreTypeOK, TriggerIsSound, TriggerState
<1>2. SchedulerTypeOK'
  <2>1. config' \in [Jobs -> Configs] /\ snapConfig' \in [Runs -> Configs \cup {NoConfig}]
    BY DEF RepairIsPending
  <2>2. redis' \in [Runs -> Configs \cup {NoConfig}]
    BY DEF TriggerState
  <2>3. trig' \in [Triggers -> TriggerState]
    BY DEF TriggerState, StoreTypeOK
  <2>4. registered' \in [Jobs -> Entry] /\ adrift' \subseteq Jobs
    BY DEF Entry, Unregistered, RepairState, StoreTypeOK
  <2>5. repair' \in [Jobs -> RepairState]
    BY DEF RepairState, StoreTypeOK
  <2>6. faults' \in 0..MaxFaults
    BY FaultsAssumption
  <2> QED BY <1>1, <2>1, <2>2, <2>3, <2>4, <2>5, <2>6
<1>3. KnownIsUsed'
  BY DEF KnownIsUsed, StoreTypeOK, TriggerIsSound
<1>4. ASSUME NEW i \in Jobs PROVE RunIsThere(i)'
  BY DEF RunIsThere, StoreTypeOK, TriggerIsSound, TriggerState
<1>5. ASSUME NEW u \in Triggers PROVE TriggerIsSound(u)'
  BY DEF TriggerIsSound, StoreTypeOK, TriggerState, RunIsThere
<1>6. DeliveryMatchesSnapshot'
  BY DEF DeliveryMatchesSnapshot, StoreTypeOK, TriggerIsSound, KnownIsUsed, RunIsThere, TriggerState
<1>7. MissedFireSettles'
  BY DEF MissedFireSettles, StoreTypeOK, KnownIsUsed, RunIsThere, TriggerIsSound, TriggerState
<1>8. ASSUME NEW i \in Jobs PROVE RepairIsPending(i)'
  BY DEF RepairIsPending, RepairState
<1>9. ASSUME NEW i \in Jobs PROVE RegisteredOrOwed(i)'
  BY DEF RegisteredOrOwed, StoreTypeOK, RepairState, Entry, RepairIsPending, TriggerIsSound, TriggerState
<1> QED BY <1>1, <1>2, <1>3, <1>4, <1>5, <1>6, <1>7, <1>8, <1>9

(* A trigger looks at the run its job has.                                 *)
LEMMA CheckActiveRunKeepsInv ==
  ASSUME SoundInv, NEW t \in Triggers, CheckActiveRun(t)
  PROVE  SoundInv'
<1> USE NoRunAssumption, JobOfAssumption, NoConfigAssumption
<1> USE DEF SoundInv, SchedulerInv, SchedulerTypeOK, CheckActiveRun, OnlyTrig, regVars,
    storeVars, Goes, Ends, NoTrigger, JobStatus, RunStatus, Settled, ActiveStatus,
    Mutable, QueuedOn, RunningOn
<1>1. StoreTypeOK'
  BY DEF StoreTypeOK, TriggerIsSound, TriggerState
<1>2. SchedulerTypeOK'
  <2>1. config' \in [Jobs -> Configs] /\ snapConfig' \in [Runs -> Configs \cup {NoConfig}]
    BY DEF RepairIsPending
  <2>2. redis' \in [Runs -> Configs \cup {NoConfig}]
    BY DEF TriggerState
  <2>3. trig' \in [Triggers -> TriggerState]
    BY SMTT(30) DEF TriggerState, StoreTypeOK
  <2>4. registered' \in [Jobs -> Entry] /\ adrift' \subseteq Jobs
    BY DEF Entry, Unregistered, RepairState, StoreTypeOK
  <2>5. repair' \in [Jobs -> RepairState]
    BY DEF RepairState, StoreTypeOK
  <2>6. faults' \in 0..MaxFaults
    BY FaultsAssumption
  <2> QED BY <1>1, <2>1, <2>2, <2>3, <2>4, <2>5, <2>6
<1>3. KnownIsUsed'
  BY DEF KnownIsUsed, StoreTypeOK, TriggerIsSound
<1>4. ASSUME NEW i \in Jobs PROVE RunIsThere(i)'
  BY DEF RunIsThere, StoreTypeOK, TriggerIsSound, TriggerState
<1>5. ASSUME NEW u \in Triggers PROVE TriggerIsSound(u)'
  BY DEF TriggerIsSound, StoreTypeOK, TriggerState, RunIsThere
<1>6. DeliveryMatchesSnapshot'
  BY DEF DeliveryMatchesSnapshot, StoreTypeOK, TriggerIsSound, KnownIsUsed, RunIsThere, TriggerState
<1>7. MissedFireSettles'
  BY DEF MissedFireSettles, StoreTypeOK, KnownIsUsed, RunIsThere, TriggerIsSound, TriggerState
<1>8. ASSUME NEW i \in Jobs PROVE RepairIsPending(i)'
  BY DEF RepairIsPending, RepairState
<1>9. ASSUME NEW i \in Jobs PROVE RegisteredOrOwed(i)'
  BY DEF RegisteredOrOwed, StoreTypeOK, RepairState, Entry, RepairIsPending, TriggerIsSound, TriggerState
<1> QED BY <1>1, <1>2, <1>3, <1>4, <1>5, <1>6, <1>7, <1>8, <1>9

(* A trigger recovers a stale run.                                         *)
LEMMA RecoverBeforeFireKeepsInv ==
  ASSUME SoundInv, NEW t \in Triggers, RecoverBeforeFire(t)
  PROVE  SoundInv'
<1> USE NoRunAssumption, JobOfAssumption, NoConfigAssumption
<1> USE DEF SoundInv, SchedulerInv, SchedulerTypeOK, RecoverBeforeFire, OnlyTrig,
    regVars, storeVars, Goes, Ends, NoTrigger, RecoverStaleRun, SettleRun, RunIsActive,
    JobStatus, RunStatus, Settled, ActiveStatus, Mutable, QueuedOn, RunningOn
<1>1. StoreTypeOK'
  <2>1. trig[t].cur \in Runs
    BY DEF TriggerIsSound, TriggerState
  <2> QED BY <2>1, SettleTypes, StoreStutters
<1>2. SchedulerTypeOK'
  <2>1. config' \in [Jobs -> Configs] /\ snapConfig' \in [Runs -> Configs \cup {NoConfig}]
    BY DEF RepairIsPending
  <2>2. redis' \in [Runs -> Configs \cup {NoConfig}]
    BY DEF TriggerState
  <2>3. trig' \in [Triggers -> TriggerState]
    BY TriggerTypes
  <2>4. registered' \in [Jobs -> Entry] /\ adrift' \subseteq Jobs
    BY DEF Entry, Unregistered, RepairState, StoreTypeOK
  <2>5. repair' \in [Jobs -> RepairState]
    BY DEF RepairState, StoreTypeOK
  <2>6. faults' \in 0..MaxFaults
    BY FaultsAssumption
  <2> QED BY <1>1, <2>1, <2>2, <2>3, <2>4, <2>5, <2>6
<1>3. KnownIsUsed'
  BY DEF KnownIsUsed, StoreTypeOK, TriggerIsSound
<1>4. ASSUME NEW i \in Jobs PROVE RunIsThere(i)'
  BY DEF RunIsThere, StoreTypeOK, TriggerIsSound, TriggerState
<1>5. ASSUME NEW u \in Triggers PROVE TriggerIsSound(u)'
  BY DEF TriggerIsSound, StoreTypeOK, TriggerState, RunIsThere
<1>6. DeliveryMatchesSnapshot'
  BY DEF DeliveryMatchesSnapshot, StoreTypeOK, TriggerIsSound, KnownIsUsed, RunIsThere, TriggerState
<1>7. MissedFireSettles'
  BY DEF MissedFireSettles, StoreTypeOK, KnownIsUsed, RunIsThere, TriggerIsSound, TriggerState
<1>8. ASSUME NEW i \in Jobs PROVE RepairIsPending(i)'
  BY DEF RepairIsPending, RepairState
<1>9. ASSUME NEW i \in Jobs PROVE RegisteredOrOwed(i)'
  BY DEF RegisteredOrOwed, StoreTypeOK, RepairState, Entry, RepairIsPending, TriggerIsSound, TriggerState
<1> QED BY <1>1, <1>2, <1>3, <1>4, <1>5, <1>6, <1>7, <1>8, <1>9

(* A trigger reads its job again.                                          *)
LEMMA RereadKeepsInv ==
  ASSUME SoundInv, NEW t \in Triggers, Reread(t)
  PROVE  SoundInv'
<1> USE NoRunAssumption, JobOfAssumption, NoConfigAssumption
<1> USE DEF SoundInv, SchedulerInv, SchedulerTypeOK, Reread, OnlyTrig, regVars,
    storeVars, Holding, JobStatus, RunStatus, Settled, ActiveStatus, Mutable, QueuedOn,
    RunningOn
<1>1. StoreTypeOK'
  BY DEF StoreTypeOK, TriggerIsSound, TriggerState
<1>2. SchedulerTypeOK'
  <2>1. config' \in [Jobs -> Configs] /\ snapConfig' \in [Runs -> Configs \cup {NoConfig}]
    BY DEF RepairIsPending
  <2>2. redis' \in [Runs -> Configs \cup {NoConfig}]
    BY DEF TriggerState
  <2>3. trig' \in [Triggers -> TriggerState]
    BY TriggerTypes DEF TriggerIsSound
  <2>4. registered' \in [Jobs -> Entry] /\ adrift' \subseteq Jobs
    BY DEF Entry, Unregistered, RepairState, StoreTypeOK
  <2>5. repair' \in [Jobs -> RepairState]
    BY DEF RepairState, StoreTypeOK
  <2>6. faults' \in 0..MaxFaults
    BY FaultsAssumption
  <2> QED BY <1>1, <2>1, <2>2, <2>3, <2>4, <2>5, <2>6
<1>3. KnownIsUsed'
  BY DEF KnownIsUsed, StoreTypeOK, TriggerIsSound
<1>4. ASSUME NEW i \in Jobs PROVE RunIsThere(i)'
  BY DEF RunIsThere, StoreTypeOK, TriggerIsSound, TriggerState
<1>5. ASSUME NEW u \in Triggers PROVE TriggerIsSound(u)'
  BY DEF TriggerIsSound, StoreTypeOK, TriggerState, RunIsThere
<1>6. DeliveryMatchesSnapshot'
  BY DEF DeliveryMatchesSnapshot, StoreTypeOK, TriggerIsSound, KnownIsUsed, RunIsThere, TriggerState
<1>7. MissedFireSettles'
  BY DEF MissedFireSettles, StoreTypeOK, KnownIsUsed, RunIsThere, TriggerIsSound, TriggerState
<1>8. ASSUME NEW i \in Jobs PROVE RepairIsPending(i)'
  BY DEF RepairIsPending, RepairState
<1>9. ASSUME NEW i \in Jobs PROVE RegisteredOrOwed(i)'
  BY DEF RegisteredOrOwed, StoreTypeOK, RepairState, Entry, RepairIsPending, TriggerIsSound, TriggerState
<1> QED BY <1>1, <1>2, <1>3, <1>4, <1>5, <1>6, <1>7, <1>8, <1>9

(* A trigger queues its run, or loses the race.                            *)
LEMMA QueueKeepsInv ==
  ASSUME SoundInv, NEW t \in Triggers, Queue(t)
  PROVE  SoundInv'
<1> USE NoRunAssumption, JobOfAssumption, NoConfigAssumption
<1> USE DEF SoundInv, SchedulerInv, SchedulerTypeOK, Queue, regVars, storeVars, Goes,
    Ends, NoTrigger, QueueRun, JobStatus, RunStatus, Settled, ActiveStatus, Mutable,
    QueuedOn, RunningOn
<1>1. StoreTypeOK'
  BY SMTT(30) DEF StoreTypeOK, TriggerIsSound, TriggerState
<1>2. SchedulerTypeOK'
  <2>1. config' \in [Jobs -> Configs] /\ snapConfig' \in [Runs -> Configs \cup {NoConfig}]
    BY DEF RepairIsPending
  <2>2. redis' \in [Runs -> Configs \cup {NoConfig}]
    BY DEF TriggerState
  <2>3. trig' \in [Triggers -> TriggerState]
    BY DEF TriggerState, StoreTypeOK
  <2>4. registered' \in [Jobs -> Entry] /\ adrift' \subseteq Jobs
    BY DEF Entry, Unregistered, RepairState, StoreTypeOK
  <2>5. repair' \in [Jobs -> RepairState]
    BY DEF RepairState, StoreTypeOK
  <2>6. faults' \in 0..MaxFaults
    BY FaultsAssumption
  <2> QED BY <1>1, <2>1, <2>2, <2>3, <2>4, <2>5, <2>6
<1>3. KnownIsUsed'
  BY DEF KnownIsUsed, StoreTypeOK, TriggerIsSound
<1>4. ASSUME NEW i \in Jobs PROVE RunIsThere(i)'
  BY DEF RunIsThere, StoreTypeOK, TriggerIsSound, TriggerState
<1>5. ASSUME NEW u \in Triggers PROVE TriggerIsSound(u)'
  BY DEF TriggerIsSound, StoreTypeOK, TriggerState, RunIsThere
<1>6. DeliveryMatchesSnapshot'
  BY DEF DeliveryMatchesSnapshot, StoreTypeOK, TriggerIsSound, KnownIsUsed, RunIsThere, TriggerState
<1>7. MissedFireSettles'
  BY DEF MissedFireSettles, StoreTypeOK, KnownIsUsed, RunIsThere, TriggerIsSound, TriggerState
<1>8. ASSUME NEW i \in Jobs PROVE RepairIsPending(i)'
  BY DEF RepairIsPending, RepairState
<1>9. ASSUME NEW i \in Jobs PROVE RegisteredOrOwed(i)'
  BY DEF RegisteredOrOwed, StoreTypeOK, RepairState, Entry, RepairIsPending, TriggerIsSound, TriggerState
<1> QED BY <1>1, <1>2, <1>3, <1>4, <1>5, <1>6, <1>7, <1>8, <1>9

(* A trigger raises before its run is accepted.                            *)
LEMMA FailsBeforeQueueKeepsInv ==
  ASSUME SoundInv, NEW t \in Triggers, FailsBeforeQueue(t)
  PROVE  SoundInv'
<1> USE NoRunAssumption, JobOfAssumption, NoConfigAssumption
<1> USE DEF SoundInv, SchedulerInv, SchedulerTypeOK, FailsBeforeQueue, Fault, Raised,
    Goes, Ends, NoTrigger, regVars, storeVars, JobStatus, RunStatus, Settled,
    ActiveStatus, Mutable, QueuedOn, RunningOn
<1>1. StoreTypeOK'
  BY DEF StoreTypeOK, TriggerIsSound, TriggerState
<1>2. SchedulerTypeOK'
  <2>1. config' \in [Jobs -> Configs] /\ snapConfig' \in [Runs -> Configs \cup {NoConfig}]
    BY DEF RepairIsPending
  <2>2. redis' \in [Runs -> Configs \cup {NoConfig}]
    BY DEF TriggerState
  <2>3. trig' \in [Triggers -> TriggerState]
    BY TriggerTypes
  <2>4. registered' \in [Jobs -> Entry] /\ adrift' \subseteq Jobs
    BY DEF Entry, Unregistered, RepairState, StoreTypeOK
  <2>5. repair' \in [Jobs -> RepairState]
    BY DEF RepairState, StoreTypeOK
  <2>6. faults' \in 0..MaxFaults
    BY FaultsAssumption
  <2> QED BY <1>1, <2>1, <2>2, <2>3, <2>4, <2>5, <2>6
<1>3. KnownIsUsed'
  BY DEF KnownIsUsed, StoreTypeOK, TriggerIsSound
<1>4. ASSUME NEW i \in Jobs PROVE RunIsThere(i)'
  BY DEF RunIsThere, StoreTypeOK, TriggerIsSound, TriggerState
<1>5. ASSUME NEW u \in Triggers PROVE TriggerIsSound(u)'
  <2>1. CASE t = "cron"
    BY <2>1 DEF TriggerIsSound, TriggerState
  <2>2. CASE t # "cron"
    BY <2>2 DEF TriggerIsSound, TriggerState
  <2> QED BY <2>1, <2>2
<1>6. DeliveryMatchesSnapshot'
  BY DEF DeliveryMatchesSnapshot, StoreTypeOK, TriggerIsSound, KnownIsUsed, RunIsThere, TriggerState
<1>7. MissedFireSettles'
  BY DEF MissedFireSettles, StoreTypeOK, KnownIsUsed, RunIsThere, TriggerIsSound, TriggerState
<1>8. ASSUME NEW i \in Jobs PROVE RepairIsPending(i)'
  BY DEF RepairIsPending, RepairState
<1>9. ASSUME NEW i \in Jobs PROVE RegisteredOrOwed(i)'
  BY DEF RegisteredOrOwed, StoreTypeOK, RepairState, Entry, RepairIsPending, TriggerIsSound, TriggerState
<1> QED BY <1>1, <1>2, <1>3, <1>4, <1>5, <1>6, <1>7, <1>8, <1>9

(* A trigger hands its run to the queue.                                   *)
LEMMA EnqueueRunKeepsInv ==
  ASSUME SoundInv, NEW t \in Triggers, EnqueueRun(t)
  PROVE  SoundInv'
<1> USE NoRunAssumption, JobOfAssumption, NoConfigAssumption
<1> USE DEF SoundInv, SchedulerInv, SchedulerTypeOK, EnqueueRun, Ends, NoTrigger,
    regVars, storeVars, JobStatus, RunStatus, Settled, ActiveStatus, Mutable, QueuedOn,
    RunningOn
<1>1. StoreTypeOK'
  BY DEF StoreTypeOK, TriggerIsSound, TriggerState
<1>2. SchedulerTypeOK'
  <2>1. config' \in [Jobs -> Configs] /\ snapConfig' \in [Runs -> Configs \cup {NoConfig}]
    BY DEF RepairIsPending
  <2>2. redis' \in [Runs -> Configs \cup {NoConfig}]
    BY DEF TriggerState
  <2>3. trig' \in [Triggers -> TriggerState]
    BY DEF TriggerState, StoreTypeOK
  <2>4. registered' \in [Jobs -> Entry] /\ adrift' \subseteq Jobs
    BY DEF Entry, Unregistered, RepairState, StoreTypeOK
  <2>5. repair' \in [Jobs -> RepairState]
    BY DEF RepairState, StoreTypeOK
  <2>6. faults' \in 0..MaxFaults
    BY FaultsAssumption
  <2> QED BY <1>1, <2>1, <2>2, <2>3, <2>4, <2>5, <2>6
<1>3. KnownIsUsed'
  BY DEF KnownIsUsed, StoreTypeOK, TriggerIsSound
<1>4. ASSUME NEW i \in Jobs PROVE RunIsThere(i)'
  BY DEF RunIsThere, StoreTypeOK, TriggerIsSound, TriggerState
<1>5. ASSUME NEW u \in Triggers PROVE TriggerIsSound(u)'
  BY DEF TriggerIsSound, StoreTypeOK, TriggerState, RunIsThere
<1>6. DeliveryMatchesSnapshot'
  BY DEF DeliveryMatchesSnapshot, StoreTypeOK, TriggerIsSound, KnownIsUsed, RunIsThere, TriggerState
<1>7. MissedFireSettles'
  BY DEF MissedFireSettles, StoreTypeOK, KnownIsUsed, RunIsThere, TriggerIsSound, TriggerState
<1>8. ASSUME NEW i \in Jobs PROVE RepairIsPending(i)'
  BY DEF RepairIsPending, RepairState
<1>9. ASSUME NEW i \in Jobs PROVE RegisteredOrOwed(i)'
  BY DEF RegisteredOrOwed, StoreTypeOK, RepairState, Entry, RepairIsPending, TriggerIsSound, TriggerState
<1> QED BY <1>1, <1>2, <1>3, <1>4, <1>5, <1>6, <1>7, <1>8, <1>9

(* The handover raises.                                                    *)
LEMMA EnqueueRaisesKeepsInv ==
  ASSUME SoundInv, NEW t \in Triggers, EnqueueRaises(t)
  PROVE  SoundInv'
<1> USE NoRunAssumption, JobOfAssumption, NoConfigAssumption
<1> USE DEF SoundInv, SchedulerInv, SchedulerTypeOK, EnqueueRaises, Fault, Raised, Goes,
    Ends, NoTrigger, regVars, storeVars, FailQueuedRun, FailUnstarted, SettleRun,
    JobStatus, RunStatus, Settled, ActiveStatus, Mutable, QueuedOn, RunningOn
<1>1. StoreTypeOK'
  BY SMTT(30) DEF StoreTypeOK, TriggerIsSound, TriggerState
<1>2. SchedulerTypeOK'
  <2>1. config' \in [Jobs -> Configs] /\ snapConfig' \in [Runs -> Configs \cup {NoConfig}]
    BY DEF RepairIsPending
  <2>2. redis' \in [Runs -> Configs \cup {NoConfig}]
    BY DEF TriggerState
  <2>3. trig' \in [Triggers -> TriggerState]
    BY TriggerTypes
  <2>4. registered' \in [Jobs -> Entry] /\ adrift' \subseteq Jobs
    BY DEF Entry, Unregistered, RepairState, StoreTypeOK
  <2>5. repair' \in [Jobs -> RepairState]
    BY DEF RepairState, StoreTypeOK
  <2>6. faults' \in 0..MaxFaults
    BY FaultsAssumption
  <2> QED BY <1>1, <2>1, <2>2, <2>3, <2>4, <2>5, <2>6
<1>3. KnownIsUsed'
  BY DEF KnownIsUsed, StoreTypeOK, TriggerIsSound
<1>4. ASSUME NEW i \in Jobs PROVE RunIsThere(i)'
  BY DEF RunIsThere, StoreTypeOK, TriggerIsSound, TriggerState
<1>5. ASSUME NEW u \in Triggers PROVE TriggerIsSound(u)'
  BY DEF TriggerIsSound, StoreTypeOK, TriggerState, RunIsThere
<1>6. DeliveryMatchesSnapshot'
  BY DEF DeliveryMatchesSnapshot, StoreTypeOK, TriggerIsSound, KnownIsUsed, RunIsThere, TriggerState
<1>7. MissedFireSettles'
  BY DEF MissedFireSettles, StoreTypeOK, KnownIsUsed, RunIsThere, TriggerIsSound, TriggerState
<1>8. ASSUME NEW i \in Jobs PROVE RepairIsPending(i)'
  BY DEF RepairIsPending, RepairState
<1>9. ASSUME NEW i \in Jobs PROVE RegisteredOrOwed(i)'
  BY DEF RegisteredOrOwed, StoreTypeOK, RepairState, Entry, RepairIsPending, TriggerIsSound, TriggerState
<1> QED BY <1>1, <1>2, <1>3, <1>4, <1>5, <1>6, <1>7, <1>8, <1>9

(* A missed fire is recorded.                                              *)
LEMMA RecordFailureKeepsInv ==
  ASSUME SoundInv, NEW t \in Triggers, RecordFailure(t)
  PROVE  SoundInv'
<1> USE NoRunAssumption, JobOfAssumption, NoConfigAssumption
<1> USE DEF SoundInv, SchedulerInv, SchedulerTypeOK, RecordFailure, OnlyTrig, Ends,
    NoTrigger, regVars, storeVars, RecordScheduledTriggerFailure, CanRecordFailure,
    ParentCanConverge, JobStatus, RunStatus, Settled, ActiveStatus, Mutable, QueuedOn,
    RunningOn
<1>1. StoreTypeOK'
  <2>1. trig[t].run \in Runs
    BY DEF TriggerIsSound
  <2> QED BY <2>1, SettleTypes, StoreStutters
<1>2. SchedulerTypeOK'
  <2>1. config' \in [Jobs -> Configs] /\ snapConfig' \in [Runs -> Configs \cup {NoConfig}]
    BY DEF RepairIsPending
  <2>2. redis' \in [Runs -> Configs \cup {NoConfig}]
    BY DEF TriggerState
  <2>3. trig' \in [Triggers -> TriggerState]
    BY DEF TriggerState, StoreTypeOK
  <2>4. registered' \in [Jobs -> Entry] /\ adrift' \subseteq Jobs
    BY DEF Entry, Unregistered, RepairState, StoreTypeOK
  <2>5. repair' \in [Jobs -> RepairState]
    BY DEF RepairState, StoreTypeOK
  <2>6. faults' \in 0..MaxFaults
    BY FaultsAssumption
  <2> QED BY <1>1, <2>1, <2>2, <2>3, <2>4, <2>5, <2>6
<1>3. KnownIsUsed'
  BY DEF KnownIsUsed, StoreTypeOK, TriggerIsSound
<1>4. ASSUME NEW i \in Jobs PROVE RunIsThere(i)'
  BY DEF RunIsThere, StoreTypeOK, TriggerIsSound, TriggerState
<1>5. ASSUME NEW u \in Triggers PROVE TriggerIsSound(u)'
  BY DEF TriggerIsSound, StoreTypeOK, TriggerState, RunIsThere
<1>6. DeliveryMatchesSnapshot'
  BY DEF DeliveryMatchesSnapshot, StoreTypeOK, TriggerIsSound, KnownIsUsed, RunIsThere, TriggerState
<1>7. MissedFireSettles'
  BY DEF MissedFireSettles, StoreTypeOK, KnownIsUsed, RunIsThere, TriggerIsSound, TriggerState
<1>8. ASSUME NEW i \in Jobs PROVE RepairIsPending(i)'
  BY DEF RepairIsPending, RepairState
<1>9. ASSUME NEW i \in Jobs PROVE RegisteredOrOwed(i)'
  BY DEF RegisteredOrOwed, StoreTypeOK, RepairState, Entry, RepairIsPending, TriggerIsSound, TriggerState
<1> QED BY <1>1, <1>2, <1>3, <1>4, <1>5, <1>6, <1>7, <1>8, <1>9

(* A scheduled job is created and registered.                              *)
LEMMA CreateKeepsInv ==
  ASSUME SoundInv, NEW j \in Jobs, NEW on \in BOOLEAN, Create(j, on)
  PROVE  SoundInv'
<1> USE NoRunAssumption, JobOfAssumption, NoConfigAssumption
<1> USE DEF SoundInv, SchedulerInv, SchedulerTypeOK, Create, CreateScheduledJob,
    rowVars, Register, Fault, NoRepair, runVars, JobStatus, RunStatus, Settled,
    ActiveStatus, Mutable, QueuedOn, RunningOn
<1>1. StoreTypeOK'
  BY DEF StoreTypeOK, TriggerIsSound, TriggerState
<1>2. SchedulerTypeOK'
  <2>1. config' \in [Jobs -> Configs] /\ snapConfig' \in [Runs -> Configs \cup {NoConfig}]
    BY DEF RepairIsPending
  <2>2. redis' \in [Runs -> Configs \cup {NoConfig}]
    BY DEF TriggerState
  <2>3. trig' \in [Triggers -> TriggerState]
    BY DEF TriggerState, StoreTypeOK
  <2>4. registered' \in [Jobs -> Entry] /\ adrift' \subseteq Jobs
    <3>1. config[j] \in Configs
      OBVIOUS
    <3> QED BY <3>1, RegisterTypes, EntryTypes
  <2>5. repair' \in [Jobs -> RepairState]
    BY RepairTypes
  <2>6. faults' \in 0..MaxFaults
    BY FaultsAssumption
  <2> QED BY <1>1, <2>1, <2>2, <2>3, <2>4, <2>5, <2>6
<1>3. KnownIsUsed'
  BY DEF KnownIsUsed, StoreTypeOK, TriggerIsSound
<1>4. ASSUME NEW i \in Jobs PROVE RunIsThere(i)'
  BY DEF RunIsThere, StoreTypeOK, TriggerIsSound, TriggerState
<1>5. ASSUME NEW u \in Triggers PROVE TriggerIsSound(u)'
  BY DEF TriggerIsSound, StoreTypeOK, TriggerState, RunIsThere
<1>6. DeliveryMatchesSnapshot'
  BY DEF DeliveryMatchesSnapshot, StoreTypeOK, TriggerIsSound, KnownIsUsed, RunIsThere, TriggerState
<1>7. MissedFireSettles'
  BY DEF MissedFireSettles, StoreTypeOK, KnownIsUsed, RunIsThere, TriggerIsSound, TriggerState
<1>8. ASSUME NEW i \in Jobs PROVE RepairIsPending(i)'
  <2>1. CASE UNCHANGED repair
    BY <2>1 DEF RepairIsPending
  <2>2. CASE repair' = [repair EXCEPT ![j] = [NoRepair EXCEPT !.pc = "rollback", !.valid = TRUE]]
    BY <2>2 DEF RepairIsPending, RepairState
  <2> QED BY <2>1, <2>2
<1>9. ASSUME NEW i \in Jobs PROVE RegisteredOrOwed(i)'
  <2>1. CASE Register(j, config[j], on) /\ UNCHANGED <<repair, faults>>
    BY <2>1 DEF RegisteredOrOwed, StoreTypeOK
  <2>2. CASE /\ registered' = [registered EXCEPT ![j] = Unregistered] /\ UNCHANGED adrift
             /\ repair' = [repair EXCEPT ![j] = [NoRepair EXCEPT !.pc = "rollback", !.valid = TRUE]]
    <3>1. CASE i = j
      <4>1. repair'[i].valid
        BY <2>2, <3>1
      <4> QED BY <4>1 DEF RegisteredOrOwed
    <3>2. CASE i # j
      BY <2>2, <3>2 DEF RegisteredOrOwed, StoreTypeOK
    <3> QED BY <3>1, <3>2
  <2> QED BY <2>1, <2>2
<1> QED BY <1>1, <1>2, <1>3, <1>4, <1>5, <1>6, <1>7, <1>8, <1>9

(* A creation is rolled back.                                              *)
LEMMA RollBackKeepsInv ==
  ASSUME SoundInv, NEW j \in Jobs, RollBack(j)
  PROVE  SoundInv'
<1> USE NoRunAssumption, JobOfAssumption, NoConfigAssumption
<1> USE DEF SoundInv, SchedulerInv, SchedulerTypeOK, RollBack,
    RollbackScheduledJobCreation, DropJob, GivesUp, Fault, NoRepair, runVars, storeVars,
    JobStatus, RunStatus, Settled, ActiveStatus, Mutable, QueuedOn, RunningOn
<1>1. StoreTypeOK'
  BY JobTypes, StoreStutters
<1>2. SchedulerTypeOK'
  <2>1. config' \in [Jobs -> Configs] /\ snapConfig' \in [Runs -> Configs \cup {NoConfig}]
    BY DEF RepairIsPending
  <2>2. redis' \in [Runs -> Configs \cup {NoConfig}]
    BY DEF TriggerState
  <2>3. trig' \in [Triggers -> TriggerState]
    BY DEF TriggerState, StoreTypeOK
  <2>4. registered' \in [Jobs -> Entry] /\ adrift' \subseteq Jobs
    BY DEF Entry, Unregistered, RepairState, StoreTypeOK
  <2>5. repair' \in [Jobs -> RepairState]
    BY DEF RepairState, StoreTypeOK
  <2>6. faults' \in 0..MaxFaults
    BY FaultsAssumption
  <2> QED BY <1>1, <2>1, <2>2, <2>3, <2>4, <2>5, <2>6
<1>3. KnownIsUsed'
  BY DEF KnownIsUsed, StoreTypeOK, TriggerIsSound
<1>4. ASSUME NEW i \in Jobs PROVE RunIsThere(i)'
  BY DEF RunIsThere, StoreTypeOK, TriggerIsSound, TriggerState
<1>5. ASSUME NEW u \in Triggers PROVE TriggerIsSound(u)'
  BY DEF TriggerIsSound, StoreTypeOK, TriggerState, RunIsThere
<1>6. DeliveryMatchesSnapshot'
  BY DEF DeliveryMatchesSnapshot, StoreTypeOK, TriggerIsSound, KnownIsUsed, RunIsThere, TriggerState
<1>7. MissedFireSettles'
  <2>1. CASE DropJob(j)
    BY <2>1 DEF MissedFireSettles, StoreTypeOK, RunsOf
  <2>2. CASE UNCHANGED storeVars
    BY <2>2 DEF MissedFireSettles
  <2> QED BY <2>1, <2>2
<1>8. ASSUME NEW i \in Jobs PROVE RepairIsPending(i)'
  BY DEF RepairIsPending, RepairState
<1>9. ASSUME NEW i \in Jobs PROVE RegisteredOrOwed(i)'
  BY DEF RegisteredOrOwed, StoreTypeOK, RepairState, Entry, RepairIsPending, TriggerIsSound, TriggerState
<1> QED BY <1>1, <1>2, <1>3, <1>4, <1>5, <1>6, <1>7, <1>8, <1>9

(* A schedule is paused or resumed.                                        *)
LEMMA PauseOrResumeKeepsInv ==
  ASSUME SoundInv, NEW j \in Jobs, NEW on \in BOOLEAN, PauseOrResume(j, on)
  PROVE  SoundInv'
<1> USE NoRunAssumption, JobOfAssumption, NoConfigAssumption
<1> USE DEF SoundInv, SchedulerInv, SchedulerTypeOK, PauseOrResume, SetScheduleEnabled,
    rowVars, Applied, Register, RegisterRaises, Fault, runVars, storeVars, JobStatus,
    RunStatus, Settled, ActiveStatus, Mutable, QueuedOn, RunningOn
<1>1. StoreTypeOK'
  BY DEF StoreTypeOK, TriggerIsSound, TriggerState
<1>2. SchedulerTypeOK'
  <2>1. config' \in [Jobs -> Configs] /\ snapConfig' \in [Runs -> Configs \cup {NoConfig}]
    BY DEF RepairIsPending
  <2>2. redis' \in [Runs -> Configs \cup {NoConfig}]
    BY DEF TriggerState
  <2>3. trig' \in [Triggers -> TriggerState]
    BY DEF TriggerState, StoreTypeOK
  <2>4. registered' \in [Jobs -> Entry] /\ adrift' \subseteq Jobs
    <3>1. config[j] \in Configs /\ (enabled[j] # on) \in BOOLEAN
      OBVIOUS
    <3> QED BY <3>1, AppliedTypes
  <2>5. repair' \in [Jobs -> RepairState]
    <3>1. config[j] \in Configs /\ (enabled[j] # on) \in BOOLEAN
      OBVIOUS
    <3> QED BY <3>1, AppliedTypes
  <2>6. faults' \in 0..MaxFaults
    BY FaultsAssumption
  <2> QED BY <1>1, <2>1, <2>2, <2>3, <2>4, <2>5, <2>6
<1>3. KnownIsUsed'
  BY DEF KnownIsUsed, StoreTypeOK, TriggerIsSound
<1>4. ASSUME NEW i \in Jobs PROVE RunIsThere(i)'
  BY DEF RunIsThere, StoreTypeOK, TriggerIsSound, TriggerState
<1>5. ASSUME NEW u \in Triggers PROVE TriggerIsSound(u)'
  BY DEF TriggerIsSound, StoreTypeOK, TriggerState, RunIsThere
<1>6. DeliveryMatchesSnapshot'
  BY DEF DeliveryMatchesSnapshot, StoreTypeOK, TriggerIsSound, KnownIsUsed, RunIsThere, TriggerState
<1>7. MissedFireSettles'
  BY DEF MissedFireSettles, StoreTypeOK, KnownIsUsed, RunIsThere, TriggerIsSound, TriggerState
<1>8. ASSUME NEW i \in Jobs PROVE RepairIsPending(i)'
  <2>1. CASE repair' = [repair EXCEPT ![j].valid = @ /\ ~(enabled[j] # on)]
    BY <1>2, <2>1 DEF RepairIsPending, RepairState
  <2>2. CASE repair' = [repair EXCEPT ![j] = [pc |-> "restore", valid |-> TRUE,
                          config |-> config[j], on |-> enabled[j],
                          status |-> jobStatus[j], cur |-> cur[j]]]
    BY <2>2 DEF RepairIsPending, RepairState
  <2> QED BY <2>1, <2>2
<1>9. ASSUME NEW i \in Jobs PROVE RegisteredOrOwed(i)'
  <2>0. (config'[j] = config[j] /\ enabled'[j] = on) /\ (i # j => config'[i] = config[i] /\ enabled'[i] = enabled[i])
    BY DEF StoreTypeOK
  <2>3. Mutable(i)' => Mutable(i)
    OBVIOUS
  <2>1. CASE Register(j, config[j], on) /\ repair' = [repair EXCEPT ![j].valid = @ /\ ~(enabled[j] # on)]
    <3>1. CASE i = j
      <4>1. registered'[j] = [config |-> config[j], active |-> on]
        BY <2>1
      <4> QED BY <2>0, <3>1, <4>1 DEF RegisteredOrOwed
    <3>2. CASE i # j
      BY <2>0, <2>1, <2>3, <3>2 DEF RegisteredOrOwed
    <3> QED BY <3>1, <3>2
  <2>2. CASE /\ RegisterRaises(j, config[j], on) /\ UNCHANGED adrift
             /\ repair' = [repair EXCEPT ![j] = [pc |-> "restore", valid |-> TRUE,
                             config |-> config[j], on |-> enabled[j],
                             status |-> jobStatus[j], cur |-> cur[j]]]
    <3>1. CASE i = j
      <4>1. repair'[i].valid
        BY <2>2, <3>1
      <4> QED BY <4>1 DEF RegisteredOrOwed
    <3>2. CASE i # j
      BY <2>0, <2>2, <2>3, <3>2 DEF RegisteredOrOwed
    <3> QED BY <3>1, <3>2
  <2> QED BY <2>1, <2>2
<1> QED BY <1>1, <1>2, <1>3, <1>4, <1>5, <1>6, <1>7, <1>8, <1>9

(* A schedule is updated.                                                  *)
LEMMA UpdateScheduledJobKeepsInv ==
  ASSUME SoundInv, NEW j \in Jobs, NEW c \in Configs, NEW on \in BOOLEAN, UpdateScheduledJob(j, c, on)
  PROVE  SoundInv'
<1> USE NoRunAssumption, JobOfAssumption, NoConfigAssumption
<1> USE DEF SoundInv, SchedulerInv, SchedulerTypeOK, UpdateScheduledJob, WriteSchedule,
    rowVars, Applied, Register, RegisterRaises, Fault, JobStatus, RunStatus, Settled,
    ActiveStatus, Mutable, QueuedOn, RunningOn
<1>1. StoreTypeOK'
  BY DEF StoreTypeOK, TriggerIsSound, TriggerState
<1>2. SchedulerTypeOK'
  <2>1. config' \in [Jobs -> Configs] /\ snapConfig' \in [Runs -> Configs \cup {NoConfig}]
    BY DEF RepairIsPending
  <2>2. redis' \in [Runs -> Configs \cup {NoConfig}]
    BY DEF TriggerState
  <2>3. trig' \in [Triggers -> TriggerState]
    BY DEF TriggerState, StoreTypeOK
  <2>4. registered' \in [Jobs -> Entry] /\ adrift' \subseteq Jobs
    BY AppliedTypes
  <2>5. repair' \in [Jobs -> RepairState]
    BY AppliedTypes
  <2>6. faults' \in 0..MaxFaults
    BY FaultsAssumption
  <2> QED BY <1>1, <2>1, <2>2, <2>3, <2>4, <2>5, <2>6
<1>3. KnownIsUsed'
  BY DEF KnownIsUsed, StoreTypeOK, TriggerIsSound
<1>4. ASSUME NEW i \in Jobs PROVE RunIsThere(i)'
  BY DEF RunIsThere, StoreTypeOK, TriggerIsSound, TriggerState
<1>5. ASSUME NEW u \in Triggers PROVE TriggerIsSound(u)'
  BY DEF TriggerIsSound, StoreTypeOK, TriggerState, RunIsThere
<1>6. DeliveryMatchesSnapshot'
  BY DEF DeliveryMatchesSnapshot, StoreTypeOK, TriggerIsSound, KnownIsUsed, RunIsThere, TriggerState
<1>7. MissedFireSettles'
  BY DEF MissedFireSettles, StoreTypeOK, KnownIsUsed, RunIsThere, TriggerIsSound, TriggerState
<1>8. ASSUME NEW i \in Jobs PROVE RepairIsPending(i)'
  BY DEF RepairIsPending, RepairState
<1>9. ASSUME NEW i \in Jobs PROVE RegisteredOrOwed(i)'
  BY DEF RegisteredOrOwed, StoreTypeOK, RepairState, Entry, RepairIsPending, TriggerIsSound, TriggerState
<1> QED BY <1>1, <1>2, <1>3, <1>4, <1>5, <1>6, <1>7, <1>8, <1>9

(* A mutation is compensated.                                              *)
LEMMA RestoreKeepsInv ==
  ASSUME SoundInv, NEW j \in Jobs, Restore(j)
  PROVE  SoundInv'
<1> USE NoRunAssumption, JobOfAssumption, NoConfigAssumption
<1> USE DEF SoundInv, SchedulerInv, SchedulerTypeOK, Restore, WriteSchedule, rowVars,
    Register, RegisterRaises, GivesUp, Fault, NoRepair, storeVars, JobStatus, RunStatus,
    Settled, ActiveStatus, Mutable, QueuedOn, RunningOn
<1>1. StoreTypeOK'
  <2>1. repair[j].config \in Configs /\ repair[j].on \in BOOLEAN
    BY DEF RepairIsPending, RepairState
  <2> QED BY <2>1, JobTypes, StoreStutters
<1>2. SchedulerTypeOK'
  <2>1. config' \in [Jobs -> Configs] /\ snapConfig' \in [Runs -> Configs \cup {NoConfig}]
    BY DEF RepairIsPending
  <2>2. redis' \in [Runs -> Configs \cup {NoConfig}]
    BY DEF TriggerState
  <2>3. trig' \in [Triggers -> TriggerState]
    BY DEF TriggerState, StoreTypeOK
  <2>4. registered' \in [Jobs -> Entry] /\ adrift' \subseteq Jobs
    <3>1. repair[j].config \in Configs /\ repair[j].on \in BOOLEAN
      BY DEF RepairIsPending, RepairState
    <3>2. registered' \in [Jobs -> Entry]
      BY <3>1, RegisterTypes
    <3> QED BY <3>2
  <2>5. repair' \in [Jobs -> RepairState]
    BY DEF RepairState, StoreTypeOK
  <2>6. faults' \in 0..MaxFaults
    BY FaultsAssumption
  <2> QED BY <1>1, <2>1, <2>2, <2>3, <2>4, <2>5, <2>6
<1>3. KnownIsUsed'
  BY DEF KnownIsUsed, StoreTypeOK, TriggerIsSound
<1>4. ASSUME NEW i \in Jobs PROVE RunIsThere(i)'
  BY DEF RunIsThere, StoreTypeOK, TriggerIsSound, TriggerState
<1>5. ASSUME NEW u \in Triggers PROVE TriggerIsSound(u)'
  BY DEF TriggerIsSound, StoreTypeOK, TriggerState, RunIsThere
<1>6. DeliveryMatchesSnapshot'
  BY DEF DeliveryMatchesSnapshot, StoreTypeOK, TriggerIsSound, KnownIsUsed, RunIsThere, TriggerState
<1>7. MissedFireSettles'
  BY DEF MissedFireSettles, StoreTypeOK, KnownIsUsed, RunIsThere, TriggerIsSound, TriggerState
<1>8. ASSUME NEW i \in Jobs PROVE RepairIsPending(i)'
  BY DEF RepairIsPending, RepairState
<1>9. ASSUME NEW i \in Jobs PROVE RegisteredOrOwed(i)'
  BY DEF RegisteredOrOwed, StoreTypeOK, RepairState, Entry, RepairIsPending, TriggerIsSound, TriggerState
<1> QED BY <1>1, <1>2, <1>3, <1>4, <1>5, <1>6, <1>7, <1>8, <1>9

(* A job is cancelled.                                                     *)
LEMMA CancelKeepsInv ==
  ASSUME SoundInv, NEW j \in Jobs, Cancel(j)
  PROVE  SoundInv'
<1> USE NoRunAssumption, JobOfAssumption, NoConfigAssumption
<1> USE DEF SoundInv, SchedulerInv, SchedulerTypeOK, Cancel, CancelJob, runVars,
    JobStatus, RunStatus, Settled, ActiveStatus, Mutable, QueuedOn, RunningOn
<1>1. StoreTypeOK'
  BY DEF StoreTypeOK, TriggerIsSound, TriggerState
<1>2. SchedulerTypeOK'
  <2>1. config' \in [Jobs -> Configs] /\ snapConfig' \in [Runs -> Configs \cup {NoConfig}]
    BY DEF RepairIsPending
  <2>2. redis' \in [Runs -> Configs \cup {NoConfig}]
    BY DEF TriggerState
  <2>3. trig' \in [Triggers -> TriggerState]
    BY DEF TriggerState, StoreTypeOK
  <2>4. registered' \in [Jobs -> Entry] /\ adrift' \subseteq Jobs
    BY DEF Entry, Unregistered, RepairState, StoreTypeOK
  <2>5. repair' \in [Jobs -> RepairState]
    BY DEF RepairState, StoreTypeOK
  <2>6. faults' \in 0..MaxFaults
    BY FaultsAssumption
  <2> QED BY <1>1, <2>1, <2>2, <2>3, <2>4, <2>5, <2>6
<1>3. KnownIsUsed'
  BY DEF KnownIsUsed, StoreTypeOK, TriggerIsSound
<1>4. ASSUME NEW i \in Jobs PROVE RunIsThere(i)'
  BY DEF RunIsThere, StoreTypeOK, TriggerIsSound, TriggerState
<1>5. ASSUME NEW u \in Triggers PROVE TriggerIsSound(u)'
  BY DEF TriggerIsSound, StoreTypeOK, TriggerState, RunIsThere
<1>6. DeliveryMatchesSnapshot'
  BY DEF DeliveryMatchesSnapshot, StoreTypeOK, TriggerIsSound, KnownIsUsed, RunIsThere, TriggerState
<1>7. MissedFireSettles'
  BY DEF MissedFireSettles, StoreTypeOK, KnownIsUsed, RunIsThere, TriggerIsSound, TriggerState
<1>8. ASSUME NEW i \in Jobs PROVE RepairIsPending(i)'
  BY DEF RepairIsPending, RepairState
<1>9. ASSUME NEW i \in Jobs PROVE RegisteredOrOwed(i)'
  BY DEF RegisteredOrOwed, StoreTypeOK, RepairState, Entry, RepairIsPending, TriggerIsSound, TriggerState
<1> QED BY <1>1, <1>2, <1>3, <1>4, <1>5, <1>6, <1>7, <1>8, <1>9

(* The process dies and starts again.                                      *)
LEMMA RestartKeepsInv ==
  ASSUME SoundInv, Restart
  PROVE  SoundInv'
<1> USE NoRunAssumption, JobOfAssumption, NoConfigAssumption
<1> USE DEF SoundInv, SchedulerInv, SchedulerTypeOK, Restart, Fault, NoRepair,
    NoTrigger, storeVars, JobStatus, RunStatus, Settled, ActiveStatus, Mutable,
    QueuedOn, RunningOn
<1>1. StoreTypeOK'
  BY DEF StoreTypeOK, TriggerIsSound, TriggerState
<1>2. SchedulerTypeOK'
  <2>1. config' \in [Jobs -> Configs] /\ snapConfig' \in [Runs -> Configs \cup {NoConfig}]
    BY DEF RepairIsPending
  <2>2. redis' \in [Runs -> Configs \cup {NoConfig}]
    BY DEF TriggerState
  <2>3. trig' \in [Triggers -> TriggerState]
    BY DEF TriggerState, StoreTypeOK
  <2>4. registered' \in [Jobs -> Entry] /\ adrift' \subseteq Jobs
    BY DEF Entry, Unregistered, RepairState, StoreTypeOK
  <2>5. repair' \in [Jobs -> RepairState]
    BY DEF RepairState, StoreTypeOK
  <2>6. faults' \in 0..MaxFaults
    BY FaultsAssumption
  <2> QED BY <1>1, <2>1, <2>2, <2>3, <2>4, <2>5, <2>6
<1>3. KnownIsUsed'
  BY DEF KnownIsUsed, StoreTypeOK, TriggerIsSound
<1>4. ASSUME NEW i \in Jobs PROVE RunIsThere(i)'
  BY DEF RunIsThere, StoreTypeOK, TriggerIsSound, TriggerState
<1>5. ASSUME NEW u \in Triggers PROVE TriggerIsSound(u)'
  BY DEF TriggerIsSound, StoreTypeOK, TriggerState, RunIsThere
<1>6. DeliveryMatchesSnapshot'
  BY DEF DeliveryMatchesSnapshot, StoreTypeOK, TriggerIsSound, KnownIsUsed, RunIsThere, TriggerState
<1>7. MissedFireSettles'
  BY DEF MissedFireSettles, StoreTypeOK, KnownIsUsed, RunIsThere, TriggerIsSound, TriggerState
<1>8. ASSUME NEW i \in Jobs PROVE RepairIsPending(i)'
  BY DEF RepairIsPending, RepairState
<1>9. ASSUME NEW i \in Jobs PROVE RegisteredOrOwed(i)'
  BY DEF RegisteredOrOwed, StoreTypeOK, RepairState, Entry, RepairIsPending, TriggerIsSound, TriggerState
<1> QED BY <1>1, <1>2, <1>3, <1>4, <1>5, <1>6, <1>7, <1>8, <1>9

(* A worker takes a delivery.                                              *)
LEMMA TakeDeliveryKeepsInv ==
  ASSUME SoundInv, NEW r \in Runs, TakeDelivery(r)
  PROVE  SoundInv'
<1> USE NoRunAssumption, JobOfAssumption, NoConfigAssumption
<1> USE DEF SoundInv, SchedulerInv, SchedulerTypeOK, TakeDelivery, ClaimRun, regVars,
    storeVars, JobStatus, RunStatus, Settled, ActiveStatus, Mutable, QueuedOn, RunningOn
<1>1. StoreTypeOK'
  BY SettleTypes, StoreStutters
<1>2. SchedulerTypeOK'
  <2>1. config' \in [Jobs -> Configs] /\ snapConfig' \in [Runs -> Configs \cup {NoConfig}]
    BY DEF RepairIsPending
  <2>2. redis' \in [Runs -> Configs \cup {NoConfig}]
    BY DEF TriggerState
  <2>3. trig' \in [Triggers -> TriggerState]
    BY DEF TriggerState, StoreTypeOK
  <2>4. registered' \in [Jobs -> Entry] /\ adrift' \subseteq Jobs
    BY DEF Entry, Unregistered, RepairState, StoreTypeOK
  <2>5. repair' \in [Jobs -> RepairState]
    BY DEF RepairState, StoreTypeOK
  <2>6. faults' \in 0..MaxFaults
    BY FaultsAssumption
  <2> QED BY <1>1, <2>1, <2>2, <2>3, <2>4, <2>5, <2>6
<1>3. KnownIsUsed'
  BY DEF KnownIsUsed, StoreTypeOK, TriggerIsSound
<1>4. ASSUME NEW i \in Jobs PROVE RunIsThere(i)'
  BY DEF RunIsThere, StoreTypeOK, TriggerIsSound, TriggerState
<1>5. ASSUME NEW u \in Triggers PROVE TriggerIsSound(u)'
  BY DEF TriggerIsSound, StoreTypeOK, TriggerState, RunIsThere
<1>6. DeliveryMatchesSnapshot'
  BY DEF DeliveryMatchesSnapshot, StoreTypeOK, TriggerIsSound, KnownIsUsed, RunIsThere, TriggerState
<1>7. MissedFireSettles'
  <2>1. CASE ClaimRun(r)
    BY <2>1 DEF MissedFireSettles, StoreTypeOK
  <2>2. CASE UNCHANGED storeVars
    BY <2>2 DEF MissedFireSettles
  <2> QED BY <2>1, <2>2
<1>8. ASSUME NEW i \in Jobs PROVE RepairIsPending(i)'
  BY DEF RepairIsPending, RepairState
<1>9. ASSUME NEW i \in Jobs PROVE RegisteredOrOwed(i)'
  BY DEF RegisteredOrOwed, StoreTypeOK, RepairState, Entry, RepairIsPending, TriggerIsSound, TriggerState
<1> QED BY <1>1, <1>2, <1>3, <1>4, <1>5, <1>6, <1>7, <1>8, <1>9

(* A worker finalizes its run.                                             *)
LEMMA WorkerFinalizesKeepsInv ==
  ASSUME SoundInv, NEW r \in Runs, NEW s \in {"complete", "failed"}, WorkerFinalizes(r, s)
  PROVE  SoundInv'
<1> USE NoRunAssumption, JobOfAssumption, NoConfigAssumption
<1> USE DEF SoundInv, SchedulerInv, SchedulerTypeOK, WorkerFinalizes, FinalizeOwnedRun,
    SettleRun, RunIsActive, schedVars, IntentFor, JobStatus, RunStatus, Settled,
    ActiveStatus, Mutable, QueuedOn, RunningOn
<1>1. StoreTypeOK'
  BY DEF StoreTypeOK, TriggerIsSound, TriggerState
<1>2. SchedulerTypeOK'
  <2>1. config' \in [Jobs -> Configs] /\ snapConfig' \in [Runs -> Configs \cup {NoConfig}]
    BY DEF RepairIsPending
  <2>2. redis' \in [Runs -> Configs \cup {NoConfig}]
    BY DEF TriggerState
  <2>3. trig' \in [Triggers -> TriggerState]
    BY DEF TriggerState, StoreTypeOK
  <2>4. registered' \in [Jobs -> Entry] /\ adrift' \subseteq Jobs
    BY DEF Entry, Unregistered, RepairState, StoreTypeOK
  <2>5. repair' \in [Jobs -> RepairState]
    BY DEF RepairState, StoreTypeOK
  <2>6. faults' \in 0..MaxFaults
    BY FaultsAssumption
  <2> QED BY <1>1, <2>1, <2>2, <2>3, <2>4, <2>5, <2>6
<1>3. KnownIsUsed'
  BY DEF KnownIsUsed, StoreTypeOK, TriggerIsSound
<1>4. ASSUME NEW i \in Jobs PROVE RunIsThere(i)'
  BY DEF RunIsThere, StoreTypeOK, TriggerIsSound, TriggerState
<1>5. ASSUME NEW u \in Triggers PROVE TriggerIsSound(u)'
  BY DEF TriggerIsSound, StoreTypeOK, TriggerState, RunIsThere
<1>6. DeliveryMatchesSnapshot'
  BY DEF DeliveryMatchesSnapshot, StoreTypeOK, TriggerIsSound, KnownIsUsed, RunIsThere, TriggerState
<1>7. MissedFireSettles'
  BY DEF MissedFireSettles, StoreTypeOK, KnownIsUsed, RunIsThere, TriggerIsSound, TriggerState
<1>8. ASSUME NEW i \in Jobs PROVE RepairIsPending(i)'
  BY DEF RepairIsPending, RepairState
<1>9. ASSUME NEW i \in Jobs PROVE RegisteredOrOwed(i)'
  BY DEF RegisteredOrOwed, StoreTypeOK, RepairState, Entry, RepairIsPending, TriggerIsSound, TriggerState
<1> QED BY <1>1, <1>2, <1>3, <1>4, <1>5, <1>6, <1>7, <1>8, <1>9

(* A worker writes a heartbeat.                                            *)
LEMMA WorkerBeatsKeepsInv ==
  ASSUME SoundInv, NEW r \in Runs, WorkerBeats(r)
  PROVE  SoundInv'
<1> USE NoRunAssumption, JobOfAssumption, NoConfigAssumption
<1> USE DEF SoundInv, SchedulerInv, SchedulerTypeOK, WorkerBeats, HeartbeatRun,
    schedVars, jobVars, rowVars, JobStatus, RunStatus, Settled, ActiveStatus, Mutable,
    QueuedOn, RunningOn
<1>1. StoreTypeOK'
  BY DEF StoreTypeOK, TriggerIsSound, TriggerState
<1>2. SchedulerTypeOK'
  <2>1. config' \in [Jobs -> Configs] /\ snapConfig' \in [Runs -> Configs \cup {NoConfig}]
    BY DEF RepairIsPending
  <2>2. redis' \in [Runs -> Configs \cup {NoConfig}]
    BY DEF TriggerState
  <2>3. trig' \in [Triggers -> TriggerState]
    BY DEF TriggerState, StoreTypeOK
  <2>4. registered' \in [Jobs -> Entry] /\ adrift' \subseteq Jobs
    BY DEF Entry, Unregistered, RepairState, StoreTypeOK
  <2>5. repair' \in [Jobs -> RepairState]
    BY DEF RepairState, StoreTypeOK
  <2>6. faults' \in 0..MaxFaults
    BY FaultsAssumption
  <2> QED BY <1>1, <2>1, <2>2, <2>3, <2>4, <2>5, <2>6
<1>3. KnownIsUsed'
  BY DEF KnownIsUsed, StoreTypeOK, TriggerIsSound
<1>4. ASSUME NEW i \in Jobs PROVE RunIsThere(i)'
  BY DEF RunIsThere, StoreTypeOK, TriggerIsSound, TriggerState
<1>5. ASSUME NEW u \in Triggers PROVE TriggerIsSound(u)'
  BY DEF TriggerIsSound, StoreTypeOK, TriggerState, RunIsThere
<1>6. DeliveryMatchesSnapshot'
  BY DEF DeliveryMatchesSnapshot, StoreTypeOK, TriggerIsSound, KnownIsUsed, RunIsThere, TriggerState
<1>7. MissedFireSettles'
  BY DEF MissedFireSettles, StoreTypeOK, KnownIsUsed, RunIsThere, TriggerIsSound, TriggerState
<1>8. ASSUME NEW i \in Jobs PROVE RepairIsPending(i)'
  BY DEF RepairIsPending, RepairState
<1>9. ASSUME NEW i \in Jobs PROVE RegisteredOrOwed(i)'
  BY DEF RegisteredOrOwed, StoreTypeOK, RepairState, Entry, RepairIsPending, TriggerIsSound, TriggerState
<1> QED BY <1>1, <1>2, <1>3, <1>4, <1>5, <1>6, <1>7, <1>8, <1>9

(* A heartbeat gets stale.                                                 *)
LEMMA PassTimeKeepsInv ==
  ASSUME SoundInv, NEW r \in Runs, PassTime(r)
  PROVE  SoundInv'
<1> USE NoRunAssumption, JobOfAssumption, NoConfigAssumption
<1> USE DEF SoundInv, SchedulerInv, SchedulerTypeOK, PassTime, LeaseExpires, schedVars,
    jobVars, rowVars, JobStatus, RunStatus, Settled, ActiveStatus, Mutable, QueuedOn,
    RunningOn
<1>1. StoreTypeOK'
  BY DEF StoreTypeOK, TriggerIsSound, TriggerState
<1>2. SchedulerTypeOK'
  <2>1. config' \in [Jobs -> Configs] /\ snapConfig' \in [Runs -> Configs \cup {NoConfig}]
    BY DEF RepairIsPending
  <2>2. redis' \in [Runs -> Configs \cup {NoConfig}]
    BY DEF TriggerState
  <2>3. trig' \in [Triggers -> TriggerState]
    BY DEF TriggerState, StoreTypeOK
  <2>4. registered' \in [Jobs -> Entry] /\ adrift' \subseteq Jobs
    BY DEF Entry, Unregistered, RepairState, StoreTypeOK
  <2>5. repair' \in [Jobs -> RepairState]
    BY DEF RepairState, StoreTypeOK
  <2>6. faults' \in 0..MaxFaults
    BY FaultsAssumption
  <2> QED BY <1>1, <2>1, <2>2, <2>3, <2>4, <2>5, <2>6
<1>3. KnownIsUsed'
  BY DEF KnownIsUsed, StoreTypeOK, TriggerIsSound
<1>4. ASSUME NEW i \in Jobs PROVE RunIsThere(i)'
  BY DEF RunIsThere, StoreTypeOK, TriggerIsSound, TriggerState
<1>5. ASSUME NEW u \in Triggers PROVE TriggerIsSound(u)'
  BY DEF TriggerIsSound, StoreTypeOK, TriggerState, RunIsThere
<1>6. DeliveryMatchesSnapshot'
  BY DEF DeliveryMatchesSnapshot, StoreTypeOK, TriggerIsSound, KnownIsUsed, RunIsThere, TriggerState
<1>7. MissedFireSettles'
  BY DEF MissedFireSettles, StoreTypeOK, KnownIsUsed, RunIsThere, TriggerIsSound, TriggerState
<1>8. ASSUME NEW i \in Jobs PROVE RepairIsPending(i)'
  BY DEF RepairIsPending, RepairState
<1>9. ASSUME NEW i \in Jobs PROVE RegisteredOrOwed(i)'
  BY DEF RegisteredOrOwed, StoreTypeOK, RepairState, Entry, RepairIsPending, TriggerIsSound, TriggerState
<1> QED BY <1>1, <1>2, <1>3, <1>4, <1>5, <1>6, <1>7, <1>8, <1>9

-----------------------------------------------------------------------------
(* The specification.                                                      *)

(* No job, no run, nothing registered and no trigger at work.              *)
LEMMA InitInv == Init => SoundInv
<1> SUFFICES ASSUME Init PROVE SoundInv
  OBVIOUS
<1> USE DEF Init, StoreInit
<1>1. SchedulerTypeOK
  <2>1. StoreTypeOK
    BY DEF StoreTypeOK, JobStatus, RunStatus
  <2>2. trig \in [Triggers -> TriggerState]
    BY DEF TriggerState, NoTrigger, JobStatus
  <2>3. registered \in [Jobs -> Entry] /\ repair \in [Jobs -> RepairState]
    BY DEF Entry, Unregistered, RepairState, NoRepair, JobStatus
  <2> QED BY <2>1, <2>2, <2>3, FaultsAssumption DEF SchedulerTypeOK
<1>2. DeliveryMatchesSnapshot /\ MissedFireSettles /\ KnownIsUsed
  BY DEF DeliveryMatchesSnapshot, MissedFireSettles, KnownIsUsed
<1>3. ASSUME NEW j \in Jobs PROVE RunIsThere(j) /\ RepairIsPending(j) /\ RegisteredOrOwed(j)
  BY DEF RunIsThere, RepairIsPending, RegisteredOrOwed, Mutable, NoRepair
<1>4. ASSUME NEW t \in Triggers PROVE TriggerIsSound(t)
  BY DEF TriggerIsSound, NoTrigger
<1> QED BY <1>1, <1>2, <1>3, <1>4 DEF SoundInv, SchedulerInv

(* Every step keeps the invariant.                                         *)
LEMMA NextKeepsInv == SoundInv /\ [Next]_vars => SoundInv'
<1> SUFFICES ASSUME SoundInv, [Next]_vars PROVE SoundInv'
  OBVIOUS
<1>1. CASE UNCHANGED vars
  BY <1>1, StoreStutters DEF vars, storeVars, schedVars, SoundInv, SchedulerInv, SchedulerTypeOK,
      DeliveryMatchesSnapshot, MissedFireSettles, KnownIsUsed, RunIsThere, RepairIsPending,
      RegisteredOrOwed, TriggerIsSound, Mutable, QueuedOn
<1>2. ASSUME NEW t \in Triggers, NEW r \in Runs, Fire(t, r) PROVE SoundInv'
  BY <1>2, FireKeepsInv
<1>3. ASSUME NEW t \in Triggers,
             \/ CheckActiveRun(t) \/ RecoverBeforeFire(t) \/ Reread(t) \/ Queue(t)
             \/ EnqueueRun(t) \/ EnqueueRaises(t) \/ FailsBeforeQueue(t) \/ RecordFailure(t)
      PROVE  SoundInv'
  BY <1>3, CheckActiveRunKeepsInv, RecoverBeforeFireKeepsInv, RereadKeepsInv, QueueKeepsInv,
      EnqueueRunKeepsInv, EnqueueRaisesKeepsInv, FailsBeforeQueueKeepsInv,
      RecordFailureKeepsInv
<1>4. ASSUME NEW j \in Jobs, RollBack(j) \/ Restore(j) \/ Cancel(j) PROVE SoundInv'
  BY <1>4, RollBackKeepsInv, RestoreKeepsInv, CancelKeepsInv
<1>5. ASSUME NEW j \in Jobs, NEW on \in BOOLEAN, Create(j, on) \/ PauseOrResume(j, on)
      PROVE  SoundInv'
  BY <1>5, CreateKeepsInv, PauseOrResumeKeepsInv
<1>6. ASSUME NEW j \in Jobs, NEW c \in Configs, NEW on \in BOOLEAN, UpdateScheduledJob(j, c, on)
      PROVE  SoundInv'
  BY <1>6, UpdateScheduledJobKeepsInv
<1>7. CASE Restart
  BY <1>7, RestartKeepsInv
<1>8. ASSUME NEW r \in Runs, TakeDelivery(r) \/ WorkerBeats(r) \/ PassTime(r)
      PROVE  SoundInv'
  BY <1>8, TakeDeliveryKeepsInv, WorkerBeatsKeepsInv, PassTimeKeepsInv
<1>9. ASSUME NEW r \in Runs, NEW s \in {"complete", "failed"}, WorkerFinalizes(r, s)
      PROVE  SoundInv'
  BY <1>9, WorkerFinalizesKeepsInv
<1> QED BY <1>1, <1>2, <1>3, <1>4, <1>5, <1>6, <1>7, <1>8, <1>9 DEF Next

(* Triggers, schedule mutations with their compensation, restarts and the  *)
(* worker's transactions keep the invariant in any order.                  *)
THEOREM SoundInvariant == Spec => []SoundInv
<1> QED BY InitInv, NextKeepsInv, PTL DEF Spec

(* _trigger_job and record_scheduled_trigger_failure: a delivery matches   *)
(* the snapshot claim_run compares it with, and a missed fire is settled.  *)
THEOREM SchedulerInvHolds == Spec => []SchedulerInv
<1>1. SoundInv => SchedulerInv
  BY DEF SoundInv
<1> QED BY <1>1, SoundInvariant, PTL

(* _apply_scheduler_mutation and its compensation: APScheduler holds the   *)
(* schedule the store reports, unless the compensation failed as well.     *)
THEOREM ScheduleIsRegisteredHolds == Spec => []ScheduleIsRegistered
<1>1. SoundInv => ScheduleIsRegistered
  BY DEF SoundInv, ScheduleIsRegistered, RepairIsPending, RegisteredOrOwed
<1> QED BY <1>1, SoundInvariant, PTL
=============================================================================
