------------------------------ MODULE Scheduler ------------------------------
(***************************************************************************)
(* scheduler/cron.py: what a cron fire and a manual trigger do between     *)
(* reading the job and handing its new run to the queue, with the schedule *)
(* mutations of api/routes.py that may commit in between and what these do *)
(* to the process-local APScheduler, compensation included.                *)
(*                                                                         *)
(* jobs.db is used under one asyncio lock and nothing is awaited between a *)
(* mutation's commit and its registration, so the two are one step; the    *)
(* compensation of a registration that raised is another.                  *)
(*                                                                         *)
(* APScheduler runs at most one callback per job (max_instances=1); the    *)
(* manual trigger is an API request that runs beside it.  The worker is    *)
(* reduced to its transactions (RunWorker.tla has its steps): a run that   *)
(* is not finalized is one whose worker died or stopped heartbeating.      *)
(* Not modelled here: the degraded-health fields of the schedule, and a    *)
(* stored schedule that a later version cannot read at startup.            *)
(***************************************************************************)
EXTENDS JobStore

CONSTANTS
    Triggers,    \* a subset of {"cron", "manual"}
    Configs,     \* contents of jobs.config_yaml, as told apart by config_hash
    NoConfig,    \* no delivery
    MaxFaults    \* bound on raised exceptions and restarts

ASSUME TriggersAssumption == Triggers \subseteq {"cron", "manual"}
ASSUME NoConfigAssumption == NoConfig \notin Configs
ASSUME FaultsAssumption == MaxFaults \in Nat

VARIABLES
    config,      \* jobs.config_yaml
    snapConfig,  \* queued_run_snapshots.config_yaml
    redis,       \* config carried by the run's queued delivery
    trig,        \* the trigger coroutines
    registered,  \* APScheduler's entry: the config whose schedule it has, paused or not
    repair,      \* the compensation of a mutation whose registration raised
    adrift,      \* jobs whose compensation gave up or raised
    faults

runVars == <<config, snapConfig, redis, trig>>
regVars == <<registered, repair, adrift>>
schedVars == <<config, snapConfig, redis, trig, registered, repair, adrift, faults>>
vars == <<storeVars, schedVars>>

NoTrigger == [pc |-> "idle", run |-> NoRun, job |-> "absent", cur |-> NoRun, config |-> NoConfig]

\* job, cur and config are the fields of the Job object the coroutine holds.
TriggerState ==
    [pc : {"idle", "check", "recover", "reread", "queue", "enqueue", "record"},
     run : Runs \cup {NoRun}, job : JobStatus, cur : Runs \cup {NoRun},
     config : Configs \cup {NoConfig}]

Unregistered == [config |-> NoConfig, active |-> FALSE]
Entry == [config : Configs \cup {NoConfig}, active : BOOLEAN]

NoRepair == [pc |-> "idle", valid |-> FALSE, config |-> NoConfig, on |-> FALSE,
             status |-> "absent", cur |-> NoRun]

\* config and on are the previous state, status and cur those expected of the
\* row; valid until another mutation writes the row (updated_at).
RepairState ==
    [pc : {"idle", "rollback", "restore"}, valid : BOOLEAN, config : Configs \cup {NoConfig},
     on : BOOLEAN, status : JobStatus, cur : Runs \cup {NoRun}]

SchedulerTypeOK ==
    /\ StoreTypeOK
    /\ config \in [Jobs -> Configs]
    /\ snapConfig \in [Runs -> Configs \cup {NoConfig}]
    /\ redis \in [Runs -> Configs \cup {NoConfig}]
    /\ trig \in [Triggers -> TriggerState]
    /\ registered \in [Jobs -> Entry]
    /\ repair \in [Jobs -> RepairState]
    /\ adrift \subseteq Jobs
    /\ faults \in 0..MaxFaults

Init ==
    /\ StoreInit
    /\ config \in [Jobs -> Configs]
    /\ snapConfig = [r \in Runs |-> NoConfig]
    /\ redis = [r \in Runs |-> NoConfig]
    /\ trig = [t \in Triggers |-> NoTrigger]
    /\ registered = [j \in Jobs |-> Unregistered]
    /\ repair = [j \in Jobs |-> NoRepair]
    /\ adrift = {}
    /\ faults = 0

Fault == faults < MaxFaults /\ faults' = faults + 1

Held == {trig[t].run : t \in Triggers}

\* The job row as get_job returns it to trigger t.
Holding(t, pc) ==
    LET j == JobOf[trig[t].run] IN
    [trig[t] EXCEPT !.pc = pc, !.job = jobStatus[j], !.cur = cur[j], !.config = config[j]]

Goes(t, pc) == trig' = [trig EXCEPT ![t].pc = pc]
Ends(t) == trig' = [trig EXCEPT ![t] = NoTrigger]
OnlyTrig == UNCHANGED <<config, snapConfig, redis, faults>> /\ UNCHANGED regVars

-----------------------------------------------------------------------------
(* _trigger_job *)

\* The run id is generated and the job read; a cancelled, reserved or deleted
\* job and, for a cron fire, a paused one end the trigger here.
Fire(t, r) ==
    LET j == JobOf[r] IN
    /\ trig[t].pc = "idle"
    /\ r \notin used \cup Held
    /\ cron[j]
    /\ jobStatus[j] \in ActiveStatus \cup Settled
    /\ t = "cron" => registered[j].active /\ enabled[j]
    /\ trig' = [trig EXCEPT ![t] = [pc |-> "check", run |-> r, job |-> jobStatus[j],
                                    cur |-> cur[j], config |-> config[j]]]
    /\ OnlyTrig /\ UNCHANGED storeVars

\* _job_has_active_run, on the Job read before.  A queued run ends the trigger
\* (a stale one after its reconciliation); a running one does while its lease
\* holds.
CheckActiveRun(t) ==
    /\ trig[t].pc = "check"
    /\ \/ /\ trig[t].job \in Settled \/ (trig[t].job = "queued" /\ trig[t].cur = NoRun)
          /\ Goes(t, "queue")
       \/ /\ trig[t].job = "queued" /\ trig[t].cur # NoRun
          /\ Ends(t)
       \/ /\ trig[t].job = "running"
          /\ IF runStatus[trig[t].cur] = "running" /\ fresh[trig[t].cur]
               THEN Ends(t)
               ELSE Goes(t, "recover")
    /\ OnlyTrig /\ UNCHANGED storeVars

\* recover_stale_run; a lost race ends the trigger.
RecoverBeforeFire(t) ==
    /\ trig[t].pc = "recover"
    /\ \/ RecoverStaleRun(trig[t].cur) /\ Goes(t, "reread")
       \/ /\ ~(RunIsActive(trig[t].cur) /\ ~fresh[trig[t].cur])
          /\ Ends(t) /\ UNCHANGED storeVars
    /\ OnlyTrig

\* After the webhook reconciliation the job is read again, and used as read.
Reread(t) ==
    /\ trig[t].pc = "reread"
    /\ trig' = [trig EXCEPT ![t] = Holding(t, "queue")]
    /\ OnlyTrig /\ UNCHANGED storeVars

\* Mutant: expected_config_yaml is not compared.
QueueAnyConfig(t) ==
    LET r == trig[t].run IN
    /\ trig[t].pc = "queue"
    /\ QueueRun(r, trig[t].job, trig[t].cur, t = "cron")
    /\ snapConfig' = [snapConfig EXCEPT ![r] = config[JobOf[r]]]
    /\ Goes(t, "enqueue")
    /\ UNCHANGED <<config, redis, faults>> /\ UNCHANGED regVars

\* queue_run with the status, run and config of the Job held; a lost race ends
\* the trigger.
Queue(t) ==
    LET r == trig[t].run
        j == JobOf[r]
    IN  /\ trig[t].pc = "queue"
        /\ \/ /\ config[j] = trig[t].config
              /\ QueueRun(r, trig[t].job, trig[t].cur, t = "cron")
              /\ snapConfig' = [snapConfig EXCEPT ![r] = config[j]]
              /\ Goes(t, "enqueue")
           \/ /\ \/ config[j] # trig[t].config
                 \/ jobStatus[j] # trig[t].job \/ cur[j] # trig[t].cur
                 \/ trig[t].job \notin ActiveStatus \cup Settled
                 \/ t = "cron" /\ ~enabled[j]
              /\ Ends(t)
              /\ UNCHANGED snapConfig /\ UNCHANGED storeVars
        /\ UNCHANGED <<config, redis, faults>> /\ UNCHANGED regVars

\* What an exception leads to: a cron callback records the missed fire, a
\* manual trigger answers with an error.
Raised(t) == IF t = "cron" THEN Goes(t, "record") ELSE Ends(t)

\* The config cannot be loaded, the store or the queue inspection fails, or the
\* backlog is full.
FailsBeforeQueue(t) ==
    /\ trig[t].pc \in {"check", "recover", "reread", "queue"}
    /\ Fault
    /\ Raised(t)
    /\ UNCHANGED <<config, snapConfig, redis>> /\ UNCHANGED regVars /\ UNCHANGED storeVars

EnqueueRun(t) ==
    /\ trig[t].pc = "enqueue"
    /\ redis' = [redis EXCEPT ![trig[t].run] = trig[t].config]
    /\ Ends(t)
    /\ UNCHANGED <<config, snapConfig, faults>> /\ UNCHANGED regVars /\ UNCHANGED storeVars

\* pool.enqueue raises, before or after the delivery is in Redis; fail_queued_run
\* fails the run if it is still queued, and may itself raise.
EnqueueRaises(t) ==
    LET r == trig[t].run IN
    /\ trig[t].pc = "enqueue"
    /\ Fault
    /\ redis' \in {redis, [redis EXCEPT ![r] = trig[t].config]}
    /\ \/ FailQueuedRun(r)
       \/ UNCHANGED storeVars
    /\ Raised(t)
    /\ UNCHANGED <<config, snapConfig>> /\ UNCHANGED regVars

\* record_scheduled_trigger_failure.
RecordFailure(t) ==
    LET r == trig[t].run IN
    /\ trig[t].pc = "record"
    /\ \/ RecordScheduledTriggerFailure(r)
       \/ /\ ~CanRecordFailure(r)
          /\ UNCHANGED storeVars
    /\ Ends(t)
    /\ OnlyTrig

-----------------------------------------------------------------------------
(* The schedule mutations *)

\* register_job; a registered job is no longer adrift.
Register(j, c, on) ==
    /\ registered' = [registered EXCEPT ![j] = [config |-> c, active |-> on]]
    /\ adrift' = adrift \ {j}

\* register_job raises: before the old entry is removed, after it, or when the
\* new one is to be paused.
RegisterRaises(j, c, on) ==
    /\ Fault
    /\ \/ registered' \in {registered, [registered EXCEPT ![j] = Unregistered]}
       \/ ~on /\ registered' = [registered EXCEPT ![j] = [config |-> c, active |-> TRUE]]

\* The compensation ends without effect: it lost the row or its registration
\* raised, which is logged with a recovery action, or its transaction raised,
\* which only fails the request.  If another mutation has written the row
\* meanwhile, that one registered what it wrote.
GivesUp(j) == adrift' = IF repair[j].valid THEN adrift \cup {j} ELSE adrift

\* POST /jobs.
Create(j, on) ==
    /\ CreateScheduledJob(j, on)
    /\ \/ Register(j, config[j], on) /\ UNCHANGED <<repair, faults>>
       \/ /\ Fault
          /\ registered' = [registered EXCEPT ![j] = Unregistered]
          /\ repair' = [repair EXCEPT ![j] = [NoRepair EXCEPT !.pc = "rollback", !.valid = TRUE]]
          /\ UNCHANGED adrift
    /\ UNCHANGED runVars

\* rollback_scheduled_job_creation after the failed registration.
RollBack(j) ==
    /\ repair[j].pc = "rollback"
    /\ \/ RollbackScheduledJobCreation(j) /\ UNCHANGED <<adrift, faults>>
       \/ /\ jobStatus[j] # "queued" \/ cur[j] # NoRun \/ ~NothingRan(j)
          /\ GivesUp(j) /\ UNCHANGED faults /\ UNCHANGED storeVars
       \/ Fault /\ GivesUp(j) /\ UNCHANGED storeVars
    /\ repair' = [repair EXCEPT ![j] = NoRepair]
    /\ UNCHANGED registered /\ UNCHANGED runVars

\* _apply_scheduler_mutation, with the state c and on the transaction left.
Applied(j, c, on, wrote) ==
    \/ /\ Register(j, c, on)
       /\ repair' = [repair EXCEPT ![j].valid = @ /\ ~wrote]
       /\ UNCHANGED faults
    \/ /\ repair[j].pc = "idle"
       /\ RegisterRaises(j, c, on)
       /\ repair' = [repair EXCEPT ![j] =
                       [pc |-> "restore", valid |-> TRUE, config |-> config[j],
                        on |-> enabled[j], status |-> jobStatus[j], cur |-> cur[j]]]
       /\ UNCHANGED adrift

\* The schedule of a job that is neither cancelled nor deleted.
Mutable(j) == cron[j] /\ jobStatus[j] \in ActiveStatus \cup Settled

\* pause_job and resume_job; a schedule that is already so is registered again.
PauseOrResume(j, on) ==
    /\ Mutable(j)
    /\ IF enabled[j] = on THEN UNCHANGED storeVars ELSE SetScheduleEnabled(j, on)
    /\ Applied(j, config[j], on, enabled[j] # on)
    /\ UNCHANGED runVars

\* What a mutation writes to the row.
WriteSchedule(j, c, on) ==
    /\ config' = [config EXCEPT ![j] = c]
    /\ enabled' = [enabled EXCEPT ![j] = on]
    /\ UNCHANGED <<jobStatus, cur, cron, fresh, used>> /\ UNCHANGED rowVars

\* update_job.
UpdateScheduledJob(j, c, on) ==
    /\ Mutable(j)
    /\ HasNoActiveRun(j)
    /\ WriteSchedule(j, c, on)
    /\ Applied(j, c, on, TRUE)
    /\ UNCHANGED <<snapConfig, redis, trig>>

\* Mutant: the row is restored and the previous schedule is not.
RestoreStoreOnly(j) ==
    LET was == repair[j] IN
    /\ was.pc = "restore"
    /\ was.valid /\ jobStatus[j] = was.status /\ cur[j] = was.cur
    /\ WriteSchedule(j, was.config, was.on)
    /\ repair' = [repair EXCEPT ![j] = NoRepair]
    /\ UNCHANGED <<snapConfig, redis, trig, registered, adrift, faults>>

\* The compensation: restore_scheduled_job writes the previous state back if
\* the row is still the one just written, and that state is registered again.
Restore(j) ==
    LET was == repair[j]
        Same == was.valid /\ jobStatus[j] = was.status /\ cur[j] = was.cur
    IN  /\ was.pc = "restore"
        /\ \/ /\ Same
              /\ WriteSchedule(j, was.config, was.on)
              /\ \/ Register(j, was.config, was.on) /\ UNCHANGED faults
                 \/ RegisterRaises(j, was.config, was.on) /\ GivesUp(j)
           \/ /\ IF Same THEN Fault ELSE UNCHANGED faults
              /\ GivesUp(j)
              /\ UNCHANGED <<config, registered>> /\ UNCHANGED storeVars
        /\ repair' = [repair EXCEPT ![j] = NoRepair]
        /\ UNCHANGED <<snapConfig, redis, trig>>

\* cancel_current_job, to the removal from the scheduler.
Cancel(j) ==
    /\ CancelJob(j)
    /\ registered' = [registered EXCEPT ![j] = Unregistered]
    /\ UNCHANGED <<repair, adrift, faults>> /\ UNCHANGED runVars

\* The process dies; SchedulerService.start registers what the store lists.
Restart ==
    /\ Fault
    /\ registered' = [j \in Jobs |->
         IF Mutable(j) THEN [config |-> config[j], active |-> enabled[j]] ELSE Unregistered]
    /\ repair' = [j \in Jobs |-> NoRepair]
    /\ adrift' = {}
    /\ trig' = [t \in Triggers |-> NoTrigger]
    /\ UNCHANGED <<config, snapConfig, redis>> /\ UNCHANGED storeVars

-----------------------------------------------------------------------------
(* The worker's transactions *)

\* A worker takes the delivery: claim_run also compares the config hash with
\* the snapshot's; a rejected delivery is dropped.
TakeDelivery(r) ==
    /\ redis[r] # NoConfig
    /\ redis' = [redis EXCEPT ![r] = NoConfig]
    /\ \/ redis[r] = snapConfig[r] /\ ClaimRun(r)
       \/ ~(QueuedOn(r) /\ redis[r] = snapConfig[r]) /\ UNCHANGED storeVars
    /\ UNCHANGED <<config, snapConfig, trig, faults>> /\ UNCHANGED regVars

WorkerFinalizes(r, s) == FinalizeOwnedRun(r, s, fresh[r]) /\ UNCHANGED schedVars
WorkerBeats(r) == ~fresh[r] /\ HeartbeatRun(r) /\ UNCHANGED schedVars
PassTime(r) == runStatus[r] = "running" /\ LeaseExpires(r) /\ UNCHANGED schedVars

Next ==
    \/ \E t \in Triggers :
         \/ \E r \in Runs : Fire(t, r)
         \/ CheckActiveRun(t) \/ RecoverBeforeFire(t) \/ Reread(t) \/ Queue(t)
         \/ EnqueueRun(t) \/ EnqueueRaises(t) \/ FailsBeforeQueue(t) \/ RecordFailure(t)
    \/ \E j \in Jobs :
         \/ RollBack(j) \/ Restore(j) \/ Cancel(j)
         \/ \E on \in BOOLEAN : Create(j, on) \/ PauseOrResume(j, on)
         \/ \E c \in Configs, on \in BOOLEAN : UpdateScheduledJob(j, c, on)
    \/ Restart
    \/ \E r \in Runs :
         \/ TakeDelivery(r) \/ WorkerBeats(r) \/ PassTime(r)
         \/ \E s \in {"complete", "failed"} : WorkerFinalizes(r, s)

Spec == Init /\ [][Next]_vars

-----------------------------------------------------------------------------
(* Properties *)

\* A delivery carries the configuration its run was accepted with, although the
\* parent may be updated between the trigger's read and its enqueue; otherwise
\* claim_run would reject it and the run would stay queued.
DeliveryMatchesSnapshot ==
    \A r \in Runs : redis[r] # NoConfig /\ QueuedOn(r) => redis[r] = snapConfig[r]

\* A missed fire never leaves its job waiting for the run that was not sent:
\* once the trigger is over, a run recorded as missed is not the queued one.
MissedFireSettles ==
    \A r \in missed : ~QueuedOn(r) /\ runStatus[r] = "failed"

\* The type invariant with the two.
SchedulerInv == SchedulerTypeOK /\ DeliveryMatchesSnapshot /\ MissedFireSettles

\* Once no mutation is being compensated, APScheduler holds the schedule the
\* store reports, paused or not, although a registration may raise at any point
\* and runs and other mutations may commit before its compensation; where it
\* does not, the compensation of the last mutation failed too, and its request
\* was answered with an error.
ScheduleIsRegistered ==
    \A j \in Jobs : Mutable(j) /\ repair[j].pc = "idle" /\ j \notin adrift =>
        registered[j] = [config |-> config[j], active |-> enabled[j]]

\* A trigger does not take the job away from a run that is queued or running:
\* such a run is refused (409) or skipped.
AcceptedRunNotSuperseded ==
    [][\A j \in Jobs : cur[j] # NoRun /\ jobStatus[j] \in ActiveStatus => cur'[j] = cur[j]]_vars

=============================================================================
