--------------------------- MODULE DeliveryQueue ---------------------------
(***************************************************************************)
(* queue/pool.py and queue/priority.py: the Redis keys of the deliveries,  *)
(* the worker that admits them from three intake queues into arq's         *)
(* execution queue and starts them, cancellation by run, shutdown, and     *)
(* what the next process finds.                                            *)
(*                                                                         *)
(* Lua scripts and MULTI pipelines are single steps; every other Redis     *)
(* round trip of a poll, of a cancel and of stop() is a step of its own.   *)
(* arq's own part of a poll (start_jobs, run_job, the abort poll,          *)
(* finish_job) is external and modelled from how the pool uses it.  The    *)
(* enqueue script makes the scores of one queue strictly increasing, so a  *)
(* score is reduced to the members that are ahead.                         *)
(***************************************************************************)
EXTENDS Integers, Sequences, FiniteSets

CONSTANTS
    Runs,
    PriorityOf,    \* the priority each run is enqueued with
    MaxJobs,       \* settings.workers_max_concurrent
    OrphanLimit,   \* orphans one admission may remove (100)
    Cancellable,   \* runs a client may cancel
    Watched,       \* the priority whose waiting time is recorded
    MaxFaults      \* bound on deaths, shutdowns, expiries and lost answers

PRIORITIES == {"high", "normal", "low"}
Place == [high |-> 1, normal |-> 2, low |-> 3]
FAIR_ADMISSION_CYCLE == <<"high", "high", "high", "high", "normal", "normal", "low">>

ASSUME RunsAssumption == IsFiniteSet(Runs)
ASSUME PriorityAssumption == PriorityOf \in [Runs -> PRIORITIES]
ASSUME JobsAssumption == MaxJobs \in Nat \ {0}
ASSUME OrphanAssumption == OrphanLimit \in Nat \ {0}
ASSUME CancellableAssumption == Cancellable \subseteq Runs
ASSUME WatchedAssumption == Watched \in PRIORITIES
ASSUME FaultsAssumption == MaxFaults \in Nat

VARIABLES
    payload,   \* runs with an arq job key
    intake,    \* members of the three priority queues
    ahead,     \* the members with a lower score in the queue of the run
    exec,      \* members of arq's execution queue, running ones included
    progress,  \* runs with an in-progress key
    result,    \* the arq result key: "none", "done" or "cancelled"
    abort,     \* arq's abort set
    cursor,    \* WeightedPriorityPolicy.cursor, counted from 1
    task,      \* the worker's asyncio task of the run
    poll,      \* the poll in flight
    mode,      \* the pool: "down", "up", or a phase of stop()
    pending,   \* the tasks stop() found active
    dropped,   \* stop() dropped the Redis connections
    cancel,    \* the cancel_run coroutine of the run
    bypassed,  \* admissions of others while a watched delivery waited
    faults

redisVars == <<payload, intake, ahead, exec, progress, result, abort>>
workerVars == <<cursor, task, poll>>
stopVars == <<mode, pending, dropped>>
vars == <<payload, intake, ahead, exec, progress, result, abort, cursor, task, poll,
          mode, pending, dropped, cancel, bypassed, faults>>

Idle == [pc |-> "idle", memory |-> FALSE, room |-> 0, ids |-> {}, checked |-> {}]

\* How cancel_run answers; "none" while it has not been called.
Quiescent == {"removed", "aborted", "complete", "missing"}
CancelState == {"none", "remove", "refresh", "abort", "wait", "cancelled", "finished"}
               \cup Quiescent \cup {"timeout"}

PollState ==
    [pc : {"idle", "count", "admit", "read", "start", "set"}, memory : BOOLEAN,
     room : 0..MaxJobs, ids : SUBSET Runs, checked : SUBSET Runs]

QueueTypeOK ==
    /\ payload \subseteq Runs /\ exec \subseteq Runs /\ progress \subseteq Runs
    /\ abort \subseteq Runs /\ pending \subseteq Runs
    /\ intake \in [PRIORITIES -> SUBSET Runs] /\ ahead \in [Runs -> SUBSET Runs]
    /\ result \in [Runs -> {"none", "done", "cancelled"}]
    /\ cursor \in 1..Len(FAIR_ADMISSION_CYCLE)
    /\ task \in [Runs -> {"none", "starting", "running", "cancelling"}]
    /\ poll \in PollState
    /\ mode \in {"down", "up", "draining", "cancelling", "closing", "closed", "stuck"}
    /\ dropped \in BOOLEAN
    /\ cancel \in [Runs -> CancelState]
    /\ bypassed \in 0..Len(FAIR_ADMISSION_CYCLE)
    /\ faults \in 0..MaxFaults

Init ==
    /\ payload = {} /\ exec = {} /\ progress = {} /\ abort = {}
    /\ intake = [p \in PRIORITIES |-> {}] /\ ahead = [r \in Runs |-> {}]
    /\ result = [r \in Runs |-> "none"]
    /\ cursor = 1
    /\ task = [r \in Runs |-> "none"]
    /\ poll = Idle
    /\ mode = "up" /\ pending = {} /\ dropped = FALSE
    /\ cancel = [r \in Runs |-> "none"]
    /\ bypassed = 0
    /\ faults = 0

Fault == faults < MaxFaults /\ faults' = faults + 1

Live == {r \in Runs : task[r] # "none"}

\* Members leave the intake queues; one is put at the end of its queue.
TakeOut(rs) ==
    /\ intake' = [p \in PRIORITIES |-> intake[p] \ rs]
    /\ ahead' = [q \in Runs |-> IF q \in rs THEN {} ELSE ahead[q] \ rs]
PutLast(r) ==
    /\ intake' = [p \in PRIORITIES |-> IF p = PriorityOf[r] THEN intake[p] \cup {r} ELSE intake[p] \ {r}]
    /\ ahead' = [q \in Runs |-> (IF q = r THEN intake[PriorityOf[r]] ELSE ahead[q]) \ {r}]
InIntake(r) == \E p \in PRIORITIES : r \in intake[p]
InQueue(r) == r \in exec \/ InIntake(r)

\* _delivery_snapshot.
InspectDelivery(r) ==
    IF result[r] # "none" THEN "complete"
    ELSE IF r \in progress THEN "in_progress"
    ELSE IF r \in payload /\ InQueue(r) THEN "queued"
    ELSE "missing"

-----------------------------------------------------------------------------
(* Enqueue, expiry *)

\* Mutant: the script forgets an earlier result instead of refusing.
EnqueueAgain(r) ==
    /\ mode = "up"
    /\ r \notin progress /\ ~InQueue(r)
    /\ payload' = payload \cup {r}
    /\ PutLast(r)
    /\ result' = [result EXCEPT ![r] = "none"]
    /\ UNCHANGED <<exec, cancel, progress, abort, bypassed, faults>>
    /\ UNCHANGED workerVars /\ UNCHANGED stopVars

\* _ATOMIC_ENQUEUE_LUA, when it stores something, in the middle of a cancel too.
\* A run whose cancel has been answered may be enqueued again by a late sender; it
\* also stands for a later run, so that few names make a steady flow.
Enqueue(r) ==
    /\ mode = "up"
    /\ result[r] = "none" /\ r \notin progress
    /\ r \notin payload \/ ~InQueue(r)
    /\ payload' = payload \cup {r}
    /\ PutLast(r)
    /\ exec' = exec \ {r}
    /\ cancel' = [cancel EXCEPT ![r] = IF @ \in {"timeout"} \cup Quiescent THEN "none" ELSE @]
    /\ UNCHANGED <<progress, result, abort, bypassed, faults>>
    /\ UNCHANGED workerVars /\ UNCHANGED stopVars

ExpireFrame == UNCHANGED <<intake, ahead, exec, abort, cancel, bypassed>>
               /\ UNCHANGED workerVars /\ UNCHANGED stopVars

\* The payload of a delivery that has not started expires; its queue member
\* stays behind, an orphan.
ExpirePayload(r) ==
    /\ r \in payload \ progress
    /\ Fault
    /\ payload' = payload \ {r}
    /\ ExpireFrame /\ UNCHANGED <<result, progress>>

\* Results are kept far longer than the cancellation grace.
ExpireResult(r) ==
    /\ result[r] # "none" /\ cancel[r] \notin {"wait", "cancelled", "finished"}
    /\ result' = [result EXCEPT ![r] = "none"]
    /\ ExpireFrame /\ UNCHANGED <<payload, progress, faults>>

\* An in-progress key outlives its task by at most the job timeout.
ExpireProgress(r) ==
    /\ r \in progress /\ task[r] = "none"
    /\ progress' = progress \ {r}
    /\ ExpireFrame /\ UNCHANGED <<payload, result, faults>>

-----------------------------------------------------------------------------
(* A poll *)

PollFrame == UNCHANGED <<payload, progress, result, abort, cancel, faults>> /\ UNCHANGED stopVars

\* _poll_iteration samples memory once, and only when a slot is free.
PollBegin(memory) ==
    /\ mode = "up" /\ poll.pc = "idle"
    /\ LET free == Cardinality(Live) < MaxJobs IN
       poll' = [Idle EXCEPT !.pc = IF free /\ memory THEN "count" ELSE "read",
                            !.memory = memory]
    /\ PollFrame /\ UNCHANGED <<intake, ahead, exec, cursor, task, bypassed>>

\* Members of the execution queue include the running ones.
PollCount ==
    /\ poll.pc = "count"
    /\ LET room == IF Cardinality(exec) < MaxJobs THEN MaxJobs - Cardinality(exec) ELSE 0 IN
       poll' = [poll EXCEPT !.pc = IF room = 0 THEN "read" ELSE "admit", !.room = room]
    /\ PollFrame /\ UNCHANGED <<intake, ahead, exec, cursor, task, bypassed>>

\* Mutant: the fair turn is not taken.
BeforeStrict(p, q) == Place[p] < Place[q]

\* WeightedPriorityPolicy.selection_order: the fair turn, then the highest.
Turn == FAIR_ADMISSION_CYCLE[cursor]
Before(p, q) == p # q /\ (p = Turn \/ (q # Turn /\ Place[p] < Place[q]))

\* Mutant: the cursor does not wrap around.
NextTurnUnwrapped == cursor + 1

\* WeightedPriorityPolicy.admitted.
NextTurn == (cursor % Len(FAIR_ADMISSION_CYCLE)) + 1

\* What _ADMIT_ONE_LUA looks at before r, and whether it gets to r: nothing
\* before r has a payload, and there are fewer orphans than it may remove.
Preceding(r) ==
    ahead[r] \cup {q \in Runs : \E p \in PRIORITIES : q \in intake[p] /\ Before(p, PriorityOf[r])}
Reached(r) ==
    InIntake(r) /\ Preceding(r) \cap payload = {} /\ Cardinality(Preceding(r)) < OrphanLimit

\* Others are served while a watched delivery could be, counted up to one round.
Bypassed(r) ==
    IF PriorityOf[r] = Watched \/ intake[Watched] \cap payload = {} THEN 0
    ELSE IF bypassed < Len(FAIR_ADMISSION_CYCLE) THEN bypassed + 1 ELSE bypassed

\* _admit_one with _ADMIT_ONE_LUA, repeated while there is room: all it looks at
\* leaves the intake, orphans for good.
AdmitOne ==
    LET seen == {r \in Runs : Reached(r)} IN
    /\ poll.pc = "admit"
    /\ TakeOut(seen)
    /\ \/ \E r \in seen \cap payload :
            /\ exec' = exec \cup {r}
            /\ cursor' = NextTurn
            /\ bypassed' = Bypassed(r)
            /\ poll' = [poll EXCEPT !.room = @ - 1, !.pc = IF poll.room = 1 THEN "read" ELSE @]
       \/ /\ seen \cap payload = {}
          /\ poll' = [poll EXCEPT !.pc = "read", !.room = 0]
          /\ UNCHANGED <<exec, cursor, bypassed>>
    /\ PollFrame /\ UNCHANGED task

\* start_jobs: what is not running here; without memory only aborted ones.
PollRead ==
    /\ poll.pc = "read"
    /\ LET ids == IF Cardinality(Live) < MaxJobs /\ mode = "up" THEN exec \ Live ELSE {} IN
       poll' = [poll EXCEPT !.pc = "start", !.ids = IF poll.memory THEN ids ELSE ids \cap abort]
    /\ PollFrame /\ UNCHANGED <<intake, ahead, exec, cursor, task, bypassed>>

\* arq looks at one id: skipped if it is in progress or was taken out ...
StartCheck(r) ==
    /\ poll.pc = "start" /\ r \in poll.ids
    /\ poll' = IF Cardinality(Live) >= MaxJobs THEN [poll EXCEPT !.ids = {}]
               ELSE IF r \in progress \/ r \notin exec THEN [poll EXCEPT !.ids = @ \ {r}]
               ELSE [poll EXCEPT !.ids = @ \ {r}, !.pc = "set", !.checked = {r}]
    /\ PollFrame /\ UNCHANGED <<intake, ahead, exec, cursor, task, bypassed>>

\* ... and sets the key it watched, not the queue it looked at.
StartJob(r) ==
    /\ poll.pc = "set" /\ r \in poll.checked
    /\ poll' = [poll EXCEPT !.pc = "start", !.checked = {}]
    /\ IF r \in progress
         THEN UNCHANGED <<progress, task>>
         ELSE /\ progress' = progress \cup {r}
              /\ task' = [task EXCEPT ![r] = "starting"]
    /\ UNCHANGED <<payload, intake, ahead, exec, result, abort, cursor, cancel, bypassed, faults>>
    /\ UNCHANGED stopVars

\* The abort poll ends the iteration: handlers of aborted runs are cancelled.
PollEnd ==
    /\ poll.pc = "start" /\ poll.ids = {}
    /\ LET hit == {r \in abort : task[r] \in {"running", "cancelling"}} IN
       /\ task' = [r \in Runs |-> IF r \in hit THEN "cancelling" ELSE task[r]]
       /\ abort' = abort \ hit
    /\ poll' = Idle
    /\ UNCHANGED <<payload, intake, ahead, exec, progress, result, cursor, cancel, bypassed, faults>>
    /\ UNCHANGED stopVars

\* finish_job writes the result and removes the delivery in one transaction,
\* unless Redis is gone.
Finished(r, how) ==
    /\ task' = [task EXCEPT ![r] = "none"]
    /\ IF dropped
         THEN UNCHANGED redisVars
         ELSE /\ result' = [result EXCEPT ![r] = how]
              /\ payload' = payload \ {r} /\ exec' = exec \ {r}
              /\ progress' = progress \ {r} /\ abort' = abort \ {r}
              /\ UNCHANGED <<intake, ahead>>
    /\ UNCHANGED <<cursor, poll, cancel, bypassed, faults>> /\ UNCHANGED stopVars

\* The task reads its payload: gone, aborted meanwhile, or the handler starts.
LoadJob(r) ==
    /\ task[r] = "starting"
    /\ IF r \in payload /\ r \notin abort
         THEN /\ task' = [task EXCEPT ![r] = "running"]
              /\ UNCHANGED <<cursor, poll, cancel, bypassed, faults>>
              /\ UNCHANGED redisVars /\ UNCHANGED stopVars
         ELSE Finished(r, IF r \in payload THEN "cancelled" ELSE "done")

\* _run_job: the handler returned, or was cancelled.
FinishJob(r) ==
    \/ task[r] \in {"running", "cancelling"} /\ Finished(r, "done")
    \/ task[r] = "cancelling" /\ Finished(r, "cancelled")

-----------------------------------------------------------------------------
(* stop, death and start *)

StopFrame == UNCHANGED <<cursor, cancel, bypassed>> /\ UNCHANGED redisVars

\* stop(): no new poll; a poll in flight goes on.
StopBegin ==
    /\ mode = "up"
    /\ Fault
    /\ mode' = "draining" /\ pending' = Live
    /\ StopFrame /\ UNCHANGED <<dropped, task, poll>>

\* A task cancelled before its handler started leaves its keys behind.
Cancelled(rs) ==
    [r \in Runs |-> IF r \in rs THEN IF task[r] = "starting" THEN "none" ELSE "cancelling"
                    ELSE task[r]]

\* The drain window is over: what is still running is cancelled, once.
StopCancel ==
    /\ mode = "draining" /\ pending \cap Live # {}
    /\ mode' = "cancelling"
    /\ task' = Cancelled(pending \cap Live)
    /\ StopFrame /\ UNCHANGED <<pending, dropped, poll, faults>>

\* Half the reserve is over: _drop_redis_connections.
StopDrop ==
    /\ mode = "cancelling" /\ pending \cap Live # {} /\ ~dropped
    /\ dropped' = TRUE
    /\ StopFrame /\ UNCHANGED <<mode, pending, task, poll, faults>>

\* The active tasks are over, or the deadline is: the runner is cancelled with
\* the poll it is in.  Tasks that did not end fail the shutdown.
StopRunner ==
    /\ \/ mode \in {"draining", "cancelling"} /\ pending \cap Live = {} /\ mode' = "closing"
       \/ mode = "cancelling" /\ dropped /\ pending \cap Live # {} /\ mode' = "stuck"
    /\ poll' = Idle
    /\ StopFrame /\ UNCHANGED <<pending, dropped, task, faults>>

\* Mutant: close does not look at tasks a late poll started.
CloseAtOnce ==
    /\ mode = "closing"
    /\ mode' = "down"
    /\ UNCHANGED <<pending, dropped, task>>
    /\ StopFrame /\ UNCHANGED <<poll, faults>>

\* Worker.close cancels every task it has and waits for them; with dropped
\* connections they are only waited for.
CloseWorker ==
    /\ \/ /\ mode = "closing"
          /\ mode' = "closed"
          /\ task' = IF dropped THEN task ELSE Cancelled(Live)
          /\ UNCHANGED <<pending, dropped>>
       \/ /\ mode = "closed" /\ Live = {}
          /\ mode' = "down" /\ pending' = {} /\ dropped' = FALSE
          /\ UNCHANGED task
    /\ StopFrame /\ UNCHANGED <<poll, faults>>

\* The deadline passes before close returns.
CloseTimesOut ==
    /\ mode = "closed" /\ Live # {} /\ ~dropped
    /\ mode' = "stuck"
    /\ StopFrame /\ UNCHANGED <<pending, dropped, task, poll, faults>>

\* The process dies, or ends with a shutdown unresolved.
Die ==
    /\ \/ mode # "stuck" /\ Fault
       \/ mode = "stuck" /\ UNCHANGED faults
    /\ mode' = "down" /\ pending' = {} /\ dropped' = FALSE
    /\ task' = [r \in Runs |-> "none"] /\ poll' = Idle
    /\ cancel' = [r \in Runs |-> IF cancel[r] \in Quiescent THEN cancel[r] ELSE "none"]
    /\ UNCHANGED <<cursor, bypassed>> /\ UNCHANGED redisVars

\* start, with _release_abandoned_deliveries; the policy starts anew.
Start ==
    /\ mode = "down"
    /\ mode' = "up"
    /\ progress' = progress \ exec
    /\ cursor' = 1 /\ bypassed' = 0
    /\ UNCHANGED <<payload, intake, ahead, exec, result, abort, task, poll, pending, dropped, cancel, faults>>

-----------------------------------------------------------------------------
(* cancel_run *)

CancelFrame ==
    UNCHANGED <<progress, result, bypassed, faults>> /\ UNCHANGED workerVars /\ UNCHANGED stopVars

CancelGoes(r, to) == cancel' = [cancel EXCEPT ![r] = to]

CancelInspect(r) ==
    /\ cancel[r] = "none" /\ mode = "up"
    /\ CancelGoes(r, CASE InspectDelivery(r) = "queued" -> "remove"
                       [] InspectDelivery(r) = "in_progress" /\ InQueue(r) -> "abort"
                       [] InspectDelivery(r) = "in_progress" /\ ~InQueue(r) -> "timeout"
                       [] OTHER -> InspectDelivery(r))
    /\ CancelFrame /\ UNCHANGED <<payload, intake, ahead, exec, abort>>

\* Mutant: the script does not look at the in-progress key.
RemoveStarted(r) ==
    /\ cancel[r] = "remove" /\ mode = "up"
    /\ InQueue(r)
    /\ TakeOut({r}) /\ exec' = exec \ {r} /\ payload' = payload \ {r}
    /\ CancelGoes(r, "removed")
    /\ CancelFrame /\ UNCHANGED abort

\* _REMOVE_UNSTARTED_LUA.
RemoveUnstarted(r) ==
    /\ cancel[r] = "remove" /\ mode = "up"
    /\ IF r \notin progress /\ InQueue(r)
         THEN /\ TakeOut({r}) /\ exec' = exec \ {r} /\ payload' = payload \ {r}
              /\ CancelGoes(r, "removed")
         ELSE CancelGoes(r, "refresh") /\ UNCHANGED <<payload, intake, ahead, exec>>
    /\ CancelFrame /\ UNCHANGED abort

CancelRefresh(r) ==
    /\ cancel[r] = "refresh" /\ mode = "up"
    /\ CancelGoes(r, IF InspectDelivery(r) \in {"complete", "missing"}
                       THEN InspectDelivery(r) ELSE "abort")
    /\ CancelFrame /\ UNCHANGED <<payload, intake, ahead, exec, abort>>

CancelAbort(r) ==
    /\ cancel[r] = "abort" /\ mode = "up"
    /\ abort' = abort \cup {r}
    /\ CancelGoes(r, "wait")
    /\ CancelFrame /\ UNCHANGED <<payload, intake, ahead, exec>>

\* arq's wait for the result: there is one, there is nothing to wait for, or
\* the grace period is over.
CancelWait(r) ==
    /\ cancel[r] = "wait" /\ mode = "up"
    /\ \/ result[r] # "none" /\ CancelGoes(r, IF result[r] = "cancelled" THEN "cancelled" ELSE "finished")
       \/ InspectDelivery(r) = "missing" /\ CancelGoes(r, "finished")
       \/ result[r] = "none" /\ CancelGoes(r, "timeout")
    /\ CancelFrame /\ UNCHANGED <<payload, intake, ahead, exec, abort>>

\* The final inspection.
CancelVerify(r) ==
    /\ mode = "up"
    /\ \/ cancel[r] = "cancelled" /\ CancelGoes(r, "aborted")
       \/ cancel[r] = "finished"
            /\ CancelGoes(r, IF InspectDelivery(r) \in {"complete", "missing"}
                               THEN InspectDelivery(r) ELSE "timeout")
    /\ CancelFrame /\ UNCHANGED <<payload, intake, ahead, exec, abort>>

-----------------------------------------------------------------------------
PollStep ==
    \/ PollCount \/ AdmitOne \/ PollRead \/ PollEnd
    \/ \E r \in poll.ids : StartCheck(r)
    \/ \E r \in poll.checked : StartJob(r)

TaskStep(r) == LoadJob(r) \/ FinishJob(r)

StopStep == StopCancel \/ StopDrop \/ StopRunner \/ CloseWorker \/ CloseTimesOut

CancelStep(r) ==
    CancelInspect(r) \/ RemoveUnstarted(r) \/ CancelRefresh(r) \/ CancelAbort(r)
    \/ CancelWait(r) \/ CancelVerify(r)

Next ==
    \/ \E r \in Runs : Enqueue(r) \/ TaskStep(r)
                          \/ ExpirePayload(r) \/ ExpireResult(r) \/ ExpireProgress(r)
    \/ \E memory \in BOOLEAN : PollBegin(memory)
    \/ PollStep
    \/ StopBegin \/ StopStep \/ Die \/ Start
    \/ \E r \in Cancellable : CancelStep(r)

Spec == Init /\ [][Next]_vars

(***************************************************************************)
(* Fairness.  The runner polls for ever and memory is available in         *)
(* infinitely many polls (SF), a task ends and its key expires within the  *)
(* job timeout, stop() is bounded by its deadline, and a stopped process   *)
(* is started again.                                                       *)
(***************************************************************************)
Fairness ==
    /\ SF_vars(PollBegin(TRUE)) /\ WF_vars(PollStep)
    /\ \A r \in Runs : WF_vars(TaskStep(r)) /\ WF_vars(ExpireProgress(r))
    /\ WF_vars(StopStep) /\ WF_vars(mode = "stuck" /\ Die) /\ WF_vars(Start)

FairSpec == Spec /\ Fairness

-----------------------------------------------------------------------------
(* Properties *)

\* A run is in at most one queue, whatever enqueue, admission, expiry and
\* release were interleaved: two memberships make inspect_delivery, and with it
\* cancellation and reconciliation, raise for this run.
OneQueuePerRun ==
    \A r \in Runs :
        Cardinality({p \in PRIORITIES : r \in intake[p]} \cup
                    (IF r \in exec THEN {"exec"} ELSE {})) <= 1

\* Admission never hands over more than the worker has slots for, counting the
\* running deliveries once and those a dead process left behind.
SlotBound == Cardinality(exec) <= MaxJobs /\ Cardinality(Live) <= MaxJobs

\* A task holds its in-progress key until it is over, so nothing enqueues,
\* removes or starts the run a second time.
TaskHoldsKey == \A r \in Live : r \in progress /\ result[r] = "none"

\* The type invariant with the three.
QueueInv == QueueTypeOK /\ OneQueuePerRun /\ SlotBound /\ TaskHoldsKey

\* The weighted policy serves a waiting low-priority delivery after at most one
\* round of the others.
BoundedBypass == bypassed < Len(FAIR_ADMISSION_CYCLE)

\* Once cancel_run has answered that the run is quiescent, and until the run is
\* enqueued again, its handler does not run, although polls, starts, enqueues and
\* aborts go on between the inspections and a start that looked before the removal
\* goes on after it.
CancelledIsQuiet == \A r \in Runs : cancel[r] \in Quiescent => task[r] \in {"none", "starting"}

\* When stop() returns no task runs on, not even one that a poll in flight
\* started after stop() had listed the active ones.
StopLeavesNoTask == mode = "down" => Live = {}

\* A ready delivery does not starve: it is started, removed or loses its payload.
QueuedIsServed ==
    \A r \in Runs : (InspectDelivery(r) = "queued") ~> (InspectDelivery(r) # "queued")

\* The queue keeps the contract the run worker relies on.
Contract == INSTANCE Delivery WITH state <- [r \in Runs |-> InspectDelivery(r)]
DeliverySpec == Contract!Spec
=============================================================================
