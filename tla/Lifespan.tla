------------------------------ MODULE Lifespan ------------------------------
(***************************************************************************)
(* The life of application processes that share one state directory: the   *)
(* instance lock (runtime/instance_guard.py), startup and shutdown of the  *)
(* services in dependency order (main.py), the stop signal                 *)
(* (runtime/stop_signal.py) and the end of a process that lost its worker  *)
(* (runtime/process_exit.py).                                              *)
(*                                                                         *)
(* A component is in alive[p] while a task or thread of it may still run   *)
(* in process p: the three background loops, the worker pool, the webhook  *)
(* dispatcher, the scheduler, the cron callbacks it has started, threads,  *)
(* and the task that closes the databases.                                 *)
(***************************************************************************)
EXTENDS Integers, FiniteSets, Sequences

CONSTANTS
    Processes,
    Nobody,      \* the owner of a free lock
    MaxStarts    \* bound on processes started

ASSUME ProcessAssumption == Nobody \notin Processes /\ MaxStarts \in Nat

VARIABLES
    lock,      \* the process that holds the flock
    step,      \* where the process is, Absent when there is none
    alive,
    stores,    \* the database manager: "closed", "open", or "failed" to close
    pending,   \* app.state.shutdown_pending
    stop,      \* a stop signal has arrived
    armed,     \* the forced exit of end_process is counting down
    starts

vars == <<lock, step, alive, stores, pending, stop, armed, starts>>

Loops == {"cleanup", "queued", "running"}
Components == Loops \cup {"worker", "webhook", "scheduler", "callback", "threads", "db_close"}

(* The body of lifespan, then its finally: every step an await or more.    *)
Startup ==
    <<"lock", "keyring", "databases", "attest", "secrets", "recover", "intents", "webhook",
      "worker", "queue", "loops", "scheduler", "cleanup">>
Shutdown ==
    <<"stop_cleanup", "stop_queued", "stop_running", "stop_scheduler", "stop_worker", "owned",
      "stop_webhook", "stop_databases", "stop_threads", "release">>
StartupSteps == {Startup[i] : i \in 1 .. Len(Startup)}
ShutdownSteps == {Shutdown[i] : i \in 1 .. Len(Shutdown)}
Steps == {"absent", "serving", "over"} \cup StartupSteps \cup ShutdownSteps

After(steps, s, last) ==
    LET i == CHOOSE k \in 1 .. Len(steps) : steps[k] = s
    IN  IF i = Len(steps) THEN last ELSE steps[i + 1]
NextStartup(s) == After(Startup, s, "serving")
NextShutdown(s) == After(Shutdown, s, "over")

Init ==
    /\ lock = Nobody
    /\ step = [p \in Processes |-> "absent"]
    /\ alive = [p \in Processes |-> {}]
    /\ stores = [p \in Processes |-> "closed"]
    /\ pending = [p \in Processes |-> FALSE]
    /\ stop = [p \in Processes |-> FALSE]
    /\ armed = [p \in Processes |-> FALSE]
    /\ starts = 0

-----------------------------------------------------------------------------
Goto(p, s) == step' = [step EXCEPT ![p] = s]

(* The process is gone, with its threads, its memory and its flock.        *)
Dies(p) ==
    /\ Goto(p, "absent")
    /\ alive' = [alive EXCEPT ![p] = {}]
    /\ stores' = [stores EXCEPT ![p] = "closed"]
    /\ pending' = [pending EXCEPT ![p] = FALSE]
    /\ stop' = [stop EXCEPT ![p] = FALSE]
    /\ armed' = [armed EXCEPT ![p] = FALSE]
    /\ lock' = IF lock = p THEN Nobody ELSE lock
    /\ UNCHANGED starts

(* The supervisor starts a process.                                        *)
Boot(p) ==
    /\ step[p] = "absent"
    /\ starts < MaxStarts
    /\ starts' = starts + 1
    /\ Goto(p, "lock")
    /\ UNCHANGED <<lock, alive, stores, pending, stop, armed>>

(* SingleInstanceLock.acquire does not wait: a taken lock ends the process *)
(* before the try of lifespan.                                             *)
AcquireLock(p) ==
    /\ step[p] = "lock"
    /\ \/ /\ lock = Nobody
          /\ lock' = p
          /\ Goto(p, NextStartup("lock"))
          /\ UNCHANGED <<alive, stores, pending, stop, armed, starts>>
       \/ lock # Nobody /\ Dies(p)

(* What a step of the startup sets going.                                  *)
Started(s) ==
    CASE s = "webhook" -> {"webhook"}
      [] s = "worker" -> {"worker"}
      [] s = "loops" -> {"queued", "running"}
      [] s = "scheduler" -> {"scheduler"}
      [] s = "cleanup" -> {"cleanup"}
      [] OTHER -> {}

StartupStep(p) ==
    LET s == step[p]
    IN  /\ s \in StartupSteps \ {"lock"}
        /\ alive' = [alive EXCEPT ![p] = @ \cup Started(s)]
        /\ stores' = IF s = "databases" THEN [stores EXCEPT ![p] = "open"] ELSE stores
        /\ Goto(p, NextStartup(s))
        /\ UNCHANGED <<lock, pending, stop, armed, starts>>

(* A step raises: what it was to start has not started, what the steps     *)
(* before it started runs, and the finally of lifespan takes over.  init   *)
(* may have set its directory already.                                     *)
StartupFails(p) ==
    /\ step[p] \in StartupSteps \ {"lock"}
    /\ \/ UNCHANGED stores
       \/ step[p] = "databases" /\ stores' = [stores EXCEPT ![p] = "open"]
    /\ Goto(p, Shutdown[1])
    /\ UNCHANGED <<lock, alive, pending, stop, armed, starts>>

-----------------------------------------------------------------------------
(* Work.                                                                   *)

(* A cron fire: the callback runs as a task of its own.                    *)
Fire(p) ==
    /\ "scheduler" \in alive[p]
    /\ alive' = [alive EXCEPT ![p] = @ \cup {"callback"}]
    /\ UNCHANGED <<lock, step, stores, pending, stop, armed, starts>>

CallbackEnds(p) ==
    /\ "callback" \in alive[p]
    /\ alive' = [alive EXCEPT ![p] = @ \ {"callback"}]
    /\ UNCHANGED <<lock, step, stores, pending, stop, armed, starts>>

(* OwnedThreadPool: a run, or a request that renders a result, submits     *)
(* blocking work; the thread counts until it returns, whoever stopped      *)
(* waiting for it.                                                         *)
Submit(p) ==
    /\ "worker" \in alive[p] \/ step[p] = "serving"
    /\ alive' = [alive EXCEPT ![p] = @ \cup {"threads"}]
    /\ UNCHANGED <<lock, step, stores, pending, stop, armed, starts>>

ThreadsQuiesce(p) ==
    /\ "threads" \in alive[p]
    /\ alive' = [alive EXCEPT ![p] = @ \ {"threads"}]
    /\ UNCHANGED <<lock, step, stores, pending, stop, armed, starts>>

(* StopSignalHook and the server's handler.                                *)
Signal(p) ==
    /\ step[p] # "absent"
    /\ ~ stop[p]
    /\ stop' = [stop EXCEPT ![p] = TRUE]
    /\ UNCHANGED <<lock, step, alive, stores, pending, armed, starts>>

(* _runner_finished and the poll watchdog: the worker has ended or stalls  *)
(* outside a stop, so the process ends itself; the thread that would force *)
(* the end may not be had.                                                 *)
WorkerLost(p) ==
    /\ "worker" \in alive[p]
    /\ step[p] \notin ShutdownSteps \cup {"over"}
    /\ alive' \in {alive, [alive EXCEPT ![p] = @ \ {"worker"}]}
    /\ stop' = [stop EXCEPT ![p] = TRUE]
    /\ armed' \in {armed, [armed EXCEPT ![p] = TRUE]}
    /\ UNCHANGED <<lock, step, stores, pending, starts>>

ForceExit(p) == armed[p] /\ Dies(p)

(* The server has waited for its requests: lifespan resumes after its      *)
(* yield.                                                                  *)
Drained(p) ==
    /\ step[p] = "serving"
    /\ stop[p]
    /\ Goto(p, Shutdown[1])
    /\ UNCHANGED <<lock, alive, stores, pending, stop, armed, starts>>

-----------------------------------------------------------------------------
(* _shutdown_runtime_services.  One deadline bounds all its waits, and     *)
(* await_with_timeout returns at the deadline whether or not the work took *)
(* notice of its cancellation.                                             *)
Stops(s) ==
    CASE s = "stop_cleanup" -> "cleanup"
      [] s = "stop_queued" -> "queued"
      [] s = "stop_running" -> "running"
      [] s = "stop_worker" -> "worker"

(* Mutant: the wait lasts until the task has taken notice.                 *)
StopTaskWaits(p) ==
    /\ step[p] \in {"stop_cleanup", "stop_queued", "stop_running", "stop_worker"}
    /\ Stops(step[p]) \notin alive[p]
    /\ Goto(p, NextShutdown(step[p]))
    /\ UNCHANGED <<lock, alive, stores, pending, stop, armed, starts>>

(* A loop, or the worker pool, ends or outlives the deadline.              *)
StopTask(p) ==
    /\ step[p] \in {"stop_cleanup", "stop_queued", "stop_running", "stop_worker"}
    /\ alive' \in {alive, [alive EXCEPT ![p] = @ \ {Stops(step[p])}]}
    /\ Goto(p, NextShutdown(step[p]))
    /\ UNCHANGED <<lock, stores, pending, stop, armed, starts>>

(* shutdown(wait=False): no further fire; callbacks are not waited for.    *)
StopScheduler(p) ==
    /\ step[p] = "stop_scheduler"
    /\ alive' = [alive EXCEPT ![p] = @ \ {"scheduler"}]
    /\ Goto(p, NextShutdown(step[p]))
    /\ UNCHANGED <<lock, stores, pending, stop, armed, starts>>

(* retain_shared_services raises past the remaining phases.                *)
Retain(p) ==
    /\ pending' = [pending EXCEPT ![p] = TRUE]
    /\ Goto(p, "release")

(* Mutant: only the loops are looked at.                                   *)
CheckLoops(p) ==
    /\ step[p] = "owned"
    /\ IF alive[p] \cap Loops # {}
       THEN Retain(p)
       ELSE Goto(p, NextShutdown(step[p])) /\ UNCHANGED pending
    /\ UNCHANGED <<lock, alive, stores, stop, armed, starts>>

(* Live owned tasks keep the dispatcher and the stores open.               *)
CheckOwned(p) ==
    /\ step[p] = "owned"
    /\ IF alive[p] \cap (Loops \cup {"worker"}) # {}
       THEN Retain(p)
       ELSE Goto(p, NextShutdown(step[p])) /\ UNCHANGED pending
    /\ UNCHANGED <<lock, alive, stores, stop, armed, starts>>

CloseWebhook(p) ==
    /\ step[p] = "stop_webhook"
    /\ \/ /\ alive' = [alive EXCEPT ![p] = @ \ {"webhook"}]
          /\ Goto(p, NextShutdown(step[p]))
          /\ UNCHANGED pending
       \/ /\ "webhook" \in alive[p]
          /\ Retain(p)
          /\ UNCHANGED alive
    /\ UNCHANGED <<lock, stores, stop, armed, starts>>

(* close_db, as a task that may outlive the deadline.  When a connection   *)
(* does not close it raises, with the manager still initialised; that is   *)
(* recorded, and shutdown goes on.                                         *)
CloseDatabases(p) ==
    /\ step[p] = "stop_databases"
    /\ \/ /\ \/ stores' = [stores EXCEPT ![p] = "closed"]
             \/ stores[p] = "open" /\ stores' = [stores EXCEPT ![p] = "failed"]
          /\ Goto(p, NextShutdown(step[p]))
          /\ UNCHANGED <<alive, pending>>
       \/ /\ alive' = [alive EXCEPT ![p] = @ \cup {"db_close"}]
          /\ Retain(p)
          /\ UNCHANGED stores
    /\ UNCHANGED <<lock, stop, armed, starts>>

(* Threads get the rest of the grace.                                      *)
WaitForThreads(p) ==
    /\ step[p] = "stop_threads"
    /\ pending' = [pending EXCEPT ![p] = "threads" \in alive[p]]
    /\ Goto(p, NextShutdown(step[p]))
    /\ UNCHANGED <<lock, alive, stores, stop, armed, starts>>

(* Mutant: only the tasks of the application itself are looked at.         *)
PendingTasks(p) == alive[p] \cap (Loops \cup {"worker", "webhook", "db_close"}) # {}

(* _runtime_shutdown_pending.                                              *)
ShutdownPending(p) ==
    pending[p] \/ alive[p] \cap (Loops \cup {"worker", "webhook", "db_close"}) # {}

(* The end of lifespan: the lock is kept while anything is unresolved.     *)
Release(p) ==
    /\ step[p] = "release"
    /\ lock' = IF ShutdownPending(p) THEN lock ELSE Nobody
    /\ Goto(p, "over")
    /\ UNCHANGED <<alive, stores, pending, stop, armed, starts>>

(* What outlived its wait ends after all; the end of the event loop        *)
(* cancels whatever is left, the dispatcher of a retained runtime too.     *)
Resolves(p) ==
    /\ \E c \in alive[p] :
        /\ \/ c \in Loops /\ step[p] \in {"stop_scheduler", "stop_worker", "owned"}
           \/ c \in Loops \cup {"worker", "webhook", "db_close"} /\ step[p] = "over"
        /\ alive' = [alive EXCEPT ![p] = @ \ {c}]
        /\ \/ c # "db_close" /\ UNCHANGED stores
           \/ c = "db_close" /\ stores' \in {[stores EXCEPT ![p] = s] : s \in {"closed", "failed"}}
    /\ UNCHANGED <<lock, step, pending, stop, armed, starts>>

(* The loop has ended: the process exits once no task or thread is left.   *)
Exit(p) ==
    /\ step[p] = "over"
    /\ alive[p] = {}
    /\ Dies(p)

Crash(p) == step[p] # "absent" /\ Dies(p)
StartStep(p) == Boot(p) \/ AcquireLock(p) \/ StartupStep(p) \/ StartupFails(p)

WorkStep(p) ==
    \/ Fire(p) \/ CallbackEnds(p) \/ Submit(p) \/ ThreadsQuiesce(p)
    \/ Signal(p) \/ WorkerLost(p) \/ Drained(p) \/ Resolves(p)

ShutdownStep(p) ==
    \/ StopTask(p) \/ StopScheduler(p) \/ CheckOwned(p) \/ CloseWebhook(p)
    \/ CloseDatabases(p) \/ WaitForThreads(p) \/ Release(p)

Ends(p) == ForceExit(p) \/ Exit(p) \/ Crash(p)

Next == \E p \in Processes : StartStep(p) \/ WorkStep(p) \/ ShutdownStep(p) \/ Ends(p)

Spec == Init /\ [][Next]_vars

(* The event loop runs the shutdown, and its deadline passes.              *)
FairSpec == Spec /\ \A p \in Processes : WF_vars(ShutdownStep(p))

-----------------------------------------------------------------------------
LifespanTypeOK ==
    /\ lock \in Processes \cup {Nobody}
    /\ step \in [Processes -> Steps]
    /\ alive \in [Processes -> SUBSET Components]
    /\ stores \in [Processes -> {"closed", "open", "failed"}]
    /\ pending \in [Processes -> BOOLEAN]
    /\ stop \in [Processes -> BOOLEAN]
    /\ armed \in [Processes -> BOOLEAN]
    /\ starts \in 0 .. MaxStarts

(* A process that has not, or no longer, the instance lock runs no loop,   *)
(* worker, dispatcher or thread and has tried to close its stores,         *)
(* whichever step of its startup failed and whatever outlived its          *)
(* shutdown: the next process may release the deliveries it left and fail  *)
(* the runs it left.  Only a cron callback may still be on its way out.    *)
(* It gets no connection any more, unless closing the stores failed: the   *)
(* manager opens another one then.                                         *)
LockCoversWork ==
    /\ LifespanTypeOK
    /\ \A p \in Processes : lock # p => alive[p] \subseteq {"callback"} /\ stores[p] # "open"

(* Startup and shutdown keep what a component uses: the stores for every   *)
(* loop, the worker and the dispatcher, and, until lifespan is over, the   *)
(* dispatcher for the worker and the loop that settles lost runs.          *)
ServicesOutliveUsers ==
    \A p \in Processes :
        /\ alive[p] \cap (Loops \cup {"worker", "webhook"}) # {} => stores[p] = "open"
        /\ alive[p] \cap {"worker", "running"} # {} /\ step[p] # "over" => "webhook" \in alive[p]

(* Shutdown ends, whatever ignores its cancellation.                       *)
ShutdownEnds ==
    \A p \in Processes : step[p] \in ShutdownSteps ~> step[p] \in {"over", "absent"}
=============================================================================
