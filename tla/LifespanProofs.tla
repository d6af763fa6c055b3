--------------------------- MODULE LifespanProofs ---------------------------
(***************************************************************************)
(* What TLAPS proves of Lifespan.tla for any set of processes and any      *)
(* number of starts: work happens only under the instance lock, and every  *)
(* service outlives its users.                                             *)
(*                                                                         *)
(* Neither is inductive: both depend on what the position of a process in  *)
(* startup or shutdown says of its tasks, its stores and its lock.  Phase  *)
(* states that, one conjunct per part of the sequence.                     *)
(***************************************************************************)
EXTENDS Lifespan, TLAPS

Users == Loops \cup {"worker", "webhook"}

(* Before the lock is taken nothing runs.                                  *)
NothingYet(p) ==
    step[p] \in {"absent", "lock"} => lock # p /\ alive[p] = {} /\ stores[p] = "closed"

(* From then on to the end of lifespan the process has the lock.           *)
HasLock(p) == step[p] \notin {"absent", "lock", "over"} => lock = p

(* Startup opens the stores before the dispatcher, and the dispatcher      *)
(* before what uses it.                                                    *)
StartsInOrder(p) ==
    /\ step[p] \in StartupSteps \cup {"absent", "serving"} => ~ pending[p]
    /\ step[p] \in {"keyring", "databases"} => alive[p] = {} /\ stores[p] = "closed"
    /\ step[p] \in StartupSteps \ {"lock"} => "db_close" \notin alive[p]
    /\ step[p] \in {"attest", "secrets", "recover", "intents", "webhook"} =>
          alive[p] = {} /\ stores[p] = "open"
    /\ step[p] \in {"worker", "queue", "loops", "scheduler", "cleanup", "serving"} =>
          stores[p] = "open" /\ "webhook" \in alive[p] /\ "db_close" \notin alive[p]

(* Shutdown closes a service only after its users are gone.                *)
StopsInOrder(p) ==
    /\ step[p] \in {"stop_cleanup", "stop_queued", "stop_running", "stop_scheduler",
                     "stop_worker", "owned", "stop_webhook", "stop_databases", "stop_threads"} =>
          "db_close" \notin alive[p] /\ ~ pending[p]
    /\ step[p] \in {"stop_worker", "owned", "stop_webhook", "stop_databases", "stop_threads",
                     "release", "over"} => "scheduler" \notin alive[p]
    /\ step[p] \in {"stop_webhook", "stop_databases", "stop_threads"} =>
          alive[p] \cap (Loops \cup {"worker"}) = {}
    /\ step[p] \in {"stop_databases", "stop_threads"} => "webhook" \notin alive[p]
    /\ step[p] = "stop_threads" => stores[p] # "open"

(* A release without anything pending leaves nothing but callbacks.        *)
CleanRelease(p) ==
    step[p] = "release" /\ ~ pending[p] =>
        alive[p] \subseteq {"callback"} /\ stores[p] # "open"

(* The databases are closed when nobody uses them any more.                *)
CloseIsLast(p) == "db_close" \in alive[p] => alive[p] \cap Users = {}

(* After lifespan the lock is either still held or covers nothing.         *)
OverIsCovered(p) ==
    step[p] = "over" /\ lock # p => alive[p] \subseteq {"callback"} /\ stores[p] # "open"

UsersHaveServices(p) ==
    /\ alive[p] \cap Users # {} => stores[p] = "open"
    /\ alive[p] \cap {"worker", "running"} # {} /\ step[p] # "over" => "webhook" \in alive[p]

Phase(p) ==
    /\ NothingYet(p) /\ HasLock(p) /\ StartsInOrder(p) /\ StopsInOrder(p)
    /\ CleanRelease(p) /\ CloseIsLast(p) /\ OverIsCovered(p) /\ UsersHaveServices(p)

LifespanInv == LifespanTypeOK /\ \A p \in Processes : Phase(p)

-----------------------------------------------------------------------------
(* The sequences.                                                          *)

(* The successor of the i-th step of startup is the one after it.          *)
LEMMA StartupIndex ==
  ASSUME NEW i \in 1 .. 13
  PROVE  NextStartup(Startup[i]) = IF i = 13 THEN "serving" ELSE Startup[i + 1]
<1>1. Len(Startup) = 13
  BY DEF Startup
<1>2. \A k \in 1 .. 13 : Startup[k] = Startup[i] => k = i
  BY DEF Startup
<1>3. (CHOOSE k \in 1 .. Len(Startup) : Startup[k] = Startup[i]) = i
  BY <1>1, <1>2
<1> QED BY <1>1, <1>3 DEF NextStartup, After

(* The same of shutdown.                                                   *)
LEMMA ShutdownIndex ==
  ASSUME NEW i \in 1 .. 10
  PROVE  NextShutdown(Shutdown[i]) = IF i = 10 THEN "over" ELSE Shutdown[i + 1]
<1>1. Len(Shutdown) = 10
  BY DEF Shutdown
<1>2. \A k \in 1 .. 10 : Shutdown[k] = Shutdown[i] => k = i
  BY DEF Shutdown
<1>3. (CHOOSE k \in 1 .. Len(Shutdown) : Shutdown[k] = Shutdown[i]) = i
  BY <1>1, <1>2
<1> QED BY <1>1, <1>3 DEF NextShutdown, After

(* Startup step by step.                                                   *)
LEMMA StartupOrder ==
  /\ NextStartup("lock") = "keyring"
  /\ NextStartup("keyring") = "databases"
  /\ NextStartup("databases") = "attest"
  /\ NextStartup("attest") = "secrets"
  /\ NextStartup("secrets") = "recover"
  /\ NextStartup("recover") = "intents"
  /\ NextStartup("intents") = "webhook"
  /\ NextStartup("webhook") = "worker"
  /\ NextStartup("worker") = "queue"
  /\ NextStartup("queue") = "loops"
  /\ NextStartup("loops") = "scheduler"
  /\ NextStartup("scheduler") = "cleanup"
  /\ NextStartup("cleanup") = "serving"
  BY StartupIndex DEF Startup

(* Shutdown step by step.                                                  *)
LEMMA ShutdownOrder ==
  /\ NextShutdown("stop_cleanup") = "stop_queued"
  /\ NextShutdown("stop_queued") = "stop_running"
  /\ NextShutdown("stop_running") = "stop_scheduler"
  /\ NextShutdown("stop_scheduler") = "stop_worker"
  /\ NextShutdown("stop_worker") = "owned"
  /\ NextShutdown("owned") = "stop_webhook"
  /\ NextShutdown("stop_webhook") = "stop_databases"
  /\ NextShutdown("stop_databases") = "stop_threads"
  /\ NextShutdown("stop_threads") = "release"
  /\ NextShutdown("release") = "over"
  BY ShutdownIndex DEF Shutdown

(* The names of the steps.                                                 *)
LEMMA StepNames ==
  /\ StartupSteps = {"lock", "keyring", "databases", "attest", "secrets", "recover", "intents",
                     "webhook", "worker", "queue", "loops", "scheduler", "cleanup"}
  /\ ShutdownSteps = {"stop_cleanup", "stop_queued", "stop_running", "stop_scheduler",
                      "stop_worker", "owned", "stop_webhook", "stop_databases",
                      "stop_threads", "release"}
  /\ Shutdown[1] = "stop_cleanup"
<1>1. Len(Startup) = 13 /\ Len(Shutdown) = 10
  BY DEF Startup, Shutdown
<1> QED BY <1>1 DEF StartupSteps, ShutdownSteps, Startup, Shutdown

-----------------------------------------------------------------------------
(* Every action is a step of one process.  It leaves the other processes   *)
(* alone but for the lock, which it takes when it is free and gives up     *)
(* when it has it: the phase of the acting process is all there is to show.*)

OnlyOf(p) ==
    /\ \A q \in Processes \ {p} :
        /\ step'[q] = step[q] /\ alive'[q] = alive[q]
        /\ stores'[q] = stores[q] /\ pending'[q] = pending[q]
    /\ lock' # lock => {lock, lock'} \subseteq {p, Nobody}

(* A step of one process keeps the phase of the others.                    *)
LEMMA OneProcess ==
  ASSUME LifespanInv, NEW p \in Processes, OnlyOf(p), LifespanTypeOK', Phase(p)'
  PROVE  LifespanInv'
<1> SUFFICES ASSUME NEW q \in Processes, q # p PROVE Phase(q)'
  BY DEF LifespanInv
<1>1. Phase(q)
  BY DEF LifespanInv
<1>2. /\ step'[q] = step[q] /\ alive'[q] = alive[q]
      /\ stores'[q] = stores[q] /\ pending'[q] = pending[q]
      /\ (lock' = q) = (lock = q)
  BY ProcessAssumption DEF OnlyOf
<1> QED
  BY <1>1, <1>2 DEF Phase, NothingYet, HasLock, StartsInOrder, StopsInOrder, CleanRelease,
     CloseIsLast, OverIsCovered, UsersHaveServices

-----------------------------------------------------------------------------
(* One lemma per action.                                                   *)

(* The supervisor starts a process.                                        *)
LEMMA BootKeepsInv ==
  ASSUME LifespanInv, NEW p \in Processes, Boot(p)
  PROVE  LifespanInv'
<1> USE DEF LifespanInv, LifespanTypeOK, Boot, Goto
<1>1. LifespanTypeOK'
  BY ProcessAssumption, StepNames DEF Components, Steps, Loops
<1>2. OnlyOf(p)
  BY DEF OnlyOf
<1>3. Phase(p)'
  BY ProcessAssumption, StepNames
  DEF Users, Components, Loops, Phase, NothingYet, HasLock, StartsInOrder, StopsInOrder,
      CleanRelease, CloseIsLast, OverIsCovered, UsersHaveServices
<1> QED BY <1>1, <1>2, <1>3, OneProcess DEF LifespanInv

(* A free lock is taken; a taken one ends the process.                     *)
LEMMA AcquireLockKeepsInv ==
  ASSUME LifespanInv, NEW p \in Processes, AcquireLock(p)
  PROVE  LifespanInv'
<1> USE DEF LifespanInv, LifespanTypeOK, AcquireLock, Dies, Goto
<1>1. LifespanTypeOK'
  BY ProcessAssumption, StepNames, StartupOrder, ZenonT(60) DEF Components, Steps, Loops
<1>2. OnlyOf(p)
  BY DEF OnlyOf
<1>3. Phase(p)'
  BY ProcessAssumption, StepNames, StartupOrder
  DEF Users, Components, Loops, Phase, NothingYet, HasLock, StartsInOrder, StopsInOrder,
      CleanRelease, CloseIsLast, OverIsCovered, UsersHaveServices
<1> QED BY <1>1, <1>2, <1>3, OneProcess DEF LifespanInv

(* A service starts after what it uses.                                    *)
LEMMA StartupStepKeepsInv ==
  ASSUME LifespanInv, NEW p \in Processes, StartupStep(p)
  PROVE  LifespanInv'
<1> USE DEF LifespanInv, LifespanTypeOK, StartupStep, Started, Goto
<1>1. LifespanTypeOK'
  BY ProcessAssumption, StepNames, StartupOrder DEF Components, Steps, Loops
<1>2. OnlyOf(p)
  BY DEF OnlyOf
<1>3. Phase(p)'
  <2>1. /\ step'[p] = NextStartup(step[p]) /\ lock' = p /\ ~ pending'[p]
        /\ alive'[p] = alive[p] \cup Started(step[p])
        /\ stores'[p] = IF step[p] = "databases" THEN "open" ELSE stores[p]
    BY StepNames DEF Phase, HasLock, StartsInOrder
  <2>2. CASE step[p] \in {"keyring", "databases", "attest", "secrets", "recover", "intents"}
    BY <2>1, <2>2, StepNames, StartupOrder, ZenonT(60)
    DEF Users, Loops, Phase, NothingYet, HasLock, StartsInOrder, StopsInOrder,
        CleanRelease, CloseIsLast, OverIsCovered, UsersHaveServices
  <2>3. CASE step[p] = "webhook"
    BY <2>1, <2>3, StepNames, StartupOrder
    DEF Users, Loops, Phase, NothingYet, HasLock, StartsInOrder, StopsInOrder,
        CleanRelease, CloseIsLast, OverIsCovered, UsersHaveServices
  <2>4. CASE step[p] \in {"worker", "queue", "loops", "scheduler", "cleanup"}
    BY <2>1, <2>4, StepNames, StartupOrder
    DEF Users, Loops, Phase, NothingYet, HasLock, StartsInOrder, StopsInOrder,
        CleanRelease, CloseIsLast, OverIsCovered, UsersHaveServices
  <2> QED BY <2>2, <2>3, <2>4, StepNames
<1> QED BY <1>1, <1>2, <1>3, OneProcess DEF LifespanInv

(* A failed startup goes to the shutdown with what it has.                 *)
LEMMA StartupFailsKeepsInv ==
  ASSUME LifespanInv, NEW p \in Processes, StartupFails(p)
  PROVE  LifespanInv'
<1> USE DEF LifespanInv, LifespanTypeOK, StartupFails, Goto
<1>1. LifespanTypeOK'
  BY ProcessAssumption, StepNames DEF Components, Steps, Loops
<1>2. OnlyOf(p)
  BY DEF OnlyOf
<1>3. Phase(p)'
  BY ProcessAssumption, StepNames
  DEF Users, Components, Loops, Phase, NothingYet, HasLock, StartsInOrder, StopsInOrder,
      CleanRelease, CloseIsLast, OverIsCovered, UsersHaveServices
<1> QED BY <1>1, <1>2, <1>3, OneProcess DEF LifespanInv

(* A callback starts while the scheduler runs.                             *)
LEMMA FireKeepsInv ==
  ASSUME LifespanInv, NEW p \in Processes, Fire(p)
  PROVE  LifespanInv'
<1> USE DEF LifespanInv, LifespanTypeOK, Fire, Goto
<1>1. LifespanTypeOK'
  BY ProcessAssumption, StepNames DEF Components, Steps, Loops
<1>2. OnlyOf(p)
  BY DEF OnlyOf
<1>3. Phase(p)'
  BY ProcessAssumption, StepNames
  DEF Users, Components, Loops, Phase, NothingYet, HasLock, StartsInOrder, StopsInOrder,
      CleanRelease, CloseIsLast, OverIsCovered, UsersHaveServices
<1> QED BY <1>1, <1>2, <1>3, OneProcess DEF LifespanInv

(* A callback ends.                                                        *)
LEMMA CallbackEndsKeepsInv ==
  ASSUME LifespanInv, NEW p \in Processes, CallbackEnds(p)
  PROVE  LifespanInv'
<1> USE DEF LifespanInv, LifespanTypeOK, CallbackEnds, Goto
<1>1. LifespanTypeOK'
  BY ProcessAssumption, StepNames DEF Components, Steps, Loops
<1>2. OnlyOf(p)
  BY DEF OnlyOf
<1>3. Phase(p)'
  BY ProcessAssumption, StepNames
  DEF Users, Components, Loops, Phase, NothingYet, HasLock, StartsInOrder, StopsInOrder,
      CleanRelease, CloseIsLast, OverIsCovered, UsersHaveServices
<1> QED BY <1>1, <1>2, <1>3, OneProcess DEF LifespanInv

(* A thread starts for the worker or a request.                            *)
LEMMA SubmitKeepsInv ==
  ASSUME LifespanInv, NEW p \in Processes, Submit(p)
  PROVE  LifespanInv'
<1> USE DEF LifespanInv, LifespanTypeOK, Submit, Goto
<1>1. LifespanTypeOK'
  BY ProcessAssumption, StepNames DEF Components, Steps, Loops
<1>2. OnlyOf(p)
  BY DEF OnlyOf
<1>3. Phase(p)'
  BY ProcessAssumption, StepNames
  DEF Users, Components, Loops, Phase, NothingYet, HasLock, StartsInOrder, StopsInOrder,
      CleanRelease, CloseIsLast, OverIsCovered, UsersHaveServices
<1> QED BY <1>1, <1>2, <1>3, OneProcess DEF LifespanInv

(* The threads return.                                                     *)
LEMMA ThreadsQuiesceKeepsInv ==
  ASSUME LifespanInv, NEW p \in Processes, ThreadsQuiesce(p)
  PROVE  LifespanInv'
<1> USE DEF LifespanInv, LifespanTypeOK, ThreadsQuiesce, Goto
<1>1. LifespanTypeOK'
  BY ProcessAssumption, StepNames DEF Components, Steps, Loops
<1>2. OnlyOf(p)
  BY DEF OnlyOf
<1>3. Phase(p)'
  BY ProcessAssumption, StepNames
  DEF Users, Components, Loops, Phase, NothingYet, HasLock, StartsInOrder, StopsInOrder,
      CleanRelease, CloseIsLast, OverIsCovered, UsersHaveServices
<1> QED BY <1>1, <1>2, <1>3, OneProcess DEF LifespanInv

(* A stop signal.                                                          *)
LEMMA SignalKeepsInv ==
  ASSUME LifespanInv, NEW p \in Processes, Signal(p)
  PROVE  LifespanInv'
<1> USE DEF LifespanInv, LifespanTypeOK, Signal, Goto
<1>1. LifespanTypeOK'
  BY ProcessAssumption, StepNames DEF Components, Steps, Loops
<1>2. OnlyOf(p)
  BY DEF OnlyOf
<1>3. Phase(p)'
  BY ProcessAssumption, StepNames
  DEF Users, Components, Loops, Phase, NothingYet, HasLock, StartsInOrder, StopsInOrder,
      CleanRelease, CloseIsLast, OverIsCovered, UsersHaveServices
<1> QED BY <1>1, <1>2, <1>3, OneProcess DEF LifespanInv

(* The worker ends or stalls.                                              *)
LEMMA WorkerLostKeepsInv ==
  ASSUME LifespanInv, NEW p \in Processes, WorkerLost(p)
  PROVE  LifespanInv'
<1> USE DEF LifespanInv, LifespanTypeOK, WorkerLost, Goto
<1>1. LifespanTypeOK'
  <2>1. alive' \in [Processes -> SUBSET Components]
    OBVIOUS
  <2>2. stop' \in [Processes -> BOOLEAN] /\ armed' \in [Processes -> BOOLEAN]
    OBVIOUS
  <2> QED BY <2>1, <2>2
<1>2. OnlyOf(p)
  BY DEF OnlyOf
<1>3. Phase(p)'
  BY ProcessAssumption, StepNames
  DEF Users, Components, Loops, Phase, NothingYet, HasLock, StartsInOrder, StopsInOrder,
      CleanRelease, CloseIsLast, OverIsCovered, UsersHaveServices
<1> QED BY <1>1, <1>2, <1>3, OneProcess DEF LifespanInv

(* Serving ends.                                                           *)
LEMMA DrainedKeepsInv ==
  ASSUME LifespanInv, NEW p \in Processes, Drained(p)
  PROVE  LifespanInv'
<1> USE DEF LifespanInv, LifespanTypeOK, Drained, Goto
<1>1. LifespanTypeOK'
  BY ProcessAssumption, StepNames DEF Components, Steps, Loops
<1>2. OnlyOf(p)
  BY DEF OnlyOf
<1>3. Phase(p)'
  BY ProcessAssumption, StepNames
  DEF Users, Components, Loops, Phase, NothingYet, HasLock, StartsInOrder, StopsInOrder,
      CleanRelease, CloseIsLast, OverIsCovered, UsersHaveServices
<1> QED BY <1>1, <1>2, <1>3, OneProcess DEF LifespanInv

(* What outlived its wait ends.                                            *)
LEMMA ResolvesKeepsInv ==
  ASSUME LifespanInv, NEW p \in Processes, Resolves(p)
  PROVE  LifespanInv'
<1> USE DEF LifespanInv, LifespanTypeOK, Resolves, Goto
<1>1. LifespanTypeOK'
  BY ProcessAssumption, StepNames DEF Components, Steps, Loops
<1>2. OnlyOf(p)
  BY DEF OnlyOf
<1>3. Phase(p)'
  BY ProcessAssumption, StepNames
  DEF Users, Components, Loops, Phase, NothingYet, HasLock, StartsInOrder, StopsInOrder,
      CleanRelease, CloseIsLast, OverIsCovered, UsersHaveServices
<1> QED BY <1>1, <1>2, <1>3, OneProcess DEF LifespanInv

(* A task is stopped, or outlives its deadline.                            *)
LEMMA StopTaskKeepsInv ==
  ASSUME LifespanInv, NEW p \in Processes, StopTask(p)
  PROVE  LifespanInv'
<1> USE DEF LifespanInv, LifespanTypeOK, StopTask, Stops, Goto
<1>1. LifespanTypeOK'
  BY ProcessAssumption, StepNames, ShutdownOrder DEF Components, Steps, Loops
<1>2. OnlyOf(p)
  BY DEF OnlyOf
<1>3. Phase(p)'
  BY ProcessAssumption, StepNames, ShutdownOrder
  DEF Users, Components, Loops, Phase, NothingYet, HasLock, StartsInOrder, StopsInOrder,
      CleanRelease, CloseIsLast, OverIsCovered, UsersHaveServices
<1> QED BY <1>1, <1>2, <1>3, OneProcess DEF LifespanInv

(* No fire any more.                                                       *)
LEMMA StopSchedulerKeepsInv ==
  ASSUME LifespanInv, NEW p \in Processes, StopScheduler(p)
  PROVE  LifespanInv'
<1> USE DEF LifespanInv, LifespanTypeOK, StopScheduler, Goto
<1>1. LifespanTypeOK'
  BY ProcessAssumption, StepNames, ShutdownOrder DEF Components, Steps, Loops
<1>2. OnlyOf(p)
  BY DEF OnlyOf
<1>3. Phase(p)'
  BY ProcessAssumption, StepNames, ShutdownOrder
  DEF Users, Components, Loops, Phase, NothingYet, HasLock, StartsInOrder, StopsInOrder,
      CleanRelease, CloseIsLast, OverIsCovered, UsersHaveServices
<1> QED BY <1>1, <1>2, <1>3, OneProcess DEF LifespanInv

(* Live tasks keep their services.                                         *)
LEMMA CheckOwnedKeepsInv ==
  ASSUME LifespanInv, NEW p \in Processes, CheckOwned(p)
  PROVE  LifespanInv'
<1> USE DEF LifespanInv, LifespanTypeOK, CheckOwned, Retain, Goto
<1>1. LifespanTypeOK'
  <2>1. step' \in [Processes -> Steps] /\ pending' \in [Processes -> BOOLEAN]
    <3>1. CASE Retain(p)
      BY <3>1, StepNames DEF Steps
    <3>2. CASE Goto(p, NextShutdown(step[p])) /\ UNCHANGED pending
      BY <3>2, StepNames, ShutdownOrder DEF Steps
    <3> QED BY <3>1, <3>2
  <2> QED BY <2>1
<1>2. OnlyOf(p)
  BY DEF OnlyOf
<1>3. Phase(p)'
  BY ProcessAssumption, StepNames, ShutdownOrder
  DEF Users, Components, Loops, Phase, NothingYet, HasLock, StartsInOrder, StopsInOrder,
      CleanRelease, CloseIsLast, OverIsCovered, UsersHaveServices
<1> QED BY <1>1, <1>2, <1>3, OneProcess DEF LifespanInv

(* The dispatcher is closed after its users.                               *)
LEMMA CloseWebhookKeepsInv ==
  ASSUME LifespanInv, NEW p \in Processes, CloseWebhook(p)
  PROVE  LifespanInv'
<1> USE DEF LifespanInv, LifespanTypeOK, CloseWebhook, Retain, Goto
<1>1. LifespanTypeOK'
  <2>1. step' \in [Processes -> Steps]
    BY StepNames, ShutdownOrder DEF Steps
  <2>2. alive' \in [Processes -> SUBSET Components]
    OBVIOUS
  <2>3. pending' \in [Processes -> BOOLEAN]
    OBVIOUS
  <2> QED BY <2>1, <2>2, <2>3
<1>2. OnlyOf(p)
  BY DEF OnlyOf
<1>3. Phase(p)'
  BY ProcessAssumption, StepNames, ShutdownOrder
  DEF Users, Components, Loops, Phase, NothingYet, HasLock, StartsInOrder, StopsInOrder,
      CleanRelease, CloseIsLast, OverIsCovered, UsersHaveServices
<1> QED BY <1>1, <1>2, <1>3, OneProcess DEF LifespanInv

(* The stores are closed after the dispatcher.                             *)
LEMMA CloseDatabasesKeepsInv ==
  ASSUME LifespanInv, NEW p \in Processes, CloseDatabases(p)
  PROVE  LifespanInv'
<1> USE DEF LifespanInv, LifespanTypeOK, CloseDatabases, Retain, Goto
<1>1. LifespanTypeOK'
  <2>1. step' \in [Processes -> Steps]
    BY StepNames, ShutdownOrder DEF Steps
  <2>2. alive' \in [Processes -> SUBSET Components]
    BY DEF Components
  <2>3. pending' \in [Processes -> BOOLEAN] /\ stores' \in [Processes -> {"closed", "open", "failed"}]
    OBVIOUS
  <2> QED BY <2>1, <2>2, <2>3
<1>2. OnlyOf(p)
  BY DEF OnlyOf
<1>3. Phase(p)'
  BY ProcessAssumption, StepNames, ShutdownOrder
  DEF Users, Components, Loops, Phase, NothingYet, HasLock, StartsInOrder, StopsInOrder,
      CleanRelease, CloseIsLast, OverIsCovered, UsersHaveServices
<1> QED BY <1>1, <1>2, <1>3, OneProcess DEF LifespanInv

(* Lingering threads are pending.                                          *)
LEMMA WaitForThreadsKeepsInv ==
  ASSUME LifespanInv, NEW p \in Processes, WaitForThreads(p)
  PROVE  LifespanInv'
<1> USE DEF LifespanInv, LifespanTypeOK, WaitForThreads, Goto
<1>1. LifespanTypeOK'
  BY ProcessAssumption, StepNames, ShutdownOrder DEF Components, Steps, Loops
<1>2. OnlyOf(p)
  BY DEF OnlyOf
<1>3. Phase(p)'
  <2>1. /\ step'[p] = "release" /\ lock' = p /\ alive'[p] = alive[p] /\ stores'[p] = stores[p]
        /\ pending'[p] = ("threads" \in alive[p])
    BY StepNames, ShutdownOrder DEF Phase, HasLock
  <2>2. /\ alive[p] \subseteq {"callback", "threads"} /\ stores[p] # "open"
    <3>1. alive[p] \subseteq Components
      OBVIOUS
    <3>2. /\ alive[p] \cap (Loops \cup {"worker"}) = {} /\ "webhook" \notin alive[p]
          /\ "scheduler" \notin alive[p] /\ "db_close" \notin alive[p] /\ stores[p] # "open"
      BY DEF Phase, StopsInOrder
    <3> QED BY <3>1, <3>2 DEF Components, Loops
  <2> QED
    BY <2>1, <2>2, StepNames, ZenonT(60)
    DEF Users, Loops, Phase, NothingYet, HasLock, StartsInOrder, StopsInOrder,
        CleanRelease, CloseIsLast, OverIsCovered, UsersHaveServices
<1> QED BY <1>1, <1>2, <1>3, OneProcess DEF LifespanInv

(* The lock is released when nothing is left.                              *)
LEMMA ReleaseKeepsInv ==
  ASSUME LifespanInv, NEW p \in Processes, Release(p)
  PROVE  LifespanInv'
<1> USE DEF LifespanInv, LifespanTypeOK, Release, ShutdownPending, Goto
<1>1. LifespanTypeOK'
  BY ProcessAssumption, StepNames DEF Components, Steps, Loops
<1>2. OnlyOf(p)
  BY DEF OnlyOf, Phase, HasLock
<1>3. Phase(p)'
  BY ProcessAssumption, StepNames
  DEF Users, Components, Loops, Phase, NothingYet, HasLock, StartsInOrder, StopsInOrder,
      CleanRelease, CloseIsLast, OverIsCovered, UsersHaveServices
<1> QED BY <1>1, <1>2, <1>3, OneProcess DEF LifespanInv

(* The forced exit.                                                        *)
LEMMA ForceExitKeepsInv ==
  ASSUME LifespanInv, NEW p \in Processes, ForceExit(p)
  PROVE  LifespanInv'
<1> USE DEF LifespanInv, LifespanTypeOK, ForceExit, Dies, Goto
<1>1. LifespanTypeOK'
  BY ProcessAssumption, StepNames DEF Components, Steps, Loops
<1>2. OnlyOf(p)
  BY DEF OnlyOf
<1>3. Phase(p)'
  BY ProcessAssumption, StepNames
  DEF Users, Components, Loops, Phase, NothingYet, HasLock, StartsInOrder, StopsInOrder,
      CleanRelease, CloseIsLast, OverIsCovered, UsersHaveServices
<1> QED BY <1>1, <1>2, <1>3, OneProcess DEF LifespanInv

(* The exit.                                                               *)
LEMMA ExitKeepsInv ==
  ASSUME LifespanInv, NEW p \in Processes, Exit(p)
  PROVE  LifespanInv'
<1> USE DEF LifespanInv, LifespanTypeOK, Exit, Dies, Goto
<1>1. LifespanTypeOK'
  BY ProcessAssumption, StepNames DEF Components, Steps, Loops
<1>2. OnlyOf(p)
  BY DEF OnlyOf
<1>3. Phase(p)'
  BY ProcessAssumption, StepNames
  DEF Users, Components, Loops, Phase, NothingYet, HasLock, StartsInOrder, StopsInOrder,
      CleanRelease, CloseIsLast, OverIsCovered, UsersHaveServices
<1> QED BY <1>1, <1>2, <1>3, OneProcess DEF LifespanInv

(* A crash.                                                                *)
LEMMA CrashKeepsInv ==
  ASSUME LifespanInv, NEW p \in Processes, Crash(p)
  PROVE  LifespanInv'
<1> USE DEF LifespanInv, LifespanTypeOK, Crash, Dies, Goto
<1>1. LifespanTypeOK'
  BY ProcessAssumption, StepNames DEF Components, Steps, Loops
<1>2. OnlyOf(p)
  BY DEF OnlyOf
<1>3. Phase(p)'
  BY ProcessAssumption, StepNames
  DEF Users, Components, Loops, Phase, NothingYet, HasLock, StartsInOrder, StopsInOrder,
      CleanRelease, CloseIsLast, OverIsCovered, UsersHaveServices
<1> QED BY <1>1, <1>2, <1>3, OneProcess DEF LifespanInv

-----------------------------------------------------------------------------
(* No process, no lock: the invariant holds initially.                     *)
LEMMA InitInv == Init => LifespanInv
<1> SUFFICES ASSUME Init PROVE LifespanInv
  OBVIOUS
<1>1. LifespanTypeOK
  BY ProcessAssumption DEF Init, LifespanTypeOK, Steps
<1>2. ASSUME NEW p \in Processes PROVE Phase(p)
  <2>1. /\ step[p] = "absent" /\ lock # p /\ alive[p] = {} /\ stores[p] = "closed" /\ ~ pending[p]
    BY ProcessAssumption DEF Init
  <2> QED
    BY <2>1, StepNames
    DEF Phase, NothingYet, HasLock, StartsInOrder, StopsInOrder, CleanRelease, CloseIsLast,
        OverIsCovered, UsersHaveServices
<1> QED BY <1>1, <1>2 DEF LifespanInv

(* Every step of the processes keeps the invariant.                        *)
LEMMA NextKeepsInv == LifespanInv /\ [Next]_vars => LifespanInv'
<1> SUFFICES ASSUME LifespanInv, [Next]_vars PROVE LifespanInv'
  OBVIOUS
<1>1. CASE UNCHANGED vars
  BY <1>1 DEF LifespanInv, LifespanTypeOK, vars, Phase, NothingYet, HasLock, StartsInOrder,
     StopsInOrder, CleanRelease, CloseIsLast, OverIsCovered, UsersHaveServices
<1>2. ASSUME NEW p \in Processes, StartStep(p) PROVE LifespanInv'
  BY <1>2, BootKeepsInv, AcquireLockKeepsInv, StartupStepKeepsInv, StartupFailsKeepsInv
     DEF StartStep
<1>3. ASSUME NEW p \in Processes, WorkStep(p) PROVE LifespanInv'
  BY <1>3, FireKeepsInv, CallbackEndsKeepsInv, SubmitKeepsInv, ThreadsQuiesceKeepsInv,
     SignalKeepsInv, WorkerLostKeepsInv, DrainedKeepsInv, ResolvesKeepsInv DEF WorkStep
<1>4. ASSUME NEW p \in Processes, ShutdownStep(p) PROVE LifespanInv'
  BY <1>4, StopTaskKeepsInv, StopSchedulerKeepsInv, CheckOwnedKeepsInv,
     CloseWebhookKeepsInv, CloseDatabasesKeepsInv, WaitForThreadsKeepsInv,
     ReleaseKeepsInv DEF ShutdownStep
<1>5. ASSUME NEW p \in Processes, Ends(p) PROVE LifespanInv'
  BY <1>5, ForceExitKeepsInv, ExitKeepsInv, CrashKeepsInv DEF Ends
<1> QED BY <1>1, <1>2, <1>3, <1>4, <1>5 DEF Next

-----------------------------------------------------------------------------
(* The phases of lifespan (main.py) hold of every process that was ever    *)
(* started: LifespanInv is inductive.                                      *)
THEOREM LifespanInvariant == Spec => []LifespanInv
  BY InitInv, NextKeepsInv, PTL DEF Spec

(* A process without the instance lock runs no loop, worker, dispatcher or *)
(* thread and has no open stores, whichever step of startup failed and     *)
(* whatever outlived the shutdown deadline; at most closing them raised    *)
(* (main.py, runtime/instance_guard.py, storage/database.py).              *)
THEOREM LockCoversWorkHolds == Spec => []LockCoversWork
<1>1. LifespanInv => LockCoversWork
  <2> SUFFICES ASSUME LifespanInv, NEW p \in Processes, lock # p
               PROVE  alive[p] \subseteq {"callback"} /\ stores[p] # "open"
    BY DEF LockCoversWork, LifespanInv
  <2>1. step[p] \in {"absent", "lock", "over"}
    BY DEF LifespanInv, Phase, HasLock
  <2> QED BY <2>1 DEF LifespanInv, Phase, NothingYet, OverIsCovered
<1> QED BY <1>1, LifespanInvariant, PTL

(* The stores stay open while a loop, the worker or the dispatcher runs,   *)
(* and the dispatcher while the worker or the loop that settles lost runs  *)
(* does: _shutdown_runtime_services (main.py) closes nothing under a user. *)
THEOREM ServicesOutliveUsersHold == Spec => []ServicesOutliveUsers
<1>1. LifespanInv => ServicesOutliveUsers
  BY DEF LifespanInv, Phase, UsersHaveServices, Users, ServicesOutliveUsers
<1> QED BY <1>1, LifespanInvariant, PTL
=============================================================================
