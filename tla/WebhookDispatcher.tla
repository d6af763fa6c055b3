--------------------------- MODULE WebhookDispatcher ---------------------------
(***************************************************************************)
(* The webhook outbox (storage/webhook_outbox.py) and the dispatcher that  *)
(* empties it (webhook/dispatcher.py): one coordinator that reads batches  *)
(* of exhausted and due rows into a bounded queue, and a fixed number of   *)
(* workers that reserve an attempt, POST, and record the outcome.          *)
(*                                                                         *)
(* A row read by the coordinator is a snapshot: workers may have settled   *)
(* or retried the delivery before the snapshot is queued or used.  Every   *)
(* await of the two loops ends a step.                                     *)
(*                                                                         *)
(* Abstractions.  Times are reduced to the two comparisons made with them: *)
(* next_attempt_at <= now (due) and created_at + max age <= now (aged).    *)
(* The order of the bounded batches is not modelled.  Undecodable rows     *)
(* (the quarantine) are left out.                                          *)
(***************************************************************************)
EXTENDS Integers, FiniteSets

CONSTANTS
    Deliveries,   \* webhook_deliveries.delivery_id
    Workers,      \* settings.webhook_dispatch_concurrency worker tasks
    MaxAttempts,  \* settings.webhook_max_delivery_attempts
    BatchSize,    \* settings.webhook_dispatch_batch_size
    Nobody,       \* no delivery
    MaxFaults     \* bound on crashes, shutdowns and store errors

ASSUME AttemptsAssumption == MaxAttempts \in Nat \ {0}
ASSUME BatchAssumption == BatchSize \in Nat \ {0}
ASSUME DeliveriesFinite == IsFiniteSet(Deliveries)
ASSUME FaultsAssumption == MaxFaults \in Nat
ASSUME NobodyAssumption == Nobody \notin Deliveries

VARIABLES
    status,     \* webhook_deliveries.status; "none" before, "gone" after the row exists
    attempts,   \* webhook_deliveries.attempts
    due,        \* next_attempt_at <= now
    aged,       \* now >= created_at + max_delivery_age_seconds
    notifying,  \* deliveries whose inserter has still to call notify
    wake,       \* _wake_event
    mode,       \* the dispatcher: "up", "draining" or "down"
    coord,      \* the coordinator task
    queue,      \* the bounded queue: row snapshots
    scheduled,  \* _scheduled_ids
    worker,     \* the worker tasks
    posts,      \* HTTP requests started for the row
    faults      \* faults injected so far

rowVars == <<status, attempts, due, aged>>
dispatchVars == <<wake, mode, coord, queue, scheduled, worker>>
vars == <<status, attempts, due, aged, notifying, wake, mode, coord, queue, scheduled,
          worker, posts, faults>>

\* A row as read: the fields the dispatcher compares later.
Snapshot == [id : Deliveries, attempts : Nat]
SnapshotOf(d) == [id |-> d, attempts |-> attempts[d]]

CoordState ==
    [pc : {"clear", "exhausted", "fail", "put", "next", "wait", "stopped"},
     batch : SUBSET Snapshot,
     worked : BOOLEAN,      \* exhausted_count > 0
     timed : BOOLEAN]       \* the wait has a timeout

\* at: attempts of the snapshot, of the reserved row once there is one.
\* mark: what will be recorded.
WorkerState ==
    [pc : {"get", "check", "exhaust", "reserve", "post", "sent", "mark", "stopped"},
     id : Deliveries \cup {Nobody}, at : Nat,
     mark : {"none", "delivered", "failed", "retry"}]

CoordStart == [pc |-> "clear", batch |-> {}, worked |-> FALSE, timed |-> FALSE]
CoordWaits(timed) == [pc |-> "wait", batch |-> {}, worked |-> FALSE, timed |-> timed]
CoordStopped == [pc |-> "stopped", batch |-> {}, worked |-> FALSE, timed |-> FALSE]
Free == [pc |-> "get", id |-> Nobody, at |-> 0, mark |-> "none"]
Stopped == [pc |-> "stopped", id |-> Nobody, at |-> 0, mark |-> "none"]

DispatcherTypeOK ==
    /\ status \in [Deliveries -> {"none", "pending", "delivered", "failed", "gone"}]
    /\ attempts \in [Deliveries -> Nat]
    /\ due \in [Deliveries -> BOOLEAN]
    /\ aged \in [Deliveries -> BOOLEAN]
    /\ notifying \subseteq Deliveries
    /\ wake \in BOOLEAN
    /\ mode \in {"up", "draining", "down"}
    /\ coord \in CoordState
    /\ queue \subseteq Snapshot
    /\ scheduled \subseteq Deliveries
    /\ worker \in [Workers -> WorkerState]
    /\ posts \in [Deliveries -> Nat]
    /\ faults \in 0..MaxFaults

Init ==
    /\ status = [d \in Deliveries |-> "none"]
    /\ attempts = [d \in Deliveries |-> 0]
    /\ due = [d \in Deliveries |-> FALSE]
    /\ aged = [d \in Deliveries |-> FALSE]
    /\ notifying = {}
    /\ wake = TRUE
    /\ mode = "up"
    /\ coord = CoordStart
    /\ queue = {}
    /\ scheduled = {}
    /\ worker = [w \in Workers |-> Free]
    /\ posts = [d \in Deliveries |-> 0]
    /\ faults = 0

Fault == faults < MaxFaults /\ faults' = faults + 1

Exhausted(d) == attempts[d] >= MaxAttempts \/ aged[d]

\* The compare-and-set of every update: the row is pending and no attempt was
\* reserved since it was read.
StillPending(d, at) == status[d] = "pending" /\ attempts[d] = at

-----------------------------------------------------------------------------
(* Intents and time *)

\* insert_webhook_delivery in a terminal transaction.  The inserter notifies
\* the dispatcher afterwards, but not every one does: a worker may be cancelled
\* once its transaction has committed, a sweep in which another candidate
\* failed raises before its notify, and the repair a trigger runs has none.
InsertIntent(d, notifies) ==
    /\ status[d] = "none"
    /\ status' = [status EXCEPT ![d] = "pending"]
    /\ due' = [due EXCEPT ![d] = TRUE]
    /\ notifying' = IF notifies THEN notifying \cup {d} ELSE notifying
    /\ UNCHANGED <<attempts, aged, posts, faults>> /\ UNCHANGED dispatchVars

\* notify: ignored unless the dispatcher accepts tasks.
Notify(d) ==
    /\ d \in notifying
    /\ notifying' = notifying \ {d}
    /\ wake' = (wake \/ mode = "up")
    /\ UNCHANGED <<mode, coord, queue, scheduled, worker, posts, faults>>
    /\ UNCHANGED rowVars

BecomeDue(d) ==
    /\ status[d] = "pending" /\ ~due[d]
    /\ due' = [due EXCEPT ![d] = TRUE]
    /\ UNCHANGED <<status, attempts, aged, notifying, posts, faults>>
    /\ UNCHANGED dispatchVars

BecomeAged(d) ==
    /\ status[d] = "pending" /\ ~aged[d]
    /\ aged' = [aged EXCEPT ![d] = TRUE]
    /\ UNCHANGED <<status, attempts, due, notifying, posts, faults>>
    /\ UNCHANGED dispatchVars

\* finalize_job_deletion or history retention removes a settled row.
ForgetRow(d) ==
    /\ status[d] \in {"delivered", "failed"}
    /\ status' = [status EXCEPT ![d] = "gone"]
    /\ attempts' = [attempts EXCEPT ![d] = 0]
    /\ due' = [due EXCEPT ![d] = FALSE]
    /\ aged' = [aged EXCEPT ![d] = FALSE]
    /\ posts' = [posts EXCEPT ![d] = 0]
    /\ UNCHANGED <<notifying, faults>>
    /\ UNCHANGED dispatchVars

-----------------------------------------------------------------------------
(* _coordinator_loop *)

OnlyCoord == UNCHANGED <<notifying, mode, queue, scheduled, worker, posts>>

CoordGoes(pc, batch) == coord' = [coord EXCEPT !.pc = pc, !.batch = batch]

\* The top of the loop.
CoordClear ==
    /\ coord.pc = "clear"
    /\ wake' = FALSE
    /\ coord' = [coord EXCEPT !.pc = "exhausted"]
    /\ OnlyCoord /\ UNCHANGED <<faults>> /\ UNCHANGED rowVars

\* At most BatchSize of the rows a query selects.
Batches(rows) == {b \in SUBSET rows : Cardinality(b) = BatchSize \/ (b = rows /\ Cardinality(rows) < BatchSize)}

ReadExhausted ==
    /\ coord.pc = "exhausted"
    /\ \E rows \in Batches({d \in Deliveries : status[d] = "pending" /\ Exhausted(d)}) :
         CoordGoes("fail", {SnapshotOf(d) : d \in rows})
    /\ OnlyCoord /\ UNCHANGED <<wake, faults>> /\ UNCHANGED rowVars

\* _fail_if_exhausted for a row that is not scheduled.
FailExhausted(snap) ==
    /\ coord.pc = "fail"
    /\ snap \in coord.batch
    /\ coord' = [coord EXCEPT !.batch = @ \ {snap},
                              !.worked = @ \/ snap.id \notin scheduled]
    /\ status' = IF snap.id \notin scheduled /\ StillPending(snap.id, snap.attempts)
                   THEN [status EXCEPT ![snap.id] = "failed"] ELSE status
    /\ OnlyCoord /\ UNCHANGED <<wake, faults, attempts, due, aged>>

ReadDue ==
    /\ coord.pc = "fail"
    /\ coord.batch = {}
    /\ \E rows \in Batches({d \in Deliveries : status[d] = "pending" /\ due[d]}) :
         CoordGoes("put", {SnapshotOf(d) : d \in rows})
    /\ OnlyCoord /\ UNCHANGED <<wake, faults>> /\ UNCHANGED rowVars

\* Mutant: a due row is queued although it is scheduled.
PutAllDue ==
    /\ coord.pc = "put"
    /\ \E put \in SUBSET coord.batch :
         /\ put # {}
         /\ Cardinality(put) <= BatchSize - Cardinality(queue)
         /\ queue' = queue \cup put
         /\ scheduled' = scheduled \cup {snap.id : snap \in put}
    /\ coord' = CoordStart
    /\ UNCHANGED <<notifying, wake, mode, worker, posts, faults>> /\ UNCHANGED rowVars

\* put_nowait of what is not scheduled, until the queue is full.
PutDue ==
    LET fits == {snap \in coord.batch : snap.id \notin scheduled}
        room == BatchSize - Cardinality(queue)
    IN  /\ coord.pc = "put"
        /\ \E put \in SUBSET fits :
             /\ Cardinality(put) = room \/ (put = fits /\ Cardinality(fits) < room)
             /\ queue' = queue \cup put
             /\ scheduled' = scheduled \cup {snap.id : snap \in put}
             /\ IF Cardinality(queue \cup put) = BatchSize \/ (coord.batch # {} /\ put = {})
                  THEN coord' = CoordWaits(TRUE)
                  ELSE IF put # {} \/ coord.worked THEN coord' = CoordStart
                  ELSE CoordGoes("next", {})
    /\ UNCHANGED <<notifying, wake, mode, worker, posts, faults>> /\ UNCHANGED rowVars

\* Mutant: only a row that is still to come due bounds the wait.
ReadNextFuture ==
    /\ coord.pc = "next"
    /\ coord' = CoordWaits(\E d \in Deliveries : status[d] = "pending" /\ ~due[d])
    /\ OnlyCoord /\ UNCHANGED <<wake, faults>> /\ UNCHANGED rowVars

\* next_pending_due_at and oldest_pending_created_at, two reads of which the
\* second decides: without a pending row the wait has no timeout.
ReadNext ==
    /\ coord.pc = "next"
    /\ coord' = CoordWaits(\E d \in Deliveries : status[d] = "pending")
    /\ OnlyCoord /\ UNCHANGED <<wake, faults>> /\ UNCHANGED rowVars

\* _wait_for_wake returns.
CoordWakes ==
    /\ coord.pc = "wait"
    /\ wake \/ coord.timed
    /\ coord' = CoordStart
    /\ OnlyCoord /\ UNCHANGED <<wake, faults>> /\ UNCHANGED rowVars

\* The store fails: retry after a fixed delay.
CoordRaises ==
    /\ coord.pc \in {"exhausted", "fail", "next"}
    /\ Fault
    /\ coord' = CoordWaits(TRUE)
    /\ OnlyCoord /\ UNCHANGED <<wake>> /\ UNCHANGED rowVars

-----------------------------------------------------------------------------
(* _worker_loop and _process_delivery *)

OnlyWorker == UNCHANGED <<notifying, mode, coord, queue>>

WorkerGoes(w, pc) == worker' = [worker EXCEPT ![w].pc = pc]

\* The finally block: the delivery may be scheduled again.
WorkerEnds(w) ==
    /\ worker' = [worker EXCEPT ![w] = IF mode = "draining" /\ queue = {} THEN Stopped ELSE Free]
    /\ scheduled' = scheduled \ {worker[w].id}
    /\ wake' = TRUE

GetDelivery(w, snap) ==
    /\ worker[w].pc = "get"
    /\ snap \in queue
    /\ queue' = queue \ {snap}
    /\ worker' = [worker EXCEPT ![w] = [pc |-> "check", id |-> snap.id, at |-> snap.attempts,
                                        mark |-> "none"]]
    /\ UNCHANGED <<notifying, wake, mode, coord, scheduled, posts, faults>>
    /\ UNCHANGED rowVars

\* Mutant: only the age is checked.
CheckAge(w) ==
    /\ worker[w].pc = "check"
    /\ WorkerGoes(w, IF aged[worker[w].id] THEN "exhaust" ELSE "reserve")
    /\ OnlyWorker /\ UNCHANGED <<wake, scheduled, posts, faults>> /\ UNCHANGED rowVars

\* _fail_if_exhausted on the snapshot.
CheckExhausted(w) ==
    /\ worker[w].pc = "check"
    /\ WorkerGoes(w, IF worker[w].at >= MaxAttempts \/ aged[worker[w].id]
                       THEN "exhaust" ELSE "reserve")
    /\ OnlyWorker /\ UNCHANGED <<wake, scheduled, posts, faults>> /\ UNCHANGED rowVars

\* Mutant: the update does not require the row to be pending.
FailAnyDelivery(w) ==
    LET d == worker[w].id IN
    /\ worker[w].pc = "exhaust"
    /\ status' = IF attempts[d] = worker[w].at THEN [status EXCEPT ![d] = "failed"] ELSE status
    /\ WorkerEnds(w)
    /\ OnlyWorker /\ UNCHANGED <<attempts, due, aged, posts, faults>>

\* _fail_delivery of the exhausted snapshot.
FailDelivery(w) ==
    LET d == worker[w].id IN
    /\ worker[w].pc = "exhaust"
    /\ status' = IF StillPending(d, worker[w].at) THEN [status EXCEPT ![d] = "failed"] ELSE status
    /\ WorkerEnds(w)
    /\ OnlyWorker /\ UNCHANGED <<attempts, due, aged, posts, faults>>

\* begin_attempt.
BeginAttempt(w) ==
    LET d == worker[w].id IN
    /\ worker[w].pc = "reserve"
    /\ IF StillPending(d, worker[w].at)
         THEN /\ attempts' = [attempts EXCEPT ![d] = @ + 1]
              /\ worker' = [worker EXCEPT ![w].pc = "post", ![w].at = @ + 1]
              /\ UNCHANGED <<wake, scheduled>>
         ELSE UNCHANGED attempts /\ WorkerEnds(w)
    /\ OnlyWorker /\ UNCHANGED <<status, due, aged, posts, faults>>

\* send_once: the request starts ...
SendOnce(w) ==
    /\ worker[w].pc = "post"
    /\ posts' = [posts EXCEPT ![worker[w].id] = @ + 1]
    /\ WorkerGoes(w, "sent")
    /\ OnlyWorker /\ UNCHANGED <<wake, scheduled, faults>> /\ UNCHANGED rowVars

\* What a retryable result leads to; the last disjunct is a next retry time at
\* or beyond the age deadline.
AfterRetryable(w, mark) ==
    \/ mark = "failed" /\ (worker[w].at >= MaxAttempts \/ aged[worker[w].id])
    \/ mark = "retry" /\ worker[w].at < MaxAttempts /\ ~aged[worker[w].id]
    \/ mark = "failed" /\ worker[w].at < MaxAttempts /\ ~aged[worker[w].id]

\* ... and is answered, or fails to be.
Answered(w, result, mark) ==
    /\ worker[w].pc = "sent"
    /\ \/ result = "delivered" /\ mark = "delivered"
       \/ result = "permanent_failed" /\ mark = "failed"
       \/ result = "retryable_failed" /\ AfterRetryable(w, mark)
    /\ worker' = [worker EXCEPT ![w].pc = "mark", ![w].mark = mark]
    /\ OnlyWorker /\ UNCHANGED <<wake, scheduled, posts, faults>> /\ UNCHANGED rowVars

\* mark_delivered, mark_failed, mark_retryable_failure.
Mark(w) ==
    LET d == worker[w].id IN
    /\ worker[w].pc = "mark"
    /\ IF StillPending(d, worker[w].at)
         THEN IF worker[w].mark = "retry"
                THEN due' = [due EXCEPT ![d] = FALSE] /\ UNCHANGED status
                ELSE status' = [status EXCEPT ![d] = worker[w].mark] /\ UNCHANGED due
         ELSE UNCHANGED <<status, due>>
    /\ WorkerEnds(w)
    /\ OnlyWorker /\ UNCHANGED <<attempts, aged, posts, faults>>

\* The store raises: the row is left pending.
WorkerRaises(w) ==
    /\ worker[w].pc \in {"exhaust", "reserve", "mark"}
    /\ Fault
    /\ WorkerEnds(w)
    /\ OnlyWorker /\ UNCHANGED <<posts>> /\ UNCHANGED rowVars

-----------------------------------------------------------------------------
(* Shutdown, death and startup *)

\* shutdown: the coordinator is cancelled, the queue is drained ...
BeginShutdown ==
    /\ mode = "up"
    /\ Fault
    /\ mode' = "draining"
    /\ coord' = CoordStopped
    /\ wake' = TRUE
    /\ UNCHANGED <<notifying, queue, scheduled, worker, posts>> /\ UNCHANGED rowVars

\* ... until it is empty and every worker idle, or the deadline passes; then
\* the workers are cancelled wherever they are.
EndShutdown ==
    /\ mode = "draining"
    /\ mode' = "down"
    /\ worker' = [w \in Workers |-> Stopped]
    /\ queue' = {}
    /\ scheduled' = {}
    /\ UNCHANGED <<notifying, wake, coord, posts, faults>> /\ UNCHANGED rowVars

\* The process dies: also those that were about to notify.
Crash ==
    /\ mode # "down"
    /\ Fault
    /\ mode' = "down"
    /\ coord' = CoordStopped
    /\ worker' = [w \in Workers |-> Stopped]
    /\ queue' = {}
    /\ scheduled' = {}
    /\ notifying' = {}
    /\ UNCHANGED <<wake, posts>> /\ UNCHANGED rowVars

Startup ==
    /\ mode = "down"
    /\ mode' = "up"
    /\ coord' = CoordStart
    /\ worker' = [w \in Workers |-> Free]
    /\ wake' = TRUE
    /\ notifying' = {}
    /\ UNCHANGED <<queue, scheduled, posts, faults>> /\ UNCHANGED rowVars

-----------------------------------------------------------------------------
CoordStep ==
    \/ CoordClear \/ ReadExhausted \/ ReadDue \/ PutDue \/ ReadNext \/ CoordWakes
    \/ \E snap \in coord.batch : FailExhausted(snap)

WorkerStep(w) ==
    \/ \E snap \in queue : GetDelivery(w, snap)
    \/ CheckExhausted(w) \/ FailDelivery(w) \/ BeginAttempt(w) \/ SendOnce(w) \/ Mark(w)
    \/ \E result \in {"delivered", "permanent_failed", "retryable_failed"},
          mark \in {"delivered", "failed", "retry"} : Answered(w, result, mark)

Next ==
    \/ \E d \in Deliveries :
         \/ \E notifies \in BOOLEAN : InsertIntent(d, notifies)
         \/ Notify(d) \/ BecomeDue(d) \/ BecomeAged(d) \/ ForgetRow(d)
    \/ CoordStep \/ CoordRaises
    \/ \E w \in Workers : WorkerStep(w) \/ WorkerRaises(w)
    \/ BeginShutdown \/ EndShutdown \/ Crash \/ Startup

Spec == Init /\ [][Next]_vars

(***************************************************************************)
(* Fairness.  Tasks that can run do run, an HTTP exchange is bounded by    *)
(* its timeout, time passes, a stopped process is started again, and an    *)
(* inserter that got as far as its notify completes it.                    *)
(***************************************************************************)
Fairness ==
    /\ WF_vars(CoordStep)
    /\ \A w \in Workers : WF_vars(WorkerStep(w))
    /\ \A d \in Deliveries : WF_vars(Notify(d)) /\ WF_vars(BecomeDue(d)) /\ WF_vars(BecomeAged(d))
    /\ WF_vars(EndShutdown) /\ WF_vars(Startup)

FairSpec == Spec /\ Fairness

-----------------------------------------------------------------------------
(* Properties *)

InFlight(w) == worker[w].pc \notin {"get", "stopped"}

\* Two workers never hold the same delivery, although the coordinator queues
\* from snapshots that may be older than a worker's last step.
OneWorkerPerDelivery ==
    \A v, w \in Workers : InFlight(v) /\ InFlight(w) /\ worker[v].id = worker[w].id => v = w

\* Requests started never exceed the attempts reserved, nor these the limit,
\* across store errors, shutdowns and restarts.
AttemptBudget ==
    \A d \in Deliveries : posts[d] <= attempts[d] /\ attempts[d] <= MaxAttempts

\* From the reservation on, the row stays pending with that reservation until
\* the worker records the outcome: nobody fails, retries or removes it in
\* between, so the outcome of a request is lost only with the process.
ReservationIsOwned ==
    \A w \in Workers : worker[w].pc \in {"post", "sent", "mark"} =>
        StillPending(worker[w].id, worker[w].at)

\* What is queued or held by a worker is in _scheduled_ids, at one place only:
\* a snapshot that is queued twice, or queued while a worker has its delivery,
\* would be sent twice.
ScheduledOnce ==
    /\ \A snap \in queue : snap.id \in scheduled
    /\ \A s, t \in queue : s.id = t.id => s = t
    /\ \A s, t \in coord.batch : s.id = t.id => s = t
    /\ \A w \in Workers : InFlight(w) =>
          /\ worker[w].id \in scheduled
          /\ \A snap \in queue : snap.id # worker[w].id

\* A worker that is past its get has a delivery.
InFlightIsDelivery == \A w \in Workers : InFlight(w) => worker[w].id \in Deliveries

\* A reservation is made below the limit only, and pays for the one request
\* that follows it.
ReservationPays ==
    \A w \in Workers :
        /\ worker[w].pc = "reserve" => worker[w].at < MaxAttempts
        /\ worker[w].pc = "post" => posts[worker[w].id] < attempts[worker[w].id]

\* The type invariant with the five, which is inductive together with
\* AttemptBudget.
DispatcherInv ==
    /\ DispatcherTypeOK
    /\ InFlightIsDelivery
    /\ OneWorkerPerDelivery
    /\ ReservationIsOwned
    /\ ScheduledOnce
    /\ ReservationPays

\* The step leaves a settled delivery settled and starts no request for it.
KeepsSettled(d) ==
    status[d] \in {"delivered", "failed", "gone"} =>
        /\ status'[d] \in {status[d], "gone"}
        /\ posts'[d] <= posts[d]

\* A settled delivery is never pending again and never POSTed again, even from
\* a stale snapshot.
SettledIsFinal == [][\A d \in Deliveries : KeepsSettled(d)]_vars

\* The coordinator waits without a timeout and nobody is about to wake it: a
\* row inserted silently now stays where it is until the next notify or
\* restart.
Asleep == coord.pc = "wait" /\ ~coord.timed /\ ~wake /\ notifying = {}

\* A delivery that is pending while the coordinator is not fast asleep is
\* settled eventually, whether or not its inserter notifies: no wakeup is lost
\* between the coordinator's clear, its reads and its wait, a row left by a
\* fault or a restart keeps the wait timed, and no id stays in _scheduled_ids
\* after its worker failed (webhook/dispatcher.py, _coordinator_loop).
PendingSettles ==
    \A d \in Deliveries : (status[d] = "pending" /\ ~Asleep) ~> (status[d] # "pending")
=============================================================================
