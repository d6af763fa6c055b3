------------------------------ MODULE Delivery ------------------------------
(***************************************************************************)
(* What the queue promises of the deliveries of runs, as inspect_delivery  *)
(* (queue/pool.py) reports them.  DeliveryQueue, the pool with its Redis   *)
(* keys, implements it; RunWorker keeps one of these states per run.       *)
(* Several deliveries may change in one step: a restart releases all the   *)
(* deliveries a dead process was running.                                  *)
(***************************************************************************)
CONSTANT Runs

VARIABLE state

DeliveryState == {"missing", "queued", "in_progress", "complete"}

\* QueueDeliveryState and the changes a delivery can go through: it is
\* enqueued, started, finished, released to start again, taken out before it
\* starts or lost with its payload, and forgotten when its result expires.  A
\* delivery that lost its payload after its admission is still picked up, to be
\* dismissed without reaching the handler.
DeliveryStep ==
    {<<"missing", "queued">>, <<"queued", "in_progress">>, <<"in_progress", "complete">>,
     <<"in_progress", "queued">>, <<"in_progress", "missing">>, <<"queued", "missing">>,
     <<"complete", "missing">>, <<"missing", "in_progress">>}

Init == state = [r \in Runs |-> "missing"]

Next ==
    /\ state' \in [Runs -> DeliveryState]
    /\ \A r \in Runs : state'[r] = state[r] \/ <<state[r], state'[r]>> \in DeliveryStep

Spec == Init /\ [][Next]_state
=============================================================================
