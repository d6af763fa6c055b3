--------------------------- MODULE MCDeliveryQueue ---------------------------
(* One slot, a high-priority run and a low-priority one. *)
EXTENDS DeliveryQueue
CONSTANTS r1, r2
TwoRuns == {r1, r2}
MCPriorityOf == [r \in Runs |-> IF r = r2 THEN "low" ELSE "high"]
OnlyLow == {r2}
=============================================================================
