------------------------- MODULE MCWebhookDispatcher -------------------------
(* One delivery, two workers; the inserter notifies the dispatcher or not.   *)
EXTENDS WebhookDispatcher
CONSTANTS d1, w1, w2
OneDelivery == {d1}
TwoWorkers == {w1, w2}
=============================================================================
