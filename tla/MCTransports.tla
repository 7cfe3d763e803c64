---------------------------- MODULE MCTransports ----------------------------
(* Instances of Transports for TLC: how uploaders are configured.          *)
EXTENDS Transports

CONSTANTS p, q

\* HybridTransport as replBridge makes it: a queue that is never full, and a
\* limit of failures.
Hybrid == [batch |-> 2, queue |-> 9, measured |-> FALSE, retries |-> 2,
           refuses |-> TRUE, bad |-> {}, client |-> "hybrid"]
\* CCRClient's eventUploader, internalEventUploader and deliveryUploader
Ccr == [Hybrid EXCEPT !.measured = TRUE, !.retries = 0, !.refuses = FALSE, !.client = "ccr"]
Internal == [Ccr EXCEPT !.queue = 1, !.client = "plain"]
Delivery == [Internal EXCEPT !.measured = FALSE, !.batch = 1]

Uploaders == {Hybrid, Ccr, Internal, [Internal EXCEPT !.bad = {1, 3}], Delivery}
=============================================================================
