----------------------------- MODULE MCConsumer -----------------------------
(* Instances of the queue iterator for TLC. *)
EXTENDS QueueIterator, TLC

Default == [requeue |-> FALSE, reject_on_redelivered |-> FALSE,
            ignore_processed |-> FALSE, no_ack |-> FALSE]
MCModes == {Default, [Default EXCEPT !.no_ack = TRUE]}
=============================================================================
