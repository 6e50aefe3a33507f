---------------------------- MODULE MCSettlement ----------------------------
(* Instances of the settlement of messages for TLC. *)
EXTENDS Settlement, TLC

Default == [requeue |-> FALSE, reject_on_redelivered |-> FALSE,
            ignore_processed |-> FALSE, no_ack |-> FALSE]
MCModes == {Default,
            [Default EXCEPT !.requeue = TRUE, !.reject_on_redelivered = TRUE],
            [Default EXCEPT !.requeue = TRUE, !.ignore_processed = TRUE],
            [Default EXCEPT !.no_ack = TRUE, !.ignore_processed = TRUE]}
=============================================================================
