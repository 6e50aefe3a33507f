------------------------------- MODULE MCRpc -------------------------------
(* Instances of the remote calls for TLC. *)
EXTENDS Rpc, TLC

\* Both queues go with their consumers, as in the documentation, or neither.
MCAutoDeletes == {<<TRUE, TRUE>>, <<FALSE, FALSE>>}
=============================================================================
