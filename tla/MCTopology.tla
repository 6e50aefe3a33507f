----------------------------- MODULE MCTopology -----------------------------
(* Instances of the restored topology for TLC. *)
EXTENDS Topology, TLC

CONSTANTS x1, x2, q

B(source, key, dest) == [source |-> source, key |-> key, dest |-> dest]

MCBindings == {B(x1, "k1", x2), B(x1, "k2", x2), B(x2, "k1", q)}
MCConsumers == {[queue |-> q, tag |-> "t"]}
MCDeletes == {<<"Exchange", x2>>, <<"exchange_delete", x2>>,
              <<"Queue", q>>, <<"queue_delete", q>>}
MCDirect == {B(x1, "k1", q)}
MCDeleteExchange == {<<"Exchange", x1>>}
MCNone == {}
=============================================================================
