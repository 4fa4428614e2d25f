------------------------------ MODULE MCTxPath ------------------------------
(* Ports with as many queues as rings, with fewer, and with more. *)
EXTENDS TxPath

MCShapes == {<<2, 2>>, <<2, 1>>, <<1, 2>>}
(* Two calls follow each other; beside a ring nobody drains, four. *)
MCMaxClones == [s \in MCShapes |-> IF s = <<2, 1>> THEN 13 ELSE 8]
=============================================================================
