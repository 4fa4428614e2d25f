--------------------------- MODULE MCPortSettings ---------------------------
(* An instance of PortSettings for TLC *)
EXTENDS PortSettings, TLC

(* Port 0 has 4 queues and no virtual functions; the VMDq pools of port 1  *)
(* begin after its own 2 queues.                                           *)
MCDevInfo ==
    0 :> [max_queues |-> 4, nb_queues |-> 0, max_vfs |-> 0, vmdq_pool_base |-> 0] @@
    1 :> [max_queues |-> 4, nb_queues |-> 2, max_vfs |-> 1, vmdq_pool_base |-> 2]

McSymmetry == Permutations(McAddrs)
=============================================================================
