--------------------------- MODULE MCCapturePath ---------------------------
(* Small instances of CapturePath for TLC. *)
EXTENDS CapturePath

(* Two flows on different rings, one whose addresses add up to more than Word; *)
TwoFlows == {[ver |-> 4, src |-> 6, dst |-> 5], [ver |-> 6, src |-> 3, dst |-> 3]}
(* a flow and a non-IP frame, which goes to ring 0. *)
OneFlowAndArp == {[ver |-> 4, src |-> 1, dst |-> 2], [ver |-> 0, src |-> 3, dst |-> 0]}

(* What conf[1] says and what sendQueue2 reads, any way *)
AnySave == [conf : {"1", "0"}, read : {"1", "0", "unmapped"}]
(* The hash of the NIC: v4 flows to queue 0, the rest to the last queue. *)
ByVersion == [h \in Header |-> IF h.ver = 4 THEN 0 ELSE QueueNum - 1]
=============================================================================
