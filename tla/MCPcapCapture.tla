--------------------------- MODULE MCPcapCapture ---------------------------
(* Instances of PcapCapture for TLC. *)
EXTENDS PcapCapture

(* A short packet of each NIC, then long ones *)
ShortThenLong == [n \in 1 .. MaxPackets |-> IF n = 1 THEN 1 ELSE 2]
=============================================================================
