---------------------------- MODULE PacketQueue ----------------------------
(***************************************************************************)
(* What slaveCoreRx and dpdk_masterRx rely on a ring for: a bounded queue  *)
(* of packets. A packet put in is taken out once, in order, and nothing    *)
(* else ever is.                                                           *)
(***************************************************************************)
EXTENDS Integers, Sequences

CONSTANTS Item, Capacity

VARIABLES
    queue,      \* the packets in the ring
    taken       \* the packets taken out so far, oldest first

Init == queue = <<>> /\ taken = <<>>

Put(x) ==
    /\ Len(queue) < Capacity
    /\ queue' = Append(queue, x)
    /\ UNCHANGED taken

Take(n) ==
    /\ taken' = taken \o SubSeq(queue, 1, n)
    /\ queue' = SubSeq(queue, n + 1, Len(queue))

Next == (\E x \in Item : Put(x)) \/ (\E n \in 1 .. Len(queue) : Take(n))

Spec == Init /\ [][Next]_<<queue, taken>>
=============================================================================
