------------------------------- MODULE TxPath -------------------------------
(***************************************************************************)
(* The transmit path of one port: dpdk_sendPacket clones a packet and      *)
(* gives the clones to dpdk_masterTx_a, which distributes them, a burst at *)
(* a time, over the port's transmit rings; the port's transmit lcore       *)
(* (slaveCoreTx) takes bursts from the rings and hands them to the NIC,    *)
(* which gives the mbufs back to the pool when it has sent them.           *)
(*                                                                         *)
(* One thread of the application sends to the port: the rings are created  *)
(* for one producer, and RxRing shows what becomes of them with two. So an *)
(* enqueue or a dequeue is one step.                                       *)
(***************************************************************************)
EXTENDS Integers, Sequences, FiniteSets, Functions

CONSTANTS
    Shapes,         \* the pairs <<port_ringnum, port_queuenum>> of the port
    Burst,          \* BURST_SIZE
    RingSize,       \* packets a ring can hold
    NumMbufs,       \* mbufs in the pool
    Traffic,        \* packets dpdk_testReadTraffic sends in one call
    Times,          \* how many times dpdk_sendPacket is asked to send
    MaxClones,      \* bound on the packets cloned in all, for each shape
    MaxFailures     \* bound on the calls that run out of memory

ASSUME TxAssumption ==
    /\ Shapes \subseteq (Nat \ {0}) \X (Nat \ {0})
    /\ {Burst, RingSize, NumMbufs, Traffic, MaxFailures} \subseteq Nat \ {0}
    /\ MaxClones \in [Shapes -> Nat \ {0}]
    /\ Times \subseteq Nat \ {0}
    /\ Burst <= RingSize
    /\ Burst < Traffic

VARIABLES
    ring_num, queue_num,
    apc,            \* where the application is, "idle" outside a call
    batch,          \* clones it makes before it distributes them
    times, i,       \* of dpdk_sendPacket
    outOfMem,       \* the call could not clone a packet
    tmp,            \* the clones of dpdk_sendPacket's current batch
    nb_distributed, \* of dpdk_masterTx_a
    target,         \* its loop counter, the ring to try
    cloned,         \* packets cloned so far; they are numbered in that order
    lost,           \* clones that nobody will send or free
    failures,       \* calls that ended out of memory
    txring,         \* txring[r]: ctx->txring[port][r]
    cpc,            \* where the lcore is in slaveCoreTx
    ring, queue,    \* its loop counters
    bufs, v_tx,     \* its burst, and how much of it the NIC has taken
    txsize,         \* ctx->txsize[port]
    wire,           \* what the NIC has taken, in order, with the ring it came by
    completed,      \* how many of them it has given the mbuf back of
    pool,           \* free mbufs
    process         \* "run" or "crashed"

shapeVars == <<ring_num, queue_num>>
callVars  == <<batch, times, i, outOfMem, tmp, cloned, lost, failures>>
distVars  == <<nb_distributed, target>>
coreVars  == <<cpc, ring, queue, bufs, v_tx, txsize>>
nicVars   == <<wire, completed>>
vars == <<shapeVars, apc, callVars, distVars, txring, coreVars, nicVars, pool, process>>

Running == process = "run"

Init ==
    /\ \E s \in Shapes : ring_num = s[1] /\ queue_num = s[2]
    /\ apc = "idle"
    /\ batch = Burst /\ times = 0 /\ i = 0 /\ outOfMem = FALSE /\ tmp = <<>>
    /\ nb_distributed = 0 /\ target = 0
    /\ cloned = 0 /\ lost = {} /\ failures = 0
    /\ txring = [r \in 0 .. ring_num - 1 |-> <<>>]
    /\ cpc = "test" /\ ring = 0 /\ queue = 0 /\ bufs = <<>> /\ v_tx = 0
    /\ txsize = 0
    /\ wire = <<>> /\ completed = 0
    /\ pool = NumMbufs
    /\ process = "run"

Smaller(a, b) == IF a < b THEN a ELSE b

-----------------------------------------------------------------------------
(* The application: dpdk_sendPacket, dpdk_testReadTraffic *)

(* A call that makes n clones, distributed in batches of size. *)
Call(n, size) ==
    /\ Running
    /\ apc = "idle"
    /\ cloned + n <= MaxClones[<<ring_num, queue_num>>]
    /\ batch' = size
    /\ times' = n
    /\ i' = 0
    /\ tmp' = <<>>
    /\ apc' = "clone"
    /\ UNCHANGED <<shapeVars, outOfMem, cloned, lost, failures, distVars, txring, coreVars,
                   nicVars, pool, process>>

(* dpdk_sendPacket of n copies *)
SendPacket(n) == failures < MaxFailures /\ Call(n, Burst)

(* A round of dpdk_testReadTraffic: all its clones go to dpdk_masterTx_a at once. *)
ReadTraffic == Call(Traffic, Traffic)

(***************************************************************************)
(* rte_pktmbuf_clone; a full batch, or the last one, is distributed.       *)
(* dpdk_testReadTraffic tries again for as long as the pool is empty.      *)
(***************************************************************************)
Clone ==
    /\ Running
    /\ apc = "clone"
    /\ pool > 0
    /\ pool' = pool - 1
    /\ cloned' = cloned + 1
    /\ tmp' = Append(tmp, cloned + 1)
    /\ i' = i + 1
    /\ apc' = IF Len(tmp) + 1 < batch /\ i + 1 < times THEN "clone" ELSE "while"
    /\ nb_distributed' = 0
    /\ UNCHANGED <<shapeVars, batch, times, outOfMem, lost, failures, target, txring, coreVars,
                   nicVars, process>>

(***************************************************************************)
(* The pool is empty: dpdk_sendPacket distributes j - 1 of the j clones it *)
(* has made and gives up. The last one is neither sent nor freed. With     *)
(* j = 0 dpdk_masterTx_a is asked for -1 packets and returns at once.      *)
(***************************************************************************)
CloneFails ==
    /\ Running
    /\ apc = "clone"
    /\ pool = 0
    /\ batch = Burst
    /\ outOfMem' = TRUE
    /\ lost' = lost \cup (IF tmp = <<>> THEN {} ELSE {tmp[Len(tmp)]})
    /\ tmp' = IF tmp = <<>> THEN <<>> ELSE SubSeq(tmp, 1, Len(tmp) - 1)
    /\ nb_distributed' = 0
    /\ apc' = "while"
    /\ UNCHANGED <<shapeVars, batch, times, i, cloned, failures, target, txring, coreVars,
                   nicVars, pool, process>>

-----------------------------------------------------------------------------
(* dpdk_masterTx_a *)

(* while (nb_distributed < nb_mbuf): another round of the rings, or return. *)
TestDistributed ==
    /\ Running
    /\ apc = "while"
    /\ \/ /\ nb_distributed < Len(tmp)
          /\ target' = 0
          /\ apc' = "try"
          /\ UNCHANGED <<tmp, nb_distributed, outOfMem, failures>>
       \/ /\ nb_distributed >= Len(tmp)
          /\ tmp' = <<>>
          /\ nb_distributed' = 0
          /\ apc' = IF outOfMem \/ i >= times THEN "idle" ELSE "clone"
          /\ outOfMem' = FALSE
          /\ failures' = IF outOfMem THEN failures + 1 ELSE failures
          /\ UNCHANGED target
    /\ UNCHANGED <<shapeVars, batch, times, i, cloned, lost, txring, coreVars,
                   nicVars, pool, process>>

ToSend == Smaller(Burst, Len(tmp) - nb_distributed)
FreeCount(r) == RingSize - Len(txring[r])

NextTarget ==
    /\ target' = target + 1
    /\ apc' = IF target + 1 < ring_num THEN "try" ELSE "while"

(* Mutant: a full ring is tried again instead of passed over. *)
TryRingAgain ==
    /\ Running
    /\ apc = "try"
    /\ \/ /\ ToSend > FreeCount(target)
          /\ UNCHANGED <<target, apc>>
       \/ /\ ToSend <= FreeCount(target)
          /\ apc' = "enqueue"
          /\ UNCHANGED target
    /\ UNCHANGED <<shapeVars, callVars, nb_distributed, txring, coreVars, nicVars, pool,
                   process>>

(* rte_ring_free_count: a ring without room for the whole burst is skipped. *)
TryRing ==
    /\ Running
    /\ apc = "try"
    /\ \/ /\ ToSend > FreeCount(target)
          /\ NextTarget
       \/ /\ ToSend <= FreeCount(target)
          /\ apc' = "enqueue"
          /\ UNCHANGED target
    /\ UNCHANGED <<shapeVars, callVars, nb_distributed, txring, coreVars, nicVars, pool,
                   process>>

(* Mutant: every burst starts at the first of the packets. *)
NextOutFirst == SubSeq(tmp, 1, ToSend)

NextOut == SubSeq(tmp, nb_distributed + 1, nb_distributed + ToSend)

(* rte_ring_enqueue_burst of &bufs[nb_distributed] *)
Distribute ==
    /\ Running
    /\ apc = "enqueue"
    /\ LET sent == SubSeq(NextOut, 1, Smaller(ToSend, FreeCount(target)))
       IN  /\ txring' = [txring EXCEPT ![target] = @ \o sent]
           /\ nb_distributed' = nb_distributed + Len(sent)
    /\ NextTarget
    /\ UNCHANGED <<shapeVars, callVars, coreVars, nicVars, pool, process>>

AppStep == Clone \/ CloneFails \/ TestDistributed \/ TryRing \/ Distribute

-----------------------------------------------------------------------------
(* The transmit lcore: slaveCoreTx *)

(* Mutant: the loop over the rings is not advanced. *)
NextTurnSameRing ==
    /\ queue' = (queue + 1) % queue_num
    /\ ring' = ring

(* The inner loop is over the queues, the outer one over the rings. *)
NextTurn ==
    /\ queue' = (queue + 1) % queue_num
    /\ ring' = IF queue + 1 < queue_num THEN ring ELSE (ring + 1) % ring_num

(* The ring tested is the queue's. *)
TestedRing == queue

(***************************************************************************)
(* rte_ring_empty(ring_ptr[queue]): the ring tested is the queue's, not    *)
(* the one the packets are then taken from. dpdk_init creates as many      *)
(* rings as port_ringnum: for a queue beyond, the pointer is NULL.         *)
(***************************************************************************)
TestEmpty ==
    /\ Running
    /\ cpc = "test"
    /\ \/ /\ TestedRing >= ring_num
          /\ process' = "crashed"
          /\ UNCHANGED <<cpc, ring, queue>>
       \/ /\ TestedRing < ring_num
          /\ txring[TestedRing] = <<>>
          /\ NextTurn
          /\ UNCHANGED <<cpc, process>>
       \/ /\ TestedRing < ring_num
          /\ txring[TestedRing] # <<>>
          /\ cpc' = "dequeue"
          /\ UNCHANGED <<ring, queue, process>>
    /\ UNCHANGED <<shapeVars, apc, callVars, distVars, txring, bufs, v_tx, txsize, nicVars,
                   pool>>

(* rte_ring_dequeue_burst(ring_ptr[ring]) *)
DequeueBurst ==
    LET n == Smaller(Burst, Len(txring[ring]))
    IN  /\ Running
        /\ cpc = "dequeue"
        /\ txring' = [txring EXCEPT ![ring] = SubSeq(@, n + 1, Len(@))]
        /\ bufs' = SubSeq(txring[ring], 1, n)
        /\ v_tx' = 0
        /\ \/ /\ n > 0
              /\ cpc' = "transmit"
              /\ UNCHANGED <<ring, queue>>
           \/ /\ n = 0
              /\ cpc' = "test"
              /\ NextTurn
        /\ UNCHANGED <<shapeVars, apc, callVars, distVars, txsize, nicVars, pool, process>>

(* txsize grows by v_tx once the whole burst is out. *)
Counted(k) == IF v_tx + k = Len(bufs) THEN v_tx + k ELSE 0

(* &bufs[v_tx] *)
Offered(k) == SubSeq(bufs, v_tx + 1, v_tx + k)

(***************************************************************************)
(* rte_eth_tx_burst: the NIC takes k of the packets offered; the rest is   *)
(* offered again until all are gone.                                       *)
(***************************************************************************)
TxBurst(k) ==
    /\ Running
    /\ cpc = "transmit"
    /\ k <= Len(bufs) - v_tx
    /\ wire' = wire \o [j \in 1 .. k |-> [n |-> Offered(k)[j], r |-> ring]]
    /\ txsize' = txsize + Counted(k)
    /\ \/ /\ v_tx + k < Len(bufs)
          /\ v_tx' = v_tx + k
          /\ UNCHANGED <<cpc, bufs, ring, queue>>
       \/ /\ v_tx + k = Len(bufs)
          /\ cpc' = "test"
          /\ v_tx' = 0
          /\ bufs' = <<>>
          /\ NextTurn
    /\ UNCHANGED <<shapeVars, apc, callVars, distVars, txring, completed, pool,
                   process>>

(* The NIC is done with a packet and its mbuf returns to the pool. *)
NicFree ==
    /\ Running
    /\ completed < Len(wire)
    /\ completed' = completed + 1
    /\ pool' = pool + 1
    /\ UNCHANGED <<shapeVars, apc, callVars, distVars, txring, coreVars, wire, process>>

Crashed == ~Running /\ UNCHANGED vars

Next ==
    \/ \E n \in Times : SendPacket(n)
    \/ ReadTraffic
    \/ AppStep
    \/ TestEmpty
    \/ DequeueBurst
    \/ \E k \in 0 .. Burst : TxBurst(k)
    \/ NicFree
    \/ Crashed

Spec == Init /\ [][Next]_vars

(***************************************************************************)
(* The application inside a call, the lcore and the NIC keep going; no     *)
(* call need ever be made. Nothing is assumed of how much the NIC takes in *)
(* one burst, save that it does not take nothing for ever.                 *)
(***************************************************************************)
Fairness ==
    /\ WF_vars(AppStep)
    /\ WF_vars(TestEmpty)
    /\ WF_vars(DequeueBurst)
    /\ WF_vars(\E k \in 1 .. Burst : TxBurst(k))
    /\ WF_vars(NicFree)

FairSpec == Spec /\ Fairness

-----------------------------------------------------------------------------
(* Properties *)

Rings == DOMAIN txring

(* Every variable has its type; the loop counters stay inside their loops. *)
TypeOK ==
    /\ <<ring_num, queue_num>> \in Shapes
    /\ Rings = 0 .. ring_num - 1
    /\ apc \in {"idle", "clone", "while", "try", "enqueue"}
    /\ cpc \in {"test", "dequeue", "transmit"}
    /\ i \in 0 .. times
    /\ nb_distributed \in 0 .. Len(tmp)
    /\ apc = "try" => target \in Rings
    /\ ring \in Rings
    /\ queue \in 0 .. queue_num - 1
    /\ \A r \in Rings : Len(txring[r]) \in 0 .. RingSize
    /\ v_tx \in 0 .. Len(bufs)
    /\ pool \in 0 .. NumMbufs
    /\ process \in {"run", "crashed"}

(* The packets with an mbuf, by who holds it. *)
InCall == SubSeq(tmp, nb_distributed + 1, Len(tmp))
InCore == SubSeq(bufs, v_tx + 1, Len(bufs))
InRings == UNION {Range(txring[r]) : r \in Rings}
OnWire == {wire[j].n : j \in DOMAIN wire}

(***************************************************************************)
(* Every packet dpdk_sendPacket cloned is in one place: still with the     *)
(* call, in one ring, with the lcore, taken by the NIC once, or lost; and  *)
(* the mbufs of those that are not back from the NIC account for the pool. *)
(***************************************************************************)
OnePlace ==
    /\ Range(InCall) \cup InRings \cup Range(InCore) \cup OnWire \cup lost = 1 .. cloned
    /\ Len(InCall) + FoldFunction(+, 0, [r \in Rings |-> Len(txring[r])]) + Len(InCore)
         + Len(wire) + Cardinality(lost) = cloned
    /\ pool = NumMbufs - cloned + completed

(* The packets that went through one ring leave in the order they were made. *)
RingOrder ==
    \A j, k \in DOMAIN wire : j < k /\ wire[j].r = wire[k].r => wire[j].n < wire[k].n

(***************************************************************************)
(* However little the NIC takes at a time, and wherever a call runs out of *)
(* memory, no packet is sent twice, dropped on the way or overtaken in its *)
(* ring; and txsize is what the NIC has taken of the port, the burst under *)
(* way excepted. Every variable keeps its type.                            *)
(***************************************************************************)
EachPacketOnce == TypeOK /\ OnePlace /\ RingOrder /\ txsize = Len(wire) - v_tx

(* A ring that no queue tests is drained only while another one is not empty. *)
Untested == {r \in Rings : r >= queue_num}

(***************************************************************************)
(* dpdk_testReadTraffic waits for more mbufs than can come back: what is   *)
(* lost (j - 1), or left in the rings that no queue tests, does not.       *)
(***************************************************************************)
Starved ==
    /\ apc = "clone" /\ batch = Traffic
    /\ NumMbufs - Cardinality(lost)
         - FoldFunctionOnSet(+, 0, [r \in Rings |-> Len(txring[r])], Untested) < Traffic

(***************************************************************************)
(* A call returns, even if a ring that nobody drains is full and the pool  *)
(* runs dry; one that does not is a dpdk_testReadTraffic for which there   *)
(* are not enough mbufs any more.                                          *)
(***************************************************************************)
CallsReturn == <>[](apc # "idle" /\ Running) => <>[]Starved

InTestedRing(p) == \E r \in Rings : r < queue_num /\ p \in Range(txring[r])

(* What is put in a ring that some queue tests is sent. *)
TestedRingsDrain ==
    \A p \in UNION {1 .. MaxClones[s] : s \in Shapes} : InTestedRing(p) ~> p \in OnWire \/ ~Running
=============================================================================
