------------------------------- MODULE RxRing -------------------------------
(***************************************************************************)
(* One receive ring, at the grain of the loads and stores of rte_ring's    *)
(* single-producer enqueue and single-consumer dequeue, which initRing     *)
(* asks for with RING_F_SP_ENQ | RING_F_SC_DEQ. The producers are the      *)
(* receive lcores of the port in slaveCoreRx, the consumer is the capture  *)
(* thread in dpdk_masterRx. The head and tail indices are uint32_t: they   *)
(* run freely and wrap.                                                    *)
(*                                                                         *)
(* rte_ring is not part of this code: the module models what the two flags *)
(* make of it, so as to see which use of a ring they allow. (Init, Next    *)
(* and Spec are RingInit, RingNext and RingSpec here: Rings_proofs reasons *)
(* about a ring and about DpdkInit, which sets it up.)                     *)
(***************************************************************************)
EXTENDS Integers, Sequences, FiniteSets

CONSTANTS
    Producer,       \* the receive lcores that enqueue to this ring
    Size,           \* slots of the ring: 1024 in initRing's callers
    Wrap,           \* 2^32: the indices wrap there
    Num,            \* packets dpdk_masterRx asks for
    MaxSend         \* bound on the packets a producer has for the ring

ASSUME RingAssumption ==
    /\ {Size, Num, MaxSend} \subseteq Nat \ {0}
    /\ \E k \in 2 .. Wrap : Wrap = k * Size

Packet == Producer \X (1 .. MaxSend)
Empty == <<>>       \* a slot that was never written
Index == 0 .. Wrap - 1
Slot  == 0 .. Size - 1

VARIABLES
    slots, prod_head, prod_tail, cons_head, cons_tail,     \* the ring
    ppc,            \* ppc[p]: where producer p is in rte_ring_enqueue
    head,           \* head[p]: the prod_head that p has read
    sent,           \* sent[p]: packets p is done with, or busy with
    refused,        \* packets the ring had no room for
    cpc,            \* where the consumer is in rte_ring_dequeue_burst
    batch,          \* the packets the consumer has copied
    taken           \* the packets dpdk_masterRx has returned, in order

sharedVars == <<slots, prod_head, prod_tail, cons_head, cons_tail>>
prodVars == <<ppc, head, sent, refused>>
consVars == <<cpc, batch, taken>>
ringVars == <<sharedVars, prodVars, consVars>>

RingInit ==
    /\ slots = [i \in Slot |-> Empty]
    /\ prod_head = 0 /\ prod_tail = 0 /\ cons_head = 0 /\ cons_tail = 0
    /\ ppc = [p \in Producer |-> "idle"]
    /\ head = [p \in Producer |-> 0]
    /\ sent = [p \in Producer |-> 0]
    /\ refused = {}
    /\ cpc = "idle"
    /\ batch = <<>>
    /\ taken = <<>>

-----------------------------------------------------------------------------
(* Index arithmetic, modulo 2^32 *)

Add(i, n) == (i + n) % Wrap
Distance(from, to) == (to - from) % Wrap

(* Mutant: all the slots are used, so that full looks like empty. *)
FreeAllSlots(h) == (Size + cons_tail - h) % Wrap

(* mask + cons_tail - prod_head: one slot always stays empty. *)
Free(h) == (Size - 1 + cons_tail - h) % Wrap

-----------------------------------------------------------------------------
(* rte_ring_enqueue by the lcores of slaveCoreRx *)

(* The producer reads the indices; without room the packet is refused. *)
ReadHead(p) ==
    /\ ppc[p] = "idle"
    /\ sent[p] < MaxSend
    /\ sent' = [sent EXCEPT ![p] = @ + 1]
    /\ \/ /\ Free(prod_head) > 0
          /\ head' = [head EXCEPT ![p] = prod_head]
          /\ ppc' = [ppc EXCEPT ![p] = "reserve"]
          /\ UNCHANGED refused
       \/ /\ Free(prod_head) = 0
          /\ refused' = refused \cup {<<p, sent[p] + 1>>}
          /\ UNCHANGED <<head, ppc>>
    /\ UNCHANGED <<sharedVars, consVars>>

(* Mutant: the tail is published before the slot is written. *)
ReserveAndPublish(p) ==
    /\ ppc[p] = "reserve"
    /\ prod_head' = Add(head[p], 1)
    /\ prod_tail' = Add(head[p], 1)
    /\ ppc' = [ppc EXCEPT ![p] = "write"]
    /\ UNCHANGED <<slots, cons_head, cons_tail, head, sent, refused, consVars>>

(* A plain store, not a compare-and-set: only one producer is expected. *)
ReserveSlot(p) ==
    /\ ppc[p] = "reserve"
    /\ prod_head' = Add(head[p], 1)
    /\ ppc' = [ppc EXCEPT ![p] = "write"]
    /\ UNCHANGED <<slots, prod_tail, cons_head, cons_tail, head, sent, refused, consVars>>

WriteSlot(p) ==
    /\ ppc[p] = "write"
    /\ slots' = [slots EXCEPT ![head[p] % Size] = <<p, sent[p]>>]
    /\ ppc' = [ppc EXCEPT ![p] = "publish"]
    /\ UNCHANGED <<prod_head, prod_tail, cons_head, cons_tail, head, sent, refused, consVars>>

PublishTail(p) ==
    /\ ppc[p] = "publish"
    /\ prod_tail' = Add(head[p], 1)
    /\ ppc' = [ppc EXCEPT ![p] = "idle"]
    /\ UNCHANGED <<slots, prod_head, cons_head, cons_tail, head, sent, refused, consVars>>

ProducerStep(p) == ReadHead(p) \/ ReserveSlot(p) \/ WriteSlot(p) \/ PublishTail(p)

-----------------------------------------------------------------------------
(* rte_ring_dequeue_burst by the thread in dpdk_masterRx *)

(* Mutant: all Num packets or nothing, as rte_ring_dequeue_bulk. *)
ReserveBulk ==
    /\ cpc = "idle"
    /\ \/ /\ Distance(cons_head, prod_tail) >= Num
          /\ cons_head' = Add(cons_head, Num)
          /\ cpc' = "copy"
       \/ /\ Distance(cons_head, prod_tail) < Num
          /\ UNCHANGED <<cons_head, cpc>>
    /\ UNCHANGED <<slots, prod_head, prod_tail, cons_tail, prodVars, batch, taken>>

(* The consumer reads the indices and moves cons_head over its burst. *)
ReserveBurst ==
    LET entries == Distance(cons_head, prod_tail)
        n       == IF entries < Num THEN entries ELSE Num
    IN  /\ cpc = "idle"
        /\ n > 0
        /\ cons_head' = Add(cons_head, n)
        /\ cpc' = "copy"
        /\ UNCHANGED <<slots, prod_head, prod_tail, cons_tail, prodVars, batch, taken>>

CopyBurst ==
    /\ cpc = "copy"
    /\ batch' = [i \in 1 .. Distance(cons_tail, cons_head) |->
                    slots[(cons_tail + i - 1) % Size]]
    /\ cpc' = "release"
    /\ UNCHANGED <<sharedVars, prodVars, taken>>

(* cons_tail follows: the slots are the producer's again. *)
ReleaseSlots ==
    /\ cpc = "release"
    /\ cons_tail' = cons_head
    /\ taken' = taken \o batch
    /\ batch' = <<>>
    /\ cpc' = "idle"
    /\ UNCHANGED <<slots, prod_head, prod_tail, cons_head, prodVars>>

ConsumerStep == ReserveBurst \/ CopyBurst \/ ReleaseSlots

(* The thread polls an empty ring. *)
PollEmpty ==
    /\ cpc = "idle"
    /\ Distance(cons_head, prod_tail) = 0
    /\ UNCHANGED ringVars

RingNext == (\E p \in Producer : ProducerStep(p)) \/ ConsumerStep \/ PollEmpty

(* The lcores and the thread poll for ever and are never blocked. *)
RingSpec == RingInit /\ [][RingNext]_ringVars
FairRingSpec ==
    RingSpec /\ WF_ringVars(ConsumerStep) /\ \A p \in Producer : WF_ringVars(ProducerStep(p))

-----------------------------------------------------------------------------
(* Properties *)

RingTypeOK ==
    /\ slots \in [Slot -> Packet \cup {Empty}]
    /\ {prod_head, prod_tail, cons_head, cons_tail} \subseteq Index
    /\ ppc \in [Producer -> {"idle", "reserve", "write", "publish"}]
    /\ head \in [Producer -> Index]
    /\ sent \in [Producer -> 0 .. MaxSend]
    /\ refused \subseteq Packet
    /\ cpc \in {"idle", "copy", "release"}
    /\ batch \in Seq(Packet \cup {Empty})
    /\ taken \in Seq(Packet \cup {Empty})

(***************************************************************************)
(* The indices never pass each other, across any wrap: cons_tail,          *)
(* cons_head, prod_tail, prod_head follow in this order within the         *)
(* Size - 1 packets the ring may hold; and every variable keeps its type.  *)
(***************************************************************************)
IndexOrder ==
    LET ch == Distance(cons_tail, cons_head)
        pt == Distance(cons_tail, prod_tail)
        ph == Distance(cons_tail, prod_head)
    IN  RingTypeOK /\ ch <= pt /\ pt <= ph /\ ph <= Size - 1

(* The packets between the tails, oldest first. *)
Queued == [i \in 1 .. Distance(cons_tail, prod_tail) |-> slots[(cons_tail + i - 1) % Size]]

(***************************************************************************)
(* With one producer, as in thread mode 1, the ring implements the bounded *)
(* queue that slaveCoreRx and dpdk_masterRx take it for: the put is the    *)
(* store of prod_tail, the take is the store of cons_tail.                 *)
(***************************************************************************)
Fifo == INSTANCE PacketQueue WITH Item <- Packet, Capacity <- Size - 1,
                                  queue <- Queued, taken <- taken
ImplementsQueue == Fifo!Spec

(***************************************************************************)
(* Every packet that was not refused for lack of room gets to the capture  *)
(* thread.                                                                 *)
(***************************************************************************)
Accounted(x) == x \in refused \/ \E i \in DOMAIN taken : taken[i] = x
EveryPacketArrives ==
    \A x \in Packet : sent[x[1]] >= x[2] ~> Accounted(x)
=============================================================================
