------------------------- MODULE CapturePath_proofs -------------------------
(***************************************************************************)
(* Proofs about CapturePath, for any number of queues, rings, threads,     *)
(* mbufs and packets, in three layers of one inductive invariant: IInv     *)
(* (types, control, and the dump file with its mutex), FlowInv (the order  *)
(* of the packets on their way, and their mbufs) and CountInv (the         *)
(* counters).                                                              *)
(***************************************************************************)
EXTENDS CapturePath, DataTheorems

-----------------------------------------------------------------------------
(* The inductive invariant *)

(* Inside the loop over a burst, the burst is not empty. *)
InBurst ==
    /\ rxpc \in {"before", "enqueue", "after"} => bufs # <<>>
    /\ \A t \in Thread : tpc[t] \in {"packet", "lock", "header", "data", "free"}
                            => mbuf2[t] # <<>>

(* Main's counter stays within the loop it serves; no thread runs early. *)
Starting ==
    mainpc \in {"open", "begin", "create"} =>
        next \in Thread /\ \A t \in Thread : t >= next => tpc[t] = "none"
Stopping ==
    /\ mainpc = "close" => next = 0
    /\ mainpc = "statis" /\ Running => next \in Queue

(* The mutex is held exactly by the thread that is writing. *)
Holder ==
    \A t \in Thread : tpc[t] \in {"header", "data"} <=> mutexDumper = t

(* The file ends in the middle of a record only while its holder is there. *)
MidRecord == mutexDumper \in Thread /\ tpc[mutexDumper] = "data"
LastRecord ==
    IF MidRecord
    THEN Len(file) % 2 = 1 /\ file[Len(file)].p = Head(mbuf2[mutexDumper])
    ELSE Len(file) % 2 = 0

ControlInv == TypeOK /\ InBurst /\ Starting /\ Stopping
IInv == ControlInv /\ Holder /\ LastRecord /\ DumpWellFormed

-----------------------------------------------------------------------------
(* Facts about bursts *)

(* A burst and what it leaves are sequences of the same kind. *)
LEMMA BurstType ==
    ASSUME NEW S, NEW s \in Seq(S), NEW k \in Nat
    PROVE  Taken(s, k) \in Seq(S) /\ Rest(s, k) \in Seq(S)
BY DEF Taken, Rest, Size

(* A burst asked of a queue that holds packets is not empty. *)
LEMMA BurstNotEmpty ==
    ASSUME NEW S, NEW s \in Seq(S), NEW k \in Nat \ {0}, s # <<>>
    PROVE  Taken(s, k) # <<>>
<1>1. Len(s) \in Nat \ {0}
  BY EmptySeq
<1>2. Size(s, k) \in 1 .. Len(s)
  BY <1>1 DEF Size
<1>3. \A i \in 1 .. Size(s, k) : s[i] \in S
  BY <1>2, ElementOfSeq
<1>4. Len(Taken(s, k)) = Size(s, k)
  BY <1>2, <1>3, SubSeqProperties DEF Taken
<1> QED
  BY <1>2, <1>4, EmptySeq

(* Division with remainder, for the core's position in its two loops. *)
LEMMA DivMod ==
    ASSUME NEW a \in Nat, NEW b \in Nat \ {0}
    PROVE  /\ a \div b \in Nat
           /\ a % b \in 0 .. b - 1
           /\ a = b * (a \div b) + (a % b)
BY SMT

LEMMA MultMonotonic ==
    ASSUME NEW a \in Nat, NEW b \in Nat, NEW c \in Nat \ {0}, a >= b
    PROVE  c * a >= c * b
BY SMT

LEMMA DivLess ==
    ASSUME NEW a \in Nat, NEW b \in Nat \ {0}, NEW c \in Nat \ {0}, a < c * b
    PROVE  a \div b \in 0 .. c - 1
<1>1. a \div b \in Nat /\ a = b * (a \div b) + (a % b) /\ a % b \in 0 .. b - 1
  BY DivMod
<1>2. ASSUME a \div b >= c PROVE FALSE
  <2>1. b * (a \div b) >= b * c
    BY <1>1, <1>2, MultMonotonic
  <2> DEFINE whole == b * (a \div b)
             bound == c * b
  <2>2. whole \in Int /\ bound \in Int /\ bound = b * c
    BY <1>1
  <2>3. whole >= bound
    BY <2>1, <2>2
  <2>4. a = whole + (a % b) /\ a % b >= 0
    BY <1>1
  <2> HIDE DEF whole, bound
  <2> QED
    BY <2>2, <2>3, <2>4
<1> QED
  BY <1>1, <1>2

(* The position stays within the loops, and names a queue of the port. *)
LEMMA SlotType ==
    ASSUME SizeAssumption, slot \in Slot
    PROVE  /\ NextSlot \in Slot
           /\ SlotQueue \in Queue
<1>1. QueueNum * RingNum \in Nat \ {0} /\ QueueNum \in Nat \ {0} /\ RingNum \in Nat \ {0}
  BY SMT DEF SizeAssumption
<1>2. slot \in Nat /\ slot < QueueNum * RingNum
  BY <1>1 DEF Slot
<1>3. slot + 1 \in Nat
  BY <1>2
<1> QED
  BY <1>1, <1>2, <1>3, DivMod, DivLess DEF NextSlot, SlotQueue, Queue, Slot

(* A packet goes to a ring of the port. *)
LEMMA RingIdType ==
    ASSUME NEW p \in Packet
    PROVE  RingId(p.h) \in Ring
<1>1. Word \in Nat \ {0} /\ RingNum \in Nat \ {0}
  BY SizeAssumption DEF SizeAssumption
<1>2. p.h.src + p.h.dst \in Nat
  BY TrafficAssumption DEF TrafficAssumption, Packet
<1>3. (p.h.src + p.h.dst) % Word \in Nat
  BY <1>1, <1>2, DivMod
<1>4. ((p.h.src + p.h.dst) % Word) % RingNum \in 0 .. RingNum - 1
  BY <1>1, <1>3, DivMod
<1> QED
  BY <1>1, <1>4 DEF RingId, Ring

(* What is left of a sequence of two or more is a sequence, and not empty. *)
LEMMA LongTail ==
    ASSUME NEW S, NEW s \in Seq(S), Len(s) > 1
    PROVE  Tail(s) \in Seq(S) /\ Tail(s) # <<>>
<1> DEFINE t == Tail(s)
<1>1. Len(<<>>) = 0
  BY EmptySeq
<1>2. s # <<>>
  BY <1>1
<1>3. t \in Seq(S) /\ Len(t) = Len(s) - 1
  BY <1>2, HeadTailProperties
<1> HIDE DEF t
<1>4. Len(s) \in Nat
  BY LenProperties
<1>5. Len(t) # 0
  BY <1>3, <1>4
<1>6. t # <<>>
  BY <1>1, <1>5, Zenon
<1> QED
  BY <1>3, <1>6 DEF t

(* Appending to one of several queues leaves queues. *)
LEMMA PutType ==
    ASSUME NEW I, NEW S, NEW f \in [I -> Seq(S)], NEW i \in I, NEW e \in S
    PROVE  [f EXCEPT ![i] = Append(@, e)] \in [I -> Seq(S)]
<1>1. Append(f[i], e) \in Seq(S)
  BY AppendProperties
<1> QED
  BY <1>1

-----------------------------------------------------------------------------
(* Types and control *)

LEMMA ControlInit == Init => ControlInv
<1> SUFFICES ASSUME Init PROVE ControlInv
  OBVIOUS
<1>1. 0 \in Slot
  BY SizeAssumption, SMT DEF SizeAssumption, Slot
<1>2. TypeOK
  BY <1>1, SizeAssumption, EmptySeq
  DEF SizeAssumption, Init, TypeOK, WireType, CoreType, RingType, ThreadType, FileType,
      MainType, NoThread
<1>3. InBurst /\ Starting /\ Stopping
  BY SizeAssumption DEF Init, InBurst, Starting, Stopping, SizeAssumption, Thread
<1> QED
  BY <1>2, <1>3 DEF ControlInv

(* The packet at hand in the lcore's burst, and in a thread's. *)
LEMMA CorePacket ==
    ASSUME ControlInv, rxpc \in {"before", "enqueue", "after"}
    PROVE  /\ bufs \in Seq(Packet) /\ bufs # <<>>
           /\ Head(bufs) \in Packet
           /\ RingId(Head(bufs).h) \in Ring
<1>1. bufs \in Seq(Packet) /\ bufs # <<>>
  BY DEF ControlInv, TypeOK, CoreType, InBurst
<1>2. Head(bufs) \in Packet
  BY <1>1, HeadTailProperties
<1> QED
  BY <1>1, <1>2, RingIdType

LEMMA ThreadPacket ==
    ASSUME ControlInv, NEW t \in Thread,
           tpc[t] \in {"packet", "lock", "header", "data", "free"}
    PROVE  /\ mbuf2[t] \in Seq(Packet) /\ mbuf2[t] # <<>>
           /\ Head(mbuf2[t]) \in Packet
<1>1. mbuf2[t] \in Seq(Packet) /\ mbuf2[t] # <<>>
  BY DEF ControlInv, TypeOK, ThreadType, InBurst
<1> QED
  BY <1>1, HeadTailProperties

(***************************************************************************)
(* Each step keeps the types: one lemma for the wire and the lcore, one    *)
(* for a capture thread, one for the main thread.                          *)
(***************************************************************************)
LEMMA CoreKeepsControl ==
    ASSUME ControlInv, (\E h \in Header : Arrive(h)) \/ CoreStep
    PROVE  ControlInv'
<1> USE DEF ControlInv, TypeOK
<1>1. CASE \E h \in Header : Arrive(h)
  <2>1. PICK h \in Header : Arrive(h)
    BY <1>1
  <2> DEFINE p   == [n |-> arrived + 1, h |-> h]
             put == [nic EXCEPT ![RssQueue[h]] = Append(@, p)]
  <2>2. arrived \in Nat /\ arrived < MaxPackets /\ MaxPackets \in Nat
    BY <2>1, SizeAssumption DEF Arrive, SizeAssumption, WireType
  <2>3. p \in Packet
    BY <2>2 DEF Packet
  <2>4. put \in [Queue -> Seq(Packet)]
    BY <2>3, PutType, TrafficAssumption DEF TrafficAssumption, WireType
  <2>5. nic' \in {nic, put} /\ arrived' = arrived + 1
    BY <2>1 DEF Arrive
  <2>6. pool' \in Nat
    BY <2>1 DEF Arrive, WireType
  <2>7. nic' \in [Queue -> Seq(Packet)]
    BY <2>4, <2>5, Zenon DEF WireType
  <2>8. WireType'
    BY <2>2, <2>5, <2>6, <2>7 DEF WireType
  <2>9. (CoreType /\ RingType /\ ThreadType /\ FileType /\ MainType)'
    BY <2>1 DEF Arrive, CoreType, RingType, ThreadType, FileType, MainType, coreVars,
                threadVars, mainVars
  <2>10. (InBurst /\ Starting /\ Stopping)'
    BY <2>1 DEF Arrive, InBurst, Starting, Stopping, Running, coreVars, threadVars, mainVars
  <2> QED
    BY <2>8, <2>9, <2>10
<1>2. CASE RxIdle
  <2>1. CoreType'
    BY <1>2, SlotType, SizeAssumption DEF RxIdle, CoreType
  <2>2. (WireType /\ RingType /\ ThreadType /\ FileType /\ MainType)'
    BY <1>2 DEF RxIdle, WireType, RingType, ThreadType, FileType, MainType, nicVars,
                threadVars, mainVars
  <2>3. (InBurst /\ Starting /\ Stopping)'
    BY <1>2 DEF RxIdle, InBurst, Starting, Stopping, Running, threadVars, mainVars
  <2> QED
    BY <2>1, <2>2, <2>3
<1>3. CASE RxBurst
  <2> DEFINE q    == SlotQueue
             got  == Taken(nic[q], Burst)
             rest == Rest(nic[q], Burst)
  <2>1. q \in Queue
    BY SlotType, SizeAssumption DEF CoreType
  <2>2. nic[q] \in Seq(Packet) /\ nic[q] # <<>> /\ Burst \in Nat \ {0}
    BY <1>3, <2>1, SizeAssumption DEF WireType, RxBurst, SizeAssumption
  <2>3. got \in Seq(Packet) /\ got # <<>> /\ rest \in Seq(Packet)
    BY <2>2, BurstType, BurstNotEmpty
  <2>4. Len(got) \in Nat
    BY <2>3, LenProperties
  <2>5. /\ nic' = [nic EXCEPT ![q] = rest] /\ bufs' = got
        /\ rx_queue' = [rx_queue EXCEPT ![q] = @ + Len(got)] /\ rxpc' = "before"
    BY <1>3 DEF RxBurst
  <2> HIDE DEF q, got, rest
  <2>6. WireType'
    BY <1>3, <2>1, <2>3, <2>5 DEF RxBurst, WireType
  <2>6a. [rx_queue EXCEPT ![q] = @ + Len(got)] \in [Queue -> Nat]
    BY <2>1, <2>4 DEF CoreType
  <2>7. CoreType'
    BY <1>3, <2>3, <2>5, <2>6a DEF RxBurst, CoreType
  <2>8. (RingType /\ ThreadType /\ FileType /\ MainType)'
    BY <1>3 DEF RxBurst, RingType, ThreadType, FileType, MainType, threadVars, mainVars
  <2>9. (InBurst /\ Starting /\ Stopping)'
    BY <1>3, <2>3, <2>5 DEF RxBurst, InBurst, Starting, Stopping, Running, threadVars,
                            mainVars
  <2> QED
    BY <2>6, <2>7, <2>8, <2>9
<1>4. CASE RxBefore
  <2>1. CoreType'
    BY <1>4, CorePacket DEF RxBefore, CoreType
  <2>2. (WireType /\ RingType /\ ThreadType /\ FileType /\ MainType)'
    BY <1>4 DEF RxBefore, WireType, RingType, ThreadType, FileType, MainType, nicVars,
                threadVars, mainVars
  <2>3. (InBurst /\ Starting /\ Stopping)'
    BY <1>4 DEF RxBefore, InBurst, Starting, Stopping, Running, threadVars, mainVars
  <2> QED
    BY <2>1, <2>2, <2>3
<1>5. CASE RxEnqueue
  <2> DEFINE p == Head(bufs)
             r == RingId(p.h)
  <2>1. p \in Packet /\ r \in Ring
    BY <1>5, CorePacket DEF RxEnqueue
  <2>2. [ring EXCEPT ![r] = Append(@, p)] \in [Ring -> Seq(Packet)]
    BY <2>1, PutType DEF RingType
  <2>3. RingType'
    BY <1>5, <2>2 DEF RxEnqueue, RingType, threadVars
  <2>4. CoreType'
    BY <1>5, <2>1 DEF RxEnqueue, CoreType
  <2>5. (WireType /\ ThreadType /\ FileType /\ MainType)'
    BY <1>5 DEF RxEnqueue, WireType, ThreadType, FileType, MainType, nicVars, threadVars,
                mainVars
  <2>6. (InBurst /\ Starting /\ Stopping)'
    BY <1>5 DEF RxEnqueue, InBurst, Starting, Stopping, Running, threadVars, mainVars
  <2> QED
    BY <2>3, <2>4, <2>5, <2>6
<1>6. CASE RxAfter
  <2>1. bufs \in Seq(Packet) /\ bufs # <<>> /\ RingId(Head(bufs).h) \in Ring
    BY <1>6, CorePacket DEF RxAfter
  <2>2. Tail(bufs) \in Seq(Packet) /\ (Len(bufs) > 1 => Tail(bufs) # <<>>)
    BY <2>1, HeadTailProperties, LongTail
  <2>2a. [after_enqueue EXCEPT ![RingId(Head(bufs).h)] = @ + 1] \in [Ring -> Nat]
    BY <2>1 DEF CoreType
  <2>2b. slot' \in Slot
    BY <1>6, SlotType, SizeAssumption DEF RxAfter, CoreType
  <2>3. CoreType'
    BY <1>6, <2>2, <2>2a, <2>2b DEF RxAfter, CoreType
  <2>4. (WireType /\ RingType /\ ThreadType /\ FileType /\ MainType)'
    BY <1>6 DEF RxAfter, WireType, RingType, ThreadType, FileType, MainType, nicVars,
                threadVars, mainVars
  <2>5. (InBurst /\ Starting /\ Stopping)'
    BY <1>6, <2>2 DEF RxAfter, InBurst, Starting, Stopping, Running, threadVars, mainVars
  <2> QED
    BY <2>3, <2>4, <2>5
<1> QED
  BY <1>1, <1>2, <1>3, <1>4, <1>5, <1>6 DEF CoreStep

(* Going on to the next packet of a burst keeps the types. *)
LEMMA NextPacketType ==
    ASSUME ControlInv, NEW t \in Thread, NextPacket(t), tpc[t] \in {"packet", "free"}
    PROVE  /\ mbuf2' \in [Thread -> Seq(Packet)]
           /\ \A u \in Thread : u # t => mbuf2'[u] = mbuf2[u] /\ tpc'[u] = tpc[u]
           /\ tpc' \in [Thread -> {"none", "while", "masterRx", "packet", "lock",
                                   "header", "data", "free", "done"}]
           /\ tpc'[t] \in {"packet", "while"}
           /\ tpc'[t] = "packet" => mbuf2'[t] # <<>>
<1>1. mbuf2[t] \in Seq(Packet) /\ mbuf2[t] # <<>>
  BY ThreadPacket
<1>2. Tail(mbuf2[t]) \in Seq(Packet) /\ (Len(mbuf2[t]) > 1 => Tail(mbuf2[t]) # <<>>)
  BY <1>1, HeadTailProperties, LongTail
<1> QED
  BY <1>2 DEF ControlInv, TypeOK, ThreadType, NextPacket, Goto

LEMMA ThreadKeepsControl ==
    ASSUME ControlInv, NEW t \in Thread, ThreadStep(t)
    PROVE  ControlInv'
<1> USE DEF ControlInv, TypeOK
<1>0. mainpc \in {"open", "begin", "create"} => ~(t >= next)
  BY DEF Starting, ThreadStep, TestTimeflag, MasterRx, TestSave, LockDumper, DumpHeader,
         DumpData, FreeMbuf
<1>1. CASE TestTimeflag(t)
  <2>1. ThreadType'
    BY <1>1 DEF TestTimeflag, Goto, ThreadType
  <2>2. (WireType /\ CoreType /\ RingType /\ FileType /\ MainType)'
    BY <1>1 DEF TestTimeflag, WireType, CoreType, RingType, FileType, MainType, nicVars,
                coreVars, mainVars
  <2>3. (InBurst /\ Starting /\ Stopping)'
    BY <1>1, <1>0 DEF TestTimeflag, Goto, ThreadType, InBurst, Starting, Stopping, Running,
                      coreVars, mainVars
  <2> QED
    BY <2>1, <2>2, <2>3
<1>2. CASE MasterRx(t)
  <2> DEFINE got  == Taken(ring[t], Num)
             rest == Rest(ring[t], Num)
  <2>1. t \in Ring /\ Num \in Nat
    BY SizeAssumption DEF Thread, Ring, SizeAssumption
  <2>2. ring[t] \in Seq(Packet)
    BY <2>1 DEF RingType
  <2>3. got \in Seq(Packet) /\ rest \in Seq(Packet)
    BY <2>1, <2>2, BurstType
  <2>4. Len(got) \in Nat
    BY <2>3, LenProperties
  <2>5. /\ ring' = [ring EXCEPT ![t] = rest]
        /\ after_dequeue' = [after_dequeue EXCEPT ![t] = @ + Len(got)]
        /\ mbuf2' = [mbuf2 EXCEPT ![t] = got]
        /\ tpc' = [tpc EXCEPT ![t] = IF got = <<>> THEN "while" ELSE "packet"]
    BY <1>2 DEF MasterRx, Goto
  <2> HIDE DEF got, rest
  <2>6. RingType'
    BY <2>1, <2>3, <2>4, <2>5 DEF RingType
  <2>7. ThreadType'
    BY <1>2, <2>3, <2>5 DEF MasterRx, ThreadType
  <2>8. (WireType /\ CoreType /\ FileType /\ MainType)'
    BY <1>2 DEF MasterRx, WireType, CoreType, FileType, MainType, nicVars, coreVars, mainVars
  <2>9. (InBurst /\ Starting /\ Stopping)'
    BY <1>2, <1>0, <2>5 DEF MasterRx, ThreadType, InBurst, Starting, Stopping, Running,
                            coreVars, mainVars
  <2> QED
    BY <2>6, <2>7, <2>8, <2>9
<1>3. CASE TestSave(t)
  <2>1. Head(mbuf2[t]) \in Packet
    BY <1>3, ThreadPacket DEF TestSave
  <2>2. tpc[t] \in {"packet", "free"}
    BY <1>3 DEF TestSave
  <2>3. ThreadType'
    BY <1>3, <2>1, <2>2, NextPacketType DEF TestSave, Goto, ThreadType
  <2>4. (WireType /\ CoreType /\ RingType /\ FileType /\ MainType)'
    BY <1>3 DEF TestSave, WireType, CoreType, RingType, FileType, MainType, nicVars,
                coreVars, mainVars
  <2>5. (InBurst /\ Starting /\ Stopping)'
    BY <1>3, <1>0, <2>2, NextPacketType
    DEF TestSave, Goto, ThreadType, InBurst, Starting, Stopping, Running, coreVars, mainVars
  <2> QED
    BY <2>3, <2>4, <2>5
<1>4. CASE LockDumper(t)
  <2>1. ThreadType'
    BY <1>4 DEF LockDumper, Goto, ThreadType
  <2>2. (WireType /\ CoreType /\ RingType /\ FileType /\ MainType)'
    BY <1>4 DEF LockDumper, WireType, CoreType, RingType, FileType, MainType, nicVars,
                coreVars, mainVars
  <2>3. (InBurst /\ Starting /\ Stopping)'
    BY <1>4, <1>0 DEF LockDumper, Goto, ThreadType, InBurst, Starting, Stopping, Running,
                      coreVars, mainVars
  <2> QED
    BY <2>1, <2>2, <2>3
<1>5. CASE DumpHeader(t)
  <2> DEFINE record == [part |-> "header", p |-> Head(mbuf2[t])]
  <2>1. Append(file, record) \in Seq([part : {"header", "data"}, p : Packet])
    BY <1>5, ThreadPacket, AppendProperties DEF DumpHeader, FileType
  <2>2. FileType'
    BY <1>5, <2>1 DEF DumpHeader, FileType
  <2>3. ThreadType'
    BY <1>5 DEF DumpHeader, Goto, ThreadType
  <2>4. (WireType /\ CoreType /\ RingType /\ MainType)'
    BY <1>5 DEF DumpHeader, WireType, CoreType, RingType, MainType, nicVars, coreVars,
                mainVars
  <2>5. (InBurst /\ Starting /\ Stopping)'
    BY <1>5, <1>0 DEF DumpHeader, Goto, ThreadType, InBurst, Starting, Stopping, Running,
                      coreVars, mainVars
  <2> QED
    BY <2>2, <2>3, <2>4, <2>5
<1>6. CASE DumpData(t)
  <2> DEFINE record == [part |-> "data", p |-> Head(mbuf2[t])]
  <2>1. Append(file, record) \in Seq([part : {"header", "data"}, p : Packet])
    BY <1>6, ThreadPacket, AppendProperties DEF DumpData, FileType
  <2>2. FileType'
    BY <1>6, <2>1 DEF DumpData, FileType
  <2>3. ThreadType'
    BY <1>6 DEF DumpData, Goto, ThreadType
  <2>4. (WireType /\ CoreType /\ RingType /\ MainType)'
    BY <1>6 DEF DumpData, WireType, CoreType, RingType, MainType, nicVars, coreVars, mainVars
  <2>5. (InBurst /\ Starting /\ Stopping)'
    BY <1>6, <1>0 DEF DumpData, Goto, ThreadType, InBurst, Starting, Stopping, Running,
                      coreVars, mainVars
  <2> QED
    BY <2>2, <2>3, <2>4, <2>5
<1>7. CASE FreeMbuf(t)
  <2>1. tpc[t] \in {"packet", "free"} /\ NextPacket(t)
    BY <1>7 DEF FreeMbuf
  <2>2. WireType'
    BY <1>7 DEF FreeMbuf, WireType, nicVars
  <2>3. ThreadType'
    BY <1>7, <2>1, NextPacketType DEF FreeMbuf, ThreadType
  <2>4. (CoreType /\ RingType /\ FileType /\ MainType)'
    BY <1>7 DEF FreeMbuf, CoreType, RingType, FileType, MainType, coreVars, mainVars
  <2>5. (InBurst /\ Starting /\ Stopping)'
    BY <1>7, <1>0, <2>1, NextPacketType
    DEF FreeMbuf, ThreadType, InBurst, Starting, Stopping, Running, coreVars, mainVars
  <2> QED
    BY <2>2, <2>3, <2>4, <2>5
<1> QED
  BY <1>1, <1>2, <1>3, <1>4, <1>5, <1>6, <1>7 DEF ThreadStep

LEMMA MainKeepsControl ==
    ASSUME ControlInv, MainStep \/ Sigint \/ UNCHANGED vars
    PROVE  ControlInv'
<1> USE DEF ControlInv, TypeOK
<1>1. CASE OpenDumper
  BY <1>1 DEF OpenDumper, WireType, CoreType, RingType, ThreadType, FileType, MainType,
              InBurst, Starting, Stopping, Running, nicVars, coreVars, threadVars
<1>2. CASE Begin
  BY <1>2 DEF Begin, WireType, CoreType, RingType, ThreadType, FileType, MainType, InBurst,
              Starting, Stopping, Running, nicVars, threadVars
<1>3. CASE CreateThread
  <2>1. next \in Thread /\ \A t \in Thread : t >= next => tpc[t] = "none"
    BY <1>3 DEF CreateThread, Starting
  <2>2. ThreadType'
    BY <1>3, <2>1 DEF CreateThread, ThreadType
  <2>2a. MainType'
    BY <1>3 DEF CreateThread, MainType
  <2>3. (WireType /\ CoreType /\ RingType /\ FileType)'
    BY <1>3 DEF CreateThread, WireType, CoreType, RingType, FileType, nicVars, coreVars
  <2>4. InBurst' /\ Stopping'
    BY <1>3 DEF CreateThread, ThreadType, InBurst, Stopping, coreVars
  <2>5. Starting'
    BY <1>3, <2>1, SizeAssumption DEF CreateThread, ThreadType, MainType, Starting, Thread,
                                      SizeAssumption
  <2> QED
    BY <2>2, <2>2a, <2>3, <2>4, <2>5
<1>4. CASE InstallHandler
  BY <1>4 DEF InstallHandler, WireType, CoreType, RingType, ThreadType, FileType, MainType,
              InBurst, Starting, Stopping, Running, nicVars, coreVars, threadVars
<1>5. CASE JoinThread
  <2>1. MainType' /\ Starting' /\ Stopping'
    BY <1>5 DEF JoinThread, MainType, Starting, Stopping
  <2>2. (WireType /\ CoreType /\ RingType /\ ThreadType /\ FileType /\ InBurst)'
    BY <1>5 DEF JoinThread, WireType, CoreType, RingType, ThreadType, FileType, InBurst,
                nicVars, coreVars, threadVars
  <2> QED
    BY <2>1, <2>2
<1>6. CASE CloseDumper
  <2>1. 0 \in Queue
    BY SizeAssumption DEF SizeAssumption, Queue
  <2> QED
    BY <1>6, <2>1 DEF CloseDumper, WireType, CoreType, RingType, ThreadType, FileType,
                      MainType, InBurst, Starting, Stopping, Running, nicVars, coreVars,
                      threadVars
<1>7. CASE StatisQueue
  <2>1. next \in Queue /\ rx_queue[next] \in Nat
    BY <1>7 DEF StatisQueue, Stopping, CoreType
  <2>2. MainType'
    BY <1>7, <2>1 DEF StatisQueue, MainType
  <2>3. Starting' /\ Stopping'
    BY <1>7, <2>1, SizeAssumption DEF StatisQueue, MainType, Starting, Stopping, Running,
                                      Queue, SizeAssumption
  <2>4. (WireType /\ CoreType /\ RingType /\ ThreadType /\ FileType /\ InBurst)'
    BY <1>7 DEF StatisQueue, WireType, CoreType, RingType, ThreadType, FileType, InBurst,
                nicVars, coreVars, threadVars
  <2> QED
    BY <2>2, <2>3, <2>4
<1>8. CASE Sigint
  BY <1>8 DEF Sigint, WireType, CoreType, RingType, ThreadType, FileType, MainType,
              InBurst, Starting, Stopping, Running, nicVars, coreVars, threadVars
<1>9. CASE UNCHANGED vars
  BY <1>9 DEF vars, WireType, CoreType, RingType, ThreadType, FileType, MainType,
              InBurst, Starting, Stopping, Running, nicVars, coreVars, threadVars, mainVars
<1> QED
  BY <1>1, <1>2, <1>3, <1>4, <1>5, <1>6, <1>7, <1>8, <1>9 DEF MainStep

LEMMA ControlStep == ControlInv /\ [Next]_vars => ControlInv'
BY CoreKeepsControl, ThreadKeepsControl, MainKeepsControl DEF Next, Ended

(***************************************************************************)
(* Every variable keeps its type, whatever the wire delivers, whatever the *)
(* threads read for the save option and whenever SIGINT comes.             *)
(***************************************************************************)
THEOREM TypeCorrect == Spec => []TypeOK
<1>1. ControlInv => TypeOK
  BY DEF ControlInv
<1> QED
  BY ControlInit, ControlStep, <1>1, PTL DEF Spec

-----------------------------------------------------------------------------
(* The dump file *)

(* A step that writes nothing and leaves the writer where it is. *)
LEMMA NoWrite ==
    ASSUME IInv, UNCHANGED <<file, mutexDumper>>,
           \A t \in Thread : /\ tpc'[t] \in {"header", "data"}
                                  <=> tpc[t] \in {"header", "data"}
                             /\ tpc[t] \in {"header", "data"}
                                  => tpc'[t] = tpc[t] /\ mbuf2'[t] = mbuf2[t]
    PROVE  (Holder /\ LastRecord /\ DumpWellFormed)'
<1>1. Holder'
  BY DEF IInv, Holder
<1>2. MidRecord' <=> MidRecord
  BY DEF IInv, Holder, MidRecord
<1>3. MidRecord => mbuf2'[mutexDumper] = mbuf2[mutexDumper]
  BY DEF MidRecord
<1>4. LastRecord'
  BY <1>2, <1>3 DEF IInv, LastRecord
<1>5. DumpWellFormed'
  BY DEF IInv, DumpWellFormed
<1> QED
  BY <1>1, <1>4, <1>5

(* A thread that goes on to its next packet is not writing. *)
LEMMA NextPacketNoWrite ==
    ASSUME IInv, NEW t \in Thread, NextPacket(t), tpc[t] \in {"packet", "free"},
           UNCHANGED <<file, mutexDumper>>
    PROVE  (Holder /\ LastRecord /\ DumpWellFormed)'
<1>1. /\ \A u \in Thread : u # t => mbuf2'[u] = mbuf2[u] /\ tpc'[u] = tpc[u]
      /\ tpc'[t] \in {"packet", "while"}
  BY NextPacketType DEF IInv
<1> QED
  BY <1>1, NoWrite

(* The header of a record goes after whole records. *)
LEMMA HeaderWrite ==
    ASSUME IInv, NEW t \in Thread, DumpHeader(t)
    PROVE  (Holder /\ LastRecord /\ DumpWellFormed)'
<1> DEFINE record == [part |-> "header", p |-> Head(mbuf2[t])]
<1>1. tpc[t] = "header" /\ mutexDumper = t /\ ~MidRecord
  BY DEF DumpHeader, IInv, Holder, MidRecord
<1>2. file \in Seq([part : {"header", "data"}, p : Packet]) /\ Len(file) \in Nat
  BY LenProperties DEF IInv, ControlInv, TypeOK, FileType
<1>3. Len(file) % 2 = 0
  BY <1>1 DEF IInv, LastRecord
<1>4. CASE dumper = "open"
  <2>1. record \in [part : {"header", "data"}, p : Packet]
    BY <1>1, ThreadPacket DEF IInv
  <2>2. file' = Append(file, record)
    BY <1>4 DEF DumpHeader
  <2>3. /\ Len(file') = Len(file) + 1 /\ DOMAIN file' = 1 .. Len(file) + 1
        /\ \A i \in 1 .. Len(file) : file'[i] = file[i]
        /\ file'[Len(file) + 1] = record
    BY <1>2, <2>1, <2>2, AppendProperties, LenProperties
  <2>4. tpc' = [tpc EXCEPT ![t] = "data"] /\ UNCHANGED <<mutexDumper, mbuf2>>
    BY <1>4 DEF DumpHeader, Goto
  <2>5. tpc \in [Thread -> {"none", "while", "masterRx", "packet", "lock", "header",
                            "data", "free", "done"}]
    BY DEF IInv, ControlInv, TypeOK, ThreadType
  <2>6. Holder'
    BY <1>1, <2>4, <2>5 DEF IInv, Holder
  <2>7. MidRecord'
    BY <1>1, <2>4, <2>5 DEF MidRecord
  <2>8. LastRecord'
    BY <1>1, <1>2, <1>3, <2>3, <2>4, <2>7 DEF LastRecord
  <2>9. DumpWellFormed'
    <3> SUFFICES ASSUME NEW i \in 1 .. Len(file) + 1
                 PROVE  IF i % 2 = 1 THEN file'[i].part = "header"
                        ELSE file'[i].part = "data" /\ file'[i].p = file'[i - 1].p
      BY <2>3 DEF DumpWellFormed
    <3>1. CASE i = Len(file) + 1
      BY <1>2, <1>3, <2>3, <3>1
    <3>2. CASE i \in 1 .. Len(file)
      <4>1. i % 2 # 1 => i - 1 \in 1 .. Len(file)
        BY <1>2, <3>2
      <4>2. DOMAIN file = 1 .. Len(file)
        BY <1>2, LenProperties
      <4> QED
        BY <2>3, <3>2, <4>1, <4>2 DEF IInv, DumpWellFormed
    <3> QED
      BY <1>2, <3>1, <3>2
  <2> QED
    BY <2>6, <2>8, <2>9
<1>5. CASE dumper # "open"
  BY <1>5, NoWrite DEF DumpHeader
<1> QED
  BY <1>4, <1>5

(* The data of a record goes after the header of the same packet. *)
LEMMA DataWrite ==
    ASSUME IInv, NEW t \in Thread, DumpData(t)
    PROVE  (Holder /\ LastRecord /\ DumpWellFormed)'
<1> DEFINE record == [part |-> "data", p |-> Head(mbuf2[t])]
<1>1. tpc[t] = "data" /\ mutexDumper = t /\ MidRecord
  BY DEF DumpData, IInv, Holder, MidRecord
<1>2. file \in Seq([part : {"header", "data"}, p : Packet]) /\ Len(file) \in Nat
  BY LenProperties DEF IInv, ControlInv, TypeOK, FileType
<1>3. Len(file) % 2 = 1 /\ file[Len(file)].p = Head(mbuf2[t])
  BY <1>1 DEF IInv, LastRecord
<1>4. record \in [part : {"header", "data"}, p : Packet]
  BY <1>1, ThreadPacket DEF IInv
<1>5. file' = Append(file, record) /\ mutexDumper' = NoThread
  BY DEF DumpData
<1>6. /\ Len(file') = Len(file) + 1 /\ DOMAIN file' = 1 .. Len(file) + 1
      /\ \A i \in 1 .. Len(file) : file'[i] = file[i]
      /\ file'[Len(file) + 1] = record
  BY <1>2, <1>4, <1>5, AppendProperties, LenProperties
<1>7. Holder'
  <2>1. tpc' = [tpc EXCEPT ![t] = "free"]
    BY DEF DumpData, Goto
  <2>2. tpc \in [Thread -> {"none", "while", "masterRx", "packet", "lock", "header",
                            "data", "free", "done"}]
    BY DEF IInv, ControlInv, TypeOK, ThreadType
  <2>3. NoThread \notin Thread
    BY DEF NoThread, Thread
  <2> QED
    BY <1>1, <1>5, <2>1, <2>2, <2>3 DEF IInv, Holder
<1>8. ~MidRecord'
  BY <1>5 DEF MidRecord, NoThread, Thread
<1>9. LastRecord'
  BY <1>2, <1>3, <1>6, <1>8 DEF LastRecord
<1>10. DumpWellFormed'
  <2> SUFFICES ASSUME NEW i \in 1 .. Len(file) + 1
               PROVE  IF i % 2 = 1 THEN file'[i].part = "header"
                      ELSE file'[i].part = "data" /\ file'[i].p = file'[i - 1].p
    BY <1>6 DEF DumpWellFormed
  <2>1. CASE i = Len(file) + 1
    BY <1>2, <1>3, <1>6, <2>1
  <2>2. CASE i \in 1 .. Len(file)
    <3>1. i % 2 # 1 => i - 1 \in 1 .. Len(file)
      BY <1>2, <2>2
    <3>2. DOMAIN file = 1 .. Len(file)
      BY <1>2, LenProperties
    <3> QED
      BY <1>6, <2>2, <3>1, <3>2 DEF IInv, DumpWellFormed
  <2> QED
    BY <1>2, <2>1, <2>2
<1> QED
  BY <1>7, <1>9, <1>10

LEMMA DumpInit == Init => IInv
<1> SUFFICES ASSUME Init PROVE Holder /\ LastRecord /\ DumpWellFormed
  BY ControlInit DEF IInv
<1>1. Len(<<>>) = 0 /\ DOMAIN <<>> = {}
  BY EmptySeq
<1>2. NoThread \notin Thread
  BY DEF NoThread, Thread
<1> QED
  BY <1>1, <1>2 DEF Init, Holder, LastRecord, MidRecord, DumpWellFormed

LEMMA DumpStep == IInv /\ [Next]_vars => (Holder /\ LastRecord /\ DumpWellFormed)'
<1> SUFFICES ASSUME IInv, [Next]_vars PROVE (Holder /\ LastRecord /\ DumpWellFormed)'
  OBVIOUS
<1>0. ThreadType
  BY DEF IInv, ControlInv, TypeOK
<1>1. CASE (\E h \in Header : Arrive(h)) \/ CoreStep
  BY <1>1, NoWrite DEF Arrive, CoreStep, RxIdle, RxBurst, RxBefore, RxEnqueue, RxAfter,
                       threadVars
<1>2. ASSUME NEW t \in Thread, ThreadStep(t)
      PROVE  (Holder /\ LastRecord /\ DumpWellFormed)'
  <2>1. CASE TestTimeflag(t)
    BY <2>1, <1>0, NoWrite DEF TestTimeflag, Goto, ThreadType
  <2>2. CASE MasterRx(t)
    BY <2>2, <1>0, NoWrite DEF MasterRx, Goto, ThreadType
  <2>3. CASE TestSave(t)
    <3>1. CASE save.read = "0"
      BY <2>3, <3>1, NextPacketNoWrite DEF TestSave
    <3>2. CASE save.read # "0"
      BY <2>3, <3>2, <1>0, NoWrite DEF TestSave, Goto, ThreadType
    <3> QED
      BY <3>1, <3>2
  <2>4. CASE LockDumper(t)
    <3>1. /\ tpc[t] = "lock" /\ mutexDumper = NoThread /\ mutexDumper' = t
          /\ tpc' = [tpc EXCEPT ![t] = "header"] /\ UNCHANGED file
      BY <2>4 DEF LockDumper, Goto
    <3>2. NoThread \notin Thread
      BY DEF NoThread, Thread
    <3>3. \A u \in Thread : tpc[u] \notin {"header", "data"}
      BY <3>1, <3>2 DEF IInv, Holder
    <3>4. Holder'
      BY <1>0, <3>1, <3>3 DEF Holder, ThreadType
    <3>5. ~MidRecord /\ ~MidRecord'
      BY <1>0, <3>1, <3>2 DEF MidRecord, ThreadType
    <3>6. LastRecord'
      BY <3>1, <3>5 DEF IInv, LastRecord
    <3>7. DumpWellFormed'
      BY <3>1 DEF IInv, DumpWellFormed
    <3> QED
      BY <3>4, <3>6, <3>7
  <2>5. CASE DumpHeader(t)
    BY <2>5, HeaderWrite
  <2>6. CASE DumpData(t)
    BY <2>6, DataWrite
  <2>7. CASE FreeMbuf(t)
    BY <2>7, NextPacketNoWrite DEF FreeMbuf
  <2> QED
    BY <1>2, <2>1, <2>2, <2>3, <2>4, <2>5, <2>6, <2>7 DEF ThreadStep
<1>3. CASE CreateThread
  <2>1. next \in Thread /\ tpc[next] = "none"
    BY <1>3 DEF CreateThread, IInv, ControlInv, Starting, Thread
  <2> QED
    BY <1>3, <2>1, <1>0, NoWrite DEF CreateThread, ThreadType
<1>4. CASE (MainStep /\ ~CreateThread) \/ Sigint \/ UNCHANGED vars
  BY <1>4, NoWrite DEF MainStep, OpenDumper, Begin, InstallHandler, JoinThread, CloseDumper,
                       StatisQueue, Sigint, vars, threadVars
<1> QED
  BY <1>1, <1>2, <1>3, <1>4 DEF Next, Ended

(***************************************************************************)
(* The dump file is well formed with any number of capture threads: the    *)
(* mutex is held exactly by the thread that writes, and the file ends in   *)
(* the middle of a record only while that thread is there.                 *)
(***************************************************************************)
THEOREM DumpFileWellFormed == Spec => []DumpWellFormed
<1>1. Init => IInv
  BY DumpInit
<1>2. IInv /\ [Next]_vars => IInv'
  BY ControlStep, DumpStep DEF IInv
<1>3. IInv => DumpWellFormed
  BY DEF IInv
<1> QED
  BY <1>1, <1>2, <1>3, PTL DEF Spec


-----------------------------------------------------------------------------
(* Order on the way to the file, and what becomes of the mbufs *)

(* Outside the loops over bursts, there is no burst; the lcore starts last. *)
Idle ==
    /\ mainpc \in {"open", "begin"} => rxpc = "off"
    /\ rxpc \in {"off", "poll"} => bufs = <<>>
    /\ \A t \in Thread : tpc[t] \in {"none", "while", "masterRx", "done"}
                            => mbuf2[t] = <<>>

(* What has left the way, and all that is missing from the pool *)
Lost == overrun \cup unfreed
Held == Owned \cup Lost

(* The packets of the headers, or of the data, in the file; those of which *)
(* thread t has still to write the header, or the data.                    *)
Part == {"header", "data"}
Written(part) == {file[i].p : i \in {j \in DOMAIN file : file[j].part = part}}
ToWrite(part, t) ==
    Range(IF tpc[t] = "free" \/ (tpc[t] = "data" /\ part = "header")
          THEN Tail(mbuf2[t])
          ELSE mbuf2[t])

(* Of each flow, the packets of A arrived before those of B. *)
Precede(A, B) == \A a \in A, b \in B : a.h = b.h => a.n < b.n
Sorted(s) == \A i, j \in DOMAIN s : (i < j /\ s[i].h = s[j].h) => s[i].n < s[j].n

(* A flow keeps to one queue, one ring and one thread. *)
Routed ==
    /\ \A q \in Queue : \A p \in Range(nic[q]) : RssQueue[p.h] = q
    /\ \A r \in Ring : \A p \in Range(ring[r]) : RingId(p.h) = r
    /\ \A t \in Thread : \A p \in Range(mbuf2[t]) : RingId(p.h) = t
ListsSorted ==
    /\ \A q \in Queue : Sorted(nic[q])
    /\ Sorted(bufs)
    /\ \A r \in Ring : Sorted(ring[r])
    /\ \A t \in Thread : Sorted(mbuf2[t])

(* The further on its way, the earlier a packet of the flow arrived. *)
Staged ==
    /\ Precede(CoreOwned, WaitingNic)
    /\ Precede(WaitingRing, CoreOwned \cup WaitingNic)
    /\ Precede(InHand, WaitingRing \cup CoreOwned \cup WaitingNic)
WrittenFirst ==
    \A part \in Part : Precede(Written(part), WaitingRing \cup CoreOwned \cup WaitingNic)
WrittenInOrder ==
    \A part \in Part, t \in Thread : Precede(Written(part), ToWrite(part, t))

(* The numbers given out so far; what is lost is held nowhere else. *)
Numbered ==
    /\ \A p \in Held : p.n <= arrived
    /\ \A part \in Part : \A p \in Written(part) : p.n <= arrived
LostApart == Owned \cap Lost = {}
Conserved == IsFiniteSet(Held) /\ MbufConservation

Order == Routed /\ ListsSorted /\ Staged /\ WrittenFirst /\ WrittenInOrder /\ FlowOrder
FlowInv == IInv /\ Idle /\ Order /\ Numbered /\ LostApart /\ Conserved

-----------------------------------------------------------------------------
(* Sorted queues *)

LEMMA SortedAppend ==
    ASSUME NEW s \in Seq(Packet), NEW p \in Packet, Sorted(s), Precede(Range(s), {p})
    PROVE  Sorted(Append(s, p))
<1> DEFINE t == Append(s, p)
<1>1. /\ Len(t) = Len(s) + 1 /\ Len(s) \in Nat
      /\ \A i \in 1 .. Len(s) : t[i] = s[i] /\ s[i] \in Range(s)
      /\ t[Len(s) + 1] = p
      /\ DOMAIN t = 1 .. Len(s) + 1 /\ DOMAIN s = 1 .. Len(s)
  BY AppendProperties, LenProperties, RangeIs
<1> HIDE DEF t
<1>2. ASSUME NEW i \in 1 .. Len(s) + 1, NEW j \in 1 .. Len(s) + 1, i < j, t[i].h = t[j].h
      PROVE  t[i].n < t[j].n
  <2>1. i \in 1 .. Len(s)
    BY <1>1, <1>2
  <2>2. CASE j = Len(s) + 1
    BY <1>1, <1>2, <2>1, <2>2 DEF Precede
  <2>3. CASE j # Len(s) + 1
    <3>1. j \in 1 .. Len(s)
      BY <1>1, <2>3
    <3> QED
      BY <1>1, <1>2, <2>1, <3>1 DEF Sorted
  <2> QED
    BY <2>2, <2>3
<1>3. Sorted(t)
  BY <1>1, <1>2 DEF Sorted
<1> QED
  BY <1>3 DEF t

LEMMA SortedTail ==
    ASSUME NEW s \in Seq(Packet), s # <<>>, Sorted(s)
    PROVE  Sorted(Tail(s)) /\ Precede({Head(s)}, Range(Tail(s)))
<1> DEFINE t == Tail(s)
<1>1. /\ t \in Seq(Packet) /\ Len(t) = Len(s) - 1 /\ Len(s) \in Nat \ {0}
      /\ \A i \in 1 .. Len(t) : t[i] = s[i + 1]
      /\ Head(s) = s[1]
      /\ DOMAIN s = 1 .. Len(s)
  BY HeadTailProperties, EmptySeq, LenProperties
<1> HIDE DEF t
<1>2. DOMAIN t = 1 .. Len(t) /\ Range(t) = {t[i] : i \in 1 .. Len(t)}
  BY <1>1, LenProperties, RangeIs
<1>3. \A i \in 1 .. Len(t) : i + 1 \in DOMAIN s /\ 1 < i + 1 /\ 1 \in DOMAIN s
  BY <1>1
<1>4. Sorted(t)
  <2> SUFFICES ASSUME NEW i \in 1 .. Len(t), NEW j \in 1 .. Len(t), i < j, t[i].h = t[j].h
               PROVE  t[i].n < t[j].n
    BY <1>2 DEF Sorted
  <2>1. i + 1 < j + 1
    BY <1>1
  <2> QED
    BY <1>1, <1>3, <2>1 DEF Sorted
<1>5. Precede({Head(s)}, Range(t))
  BY <1>1, <1>2, <1>3 DEF Sorted, Precede
<1> QED
  BY <1>4, <1>5 DEF t

LEMMA BurstIs ==
    ASSUME NEW s \in Seq(Packet), NEW k \in Nat
    PROVE  /\ Range(s) = Range(Taken(s, k)) \cup Range(Rest(s, k))
           /\ Len(s) = Len(Taken(s, k)) + Len(Rest(s, k))
           /\ Sorted(s) => /\ Sorted(Taken(s, k)) /\ Sorted(Rest(s, k))
                           /\ Precede(Range(Taken(s, k)), Range(Rest(s, k)))
<1> DEFINE n == Size(s, k)
           t == SubSeq(s, 1, n)
           u == SubSeq(s, n + 1, Len(s))
<1>1. Len(s) \in Nat /\ n \in 0 .. Len(s)
  BY LenProperties DEF Size
<1> HIDE DEF n
<1>2. Range(s) = Range(t) \cup Range(u)
  BY <1>1, RangeCut
<1>3. /\ t \in Seq(Packet) /\ Len(t) = n /\ \A i \in 1 .. n : t[i] = s[i]
      /\ u \in Seq(Packet) /\ Len(u) = Len(s) - n
      /\ \A i \in 1 .. Len(s) - n : u[i] = s[n + i]
  BY <1>1, CutIs
<1> HIDE DEF t, u
<1>4. Taken(s, k) = t /\ Rest(s, k) = u
  BY DEF Taken, Rest, t, u, n
<1>5. /\ DOMAIN s = 1 .. Len(s) /\ DOMAIN t = 1 .. n /\ DOMAIN u = 1 .. Len(s) - n
      /\ Range(t) = {t[i] : i \in 1 .. n} /\ Range(u) = {u[i] : i \in 1 .. Len(s) - n}
  BY <1>3, LenProperties, RangeIs
<1>6. ASSUME Sorted(s)
      PROVE  Sorted(t) /\ Sorted(u) /\ Precede(Range(t), Range(u))
  <2>1. Sorted(t)
    <3>1. \A i \in 1 .. n : i \in 1 .. Len(s)
      BY <1>1
    <3> QED
      BY <1>3, <1>5, <1>6, <3>1 DEF Sorted
  <2>2. Sorted(u)
    <3>1. \A i \in 1 .. Len(s) - n : n + i \in 1 .. Len(s)
      BY <1>1
    <3> SUFFICES ASSUME NEW i \in 1 .. Len(s) - n, NEW j \in 1 .. Len(s) - n, i < j,
                        u[i].h = u[j].h
                 PROVE  u[i].n < u[j].n
      BY <1>5 DEF Sorted
    <3> DEFINE a == n + i
               b == n + j
    <3>2. a < b /\ a \in DOMAIN s /\ b \in DOMAIN s /\ u[i] = s[a] /\ u[j] = s[b]
      BY <1>1, <1>3, <1>5, <3>1
    <3> HIDE DEF a, b
    <3> QED
      BY <1>6, <3>2 DEF Sorted
  <2>3. ASSUME NEW i \in 1 .. n, NEW j \in 1 .. Len(s) - n, t[i].h = u[j].h
        PROVE  t[i].n < u[j].n
    <3> DEFINE b == n + j
    <3>1. i < b /\ i \in DOMAIN s /\ b \in DOMAIN s /\ t[i] = s[i] /\ u[j] = s[b]
      BY <1>1, <1>3, <1>5
    <3> HIDE DEF b
    <3> QED
      BY <1>6, <2>3, <3>1 DEF Sorted
  <2> QED
    BY <1>5, <2>1, <2>2, <2>3 DEF Precede
<1>7. Len(s) = Len(t) + Len(u)
  BY <1>1, <1>3
<1> QED
  BY <1>2, <1>4, <1>6, <1>7

-----------------------------------------------------------------------------
(* The stages *)

LEMMA StageTypes ==
    ASSUME ControlInv
    PROVE  /\ CoreOwned \subseteq Packet
           /\ WaitingNic \subseteq Packet /\ WaitingRing \subseteq Packet
           /\ InHand \subseteq Packet /\ Lost \subseteq Packet
           /\ Owned = WaitingNic \cup CoreOwned \cup WaitingRing \cup InHand
<1> USE DEF ControlInv, TypeOK
<1>1. Range(bufs) \subseteq Packet
  BY RangeIs DEF CoreType
<1>2. rxpc = "after" => Range(Tail(bufs)) \subseteq Packet
  <2> SUFFICES ASSUME rxpc = "after" PROVE Range(Tail(bufs)) \subseteq Packet
    OBVIOUS
  <2>1. Tail(bufs) \in Seq(Packet)
    BY CorePacket, HeadTailProperties
  <2> QED
    BY <2>1, RangeIs
<1>3. \A q \in Queue : Range(nic[q]) \subseteq Packet
  BY RangeIs DEF WireType
<1>4. \A r \in Ring : Range(ring[r]) \subseteq Packet
  BY RangeIs DEF RingType
<1>5. \A t \in Thread : Range(mbuf2[t]) \subseteq Packet
  BY RangeIs DEF ThreadType
<1>6. overrun \subseteq Packet /\ unfreed \subseteq Packet
  BY DEF CoreType, ThreadType
<1>7. CoreOwned \subseteq Packet
  BY <1>1, <1>2 DEF CoreOwned
<1>8. WaitingNic \subseteq Packet /\ WaitingRing \subseteq Packet /\ InHand \subseteq Packet
  BY <1>3, <1>4, <1>5 DEF WaitingNic, WaitingRing, InHand
<1>9. Owned = WaitingNic \cup CoreOwned \cup WaitingRing \cup InHand
  BY DEF Owned
<1> QED
  BY <1>6, <1>7, <1>8, <1>9 DEF Lost

(* No packet precedes itself. *)
LEMMA Irreflexive ==
    ASSUME NEW A, NEW B, A \subseteq Packet, Precede(A, B)
    PROVE  A \cap B = {}
<1> SUFFICES ASSUME NEW p \in A, p \in B PROVE FALSE
  OBVIOUS
<1>1. p.n \in Nat
  BY SizeAssumption DEF Packet, SizeAssumption
<1>2. p.n < p.n
  BY DEF Precede
<1> QED
  BY <1>1, <1>2

LEMMA WrittenType ==
    ASSUME ControlInv, NEW part
    PROVE  Written(part) \subseteq Packet
<1>1. file \in Seq([part : {"header", "data"}, p : Packet])
  BY DEF ControlInv, TypeOK, FileType
<1>2. \A i \in DOMAIN file : file[i] \in [part : {"header", "data"}, p : Packet]
  BY <1>1, LenProperties, ElementOfSeq
<1> QED
  BY <1>2 DEF Written

(***************************************************************************)
(* Steps that only move packets forward, at most one stage, keep the       *)
(* stages ordered if what moves precedes what stays behind.                *)
(***************************************************************************)
LEMMA StagesMove ==
    ASSUME Staged, WrittenFirst,
           WaitingNic' \subseteq WaitingNic,
           CoreOwned' \subseteq CoreOwned \cup WaitingNic,
           WaitingRing' \subseteq WaitingRing \cup CoreOwned,
           InHand' \subseteq InHand \cup WaitingRing,
           \A part \in Part : Written(part)' \subseteq Written(part) \cup InHand,
           Precede(CoreOwned' \cap WaitingNic, WaitingNic'),
           Precede(WaitingRing' \cap CoreOwned, CoreOwned'),
           Precede(InHand' \cap WaitingRing, WaitingRing')
    PROVE  Staged' /\ WrittenFirst'
<1>1. Precede(CoreOwned, WaitingNic)'
  BY DEF Staged, Precede
<1>2. Precede(WaitingRing, CoreOwned \cup WaitingNic)'
  BY DEF Staged, Precede
<1>3. Precede(InHand, WaitingRing \cup CoreOwned \cup WaitingNic)'
  BY DEF Staged, Precede
<1>4. ASSUME NEW part \in Part
      PROVE  Precede(Written(part), WaitingRing \cup CoreOwned \cup WaitingNic)'
  BY DEF Staged, WrittenFirst, Precede
<1> QED
  BY <1>1, <1>2, <1>3, <1>4 DEF Staged, WrittenFirst

(* The same for the order of what a thread writes, when nothing is written *)
LEMMA WritesMove ==
    ASSUME WrittenFirst, WrittenInOrder, FlowOrder, UNCHANGED file,
           \A part \in Part, t \in Thread :
               ToWrite(part, t)' \subseteq ToWrite(part, t) \cup WaitingRing
    PROVE  WrittenInOrder' /\ FlowOrder'
<1>1. \A part : Written(part)' = Written(part)
  BY DEF Written
<1>2. WrittenInOrder'
  BY <1>1 DEF WrittenFirst, WrittenInOrder, Precede
<1> QED
  BY <1>2 DEF FlowOrder

(* and for the numbers and the packets lost. *)
LEMMA HeldMove ==
    ASSUME ControlInv, Numbered, LostApart, UNCHANGED arrived,
           Held' \subseteq Held,
           \A part \in Part : Written(part)' \subseteq Written(part) \cup Held,
           Owned' \subseteq Owned,
           Lost' \cap Owned' \subseteq Lost
    PROVE  Numbered' /\ LostApart'
<1>1. Numbered'
  BY DEF Numbered
<1>2. LostApart'
  BY DEF LostApart
<1> QED
  BY <1>1, <1>2

(* Steps that leave the packets where they are *)
LEMMA NothingMoves ==
    ASSUME FlowInv, UNCHANGED <<arrived, nic, ring, overrun, unfreed, file, pool>>,
           CoreOwned' = CoreOwned, Sorted(bufs)', mbuf2' = mbuf2,
           \A part \in Part, t \in Thread : ToWrite(part, t)' \subseteq ToWrite(part, t)
    PROVE  (Order /\ Numbered /\ LostApart /\ Conserved)'
<1> USE DEF FlowInv, Order
<1>1. /\ WaitingNic' = WaitingNic /\ WaitingRing' = WaitingRing /\ InHand' = InHand
      /\ Lost' = Lost /\ \A part : Written(part)' = Written(part)
  BY Zenon DEF WaitingNic, WaitingRing, InHand, Lost, Written
<1>2. Owned' = Owned
  BY <1>1 DEF Owned
<1>3. Held' = Held
  BY <1>1, <1>2 DEF Held
<1>4. (Routed /\ ListsSorted)'
  BY DEF Routed, ListsSorted
<1>5. (Staged /\ WrittenFirst)'
  BY <1>1, Zenon DEF Staged, WrittenFirst
<1>6. (WrittenInOrder /\ FlowOrder)'
  BY WritesMove
<1>7. (Numbered /\ LostApart)'
  BY <1>1, <1>2, <1>3, Zenon DEF Numbered, LostApart
<1>8. Conserved'
  BY <1>2, <1>3 DEF Conserved, MbufConservation, Held, Lost
<1> QED
  BY <1>4, <1>5, <1>6, <1>7, <1>8

-----------------------------------------------------------------------------
(* The wire *)

LEMMA ArriveKeeps ==
    ASSUME FlowInv, NEW h \in Header, Arrive(h)
    PROVE  (Order /\ Numbered /\ LostApart /\ Conserved)'
<1> USE DEF FlowInv, Order
<1> DEFINE q == RssQueue[h]
           p == [n |-> arrived + 1, h |-> h]
<1>1. /\ ControlInv /\ q \in Queue /\ nic \in [Queue -> Seq(Packet)]
      /\ arrived \in Nat /\ MaxPackets \in Nat /\ arrived < MaxPackets
      /\ arrived' = arrived + 1
      /\ pool \in Nat
  <2>1. ControlInv /\ TypeOK
    BY DEF IInv, ControlInv
  <2>2. MaxPackets \in Nat /\ q \in Queue
    BY TrafficAssumption, SizeAssumption DEF TrafficAssumption, SizeAssumption
  <2>3. nic \in [Queue -> Seq(Packet)] /\ arrived \in Nat /\ pool \in Nat
    BY <2>1, <2>2 DEF TypeOK, WireType
  <2>4. arrived < MaxPackets /\ arrived' = arrived + 1
    BY DEF Arrive
  <2> QED
    BY <2>1, <2>2, <2>3, <2>4
<1>2. p \in Packet /\ p.h = h /\ p.n = arrived + 1
  BY <1>1 DEF Packet
<1>3. /\ UNCHANGED <<rxpc, bufs, ring, overrun, unfreed, file, tpc, mbuf2>>
      /\ \/ nic' = [nic EXCEPT ![q] = Append(@, p)] /\ pool > 0 /\ pool' = pool - 1
         \/ UNCHANGED <<nic, pool>>
  BY DEF Arrive, coreVars, threadVars
<1>4. /\ WaitingRing' = WaitingRing /\ InHand' = InHand /\ Lost' = Lost
      /\ CoreOwned' = CoreOwned
      /\ \A part : Written(part)' = Written(part)
      /\ \A part, t : ToWrite(part, t)' = ToWrite(part, t)
  BY <1>3, Zenon DEF WaitingRing, InHand, Lost, CoreOwned, Written, ToWrite
<1>5. Owned = WaitingNic \cup CoreOwned \cup WaitingRing \cup InHand
  BY <1>1, StageTypes
<1>6. Owned' = WaitingNic' \cup CoreOwned \cup WaitingRing \cup InHand
  BY <1>4 DEF Owned
<1> HIDE DEF q, p
<1>7. \A x \in Held : x.n \in Int /\ x.n <= arrived
  BY <1>1, <1>5, StageTypes DEF Held, Numbered, Packet
<1>8. \A part \in Part : \A x \in Written(part) : x.n \in Int /\ x.n <= arrived
  BY <1>1, WrittenType DEF Numbered, Packet
<1>9. CASE UNCHANGED <<nic, pool>>
  <2>1. WaitingNic' = WaitingNic
    BY <1>9, Zenon DEF WaitingNic
  <2>2. Owned' = Owned
    BY <1>5, <1>6, <2>1
  <2>3. Held' = Held
    BY <1>4, <2>2 DEF Held
  <2>4. (Routed /\ ListsSorted)'
    BY <1>3, <1>9 DEF Routed, ListsSorted
  <2>5. (Staged /\ WrittenFirst)'
    BY <1>4, <2>1, Zenon DEF Staged, WrittenFirst
  <2>6. (WrittenInOrder /\ FlowOrder)'
    BY <1>3, <1>4, Zenon DEF WrittenInOrder, FlowOrder
  <2>7. Numbered'
    BY <1>1, <1>4, <1>7, <1>8, <2>3 DEF Numbered
  <2>8. LostApart'
    BY <1>4, <2>2 DEF LostApart
  <2>9. Conserved'
    BY <1>9, <2>3, Zenon DEF Conserved, MbufConservation, Held, Lost
  <2> QED
    BY <2>4, <2>5, <2>6, <2>7, <2>8, <2>9
<1>10. CASE nic' = [nic EXCEPT ![q] = Append(@, p)] /\ pool > 0 /\ pool' = pool - 1
  <2>1. /\ \A k \in Queue \ {q} : nic'[k] = nic[k]
        /\ nic'[q] = Append(nic[q], p) /\ nic[q] \in Seq(Packet)
    BY <1>1, <1>10
  <2>2. Range(nic'[q]) = Range(nic[q]) \cup {p}
    BY <1>2, <2>1, RangeAppend
  <2>3. WaitingNic' = WaitingNic \cup {p}
    BY <1>1, <2>1, <2>2 DEF WaitingNic
  <2>4. Owned' = Owned \cup {p} /\ Held' = Held \cup {p}
    BY <1>4, <1>5, <1>6, <2>3 DEF Held
  <2>5. /\ \A x \in Held : x.n < p.n
        /\ \A part \in Part : \A x \in Written(part) : x.n < p.n
    BY <1>1, <1>2, <1>7, <1>8
  <2>6. Routed'
    BY <1>2, <1>3, <2>1, <2>2 DEF Routed, q
  <2>7. ListsSorted'
    <3>1. Range(nic[q]) \subseteq Held
      BY <1>1, <1>5 DEF WaitingNic, Held
    <3>2. Precede(Range(nic[q]), {p})
      BY <2>5, <3>1 DEF Precede
    <3>3. Sorted(nic'[q])
      BY <1>1, <1>2, <2>1, <3>2, SortedAppend DEF ListsSorted
    <3> QED
      BY <1>3, <2>1, <3>3 DEF ListsSorted
  <2>8. /\ Precede(CoreOwned, {p}) /\ Precede(WaitingRing, {p}) /\ Precede(InHand, {p})
        /\ \A part \in Part : Precede(Written(part), {p})
    BY <1>5, <2>5 DEF Precede, Held
  <2>9. (Staged /\ WrittenFirst)'
    BY <1>4, <2>3, <2>8 DEF Staged, WrittenFirst, Precede
  <2>10. (WrittenInOrder /\ FlowOrder)'
    BY <1>3, <1>4, Zenon DEF WrittenInOrder, FlowOrder
  <2>11. Numbered'
    <3>1. arrived <= arrived + 1 /\ p.n <= arrived + 1
      BY <1>1, <1>2
    <3>2. \A x \in Held' : x.n <= arrived'
      BY <1>1, <1>7, <2>4, <3>1
    <3>3. \A part \in Part : \A x \in Written(part)' : x.n <= arrived'
      BY <1>1, <1>4, <1>8
    <3> QED
      BY <3>2, <3>3 DEF Numbered
  <2>12. p \notin Held
    BY <1>2, <1>1, <2>5
  <2>13. LostApart'
    BY <1>4, <2>4, <2>12 DEF LostApart, Held
  <2>14. Conserved'
    <3>1. IsFiniteSet(Held) /\ Cardinality(Held') = Cardinality(Held) + 1
      BY <2>4, <2>12, FS_AddElement DEF Conserved
    <3>2. IsFiniteSet(Held') /\ Cardinality(Held) \in Nat
      BY <2>4, <3>1, FS_AddElement, FS_CardinalityType
    <3>3. pool + Cardinality(Held) = NumMbufs
      BY DEF Conserved, MbufConservation, Held, Lost
    <3>4. pool' + Cardinality(Held') = NumMbufs
      BY <1>1, <1>10, <3>1, <3>2, <3>3
    <3> QED
      BY <3>2, <3>4 DEF Conserved, MbufConservation, Held, Lost
  <2> QED
    BY <2>6, <2>7, <2>9, <2>10, <2>11, <2>13, <2>14
<1> QED
  BY <1>3, <1>9, <1>10

-----------------------------------------------------------------------------
(* The receive lcore *)

(* Steps of the others than the threads leave what is written, or still to *)
(* be written, alone.                                                      *)
LEMMA ThreadsAlone ==
    ASSUME UNCHANGED <<file, tpc, mbuf2>>
    PROVE  /\ InHand' = InHand
           /\ \A part : Written(part)' = Written(part)
           /\ \A part, t : ToWrite(part, t)' = ToWrite(part, t)
BY Zenon DEF InHand, Written, ToWrite

LEMMA RxBurstKeeps ==
    ASSUME FlowInv, RxBurst
    PROVE  (Order /\ Numbered /\ LostApart /\ Conserved)'
<1> USE DEF FlowInv, Order
<1> DEFINE q    == SlotQueue
           got  == Taken(nic[q], Burst)
           rest == Rest(nic[q], Burst)
<1>1. /\ ControlInv /\ q \in Queue /\ nic \in [Queue -> Seq(Packet)] /\ Burst \in Nat
      /\ nic[q] \in Seq(Packet)
  BY SlotType, SizeAssumption
  DEF IInv, ControlInv, TypeOK, WireType, CoreType, SizeAssumption
<1>2. /\ UNCHANGED <<arrived, pool, ring, overrun, unfreed, file, tpc, mbuf2>>
      /\ nic' = [nic EXCEPT ![q] = rest] /\ bufs' = got
      /\ rxpc' = "before" /\ bufs = <<>> /\ rxpc # "after"
  BY DEF RxBurst, threadVars, Idle
<1>3. /\ Range(nic[q]) = Range(got) \cup Range(rest)
      /\ Sorted(got) /\ Sorted(rest) /\ Precede(Range(got), Range(rest))
  BY <1>1, BurstIs DEF ListsSorted
<1> HIDE DEF q, got, rest
<1>4. CoreOwned = {} /\ CoreOwned' = Range(got)
  BY <1>2, RangeEmpty DEF CoreOwned
<1>5. \A k \in Queue \ {q} : nic'[k] = nic[k]
  BY <1>1, <1>2
<1>6. nic'[q] = rest
  BY <1>1, <1>2
<1>7. WaitingNic = WaitingNic' \cup Range(got)
  <2>1. ASSUME NEW x \in WaitingNic PROVE x \in WaitingNic' \cup Range(got)
    <3>1. PICK k \in Queue : x \in Range(nic[k])
      BY DEF WaitingNic
    <3> QED
      BY <1>3, <1>5, <1>6, <3>1 DEF WaitingNic
  <2>2. ASSUME NEW x \in WaitingNic' \cup Range(got) PROVE x \in WaitingNic
    BY <1>1, <1>3, <1>5, <1>6 DEF WaitingNic
  <2> QED
    BY <2>1, <2>2
<1>8. /\ WaitingRing' = WaitingRing /\ InHand' = InHand /\ Lost' = Lost
      /\ \A part : Written(part)' = Written(part)
      /\ \A part, t : ToWrite(part, t)' = ToWrite(part, t)
  <2>1. WaitingRing' = WaitingRing /\ Lost' = Lost
    BY <1>2, Zenon DEF WaitingRing, Lost
  <2> QED
    BY <1>2, <2>1, ThreadsAlone
<1>9. Owned' = Owned
  BY <1>4, <1>7, <1>8 DEF Owned
<1>10. Held' = Held
  BY <1>8, <1>9 DEF Held
<1>11. Routed'
  BY <1>2, <1>3, <1>5, <1>6 DEF Routed
<1>12. ListsSorted'
  BY <1>2, <1>3, <1>5, <1>6 DEF ListsSorted
<1>13. Precede(Range(got), WaitingNic')
  <2> SUFFICES ASSUME NEW k \in Queue, NEW x \in Range(got), NEW y \in Range(nic'[k]),
                      x.h = y.h
               PROVE  x.n < y.n
    BY DEF Precede, WaitingNic
  <2>1. RssQueue[x.h] = q /\ RssQueue[y.h] = k
    BY <1>1, <1>3, <1>11 DEF Routed
  <2> QED
    BY <1>3, <1>6, <2>1 DEF Precede
<1>14. (Staged /\ WrittenFirst)'
  <2>1. Precede(CoreOwned' \cap WaitingNic, WaitingNic')
    BY <1>4, <1>13 DEF Precede
  <2>2. /\ Precede(WaitingRing' \cap CoreOwned, CoreOwned')
        /\ Precede(InHand' \cap WaitingRing, WaitingRing')
    <3>1. Precede(InHand, WaitingRing)
      BY DEF Staged, Precede
    <3> QED
      BY <1>4, <1>8, <3>1 DEF Precede
  <2> QED
    BY <1>4, <1>7, <1>8, <2>1, <2>2, StagesMove
<1>15. (WrittenInOrder /\ FlowOrder)'
  BY <1>2, <1>8, Zenon DEF WrittenInOrder, FlowOrder
<1>16. (Numbered /\ LostApart)'
  BY <1>2, <1>8, <1>9, <1>10, Zenon DEF Numbered, LostApart
<1>17. Conserved'
  BY <1>2, <1>10, Zenon DEF Conserved, MbufConservation, Held, Lost
<1> QED
  BY <1>11, <1>12, <1>14, <1>15, <1>16, <1>17

LEMMA RxEnqueueKeeps ==
    ASSUME FlowInv, RxEnqueue
    PROVE  (Order /\ Numbered /\ LostApart /\ Conserved)'
<1> USE DEF FlowInv, Order
<1> DEFINE p == Head(bufs)
           r == RingId(p.h)
<1>1. /\ ControlInv /\ bufs \in Seq(Packet) /\ bufs # <<>> /\ p \in Packet /\ r \in Ring
      /\ ring \in [Ring -> Seq(Packet)] /\ ring[r] \in Seq(Packet)
  BY CorePacket DEF IInv, ControlInv, TypeOK, RingType, RxEnqueue
<1>2. /\ UNCHANGED <<arrived, nic, pool, bufs, unfreed, file, tpc, mbuf2>>
      /\ rxpc = "enqueue" /\ rxpc' = "after"
      /\ \/ ring' = [ring EXCEPT ![r] = Append(@, p)] /\ UNCHANGED overrun
         \/ overrun' = overrun \cup {p} /\ UNCHANGED ring
  BY DEF RxEnqueue, nicVars, threadVars
<1>3. Range(bufs) = {p} \cup Range(Tail(bufs)) /\ Precede({p}, Range(Tail(bufs)))
  BY <1>1, RangeHeadTail, SortedTail DEF ListsSorted
<1>4. CoreOwned = Range(bufs) /\ CoreOwned' = Range(Tail(bufs))
  BY <1>2 DEF CoreOwned
<1> HIDE DEF p
<1>5. CoreOwned = {p} \cup CoreOwned' /\ Precede({p}, CoreOwned')
  BY <1>3, <1>4
<1>6. /\ WaitingNic' = WaitingNic /\ InHand' = InHand
      /\ \A part : Written(part)' = Written(part)
      /\ \A part, t : ToWrite(part, t)' = ToWrite(part, t)
  <2>1. WaitingNic' = WaitingNic
    BY <1>2, Zenon DEF WaitingNic
  <2> QED
    BY <1>2, <2>1, ThreadsAlone
<1>7. Precede(InHand, WaitingRing)
  BY DEF Staged, Precede
<1>8. (WrittenInOrder /\ FlowOrder)'
  BY <1>2, <1>6, Zenon DEF WrittenInOrder, FlowOrder
<1>9. CASE ring' = [ring EXCEPT ![r] = Append(@, p)] /\ UNCHANGED overrun
  <2>1. \A k \in Ring \ {r} : ring'[k] = ring[k]
    BY <1>1, <1>9
  <2>2. ring'[r] = Append(ring[r], p)
    BY <1>1, <1>9
  <2>3. Range(ring'[r]) = Range(ring[r]) \cup {p}
    BY <1>1, <2>2, RangeAppend
  <2>4. WaitingRing' = WaitingRing \cup {p}
    <3>1. ASSUME NEW x \in WaitingRing' PROVE x \in WaitingRing \cup {p}
      BY <1>1, <2>1, <2>3 DEF WaitingRing
    <3>2. ASSUME NEW x \in WaitingRing PROVE x \in WaitingRing'
      <4>1. PICK k \in Ring : x \in Range(ring[k])
        BY DEF WaitingRing
      <4> QED
        BY <2>1, <2>3, <4>1 DEF WaitingRing
    <3>3. p \in WaitingRing'
      BY <1>1, <2>3 DEF WaitingRing
    <3> QED
      BY <3>1, <3>2, <3>3
  <2>5. Owned' = Owned /\ Lost' = Lost
    BY <1>2, <1>5, <1>6, <1>9, <2>4 DEF Owned, Lost
  <2>6. Held' = Held
    BY <2>5 DEF Held
  <2>7. Routed'
    BY <1>2, <2>1, <2>3 DEF Routed, r
  <2>8. ListsSorted'
    <3>1. Range(ring[r]) \subseteq WaitingRing /\ p \in CoreOwned
      BY <1>1, <1>5 DEF WaitingRing
    <3>2. Precede(Range(ring[r]), {p})
      BY <3>1 DEF Staged, Precede
    <3>3. Sorted(ring'[r])
      BY <1>1, <2>2, <3>2, SortedAppend DEF ListsSorted
    <3> QED
      BY <1>2, <2>1, <3>3 DEF ListsSorted
  <2>9. (Staged /\ WrittenFirst)'
    <3>1. Precede(CoreOwned' \cap WaitingNic, WaitingNic')
      BY <1>5, <1>6 DEF Staged, Precede
    <3>2. Precede(WaitingRing' \cap CoreOwned, CoreOwned')
      BY <1>5, <2>4 DEF Staged, Precede
    <3>3. Precede(InHand' \cap WaitingRing, WaitingRing')
      BY <1>5, <1>6, <2>4 DEF Staged, Precede
    <3> QED
      BY <1>5, <1>6, <2>4, <3>1, <3>2, <3>3, StagesMove
  <2>10. (Numbered /\ LostApart)'
    BY <1>2, <1>6, <2>5, <2>6, Zenon DEF Numbered, LostApart
  <2>11. Conserved'
    BY <1>2, <2>6, Zenon DEF Conserved, MbufConservation, Held, Lost
  <2> QED
    BY <1>8, <2>7, <2>8, <2>9, <2>10, <2>11
<1>10. CASE overrun' = overrun \cup {p} /\ UNCHANGED ring
  <2>1. WaitingRing' = WaitingRing
    BY <1>10, Zenon DEF WaitingRing
  <2>2. Owned = Owned' \cup {p} /\ Lost' = Lost \cup {p}
    BY <1>2, <1>5, <1>6, <1>10, <2>1 DEF Owned, Lost
  <2>3. Held' = Held
    BY <2>2 DEF Held
  <2>4. (Routed /\ ListsSorted)'
    BY <1>2, <1>10 DEF Routed, ListsSorted
  <2>5. (Staged /\ WrittenFirst)'
    <3>1. Precede(CoreOwned' \cap WaitingNic, WaitingNic')
      BY <1>5, <1>6 DEF Staged, Precede
    <3>2. Precede(WaitingRing' \cap CoreOwned, CoreOwned')
      BY <1>5, <2>1 DEF Staged, Precede
    <3>3. Precede(InHand' \cap WaitingRing, WaitingRing')
      BY <1>6, <1>7, <2>1 DEF Precede
    <3> QED
      BY <1>5, <1>6, <2>1, <3>1, <3>2, <3>3, StagesMove
  <2>6. p \notin Owned'
    <3>1. /\ CoreOwned \subseteq Packet /\ WaitingRing \subseteq Packet
          /\ InHand \subseteq Packet /\ {p} \subseteq Packet
      BY <1>1, StageTypes
    <3>2. p \notin CoreOwned'
      BY <1>5, <3>1, Irreflexive
    <3>3. p \notin WaitingNic /\ p \notin WaitingRing /\ p \notin InHand
      <4>1. /\ Precede(CoreOwned, WaitingNic) /\ Precede(WaitingRing, CoreOwned)
            /\ Precede(InHand, CoreOwned)
        BY DEF Staged, Precede
      <4> QED
        BY <1>5, <3>1, <4>1, Irreflexive
    <3> QED
      BY <1>6, <2>1, <3>2, <3>3 DEF Owned
  <2>7. Numbered'
    BY <1>2, <1>6, <2>3 DEF Numbered
  <2>8. LostApart'
    BY <2>2, <2>6 DEF LostApart
  <2>9. Conserved'
    BY <1>2, <2>3, Zenon DEF Conserved, MbufConservation, Held, Lost
  <2> QED
    BY <1>8, <2>4, <2>5, <2>7, <2>8, <2>9
<1> QED
  BY <1>2, <1>9, <1>10

LEMMA CoreKeepsFlow ==
    ASSUME FlowInv, CoreStep
    PROVE  (Order /\ Numbered /\ LostApart /\ Conserved)'
<1>1. CASE RxIdle
  <2>1. UNCHANGED <<arrived, nic, ring, overrun, unfreed, file, pool, rxpc, bufs, tpc, mbuf2>>
    BY <1>1 DEF RxIdle, nicVars, threadVars
  <2>2. CoreOwned' = CoreOwned /\ \A part, t : ToWrite(part, t)' = ToWrite(part, t)
    BY <2>1, ThreadsAlone DEF CoreOwned
  <2>3. Sorted(bufs)'
    BY <2>1 DEF FlowInv, Order, ListsSorted
  <2> QED
    BY <2>1, <2>2, <2>3, NothingMoves
<1>2. CASE RxBurst
  BY <1>2, RxBurstKeeps
<1>3. CASE RxBefore
  <2>1. /\ UNCHANGED <<arrived, nic, ring, overrun, unfreed, file, pool, bufs, tpc, mbuf2>>
        /\ rxpc = "before" /\ rxpc' = "enqueue"
    BY <1>3 DEF RxBefore, nicVars, threadVars
  <2>2. CoreOwned' = CoreOwned /\ \A part, t : ToWrite(part, t)' = ToWrite(part, t)
    BY <2>1, ThreadsAlone DEF CoreOwned
  <2>3. Sorted(bufs)'
    BY <2>1 DEF FlowInv, Order, ListsSorted
  <2> QED
    BY <2>1, <2>2, <2>3, NothingMoves
<1>4. CASE RxEnqueue
  BY <1>4, RxEnqueueKeeps
<1>5. CASE RxAfter
  <2>1. /\ UNCHANGED <<arrived, nic, ring, overrun, unfreed, file, pool, tpc, mbuf2>>
        /\ rxpc = "after" /\ rxpc' \in {"before", "poll"} /\ bufs' = Tail(bufs)
    BY <1>5 DEF RxAfter, nicVars, threadVars
  <2>2. CoreOwned' = CoreOwned /\ \A part, t : ToWrite(part, t)' = ToWrite(part, t)
    BY <2>1, ThreadsAlone DEF CoreOwned
  <2>3. Sorted(bufs)'
    BY <2>1, CorePacket, SortedTail DEF FlowInv, IInv, Order, ListsSorted
  <2> QED
    BY <2>1, <2>2, <2>3, NothingMoves
<1> QED
  BY <1>1, <1>2, <1>3, <1>4, <1>5 DEF CoreStep

-----------------------------------------------------------------------------
(* A capture thread *)

LEMMA MasterRxKeeps ==
    ASSUME FlowInv, NEW t \in Thread, MasterRx(t)
    PROVE  (Order /\ Numbered /\ LostApart /\ Conserved)'
<1> USE DEF FlowInv, Order
<1> DEFINE got  == Taken(ring[t], Num)
           rest == Rest(ring[t], Num)
<1>1. /\ ControlInv /\ t \in Ring /\ ring \in [Ring -> Seq(Packet)] /\ Num \in Nat
      /\ ring[t] \in Seq(Packet) /\ mbuf2 \in [Thread -> Seq(Packet)]
      /\ tpc \in [Thread -> {"none", "while", "masterRx", "packet", "lock", "header",
                             "data", "free", "done"}]
  <2>1. t \in Ring /\ Num \in Nat
    BY SizeAssumption DEF SizeAssumption, Ring, Thread
  <2> QED
    BY <2>1 DEF IInv, ControlInv, TypeOK, RingType, ThreadType
<1>2. /\ UNCHANGED <<arrived, nic, pool, rxpc, bufs, overrun, unfreed, file>>
      /\ ring' = [ring EXCEPT ![t] = rest] /\ mbuf2' = [mbuf2 EXCEPT ![t] = got]
      /\ tpc' = [tpc EXCEPT ![t] = IF got = <<>> THEN "while" ELSE "packet"]
      /\ mbuf2[t] = <<>>
  BY DEF MasterRx, Goto, nicVars, coreVars, Idle
<1>3. /\ Range(ring[t]) = Range(got) \cup Range(rest)
      /\ Sorted(got) /\ Sorted(rest) /\ Precede(Range(got), Range(rest))
  BY <1>1, BurstIs DEF ListsSorted
<1> HIDE DEF got, rest
<1>4. /\ \A k \in Ring \ {t} : ring'[k] = ring[k]
      /\ ring'[t] = rest
      /\ \A u \in Thread \ {t} : mbuf2'[u] = mbuf2[u] /\ tpc'[u] = tpc[u]
      /\ mbuf2'[t] = got /\ tpc'[t] \in {"while", "packet"}
  BY <1>1, <1>2
<1>5. WaitingRing = WaitingRing' \cup Range(got)
  <2>1. ASSUME NEW x \in WaitingRing PROVE x \in WaitingRing' \cup Range(got)
    <3>1. PICK k \in Ring : x \in Range(ring[k])
      BY DEF WaitingRing
    <3> QED
      BY <1>3, <1>4, <3>1 DEF WaitingRing
  <2>2. Range(got) \subseteq WaitingRing
    BY <1>1, <1>3 DEF WaitingRing
  <2>3. ASSUME NEW x \in WaitingRing' PROVE x \in WaitingRing
    <3>1. PICK k \in Ring : x \in Range(ring'[k])
      BY DEF WaitingRing
    <3> QED
      BY <1>1, <1>3, <1>4, <3>1 DEF WaitingRing
  <2> QED
    BY <2>1, <2>2, <2>3
<1>6. InHand' = InHand \cup Range(got)
  <2>1. ASSUME NEW x \in InHand PROVE x \in InHand'
    <3>1. PICK u \in Thread : x \in Range(mbuf2[u])
      BY DEF InHand
    <3>2. u # t
      BY <1>2, <3>1, RangeEmpty
    <3> QED
      BY <1>4, <3>1, <3>2 DEF InHand
  <2>2. ASSUME NEW x \in InHand' PROVE x \in InHand \cup Range(got)
    BY <1>4 DEF InHand
  <2>3. Range(got) \subseteq InHand'
    BY <1>4 DEF InHand
  <2> QED
    BY <2>1, <2>2, <2>3
<1>7. /\ CoreOwned' = CoreOwned /\ WaitingNic' = WaitingNic /\ Lost' = Lost
      /\ \A part : Written(part)' = Written(part)
  BY <1>2, Zenon DEF CoreOwned, WaitingNic, Lost, Written
<1>8. Owned' = Owned /\ Held' = Held
  BY <1>5, <1>6, <1>7 DEF Owned, Held
<1>9. \A part \in Part, u \in Thread : ToWrite(part, u)' \subseteq ToWrite(part, u) \cup WaitingRing
  BY <1>4, <1>5 DEF ToWrite
<1>10. Routed'
  BY <1>1, <1>2, <1>3, <1>4 DEF Routed
<1>11. ListsSorted'
  BY <1>2, <1>3, <1>4 DEF ListsSorted
<1>12. Precede(Range(got), WaitingRing')
  <2> SUFFICES ASSUME NEW k \in Ring, NEW x \in Range(got), NEW y \in Range(ring'[k]),
                      x.h = y.h
               PROVE  x.n < y.n
    BY DEF Precede, WaitingRing
  <2>1. RingId(x.h) = t /\ RingId(y.h) = k
    BY <1>1, <1>3, <1>10 DEF Routed
  <2> QED
    BY <1>3, <1>4, <2>1 DEF Precede
<1>13. (Staged /\ WrittenFirst)'
  <2>1. Precede(InHand' \cap WaitingRing, WaitingRing')
    BY <1>5, <1>6, <1>12 DEF Staged, Precede
  <2>2. /\ Precede(WaitingRing' \cap CoreOwned, CoreOwned')
        /\ Precede(CoreOwned' \cap WaitingNic, WaitingNic')
    BY <1>5, <1>7 DEF Staged, Precede
  <2> QED
    BY <1>5, <1>6, <1>7, <2>1, <2>2, StagesMove
<1>14. (WrittenInOrder /\ FlowOrder)'
  BY <1>2, <1>9, WritesMove
<1>15. (Numbered /\ LostApart)'
  BY <1>2, <1>7, <1>8, Zenon DEF Numbered, LostApart
<1>16. Conserved'
  BY <1>2, <1>8, Zenon DEF Conserved, MbufConservation, Held, Lost
<1> QED
  BY <1>10, <1>11, <1>13, <1>14, <1>15, <1>16

(***************************************************************************)
(* Going on to the next packet: the packet at hand was held once, by this  *)
(* thread, and what stays is in order.                                     *)
(***************************************************************************)
LEMMA NextPacketMoves ==
    ASSUME FlowInv, NEW t \in Thread, NextPacket(t), tpc[t] \in {"packet", "free"},
           UNCHANGED <<arrived, nic, rxpc, bufs, ring, file>>
    PROVE  /\ Order'
           /\ Owned = Owned' \cup {Head(mbuf2[t])}
           /\ Head(mbuf2[t]) \notin Owned'
           /\ Head(mbuf2[t]) \notin Lost
<1> USE DEF FlowInv, Order
<1> DEFINE p == Head(mbuf2[t])
           s == mbuf2[t]
<1>1. /\ ControlInv /\ s \in Seq(Packet) /\ s # <<>> /\ p \in Packet
      /\ mbuf2 \in [Thread -> Seq(Packet)]
  BY ThreadPacket DEF IInv, ControlInv, TypeOK, ThreadType
<1>2. /\ mbuf2'[t] = Tail(s) /\ tpc'[t] \in {"packet", "while"}
      /\ \A u \in Thread \ {t} : mbuf2'[u] = mbuf2[u] /\ tpc'[u] = tpc[u]
  BY <1>1, NextPacketType DEF IInv, NextPacket
<1>3. /\ Range(s) = {p} \cup Range(Tail(s)) /\ Precede({p}, Range(Tail(s)))
      /\ Sorted(Tail(s))
  BY <1>1, RangeHeadTail, SortedTail DEF ListsSorted
<1> HIDE DEF p, s
<1>4. InHand = InHand' \cup {p}
  <2>1. ASSUME NEW x \in InHand PROVE x \in InHand' \cup {p}
    <3>1. PICK u \in Thread : x \in Range(mbuf2[u])
      BY DEF InHand
    <3> QED
      BY <1>2, <1>3, <3>1 DEF InHand, s
  <2>2. ASSUME NEW x \in InHand' PROVE x \in InHand
    BY <1>2, <1>3 DEF InHand, s
  <2>3. p \in InHand
    BY <1>3 DEF InHand, s
  <2> QED
    BY <2>1, <2>2, <2>3
<1>5. /\ CoreOwned' = CoreOwned /\ WaitingNic' = WaitingNic /\ WaitingRing' = WaitingRing
      /\ \A part : Written(part)' = Written(part)
  BY Zenon DEF CoreOwned, WaitingNic, WaitingRing, Written
<1>6. Owned = Owned' \cup {p}
  BY <1>4, <1>5 DEF Owned
<1>7. p \notin Owned'
  <2>1. {p} \subseteq Packet
    BY <1>1
  <2>2. p \notin Range(Tail(s))
    BY <1>3, <2>1, Irreflexive
  <2>3. p \notin InHand'
    <3> SUFFICES ASSUME NEW u \in Thread, p \in Range(mbuf2'[u]) PROVE FALSE
      BY DEF InHand
    <3>1. u # t
      BY <1>2, <2>2
    <3>2. RingId(p.h) = u /\ RingId(p.h) = t
      BY <1>2, <1>3, <3>1 DEF Routed, s
    <3> QED
      BY <3>1, <3>2
  <2>4. Precede({p}, WaitingRing \cup CoreOwned \cup WaitingNic)
    BY <1>4 DEF Staged, Precede
  <2>5. p \notin WaitingRing \cup CoreOwned \cup WaitingNic
    BY <2>1, <2>4, Irreflexive
  <2> QED
    BY <1>5, <2>3, <2>5 DEF Owned
<1>8. p \notin Lost
  BY <1>6 DEF LostApart
<1>9. Routed'
  BY <1>2, <1>3 DEF Routed, s
<1>10. ListsSorted'
  BY <1>2, <1>3 DEF ListsSorted
<1>11. (Staged /\ WrittenFirst)'
  <2>1. /\ Precede(CoreOwned' \cap WaitingNic, WaitingNic')
        /\ Precede(WaitingRing' \cap CoreOwned, CoreOwned')
        /\ Precede(InHand' \cap WaitingRing, WaitingRing')
    BY <1>4, <1>5 DEF Staged, Precede
  <2> QED
    BY <1>4, <1>5, <2>1, StagesMove
<1>12. \A part \in Part, u \in Thread : ToWrite(part, u)' \subseteq ToWrite(part, u)
  <2>1. \A part \in Part : ToWrite(part, t)' \subseteq ToWrite(part, t)
    BY <1>2, <1>3 DEF ToWrite, s
  <2>2. \A part \in Part, u \in Thread \ {t} : ToWrite(part, u)' = ToWrite(part, u)
    BY <1>2 DEF ToWrite
  <2> QED
    BY <2>1, <2>2
<1>13. (WrittenInOrder /\ FlowOrder)'
  BY <1>12, WritesMove
<1> QED
  BY <1>6, <1>7, <1>8, <1>9, <1>10, <1>11, <1>13 DEF p, s

(***************************************************************************)
(* One half of a record is written: its packet arrived before those of its *)
(* flow that are not written yet, and after those that are.                *)
(***************************************************************************)
LEMMA WriteKeeps ==
    ASSUME FlowInv, NEW t \in Thread, NEW half \in Part,
           tpc[t] \in {"header", "data"},
           file' = Append(file, [part |-> half, p |-> Head(mbuf2[t])]),
           UNCHANGED <<arrived, nic, pool, rxpc, bufs, ring, overrun, unfreed, mbuf2>>,
           ToWrite(half, t) = Range(mbuf2[t]),
           ToWrite(half, t)' = Range(Tail(mbuf2[t])),
           \A part \in Part, u \in Thread :
               part # half \/ u # t => ToWrite(part, u)' = ToWrite(part, u)
    PROVE  (Order /\ Numbered /\ LostApart /\ Conserved)'
<1> USE DEF FlowInv, Order
<1> DEFINE p == Head(mbuf2[t])
           record == [part |-> half, p |-> p]
<1>1. /\ ControlInv /\ mbuf2[t] \in Seq(Packet) /\ mbuf2[t] # <<>> /\ p \in Packet
      /\ file \in Seq([part : Part, p : Packet])
  BY ThreadPacket DEF IInv, ControlInv, TypeOK, FileType, Part
<1>2. /\ Range(mbuf2[t]) = {p} \cup Range(Tail(mbuf2[t]))
      /\ Precede({p}, Range(Tail(mbuf2[t])))
  BY <1>1, RangeHeadTail, SortedTail DEF ListsSorted
<1>3. p \in ToWrite(half, t) /\ p \in InHand /\ RingId(p.h) = t
  BY <1>2 DEF InHand, Routed
<1> HIDE DEF p
<1>4. record \in [part : Part, p : Packet] /\ record.part = half /\ record.p = p
  BY <1>1
<1>5. file' = Append(file, record)
  BY DEF p
<1> HIDE DEF record
<1>6. /\ Len(file') = Len(file) + 1 /\ Len(file) \in Nat
      /\ DOMAIN file = 1 .. Len(file) /\ DOMAIN file' = 1 .. Len(file) + 1
      /\ \A i \in 1 .. Len(file) : file'[i] = file[i]
      /\ file'[Len(file) + 1] = record
  BY <1>1, <1>4, <1>5, AppendProperties, LenProperties
<1>7. ASSUME NEW part \in Part
      PROVE  Written(part)' \subseteq IF part = half THEN Written(part) \cup {p} ELSE Written(part)
  <2>1. ASSUME NEW i \in 1 .. Len(file) + 1, file'[i].part = part
        PROVE  IF part = half THEN file'[i].p \in Written(part) \cup {p}
                              ELSE file'[i].p \in Written(part)
    <3>1. CASE i = Len(file) + 1
      BY <1>4, <1>6, <2>1, <3>1
    <3>2. CASE i # Len(file) + 1
      <4>1. i \in 1 .. Len(file)
        BY <1>6, <3>2
      <4>2. file'[i].p \in Written(part)
        BY <1>6, <2>1, <4>1 DEF Written
      <4> QED
        BY <4>2
    <3> QED
      BY <3>1, <3>2
  <2> QED
    BY <1>6, <2>1 DEF Written
<1>8. /\ WaitingNic' = WaitingNic /\ WaitingRing' = WaitingRing /\ CoreOwned' = CoreOwned
      /\ InHand' = InHand /\ Lost' = Lost
  BY Zenon DEF WaitingNic, WaitingRing, CoreOwned, InHand, Lost
<1>9. Owned' = Owned /\ Held' = Held
  BY <1>8 DEF Owned, Held
<1>10. (Routed /\ ListsSorted)'
  BY DEF Routed, ListsSorted
<1>11. (Staged /\ WrittenFirst)'
  <2>1. \A part \in Part : Written(part)' \subseteq Written(part) \cup InHand
    BY <1>3, <1>7
  <2>2. /\ Precede(CoreOwned' \cap WaitingNic, WaitingNic')
        /\ Precede(WaitingRing' \cap CoreOwned, CoreOwned')
        /\ Precede(InHand' \cap WaitingRing, WaitingRing')
    BY <1>8 DEF Staged, Precede
  <2> QED
    BY <1>8, <2>1, <2>2, StagesMove
<1>12. WrittenInOrder'
  <2> SUFFICES ASSUME NEW part \in Part, NEW u \in Thread
               PROVE  Precede(Written(part)', ToWrite(part, u)')
    BY DEF WrittenInOrder
  <2>1. CASE part # half
    BY <1>7, <2>1 DEF WrittenInOrder, Precede
  <2>2. CASE part = half /\ u # t
    <3>1. Precede({p}, ToWrite(part, u))
      <4> SUFFICES ASSUME NEW y \in ToWrite(part, u) PROVE y.h # p.h
        BY DEF Precede
      <4>1. y \in Range(mbuf2[u])
        <5>1. tpc[u] \in {"free", "data"} => mbuf2[u] \in Seq(Packet) /\ mbuf2[u] # <<>>
          BY <1>1, ThreadPacket
        <5>2. tpc[u] \in {"free", "data"} => Range(Tail(mbuf2[u])) \subseteq Range(mbuf2[u])
          BY <5>1, RangeHeadTail
        <5> QED
          BY <5>2 DEF ToWrite
      <4> QED
        BY <1>3, <2>2, <4>1 DEF Routed
    <3> QED
      BY <1>7, <2>2, <3>1 DEF WrittenInOrder, Precede
  <2>3. CASE part = half /\ u = t
    BY <1>2, <1>7, <2>3 DEF WrittenInOrder, Precede
  <2> QED
    BY <2>1, <2>2, <2>3
<1>13. FlowOrder'
  <2> SUFFICES ASSUME NEW i \in 1 .. Len(file) + 1, NEW j \in 1 .. Len(file) + 1, i < j,
                      file'[i].part = file'[j].part, file'[i].p.h = file'[j].p.h
               PROVE  file'[i].p.n < file'[j].p.n
    BY <1>6 DEF FlowOrder
  <2>1. i \in 1 .. Len(file) /\ (j = Len(file) + 1 \/ j \in 1 .. Len(file))
    BY <1>6
  <2>2. CASE j = Len(file) + 1
    <3>1. file[i].part = half /\ file[i].p.h = p.h
      BY <1>4, <1>6, <2>1, <2>2
    <3>2. file[i].p \in Written(half)
      BY <1>6, <2>1, <3>1 DEF Written
    <3>3. file[i].p.n < p.n
      BY <1>3, <3>1, <3>2 DEF WrittenInOrder, Precede
    <3> QED
      BY <1>4, <1>6, <2>1, <2>2, <3>3
  <2>3. CASE j \in 1 .. Len(file)
    BY <1>6, <2>1, <2>3 DEF FlowOrder
  <2> QED
    BY <2>1, <2>2, <2>3
<1>14. Numbered'
  <2>1. p \in Held
    BY <1>3 DEF Owned, Held
  <2> QED
    BY <1>7, <1>9, <2>1 DEF Numbered
<1>15. LostApart'
  BY <1>8, <1>9 DEF LostApart
<1>16. Conserved'
  BY <1>9, Zenon DEF Conserved, MbufConservation, Held, Lost
<1> QED
  BY <1>10, <1>11, <1>12, <1>13, <1>14, <1>15, <1>16

(* A thread goes from one point to another where it writes the same. *)
LEMMA GotoKeeps ==
    ASSUME FlowInv, NEW t \in Thread, NEW label,
           tpc[t] \notin {"data", "free"}, label \notin {"data", "free"}, Goto(t, label),
           UNCHANGED <<arrived, nic, ring, rxpc, bufs, overrun, unfreed, file, pool, mbuf2>>
    PROVE  (Order /\ Numbered /\ LostApart /\ Conserved)'
<1>1. tpc \in [Thread -> {"none", "while", "masterRx", "packet", "lock", "header",
                          "data", "free", "done"}]
  BY DEF FlowInv, IInv, ControlInv, TypeOK, ThreadType
<1>2. \A part \in Part, u \in Thread : ToWrite(part, u)' = ToWrite(part, u)
  BY <1>1 DEF Goto, ToWrite
<1>3. CoreOwned' = CoreOwned /\ Sorted(bufs)'
  BY DEF CoreOwned, FlowInv, Order, ListsSorted
<1> QED
  BY <1>2, <1>3, NothingMoves

LEMMA ThreadKeepsFlow ==
    ASSUME FlowInv, NEW t \in Thread, ThreadStep(t)
    PROVE  (Order /\ Numbered /\ LostApart /\ Conserved)'
<1>0. /\ tpc \in [Thread -> {"none", "while", "masterRx", "packet", "lock", "header",
                             "data", "free", "done"}]
      /\ ControlInv /\ pool \in Nat
  BY DEF FlowInv, IInv, ControlInv, TypeOK, ThreadType, WireType
<1>1. CASE TestTimeflag(t)
  BY <1>1, GotoKeeps DEF TestTimeflag, nicVars, coreVars
<1>2. CASE MasterRx(t)
  BY <1>2, MasterRxKeeps
<1>3. CASE TestSave(t)
  <2>0. UNCHANGED <<arrived, nic, ring, rxpc, bufs, overrun, file, pool>> /\ tpc[t] = "packet"
    BY <1>3 DEF TestSave, nicVars, coreVars
  <2>1. CASE Goto(t, "lock") /\ UNCHANGED <<mbuf2, unfreed>>
    BY <2>0, <2>1, GotoKeeps
  <2>2. CASE unfreed' = unfreed \cup {Head(mbuf2[t])} /\ NextPacket(t)
    <3> DEFINE p == Head(mbuf2[t])
    <3>1. Order' /\ Owned = Owned' \cup {p} /\ p \notin Owned' /\ p \notin Lost
      BY <2>0, <2>2, NextPacketMoves
    <3>2. Lost' = Lost \cup {p}
      BY <2>0, <2>2 DEF Lost
    <3> HIDE DEF p
    <3>3. Held' = Held
      BY <3>1, <3>2 DEF Held
    <3>4. \A part : Written(part)' = Written(part)
      BY <2>0, Zenon DEF Written
    <3>5. Numbered'
      BY <2>0, <3>3, <3>4 DEF FlowInv, Numbered
    <3>6. LostApart'
      BY <3>1, <3>2 DEF FlowInv, LostApart
    <3>7. Conserved'
      BY <2>0, <3>3, Zenon DEF FlowInv, Conserved, MbufConservation, Held, Lost
    <3> QED
      BY <3>1, <3>5, <3>6, <3>7
  <2>3. CASE UNCHANGED <<tpc, mbuf2, unfreed>>
    <3>1. Goto(t, "packet")
      BY <1>0, <2>0, <2>3 DEF Goto
    <3> QED
      BY <2>0, <2>3, <3>1, GotoKeeps
  <2> QED
    BY <1>3, <2>1, <2>2, <2>3 DEF TestSave
<1>4. CASE LockDumper(t)
  BY <1>4, GotoKeeps DEF LockDumper, nicVars, coreVars
<1>5. CASE DumpHeader(t)
  <2>1. CASE dumper = "open"
    <3>1. /\ UNCHANGED <<arrived, nic, pool, rxpc, bufs, ring, overrun, unfreed, mbuf2>>
          /\ file' = Append(file, [part |-> "header", p |-> Head(mbuf2[t])])
          /\ tpc[t] = "header" /\ tpc' = [tpc EXCEPT ![t] = "data"]
      BY <1>5, <2>1 DEF DumpHeader, Goto, nicVars, coreVars
    <3>2. /\ ToWrite("header", t) = Range(mbuf2[t])
          /\ ToWrite("header", t)' = Range(Tail(mbuf2[t]))
      BY <1>0, <3>1 DEF ToWrite
    <3>3. \A part \in Part, u \in Thread :
              part # "header" \/ u # t => ToWrite(part, u)' = ToWrite(part, u)
      BY <1>0, <3>1 DEF ToWrite
    <3> QED
      BY <3>1, <3>2, <3>3, WriteKeeps DEF Part
  <2>2. CASE dumper # "open"
    <3>1. Goto(t, "header")
      BY <1>0, <1>5, <2>2 DEF Goto, DumpHeader
    <3> QED
      BY <1>5, <2>2, <3>1, GotoKeeps DEF DumpHeader, nicVars, coreVars
  <2> QED
    BY <2>1, <2>2
<1>6. CASE DumpData(t)
  <2>1. /\ UNCHANGED <<arrived, nic, pool, rxpc, bufs, ring, overrun, unfreed, mbuf2>>
        /\ file' = Append(file, [part |-> "data", p |-> Head(mbuf2[t])])
        /\ tpc[t] = "data" /\ tpc' = [tpc EXCEPT ![t] = "free"]
    BY <1>6 DEF DumpData, Goto, nicVars, coreVars
  <2>2. /\ ToWrite("data", t) = Range(mbuf2[t])
        /\ ToWrite("data", t)' = Range(Tail(mbuf2[t]))
    BY <1>0, <2>1 DEF ToWrite
  <2>3. \A part \in Part, u \in Thread :
            part # "data" \/ u # t => ToWrite(part, u)' = ToWrite(part, u)
    BY <1>0, <2>1 DEF ToWrite, Part
  <2> QED
    BY <2>1, <2>2, <2>3, WriteKeeps DEF Part
<1>7. CASE FreeMbuf(t)
  <2> DEFINE p == Head(mbuf2[t])
  <2>0. /\ UNCHANGED <<arrived, nic, ring, rxpc, bufs, overrun, unfreed, file>>
        /\ tpc[t] = "free" /\ NextPacket(t) /\ pool' = pool + 1
    BY <1>7 DEF FreeMbuf, nicVars, coreVars
  <2>1. Order' /\ Owned = Owned' \cup {p} /\ p \notin Owned' /\ p \notin Lost
    BY <2>0, NextPacketMoves
  <2>2. Lost' = Lost
    BY <2>0 DEF Lost
  <2> HIDE DEF p
  <2>3. Held' = Held \ {p} /\ p \in Held
    BY <2>1, <2>2 DEF Held
  <2>4. \A part : Written(part)' = Written(part)
    BY <2>0, Zenon DEF Written
  <2>5. Numbered'
    BY <2>0, <2>3, <2>4 DEF FlowInv, Numbered
  <2>6. LostApart'
    BY <2>1, <2>2 DEF FlowInv, LostApart
  <2>7. Conserved'
    <3>1. IsFiniteSet(Held) /\ pool + Cardinality(Held) = NumMbufs
      BY Zenon DEF FlowInv, Conserved, MbufConservation, Held, Lost
    <3>2. IsFiniteSet(Held') /\ Cardinality(Held') = Cardinality(Held) - 1
      BY <2>3, <3>1, FS_RemoveElement
    <3>3. pool' + Cardinality(Held') = NumMbufs
      BY <1>0, <2>0, <3>1, <3>2, FS_CardinalityType
    <3> QED
      BY <3>2, <3>3 DEF Conserved, MbufConservation, Held, Lost
  <2> QED
    BY <2>1, <2>5, <2>6, <2>7
<1> QED
  BY <1>1, <1>2, <1>3, <1>4, <1>5, <1>6, <1>7 DEF ThreadStep

-----------------------------------------------------------------------------
(* The main thread, and the invariant *)

LEMMA MainKeepsFlow ==
    ASSUME FlowInv, MainStep \/ Sigint \/ UNCHANGED vars
    PROVE  (Order /\ Numbered /\ LostApart /\ Conserved)'
<1>1. UNCHANGED <<arrived, nic, ring, overrun, unfreed, file, pool, bufs, mbuf2>>
  BY DEF MainStep, OpenDumper, Begin, CreateThread, InstallHandler, JoinThread, CloseDumper,
         StatisQueue, Sigint, vars, nicVars, coreVars, threadVars
<1>2. rxpc' = rxpc \/ (rxpc = "off" /\ rxpc' = "poll")
  BY DEF FlowInv, Idle, MainStep, OpenDumper, Begin, CreateThread, InstallHandler, JoinThread,
         CloseDumper, StatisQueue, Sigint, vars, coreVars
<1>3. CoreOwned' = CoreOwned /\ Sorted(bufs)'
  BY <1>1, <1>2 DEF CoreOwned, FlowInv, Order, ListsSorted
<1>4. \A part \in Part, t \in Thread : ToWrite(part, t)' = ToWrite(part, t)
  <2>1. CASE CreateThread
    <3>1. next \in Thread /\ tpc[next] = "none"
      BY <2>1 DEF CreateThread, FlowInv, IInv, ControlInv, Starting, Thread
    <3>2. tpc \in [Thread -> {"none", "while", "masterRx", "packet", "lock", "header",
                              "data", "free", "done"}]
      BY DEF FlowInv, IInv, ControlInv, TypeOK, ThreadType
    <3> QED
      BY <1>1, <2>1, <3>1, <3>2 DEF CreateThread, ToWrite
  <2>2. CASE ~CreateThread
    <3>1. tpc' = tpc
      BY <2>2 DEF MainStep, OpenDumper, Begin, InstallHandler, JoinThread, CloseDumper,
                  StatisQueue, Sigint, vars, threadVars
    <3> QED
      BY <1>1, <3>1 DEF ToWrite
  <2> QED
    BY <2>1, <2>2
<1> QED
  BY <1>1, <1>3, <1>4, NothingMoves

LEMMA IdleStep == IInv /\ Idle /\ [Next]_vars => Idle'
<1> SUFFICES ASSUME IInv, Idle, [Next]_vars PROVE Idle'
  OBVIOUS
<1>0. /\ tpc \in [Thread -> {"none", "while", "masterRx", "packet", "lock", "header",
                             "data", "free", "done"}]
      /\ mbuf2 \in [Thread -> Seq(Packet)]
      /\ ControlInv
  BY DEF IInv, ControlInv, TypeOK, ThreadType
<1>1. CASE \E h \in Header : Arrive(h)
  BY <1>1 DEF Arrive, coreVars, threadVars, mainVars, Idle
<1>2. CASE CoreStep
  <2>1. UNCHANGED <<mainpc, tpc, mbuf2>> /\ rxpc # "off"
    BY <1>2 DEF CoreStep, RxIdle, RxBurst, RxBefore, RxEnqueue, RxAfter, threadVars, mainVars
  <2>2. rxpc' \in {"off", "poll"} => bufs' = <<>>
    <3>1. CASE RxIdle
      BY <3>1 DEF RxIdle, Idle
    <3>2. CASE RxBurst \/ RxBefore \/ RxEnqueue
      BY <3>2 DEF RxBurst, RxBefore, RxEnqueue
    <3>3. CASE RxAfter
      <4>1. bufs \in Seq(Packet) /\ bufs # <<>>
        BY <1>0, <3>3, CorePacket DEF RxAfter
      <4>2. /\ Tail(bufs) \in Seq(Packet) /\ Len(Tail(bufs)) = Len(bufs) - 1
            /\ Len(bufs) \in Nat \ {0}
        BY <4>1, HeadTailProperties, EmptySeq
      <4>3. Len(bufs) > 1 \/ Tail(bufs) = <<>>
        BY <4>2, EmptySeq
      <4> QED
        BY <3>3, <4>3 DEF RxAfter
    <3> QED
      BY <1>2, <3>1, <3>2, <3>3 DEF CoreStep
  <2> QED
    BY <2>1, <2>2 DEF Idle
<1>3. ASSUME NEW t \in Thread, ThreadStep(t)
      PROVE  Idle'
  <2>1. UNCHANGED <<mainpc, rxpc, bufs>>
    BY <1>3 DEF ThreadStep, TestTimeflag, MasterRx, TestSave, LockDumper, DumpHeader, DumpData,
                FreeMbuf, coreVars, mainVars
  <2>2. \A u \in Thread \ {t} : tpc'[u] = tpc[u] /\ mbuf2'[u] = mbuf2[u]
    BY <1>0, <1>3 DEF ThreadStep, TestTimeflag, MasterRx, TestSave, LockDumper, DumpHeader,
                      DumpData, FreeMbuf, Goto, NextPacket
  <2>3. tpc'[t] \in {"none", "while", "masterRx", "done"} => mbuf2'[t] = <<>>
    <3>1. CASE NextPacket(t) /\ tpc[t] \in {"packet", "free"}
      <4>1. mbuf2[t] \in Seq(Packet) /\ mbuf2[t] # <<>>
        BY <1>0, <3>1, ThreadPacket
      <4>2. /\ Tail(mbuf2[t]) \in Seq(Packet) /\ Len(Tail(mbuf2[t])) = Len(mbuf2[t]) - 1
            /\ Len(mbuf2[t]) \in Nat \ {0}
        BY <4>1, HeadTailProperties, EmptySeq
      <4>3. Len(mbuf2[t]) > 1 \/ Tail(mbuf2[t]) = <<>>
        BY <4>2, EmptySeq
      <4> QED
        BY <1>0, <3>1, <4>3 DEF NextPacket, Goto
    <3>2. CASE MasterRx(t)
      BY <1>0, <3>2 DEF MasterRx, Goto
    <3>3. CASE ThreadStep(t) /\ ~NextPacket(t) /\ ~MasterRx(t)
      BY <1>0, <3>3 DEF ThreadStep, TestTimeflag, TestSave, LockDumper, DumpHeader, DumpData,
                        FreeMbuf, Goto, Idle
    <3>4. NextPacket(t) => tpc[t] \in {"packet", "free"} \/ MasterRx(t)
      BY <1>0, <1>3 DEF ThreadStep, TestTimeflag, TestSave, LockDumper, DumpHeader, DumpData,
                        FreeMbuf, Goto, NextPacket
    <3> QED
      BY <1>3, <3>1, <3>2, <3>3, <3>4
  <2> QED
    BY <2>1, <2>2, <2>3 DEF Idle
<1>4. CASE MainStep \/ Sigint \/ UNCHANGED vars
  <2>1. UNCHANGED <<bufs, mbuf2>>
    BY <1>4 DEF MainStep, OpenDumper, Begin, CreateThread, InstallHandler, JoinThread,
                CloseDumper, StatisQueue, Sigint, vars, coreVars, threadVars
  <2>2. CASE CreateThread
    <3>1. next \in Thread /\ tpc[next] = "none"
      BY <1>0, <2>2 DEF CreateThread, ControlInv, Starting, Thread
    <3> QED
      BY <1>0, <2>1, <2>2, <3>1 DEF CreateThread, Idle, coreVars
  <2>3. CASE Begin
    BY <2>1, <2>3 DEF Begin, threadVars, Idle
  <2>4. CASE ~CreateThread /\ ~Begin
    <3>1. UNCHANGED <<rxpc, tpc>>
      BY <1>4, <2>4 DEF MainStep, OpenDumper, InstallHandler, JoinThread, CloseDumper,
                        StatisQueue, Sigint, vars, coreVars, threadVars
    <3>2. mainpc' \in {"open", "begin"} => mainpc \in {"open", "begin"}
      BY <1>4, <2>4 DEF MainStep, OpenDumper, InstallHandler, JoinThread, CloseDumper,
                        StatisQueue, Sigint, vars, mainVars
    <3> QED
      BY <2>1, <3>1, <3>2 DEF Idle
  <2> QED
    BY <2>2, <2>3, <2>4
<1> QED
  BY <1>1, <1>2, <1>3, <1>4 DEF Next, Ended

LEMMA FlowInit == Init => FlowInv
<1> SUFFICES ASSUME Init PROVE FlowInv
  OBVIOUS
<1>1. Range(<<>>) = {} /\ DOMAIN <<>> = {}
  BY RangeEmpty
<1>2. Idle
  BY DEF Init, Idle
<1>3. WaitingNic = {} /\ CoreOwned = {} /\ WaitingRing = {} /\ InHand = {} /\ Lost = {}
  BY <1>1 DEF Init, WaitingNic, CoreOwned, WaitingRing, InHand, Lost
<1>4. Held = {}
  BY <1>3 DEF Held, Owned
<1>5. \A part : Written(part) = {}
  BY <1>1 DEF Init, Written
<1>6. Order
  <2>1. Routed
    BY <1>1 DEF Init, Routed
  <2>2. ListsSorted
    BY <1>1 DEF Init, ListsSorted, Sorted
  <2>3. Staged /\ WrittenFirst /\ WrittenInOrder
    BY <1>3, <1>5 DEF Staged, WrittenFirst, WrittenInOrder, Precede
  <2>4. FlowOrder
    BY <1>1 DEF Init, FlowOrder
  <2> QED
    BY <2>1, <2>2, <2>3, <2>4 DEF Order
<1>7. Numbered /\ LostApart
  BY <1>3, <1>4, <1>5 DEF Numbered, LostApart
<1>8. Conserved
  <2>1. pool = NumMbufs /\ NumMbufs \in Nat
    BY SizeAssumption DEF Init, SizeAssumption
  <2> QED
    BY <1>4, <2>1, FS_EmptySet DEF Conserved, MbufConservation, Held, Lost
<1> QED
  BY <1>2, <1>6, <1>7, <1>8, DumpInit DEF FlowInv

LEMMA FlowStep == FlowInv /\ [Next]_vars => FlowInv'
<1> SUFFICES ASSUME FlowInv, [Next]_vars PROVE FlowInv'
  OBVIOUS
<1>1. IInv'
  BY ControlStep, DumpStep DEF IInv, FlowInv
<1>2. Idle'
  BY IdleStep DEF FlowInv
<1>3. (Order /\ Numbered /\ LostApart /\ Conserved)'
  BY ArriveKeeps, CoreKeepsFlow, ThreadKeepsFlow, MainKeepsFlow DEF Next, Ended
<1> QED
  BY <1>1, <1>2, <1>3 DEF FlowInv

(***************************************************************************)
(* Packets of one flow are saved in the order they arrived, whatever is    *)
(* dropped at the NIC, lost to a full ring or left unsaved on the way: at  *)
(* each stage the packets of the flow are sorted, and those of a later     *)
(* stage arrived first.                                                    *)
(***************************************************************************)
THEOREM FlowsKeepOrder == Spec => []FlowOrder
<1>1. FlowInv => FlowOrder
  BY DEF FlowInv, Order
<1> QED
  BY FlowInit, FlowStep, <1>1, PTL DEF Spec

(***************************************************************************)
(* The pool lacks one mbuf for each packet that waits somewhere or was     *)
(* leaked. The packet that a thread gives back is held by nobody else,     *)
(* because a packet that is in two places would precede itself.            *)
(***************************************************************************)
THEOREM MbufsAreConserved == Spec => []MbufConservation
<1>1. FlowInv => MbufConservation
  BY DEF FlowInv, Conserved
<1> QED
  BY FlowInit, FlowStep, <1>1, PTL DEF Spec


-----------------------------------------------------------------------------
(* The counters *)

(* Packets counted for a queue and not yet for a ring *)
Uncounted == IF rxpc \in {"enqueue", "after"} THEN Len(bufs) - 1 ELSE Len(bufs)

(* What is still to be written of the packets a thread took off its ring *)
Halves(t) ==
    2 * Len(mbuf2[t])
      - (IF tpc[t] = "data" THEN 1 ELSE IF tpc[t] = "free" THEN 2 ELSE 0)
Unwritten == [r \in Ring |-> IF r \in Thread THEN Halves(r) ELSE 0]

(* Main joins the threads in turn, then closes the file, then adds up. *)
Joined ==
    /\ mainpc \in {"signal", "sleep", "close"} => next = 0
    /\ mainpc = "join" => /\ next \in Thread
                          /\ \A t \in Thread : t < next => tpc[t] = "done"
    /\ mainpc \in {"close", "statis"} => \A t \in Thread : tpc[t] = "done"
    /\ dumper = "closed" => mainpc = "statis"

RxBooks   == Sum(rx_queue, Queue) = Sum(before_enqueue, Ring) + Uncounted
DumpBooks == save.read = "1" =>
                 Len(file) + Sum(Unwritten, Ring) = 2 * Sum(after_dequeue, Ring)

(***************************************************************************)
(* While main adds up: what it has added is at most what has been counted  *)
(* so far for those queues, and with the queues still to come it covers    *)
(* what the threads took.                                                  *)
(***************************************************************************)
AddingUp ==
    /\ mainpc # "statis" => count_rx = 0
    /\ mainpc = "statis" =>
        /\ next \in 0 .. QueueNum
        /\ process = "exited" => next = QueueNum
        /\ count_rx <= Sum(rx_queue, 0 .. next - 1)
        /\ Sum(after_dequeue, Ring) <= count_rx + Sum(rx_queue, next .. QueueNum - 1)

Books == RingAccounting /\ RxBooks /\ DumpBooks /\ Joined /\ AddingUp
CountInv == FlowInv /\ Books

(* The ranges of the counters *)
LEMMA Indices ==
    /\ IsFiniteSet(Queue) /\ IsFiniteSet(Ring)
    /\ Thread \subseteq Ring
    /\ QueueNum \in Nat \ {0} /\ ThreadNum \in Nat \ {0}
<1>1. /\ QueueNum \in Nat \ {0} /\ ThreadNum \in Nat \ {0} /\ RingNum \in Nat \ {0}
      /\ ThreadNum <= RingNum
  BY SizeAssumption DEF SizeAssumption
<1>2. IsFiniteSet(0 .. QueueNum - 1) /\ IsFiniteSet(0 .. RingNum - 1)
  BY <1>1, FS_Interval
<1> QED
  BY <1>1, <1>2 DEF Queue, Ring, Thread

LEMMA CounterTypes ==
    ASSUME ControlInv
    PROVE  /\ rx_queue \in [Queue -> Nat] /\ before_enqueue \in [Ring -> Nat]
           /\ after_dequeue \in [Ring -> Nat]
           /\ Len(bufs) \in Nat /\ (bufs # <<>> => Len(bufs) > 0)
           /\ \A r \in Ring : ring[r] \in Seq(Packet) /\ Len(ring[r]) \in Nat
           /\ Sum(rx_queue, Queue) \in Nat /\ Sum(before_enqueue, Ring) \in Nat
           /\ Sum(after_dequeue, Ring) \in Nat
           /\ Len(file) \in Nat
           /\ tpc \in [Thread -> {"none", "while", "masterRx", "packet", "lock", "header",
                                  "data", "free", "done"}]
           /\ mbuf2 \in [Thread -> Seq(Packet)]
<1> USE DEF ControlInv, TypeOK
<1>1. /\ rx_queue \in [Queue -> Nat] /\ before_enqueue \in [Ring -> Nat]
      /\ after_dequeue \in [Ring -> Nat]
  BY DEF CoreType, RingType
<1>2. bufs \in Seq(Packet) /\ \A r \in Ring : ring[r] \in Seq(Packet)
  BY DEF CoreType, RingType
<1>3. file \in Seq([part : {"header", "data"}, p : Packet])
  BY DEF FileType
<1>4. Len(bufs) \in Nat /\ (bufs # <<>> => Len(bufs) > 0)
  BY <1>2, LenProperties, EmptySeq
<1>5. /\ Sum(rx_queue, Queue) \in Nat /\ Sum(before_enqueue, Ring) \in Nat
      /\ Sum(after_dequeue, Ring) \in Nat
  BY <1>1, Indices, SumType
<1> QED
  BY <1>1, <1>2, <1>3, <1>4, <1>5, LenProperties DEF ThreadType

(* Of a thread's burst, the halves to write are a natural number. *)
LEMMA HalvesType ==
    ASSUME ControlInv
    PROVE  /\ \A t \in Thread : Len(mbuf2[t]) \in Nat /\ Halves(t) \in Nat
           /\ \A r \in Ring : Unwritten[r] \in Nat
           /\ Sum(Unwritten, Ring) \in Nat
<1>1. ASSUME NEW t \in Thread
      PROVE  Len(mbuf2[t]) \in Nat /\ Halves(t) \in Nat
  <2>1. mbuf2[t] \in Seq(Packet) /\ Len(mbuf2[t]) \in Nat
    BY CounterTypes, LenProperties
  <2>2. tpc[t] \in {"data", "free"} => Len(mbuf2[t]) > 0
    BY <2>1, ThreadPacket, EmptySeq
  <2> QED
    BY <2>1, <2>2 DEF Halves
<1>2. \A r \in Ring : Unwritten[r] \in Nat
  BY <1>1 DEF Unwritten
<1> QED
  BY <1>1, <1>2, Indices, SumType

(* What the rings were given covers what the threads took off them. *)
LEMMA TakenWasCounted ==
    ASSUME CountInv
    PROVE  Sum(after_dequeue, Ring) <= Sum(rx_queue, Queue)
<1> USE DEF CountInv, Books, FlowInv, IInv
<1>1. ControlInv
  OBVIOUS
<1>2. ASSUME NEW r \in Ring PROVE after_dequeue[r] <= before_enqueue[r]
  <2> DEFINE lost == {p \in overrun : RingId(p.h) = r}
             hand == IF rxpc = "enqueue" /\ RingId(Head(bufs).h) = r THEN 1 ELSE 0
  <2>1. IsFiniteSet(lost)
    <3>1. lost \subseteq Held
      BY DEF Held, Lost
    <3> QED
      BY <3>1, FS_Subset DEF Conserved
  <2>2. Cardinality(lost) \in Nat /\ hand \in Nat
    BY <2>1, FS_CardinalityType
  <2>3. before_enqueue[r] = after_dequeue[r] + Len(ring[r]) + Cardinality(lost) + hand
    BY DEF RingAccounting
  <2> HIDE DEF lost, hand
  <2>4. after_dequeue[r] \in Nat /\ Len(ring[r]) \in Nat
    BY <1>1, CounterTypes
  <2> QED
    BY <2>2, <2>3, <2>4
<1>3. Sum(after_dequeue, Ring) <= Sum(before_enqueue, Ring)
  BY <1>1, <1>2, CounterTypes, Indices, SumMono
<1>4. Uncounted \in Nat
  BY <1>1, CounterTypes, CorePacket DEF Uncounted
<1> QED
  BY <1>1, <1>3, <1>4, CounterTypes DEF RxBooks

(***************************************************************************)
(* The rings' accounts change with what the lcore counts and enqueues and  *)
(* with what a thread takes.                                               *)
(***************************************************************************)
LEMMA AccountsStep ==
    ASSUME CountInv, [Next]_vars
    PROVE  RingAccounting'
<1> USE DEF CountInv, Books, FlowInv, IInv
<1> DEFINE lost(r) == {p \in overrun : RingId(p.h) = r}
           hand(r) == IF rxpc = "enqueue" /\ RingId(Head(bufs).h) = r THEN 1 ELSE 0
<1>1. /\ ControlInv
      /\ \A r \in Ring : before_enqueue[r] \in Nat /\ after_dequeue[r] \in Nat
                            /\ Len(ring[r]) \in Nat /\ ring[r] \in Seq(Packet)
      /\ before_enqueue \in [Ring -> Nat] /\ after_dequeue \in [Ring -> Nat]
      /\ ring \in [Ring -> Seq(Packet)]
  BY CounterTypes DEF ControlInv, TypeOK, RingType
<1>2. \A r \in Ring : IsFiniteSet(lost(r)) /\ Cardinality(lost(r)) \in Nat
  <2>1. \A r \in Ring : lost(r) \subseteq Held
    BY DEF Held, Lost
  <2> QED
    BY <2>1, FS_Subset, FS_CardinalityType DEF Conserved
<1>3. \A r \in Ring : before_enqueue[r] =
                          after_dequeue[r] + Len(ring[r]) + Cardinality(lost(r)) + hand(r)
  BY DEF RingAccounting
<1>4. SUFFICES ASSUME NEW r \in Ring
               PROVE  before_enqueue'[r] = after_dequeue'[r] + Len(ring'[r])
                                             + Cardinality(lost(r)') + hand(r)'
  BY DEF RingAccounting
<1>5. CASE UNCHANGED <<before_enqueue, after_dequeue, ring, overrun>> /\ hand(r)' = hand(r)
  BY <1>3, <1>5, Zenon
<1>6. CASE (\E h \in Header : Arrive(h)) \/ MainStep \/ Sigint \/ UNCHANGED vars
  <2>1. UNCHANGED <<before_enqueue, after_dequeue, ring, overrun, bufs>>
    BY <1>6 DEF Arrive, MainStep, OpenDumper, Begin, CreateThread, InstallHandler, JoinThread,
                CloseDumper, StatisQueue, Sigint, vars, coreVars, threadVars
  <2>2. rxpc' = "enqueue" <=> rxpc = "enqueue"
    BY <1>6 DEF Arrive, MainStep, OpenDumper, Begin, CreateThread, InstallHandler, JoinThread,
                CloseDumper, StatisQueue, Sigint, vars, coreVars, Idle
  <2> QED
    BY <1>5, <2>1, <2>2
<1>7. CASE RxIdle \/ RxBurst \/ RxAfter
  <2>1. /\ UNCHANGED <<before_enqueue, after_dequeue, ring, overrun>>
        /\ rxpc # "enqueue" /\ rxpc' # "enqueue"
    BY <1>7 DEF RxIdle, RxBurst, RxAfter, threadVars
  <2> QED
    BY <1>5, <2>1
<1>8. CASE RxBefore
  <2> DEFINE c == RingId(Head(bufs).h)
  <2>1. /\ UNCHANGED <<after_dequeue, ring, overrun, bufs>>
        /\ before_enqueue' = [before_enqueue EXCEPT ![c] = @ + 1]
        /\ rxpc # "enqueue" /\ rxpc' = "enqueue"
    BY <1>8 DEF RxBefore, threadVars
  <2>2. hand(r) = 0 /\ hand(r)' = IF c = r THEN 1 ELSE 0
    BY <2>1
  <2>3. before_enqueue'[r] = before_enqueue[r] + (IF c = r THEN 1 ELSE 0)
    BY <1>1, <2>1
  <2>4. /\ after_dequeue'[r] = after_dequeue[r] /\ Len(ring'[r]) = Len(ring[r])
        /\ Cardinality(lost(r)') = Cardinality(lost(r))
    BY <2>1, Zenon
  <2> HIDE DEF c, lost, hand
  <2> QED
    BY <1>1, <1>2, <1>3, <2>2, <2>3, <2>4
<1>9. CASE RxEnqueue
  <2> DEFINE p == Head(bufs)
             c == RingId(p.h)
  <2>1. /\ UNCHANGED <<before_enqueue, after_dequeue, bufs>>
        /\ rxpc = "enqueue" /\ rxpc' = "after"
        /\ \/ ring' = [ring EXCEPT ![c] = Append(@, p)] /\ UNCHANGED overrun
           \/ overrun' = overrun \cup {p} /\ UNCHANGED ring
    BY <1>9 DEF RxEnqueue, threadVars
  <2>2. hand(r)' = 0 /\ hand(r) = IF c = r THEN 1 ELSE 0
    BY <2>1
  <2>3. p \in Packet /\ c \in Ring /\ p \notin overrun
    <3>1. p \in Packet /\ c \in Ring /\ bufs \in Seq(Packet) /\ bufs # <<>>
      BY <1>1, <2>1, CorePacket
    <3>2. p \in CoreOwned
      BY <2>1, <3>1, RangeHeadTail DEF CoreOwned
    <3> QED
      BY <3>1, <3>2 DEF LostApart, Owned, Lost
  <2>4. CASE c # r
    <3>1. ring'[r] = ring[r] /\ lost(r)' = lost(r) /\ hand(r) = 0
      BY <1>1, <2>1, <2>2, <2>4
    <3> QED
      BY <1>3, <2>1, <2>2, <3>1, Zenon
  <2>5. CASE c = r
    <3>1. CASE ring' = [ring EXCEPT ![c] = Append(@, p)] /\ UNCHANGED overrun
      <4>1. Len(ring'[r]) = Len(ring[r]) + 1
        BY <1>1, <2>3, <2>5, <3>1, AppendProperties
      <4>2. Cardinality(lost(r)') = Cardinality(lost(r))
        BY <3>1, Zenon
      <4> HIDE DEF lost, hand
      <4> QED
        BY <1>1, <1>2, <1>3, <2>1, <2>2, <2>5, <4>1, <4>2
    <3>2. CASE overrun' = overrun \cup {p} /\ UNCHANGED ring
      <4>1. lost(r)' = lost(r) \cup {p} /\ p \notin lost(r)
        BY <2>3, <2>5, <3>2
      <4>2. Cardinality(lost(r)') = Cardinality(lost(r)) + 1
        BY <1>2, <4>1, FS_AddElement
      <4>3. Len(ring'[r]) = Len(ring[r])
        BY <3>2
      <4> HIDE DEF lost, hand
      <4> QED
        BY <1>1, <1>2, <1>3, <2>1, <2>2, <2>5, <4>2, <4>3
    <3> QED
      BY <2>1, <3>1, <3>2
  <2> QED
    BY <2>4, <2>5
<1>10. ASSUME NEW t \in Thread, ThreadStep(t)
       PROVE  before_enqueue'[r] = after_dequeue'[r] + Len(ring'[r])
                                     + Cardinality(lost(r)') + hand(r)'
  <2>1. UNCHANGED <<before_enqueue, overrun, rxpc, bufs>>
    BY <1>10 DEF ThreadStep, TestTimeflag, MasterRx, TestSave, LockDumper, DumpHeader, DumpData,
                 FreeMbuf, coreVars
  <2>2. lost(r)' = lost(r) /\ hand(r)' = hand(r)
    BY <2>1
  <2>3. CASE MasterRx(t)
    <3> DEFINE got  == Taken(ring[t], Num)
               rest == Rest(ring[t], Num)
    <3>1. t \in Ring /\ Num \in Nat
      BY Indices, SizeAssumption DEF SizeAssumption
    <3>2. /\ ring' = [ring EXCEPT ![t] = rest]
          /\ after_dequeue' = [after_dequeue EXCEPT ![t] = @ + Len(got)]
      BY <2>3 DEF MasterRx
    <3>3. Len(ring[t]) = Len(got) + Len(rest) /\ Len(got) \in Nat /\ Len(rest) \in Nat
      BY <1>1, <3>1, BurstIs, BurstType, LenProperties
    <3> HIDE DEF got, rest
    <3>4. after_dequeue'[r] + Len(ring'[r]) = after_dequeue[r] + Len(ring[r])
      <4>1. CASE r = t
        <5>1. after_dequeue'[t] = after_dequeue[t] + Len(got) /\ ring'[t] = rest
          BY <1>1, <3>1, <3>2
        <5>2. after_dequeue[t] \in Nat
          BY <1>1, <3>1
        <5> QED
          BY <3>3, <4>1, <5>1, <5>2
      <4>2. CASE r # t
        BY <1>1, <3>1, <3>2, <4>2
      <4> QED
        BY <4>1, <4>2
    <3> HIDE DEF lost, hand
    <3> QED
      BY <1>3, <2>1, <2>2, <3>4
  <2>4. CASE ~MasterRx(t)
    <3>1. UNCHANGED <<ring, after_dequeue>>
      BY <1>10, <2>4 DEF ThreadStep, TestTimeflag, TestSave, LockDumper, DumpHeader, DumpData,
                         FreeMbuf
    <3> QED
      BY <1>5, <2>1, <2>2, <3>1
  <2> QED
    BY <2>3, <2>4
<1> QED
  BY <1>6, <1>7, <1>8, <1>9, <1>10 DEF Next, CoreStep, Ended

(* The packets the lcore has counted for a queue are those it has counted for *)
(* a ring and those of its burst that it has not.                             *)
LEMMA RxBooksStep ==
    ASSUME CountInv, [Next]_vars
    PROVE  RxBooks'
<1> USE DEF CountInv, Books, FlowInv, IInv
<1>1. ControlInv /\ ControlInv'
  BY ControlStep
<1>2. /\ rx_queue \in [Queue -> Nat] /\ before_enqueue \in [Ring -> Nat]
      /\ rx_queue' \in [Queue -> Nat] /\ before_enqueue' \in [Ring -> Nat]
      /\ Len(bufs) \in Nat /\ (bufs # <<>> => Len(bufs) > 0)
      /\ Sum(rx_queue, Queue) \in Nat /\ Sum(before_enqueue, Ring) \in Nat
  <2>1. rx_queue' \in [Queue -> Nat] /\ before_enqueue' \in [Ring -> Nat]
    BY <1>1 DEF ControlInv, TypeOK, CoreType
  <2> QED
    BY <1>1, <2>1, CounterTypes
<1>3. Sum(rx_queue, Queue) = Sum(before_enqueue, Ring) + Uncounted
  BY DEF RxBooks
<1>4. CASE UNCHANGED <<rx_queue, before_enqueue>> /\ Uncounted' = Uncounted
  BY <1>3, <1>4 DEF RxBooks
<1>5. CASE ~CoreStep
  <2>1. UNCHANGED <<rx_queue, before_enqueue, bufs>>
    BY <1>5 DEF Next, Ended, Arrive, ThreadStep, TestTimeflag, MasterRx, TestSave, LockDumper,
                DumpHeader, DumpData, FreeMbuf, MainStep, OpenDumper, Begin, CreateThread,
                InstallHandler, JoinThread, CloseDumper, StatisQueue, Sigint, vars, coreVars
  <2>2. rxpc' = rxpc \/ (rxpc = "off" /\ rxpc' = "poll")
    BY <1>5 DEF Next, Ended, Arrive, ThreadStep, TestTimeflag, MasterRx, TestSave, LockDumper,
                DumpHeader, DumpData, FreeMbuf, MainStep, OpenDumper, Begin, CreateThread,
                InstallHandler, JoinThread, CloseDumper, StatisQueue, Sigint, vars, coreVars,
                Idle
  <2> QED
    BY <1>4, <2>1, <2>2 DEF Uncounted
<1>6. CASE RxIdle \/ RxEnqueue
  <2>1. /\ UNCHANGED <<rx_queue, before_enqueue, bufs>>
        /\ rxpc \in {"enqueue", "after"} <=> rxpc' \in {"enqueue", "after"}
    BY <1>6 DEF RxIdle, RxEnqueue
  <2> QED
    BY <1>4, <2>1 DEF Uncounted
<1>7. CASE RxBurst
  <2> DEFINE q == SlotQueue
             n == Len(Taken(nic[q], Burst))
  <2>1. /\ UNCHANGED before_enqueue
        /\ rx_queue' = [rx_queue EXCEPT ![q] = @ + n]
        /\ Len(bufs') = n /\ bufs = <<>> /\ rxpc = "poll" /\ rxpc' = "before"
    BY <1>7 DEF RxBurst, Idle
  <2>2. q \in Queue
    BY <1>1, SlotType, SizeAssumption DEF ControlInv, TypeOK, CoreType
  <2>3. n \in Nat
    <3>1. nic[q] \in Seq(Packet) /\ Burst \in Nat
      BY <1>1, <2>2, SizeAssumption DEF ControlInv, TypeOK, WireType, SizeAssumption
    <3> QED
      BY <3>1, BurstType, LenProperties
  <2> HIDE DEF q, n
  <2>4. rx_queue'[q] = rx_queue[q] + n /\ \A k \in Queue \ {q} : rx_queue'[k] = rx_queue[k]
    BY <1>2, <2>1, <2>2
  <2>5. Sum(rx_queue', Queue) = Sum(rx_queue, Queue) + rx_queue'[q] - rx_queue[q]
    <3>1. \A k \in Queue : rx_queue[k] \in Nat /\ rx_queue'[k] \in Nat
      BY <1>2
    <3>2. \A k \in Queue \ {q} : rx_queue'[k] = rx_queue[k]
      BY <2>4
    <3> QED
      BY <2>2, <3>1, <3>2, Indices, SumUpdate
  <2>6. Uncounted = 0 /\ Uncounted' = n
    BY <2>1, EmptySeq DEF Uncounted
  <2>7. rx_queue[q] \in Nat
    BY <1>2, <2>2
  <2> QED
    BY <1>2, <1>3, <2>1, <2>3, <2>4, <2>5, <2>6, <2>7 DEF RxBooks
<1>8. CASE RxBefore
  <2> DEFINE c == RingId(Head(bufs).h)
  <2>1. /\ UNCHANGED <<rx_queue, bufs>> /\ rxpc = "before" /\ rxpc' = "enqueue"
        /\ before_enqueue' = [before_enqueue EXCEPT ![c] = @ + 1]
    BY <1>8 DEF RxBefore
  <2>2. c \in Ring /\ bufs # <<>>
    BY <1>1, <2>1, CorePacket
  <2> HIDE DEF c
  <2>3. /\ before_enqueue'[c] = before_enqueue[c] + 1
        /\ \A k \in Ring \ {c} : before_enqueue'[k] = before_enqueue[k]
    BY <1>2, <2>1, <2>2
  <2>4. Sum(before_enqueue', Ring)
          = Sum(before_enqueue, Ring) + before_enqueue'[c] - before_enqueue[c]
    <3>1. \A x \in Ring : before_enqueue[x] \in Nat /\ before_enqueue'[x] \in Nat
      BY <1>2
    <3>2. \A k \in Ring \ {c} : before_enqueue'[k] = before_enqueue[k]
      BY <2>3
    <3> QED
      BY <2>2, <3>1, <3>2, Indices, SumUpdate
  <2>5. before_enqueue[c] \in Nat
    BY <1>2, <2>2
  <2>6. Uncounted = Len(bufs) /\ Uncounted' = Len(bufs) - 1
    BY <2>1 DEF Uncounted
  <2> QED
    BY <1>2, <1>3, <2>1, <2>3, <2>4, <2>5, <2>6 DEF RxBooks
<1>9. CASE RxAfter
  <2>1. /\ UNCHANGED <<rx_queue, before_enqueue>> /\ rxpc = "after"
        /\ rxpc' \in {"before", "poll"} /\ bufs' = Tail(bufs)
    BY <1>9 DEF RxAfter
  <2>2. Len(Tail(bufs)) = Len(bufs) - 1
    BY <1>1, <2>1, CorePacket, HeadTailProperties
  <2> QED
    BY <1>4, <2>1, <2>2 DEF Uncounted
<1> QED
  BY <1>5, <1>6, <1>7, <1>8, <1>9 DEF CoreStep

(***************************************************************************)
(* The file holds both halves of every packet the threads took off their   *)
(* rings, but for those they have still to write.                          *)
(***************************************************************************)
LEMMA DumpBooksStep ==
    ASSUME CountInv, [Next]_vars
    PROVE  DumpBooks'
<1> USE DEF CountInv, Books, FlowInv, IInv
<1>1. ControlInv /\ ControlInv'
  BY ControlStep
<1>2. /\ after_dequeue \in [Ring -> Nat] /\ after_dequeue' \in [Ring -> Nat]
      /\ Sum(after_dequeue, Ring) \in Nat /\ Sum(Unwritten, Ring) \in Nat
      /\ \A r \in Ring : Unwritten[r] \in Nat /\ Unwritten'[r] \in Nat
      /\ Len(file) \in Nat
  <2>1. after_dequeue' \in [Ring -> Nat]
    BY <1>1 DEF ControlInv, TypeOK, RingType
  <2>2. ASSUME NEW r \in Ring PROVE Unwritten'[r] \in Nat
    <3>1. CASE r \in Thread
      <4>1. mbuf2'[r] \in Seq(Packet) /\ Len(mbuf2'[r]) \in Nat
        BY <1>1, <3>1, LenProperties DEF ControlInv, TypeOK, ThreadType
      <4>2. tpc'[r] \in {"data", "free"} => Len(mbuf2'[r]) > 0
        <5>1. tpc'[r] \in {"data", "free"} => mbuf2'[r] # <<>>
          BY <1>1, <3>1 DEF ControlInv, InBurst
        <5> QED
          BY <4>1, <5>1, EmptySeq
      <4>3. Halves(r)' \in Nat
        BY <4>1, <4>2 DEF Halves
      <4> QED
        BY <3>1, <4>3 DEF Unwritten
    <3>2. CASE r \notin Thread
      BY <3>2 DEF Unwritten
    <3> QED
      BY <3>1, <3>2
  <2> QED
    BY <1>1, <2>1, <2>2, CounterTypes, HalvesType
<1>3. SUFFICES ASSUME save'.read = "1"
               PROVE  Len(file') + Sum(Unwritten', Ring) = 2 * Sum(after_dequeue', Ring)
  BY DEF DumpBooks
<1>4. save' = save
  BY DEF Next, Ended, CoreStep, RxIdle, RxBurst, RxBefore, RxEnqueue, RxAfter, Arrive, ThreadStep,
         TestTimeflag, MasterRx, TestSave, LockDumper, DumpHeader, DumpData, FreeMbuf, MainStep,
         OpenDumper, Begin, CreateThread, InstallHandler, JoinThread, CloseDumper, StatisQueue,
         Sigint, vars
<1>5. Len(file) + Sum(Unwritten, Ring) = 2 * Sum(after_dequeue, Ring)
  BY <1>3, <1>4 DEF DumpBooks
<1>6. CASE UNCHANGED <<file, after_dequeue>> /\ \A r \in Ring : Unwritten'[r] = Unwritten[r]
  <2>1. Sum(Unwritten', Ring) = Sum(Unwritten, Ring)
    BY <1>6, Indices, SumSame
  <2> QED
    BY <1>5, <1>6, <2>1
<1>7. CASE (\E h \in Header : Arrive(h)) \/ CoreStep \/ MainStep \/ Sigint \/ UNCHANGED vars
  <2>1. UNCHANGED <<file, after_dequeue, mbuf2>>
    BY <1>7 DEF Arrive, CoreStep, RxIdle, RxBurst, RxBefore, RxEnqueue, RxAfter, MainStep,
                OpenDumper, Begin, CreateThread, InstallHandler, JoinThread, CloseDumper,
                StatisQueue, Sigint, vars, threadVars
  <2>2. \A t \in Thread : tpc'[t] = tpc[t] \/ (tpc[t] = "none" /\ tpc'[t] = "while")
    <3>1. CASE CreateThread
      <4>1. next \in Thread /\ tpc[next] = "none"
        BY <1>1, <3>1 DEF CreateThread, ControlInv, Starting, Thread
      <4> QED
        BY <1>1, <3>1, <4>1, CounterTypes DEF CreateThread
    <3>2. CASE ~CreateThread
      BY <1>7, <3>2 DEF Arrive, CoreStep, RxIdle, RxBurst, RxBefore, RxEnqueue, RxAfter,
                        MainStep, OpenDumper, Begin, InstallHandler, JoinThread, CloseDumper,
                        StatisQueue, Sigint, vars, threadVars
    <3> QED
      BY <3>1, <3>2
  <2>3. \A t \in Thread : Halves(t)' = Halves(t)
    BY <2>1, <2>2 DEF Halves
  <2>4. \A r \in Ring : Unwritten'[r] = Unwritten[r]
    BY <2>3 DEF Unwritten
  <2> QED
    BY <1>6, <2>1, <2>4
<1>8. ASSUME NEW t \in Thread, ThreadStep(t)
      PROVE  Len(file') + Sum(Unwritten', Ring) = 2 * Sum(after_dequeue', Ring)
  <2>1. /\ t \in Ring /\ mbuf2[t] \in Seq(Packet)
        /\ tpc \in [Thread -> {"none", "while", "masterRx", "packet", "lock", "header",
                               "data", "free", "done"}]
        /\ mbuf2 \in [Thread -> Seq(Packet)]
        /\ Len(mbuf2[t]) \in Nat
    BY <1>1, Indices, CounterTypes, LenProperties
  <2>2. \A u \in Thread \ {t} : tpc'[u] = tpc[u] /\ mbuf2'[u] = mbuf2[u]
    BY <2>1, <1>8 DEF ThreadStep, TestTimeflag, MasterRx, TestSave, LockDumper, DumpHeader,
                      DumpData, FreeMbuf, Goto, NextPacket
  <2>3. \A r \in Ring \ {t} : Unwritten'[r] = Unwritten[r]
    BY <2>2 DEF Unwritten, Halves
  <2>4. Unwritten[t] = Halves(t) /\ Unwritten'[t] = Halves(t)'
    BY <2>1 DEF Unwritten
  <2>5. Sum(Unwritten', Ring) = Sum(Unwritten, Ring) + Halves(t)' - Halves(t)
    <3>1. \A r \in Ring : Unwritten[r] \in Nat /\ Unwritten'[r] \in Nat
      BY <1>2
    <3>2. IsFiniteSet(Ring) /\ t \in Ring
      BY <2>1, Indices
    <3>3. Sum(Unwritten', Ring) = Sum(Unwritten, Ring) + Unwritten'[t] - Unwritten[t]
      BY <2>3, <3>1, <3>2, SumUpdate
    <3> QED
      BY <2>4, <3>3
  <2>6. Halves(t) \in Nat /\ Halves(t)' \in Nat
    BY <1>2, <2>1, <2>4
  <2>7. ASSUME UNCHANGED <<file, after_dequeue>>, Halves(t)' = Halves(t)
        PROVE  Len(file') + Sum(Unwritten', Ring) = 2 * Sum(after_dequeue', Ring)
    BY <1>2, <1>5, <2>5, <2>6, <2>7
  <2>8. CASE TestTimeflag(t) \/ TestSave(t) \/ LockDumper(t)
    <3>1. UNCHANGED <<file, after_dequeue, mbuf2>>
      BY <1>3, <1>4, <2>8 DEF TestTimeflag, TestSave, LockDumper
    <3>2. tpc[t] \notin {"data", "free"} /\ tpc'[t] \notin {"data", "free"}
      BY <1>3, <1>4, <2>1, <2>8 DEF TestTimeflag, TestSave, LockDumper, Goto
    <3> QED
      BY <2>7, <3>1, <3>2 DEF Halves
  <2>9. CASE MasterRx(t)
    <3> DEFINE got == Taken(ring[t], Num)
    <3>1. /\ UNCHANGED file /\ tpc[t] = "masterRx" /\ tpc'[t] \in {"while", "packet"}
          /\ after_dequeue' = [after_dequeue EXCEPT ![t] = @ + Len(got)]
          /\ mbuf2'[t] = got /\ mbuf2[t] = <<>>
      BY <2>1, <2>9 DEF MasterRx, Goto, Idle
    <3>2. Len(got) \in Nat
      <4>1. ring[t] \in Seq(Packet) /\ Num \in Nat
        BY <1>1, <2>1, CounterTypes, SizeAssumption DEF SizeAssumption
      <4> QED
        BY <4>1, BurstType, LenProperties
    <3> HIDE DEF got
    <3>3. /\ after_dequeue'[t] = after_dequeue[t] + Len(got) /\ after_dequeue[t] \in Nat
          /\ \A r \in Ring \ {t} : after_dequeue'[r] = after_dequeue[r]
      BY <1>2, <2>1, <3>1
    <3>4. Sum(after_dequeue', Ring)
            = Sum(after_dequeue, Ring) + after_dequeue'[t] - after_dequeue[t]
      <4>1. \A r \in Ring : after_dequeue[r] \in Nat /\ after_dequeue'[r] \in Nat
        BY <1>2
      <4>2. \A r \in Ring \ {t} : after_dequeue'[r] = after_dequeue[r]
        BY <3>3
      <4>3. IsFiniteSet(Ring) /\ t \in Ring
        BY <2>1, Indices
      <4> QED
        BY <4>1, <4>2, <4>3, SumUpdate
    <3>5. Halves(t) = 0 /\ Halves(t)' = 2 * Len(got)
      BY <3>1, EmptySeq DEF Halves
    <3>6. /\ Sum(after_dequeue', Ring) = Sum(after_dequeue, Ring) + Len(got)
          /\ Sum(Unwritten', Ring) = Sum(Unwritten, Ring) + 2 * Len(got)
      BY <1>2, <2>5, <3>2, <3>3, <3>4, <3>5
    <3>7. /\ Sum(after_dequeue, Ring) \in Nat /\ Sum(Unwritten, Ring) \in Nat
          /\ Len(file) \in Nat /\ file' = file
      BY <1>2, <3>1
    <3> QED
      BY <1>5, <3>2, <3>6, <3>7
  <2>10. CASE DumpHeader(t) \/ DumpData(t)
    <3>1. CASE file' = file
      <4>1. UNCHANGED <<after_dequeue, mbuf2, tpc>>
        <5>1. CASE DumpHeader(t) /\ dumper # "open"
          BY <5>1 DEF DumpHeader
        <5>2. CASE file' = Append(file, [part |-> "header", p |-> Head(mbuf2[t])])
                   \/ file' = Append(file, [part |-> "data", p |-> Head(mbuf2[t])])
          <6>1. file \in Seq([part : {"header", "data"}, p : Packet])
            BY <1>1 DEF ControlInv, TypeOK, FileType
          <6>2. Head(mbuf2[t]) \in Packet
            BY <1>1, <2>10, ThreadPacket DEF DumpHeader, DumpData
          <6>3. Len(file') = Len(file) + 1
            BY <5>2, <6>1, <6>2, AppendProperties
          <6> QED
            BY <1>2, <3>1, <6>3
        <5> QED
          BY <2>10, <5>1, <5>2 DEF DumpHeader, DumpData
      <4> QED
        BY <2>7, <3>1, <4>1 DEF Halves
    <3>2. CASE file' # file
      <4>1. /\ UNCHANGED <<after_dequeue, mbuf2>>
            /\ \/ /\ tpc[t] = "header" /\ tpc'[t] = "data"
                  /\ file' = Append(file, [part |-> "header", p |-> Head(mbuf2[t])])
               \/ /\ tpc[t] = "data" /\ tpc'[t] = "free"
                  /\ file' = Append(file, [part |-> "data", p |-> Head(mbuf2[t])])
        BY <2>1, <2>10, <3>2 DEF DumpHeader, DumpData, Goto
      <4>2. Halves(t)' = Halves(t) - 1
        <5> DEFINE n == Len(mbuf2[t])
        <5>1. n \in Nat /\ Len(mbuf2'[t]) = n
          BY <2>1, <4>1
        <5> HIDE DEF n
        <5>2. \/ Halves(t) = 2 * n /\ Halves(t)' = 2 * n - 1
              \/ Halves(t) = 2 * n - 1 /\ Halves(t)' = 2 * n - 2
          <6>1. CASE tpc[t] = "header" /\ tpc'[t] = "data"
            <7>1. Halves(t) = 2 * n - 0
              BY <6>1 DEF Halves, n
            <7>2. Halves(t)' = 2 * n - 1
              BY <5>1, <6>1 DEF Halves
            <7> QED
              BY <5>1, <7>1, <7>2
          <6>2. CASE tpc[t] = "data" /\ tpc'[t] = "free"
            <7>1. Halves(t) = 2 * n - 1
              BY <6>2 DEF Halves, n
            <7>2. Halves(t)' = 2 * n - 2
              BY <5>1, <6>2 DEF Halves
            <7> QED
              BY <7>1, <7>2
          <6> QED
            BY <4>1, <6>1, <6>2
        <5> QED
          BY <5>1, <5>2
      <4>3. Len(file') = Len(file) + 1
        <5>1. file \in Seq([part : {"header", "data"}, p : Packet])
          BY <1>1 DEF ControlInv, TypeOK, FileType
        <5>2. Head(mbuf2[t]) \in Packet
          BY <1>1, <2>10, ThreadPacket DEF DumpHeader, DumpData
        <5> QED
          BY <4>1, <5>1, <5>2, AppendProperties
      <4> QED
        BY <1>2, <1>5, <2>5, <2>6, <4>1, <4>2, <4>3
    <3> QED
      BY <3>1, <3>2
  <2>11. CASE FreeMbuf(t)
    <3>1. /\ UNCHANGED <<file, after_dequeue>> /\ tpc[t] = "free"
          /\ tpc'[t] \in {"packet", "while"} /\ mbuf2'[t] = Tail(mbuf2[t])
      BY <2>1, <2>11 DEF FreeMbuf, NextPacket, Goto
    <3>2. Len(Tail(mbuf2[t])) = Len(mbuf2[t]) - 1
      BY <1>1, <3>1, ThreadPacket, HeadTailProperties
    <3>3. Halves(t)' = Halves(t)
      <4> DEFINE n == Len(mbuf2[t])
      <4>1. n \in Nat /\ Len(mbuf2'[t]) = n - 1
        BY <2>1, <3>1, <3>2
      <4>2. Halves(t) = 2 * n - 2
        BY <3>1 DEF Halves
      <4> HIDE DEF n
      <4>3. Halves(t)' = 2 * (n - 1)
        BY <3>1, <4>1 DEF Halves
      <4> QED
        BY <4>1, <4>2, <4>3
    <3> QED
      BY <2>7, <3>1, <3>3
  <2> QED
    BY <1>8, <2>8, <2>9, <2>10, <2>11 DEF ThreadStep
<1> QED
  BY <1>7, <1>8 DEF Next, Ended

(* A thread that is done stays so, and joining goes on in order. *)
LEMMA JoinedStep ==
    ASSUME CountInv, [Next]_vars
    PROVE  Joined'
<1> USE DEF CountInv, Books, FlowInv, IInv
<1>1. /\ ControlInv
      /\ tpc \in [Thread -> {"none", "while", "masterRx", "packet", "lock", "header",
                             "data", "free", "done"}]
  BY CounterTypes
<1>2. CASE (\E h \in Header : Arrive(h)) \/ CoreStep \/ UNCHANGED vars
  BY <1>2 DEF Arrive, CoreStep, RxIdle, RxBurst, RxBefore, RxEnqueue, RxAfter, vars, mainVars,
              threadVars, Joined
<1>3. ASSUME NEW t \in Thread, ThreadStep(t)
      PROVE  Joined'
  <2>1. UNCHANGED <<mainpc, next, dumper>>
    BY <1>3 DEF ThreadStep, TestTimeflag, MasterRx, TestSave, LockDumper, DumpHeader, DumpData,
                FreeMbuf, mainVars
  <2>2. \A u \in Thread : tpc[u] = "done" => tpc'[u] = "done"
    BY <1>1, <1>3 DEF ThreadStep, TestTimeflag, MasterRx, TestSave, LockDumper, DumpHeader,
                      DumpData, FreeMbuf, Goto, NextPacket
  <2> QED
    BY <2>1, <2>2 DEF Joined
<1>4. CASE JoinThread
  <2>1. /\ UNCHANGED <<tpc, dumper>> /\ next \in Thread /\ tpc[next] = "done"
        /\ mainpc = "join" /\ \A t \in Thread : t < next => tpc[t] = "done"
    BY <1>4 DEF JoinThread, Joined, threadVars
  <2>2. \A t \in Thread : t < next + 1 => tpc[t] = "done"
    <3>1. \A t \in Thread : t < next + 1 => t < next \/ t = next
      BY <2>1 DEF Thread
    <3> QED
      BY <2>1, <3>1
  <2>3. CASE next + 1 < ThreadNum /\ next' = next + 1 /\ UNCHANGED mainpc
    <3>1. next' \in Thread
      BY <2>1, <2>3, Indices DEF Thread
    <3> QED
      BY <2>1, <2>2, <2>3, <3>1 DEF Joined
  <2>4. CASE next + 1 = ThreadNum /\ next' = 0 /\ mainpc' = "close"
    <3>1. \A t \in Thread : t < next + 1
      BY <2>4, Indices DEF Thread
    <3> QED
      BY <2>1, <2>2, <2>4, <3>1 DEF Joined
  <2> QED
    BY <1>4, <2>3, <2>4 DEF JoinThread
<1>5. CASE OpenDumper \/ Begin \/ InstallHandler
  BY <1>5 DEF OpenDumper, Begin, InstallHandler, Joined, threadVars
<1>6. CASE CreateThread
  BY <1>6 DEF CreateThread, Joined
<1>7. CASE CloseDumper \/ StatisQueue
  BY <1>7 DEF CloseDumper, StatisQueue, Joined, threadVars
<1>8. CASE Sigint
  <2>1. 0 \in Thread /\ \A t \in Thread : ~(t < 0)
    BY Indices DEF Thread
  <2> QED
    BY <1>8, <2>1 DEF Sigint, Joined, threadVars
<1> QED
  BY <1>2, <1>3, <1>4, <1>5, <1>6, <1>7, <1>8 DEF Next, MainStep, Ended

(* The counters of the lcore only grow. *)
LEMMA RxGrows ==
    ASSUME ControlInv, [Next]_vars, NEW S, S \subseteq Queue
    PROVE  /\ Sum(rx_queue, S) \in Nat /\ Sum(rx_queue', S) \in Nat
           /\ Sum(rx_queue, S) <= Sum(rx_queue', S)
<1>1. IsFiniteSet(S)
  BY Indices, FS_Subset
<1>2. rx_queue \in [Queue -> Nat]
  BY CounterTypes
<1>3. \A k \in Queue : rx_queue'[k] \in Nat /\ rx_queue[k] \in Nat /\ rx_queue[k] <= rx_queue'[k]
  <2>1. CASE RxBurst
    <3> DEFINE q == SlotQueue
               n == Len(Taken(nic[q], Burst))
    <3>1. rx_queue' = [rx_queue EXCEPT ![q] = @ + n]
      BY <2>1 DEF RxBurst
    <3>2. q \in Queue
      BY SlotType, SizeAssumption DEF ControlInv, TypeOK, CoreType
    <3>3. n \in Nat
      <4>1. nic[q] \in Seq(Packet) /\ Burst \in Nat
        BY <3>2, SizeAssumption DEF ControlInv, TypeOK, WireType, SizeAssumption
      <4> QED
        BY <4>1, BurstType, LenProperties
    <3> HIDE DEF q, n
    <3> QED
      BY <1>2, <3>1, <3>2, <3>3
  <2>2. CASE ~RxBurst
    <3>1. rx_queue' = rx_queue
      BY <2>2 DEF Next, Ended, Arrive, CoreStep, RxIdle, RxBefore, RxEnqueue, RxAfter,
                  ThreadStep, TestTimeflag, MasterRx, TestSave, LockDumper, DumpHeader, DumpData,
                  FreeMbuf, MainStep, OpenDumper, Begin, CreateThread, InstallHandler,
                  JoinThread, CloseDumper, StatisQueue, Sigint, vars, coreVars
    <3> QED
      BY <1>2, <3>1
  <2> QED
    BY <2>1, <2>2
<1>4. \A k \in S : rx_queue'[k] \in Nat /\ rx_queue[k] \in Nat /\ rx_queue[k] <= rx_queue'[k]
  BY <1>3
<1> QED
  BY <1>1, <1>4, SumType, SumMono

LEMMA AddingUpStep ==
    ASSUME CountInv, [Next]_vars
    PROVE  AddingUp'
<1> USE DEF CountInv, Books, FlowInv, IInv
<1> DEFINE before(n) == 0 .. n - 1
           after(n)  == n .. QueueNum - 1
<1>1. ControlInv /\ QueueNum \in Nat \ {0} /\ Queue = before(QueueNum) /\ count_rx \in Nat
  BY Indices DEF Queue, ControlInv, TypeOK, MainType
<1>2. ASSUME NEW n \in 0 .. QueueNum
      PROVE  /\ before(n) \subseteq Queue /\ after(n) \subseteq Queue
             /\ IsFiniteSet(before(n)) /\ IsFiniteSet(after(n))
  <2>1. before(n) \subseteq Queue /\ after(n) \subseteq Queue
    BY <1>1
  <2> QED
    BY <2>1, Indices, FS_Subset
<1> DEFINE covered(n, c) == /\ c <= Sum(rx_queue, before(n))
                            /\ Sum(after_dequeue, Ring) <= c + Sum(rx_queue, after(n))
(* The sums cover as much when the counters grow. *)
<1>3. ASSUME NEW n \in 0 .. QueueNum, NEW c \in Nat, covered(n, c), UNCHANGED after_dequeue
      PROVE  /\ c <= Sum(rx_queue', before(n))
             /\ Sum(after_dequeue', Ring) <= c + Sum(rx_queue', after(n))
  <2>1. /\ Sum(rx_queue, before(n)) \in Nat /\ Sum(rx_queue', before(n)) \in Nat
        /\ Sum(rx_queue, before(n)) <= Sum(rx_queue', before(n))
    BY <1>1, <1>2, RxGrows
  <2>2. /\ Sum(rx_queue, after(n)) \in Nat /\ Sum(rx_queue', after(n)) \in Nat
        /\ Sum(rx_queue, after(n)) <= Sum(rx_queue', after(n))
    BY <1>1, <1>2, RxGrows
  <2>3. Sum(after_dequeue', Ring) = Sum(after_dequeue, Ring) /\ Sum(after_dequeue, Ring) \in Nat
    BY <1>1, <1>3, CounterTypes
  <2>4. /\ c <= Sum(rx_queue, before(n))
        /\ Sum(after_dequeue, Ring) <= c + Sum(rx_queue, after(n))
    BY <1>3
  <2> HIDE DEF before, after, covered
  <2>5. c <= Sum(rx_queue', before(n))
    BY <2>1, <2>4
  <2>6. Sum(after_dequeue', Ring) <= c + Sum(rx_queue', after(n))
    BY <2>2, <2>3, <2>4
  <2> QED
    BY <2>5, <2>6
<1>4. CASE mainpc # "statis" /\ ~CloseDumper
  <2>1. mainpc' # "statis" /\ count_rx' = count_rx
    BY <1>4 DEF Next, Ended, Arrive, CoreStep, RxIdle, RxBurst, RxBefore, RxEnqueue, RxAfter,
                ThreadStep, TestTimeflag, MasterRx, TestSave, LockDumper, DumpHeader, DumpData,
                FreeMbuf, MainStep, OpenDumper, Begin, CreateThread, InstallHandler, JoinThread,
                StatisQueue, Sigint, vars, mainVars
  <2> QED
    BY <1>4, <2>1 DEF AddingUp
<1>5. CASE CloseDumper
  <2>1. /\ UNCHANGED <<after_dequeue, rx_queue, next, count_rx>> /\ mainpc = "close"
        /\ mainpc' = "statis" /\ process' # "exited" /\ next = 0 /\ count_rx = 0
    BY <1>5 DEF CloseDumper, Joined, AddingUp, Running, coreVars, threadVars
  <2>2. before(0) = {} /\ after(0) = Queue
    BY <1>1
  <2>3. Sum(rx_queue, before(0)) = 0
    BY <2>2, SumEmpty
  <2>4. Sum(after_dequeue, Ring) <= Sum(rx_queue, after(0))
    BY <2>2, TakenWasCounted
  <2>5. 0 \in 0 .. QueueNum
    BY <1>1
  <2>6. Sum(rx_queue, after(0)) \in Nat
    BY <1>1, <2>2, CounterTypes
  <2> HIDE DEF before, after
  <2>7. covered(0, 0)
    BY <2>3, <2>4, <2>6
  <2> QED
    BY <2>1, <2>5, <2>7 DEF AddingUp, before, after
<1>6. CASE mainpc = "statis"
  <2>1. /\ next \in 0 .. QueueNum /\ covered(next, count_rx)
        /\ process = "exited" => next = QueueNum
    BY <1>6 DEF AddingUp
  <2>2. CASE StatisQueue
    <3>1. /\ next \in Queue /\ UNCHANGED <<rx_queue, after_dequeue, mainpc>>
          /\ count_rx' = count_rx + rx_queue[next] /\ next' = next + 1
          /\ process' = "exited" => next' = QueueNum
      BY <2>2 DEF StatisQueue, ControlInv, Stopping, coreVars, threadVars
    <3>2. next + 1 \in 0 .. QueueNum
      BY <1>1, <3>1
    <3>3. rx_queue[next] \in Nat /\ \A k \in Queue : rx_queue[k] \in Nat
      BY <1>1, <3>1, CounterTypes
    <3>4. /\ next \in before(next + 1) /\ before(next + 1) \ {next} = before(next)
          /\ next \in after(next) /\ after(next) \ {next} = after(next + 1)
      BY <1>1, <3>1
    <3>5. Sum(rx_queue, before(next + 1)) = rx_queue[next] + Sum(rx_queue, before(next))
      <4>1. IsFiniteSet(before(next + 1)) /\ \A k \in before(next + 1) : rx_queue[k] \in Nat
        BY <1>2, <3>2, <3>3
      <4> HIDE DEF before
      <4> QED
        BY <3>4, <4>1, SumRemove
    <3>6. Sum(rx_queue, after(next)) = rx_queue[next] + Sum(rx_queue, after(next + 1))
      <4>1. IsFiniteSet(after(next)) /\ \A k \in after(next) : rx_queue[k] \in Nat
        BY <1>2, <2>1, <3>3
      <4> HIDE DEF after
      <4> QED
        BY <3>4, <4>1, SumRemove
    <3>7. /\ Sum(rx_queue, before(next)) \in Nat /\ Sum(rx_queue, after(next + 1)) \in Nat
          /\ Sum(after_dequeue, Ring) \in Nat
      BY <1>1, <1>2, <2>1, <3>2, CounterTypes, RxGrows
    <3>8. /\ count_rx <= Sum(rx_queue, before(next))
          /\ Sum(after_dequeue, Ring) <= count_rx + Sum(rx_queue, after(next))
      BY <2>1
    <3> HIDE DEF before, after, covered
    <3>9. /\ count_rx' <= Sum(rx_queue, before(next + 1))
          /\ Sum(after_dequeue, Ring) <= count_rx' + Sum(rx_queue, after(next + 1))
      BY <1>1, <3>1, <3>3, <3>5, <3>6, <3>7, <3>8
    <3> QED
      BY <1>6, <3>1, <3>2, <3>9 DEF AddingUp, before, after
  <2>3. CASE ~StatisQueue
    <3>1. UNCHANGED <<mainpc, next, count_rx>> /\ (process' = "exited" => process = "exited")
      BY <1>6, <2>3 DEF Next, Ended, Arrive, CoreStep, RxIdle, RxBurst, RxBefore, RxEnqueue,
                RxAfter, ThreadStep, TestTimeflag, MasterRx, TestSave, LockDumper, DumpHeader,
                DumpData, FreeMbuf, MainStep, OpenDumper, Begin, CreateThread, InstallHandler,
                JoinThread, CloseDumper, Sigint, vars, mainVars
    <3>2. UNCHANGED after_dequeue
      <4>1. \A t \in Thread : ~MasterRx(t)
        BY <1>6 DEF Joined, MasterRx
      <4> QED
        BY <2>3, <4>1 DEF Next, Ended, Arrive, CoreStep, RxIdle, RxBurst, RxBefore, RxEnqueue,
                RxAfter, ThreadStep, TestTimeflag, TestSave, LockDumper, DumpHeader,
                DumpData, FreeMbuf, MainStep, OpenDumper, Begin, CreateThread, InstallHandler,
                JoinThread, CloseDumper, Sigint, vars, threadVars
    <3>3. /\ count_rx <= Sum(rx_queue', before(next))
          /\ Sum(after_dequeue', Ring) <= count_rx + Sum(rx_queue', after(next))
      BY <1>1, <1>3, <2>1, <3>2
    <3> QED
      BY <1>6, <2>1, <3>1, <3>3 DEF AddingUp
  <2> QED
    BY <2>2, <2>3
<1> QED
  BY <1>4, <1>5, <1>6

LEMMA CountInit == Init => CountInv
<1> SUFFICES ASSUME Init PROVE Books
  BY FlowInit DEF CountInv
<1>1. Len(<<>>) = 0
  BY EmptySeq
<1>2. Sum(rx_queue, Queue) = 0 /\ Sum(before_enqueue, Ring) = 0 /\ Sum(after_dequeue, Ring) = 0
  BY Indices, SumZero DEF Init
<1>3. Sum(Unwritten, Ring) = 0
  <2>1. \A r \in Ring : Unwritten[r] = 0
    BY <1>1 DEF Init, Unwritten, Halves
  <2> QED
    BY <2>1, Indices, SumZero
<1>4. RingAccounting
  <2>1. \A r : {p \in overrun : RingId(p.h) = r} = {}
    BY DEF Init
  <2> QED
    BY <1>1, <2>1, FS_EmptySet DEF Init, RingAccounting
<1>5. RxBooks /\ DumpBooks
  BY <1>1, <1>2, <1>3 DEF Init, RxBooks, Uncounted, DumpBooks
<1>6. Joined /\ AddingUp
  BY DEF Init, Joined, AddingUp
<1> QED
  BY <1>4, <1>5, <1>6 DEF Books

LEMMA CountStep == CountInv /\ [Next]_vars => CountInv'
BY FlowStep, AccountsStep, RxBooksStep, DumpBooksStep, JoinedStep, AddingUpStep
DEF CountInv, Books

(***************************************************************************)
(* The counters of each ring account for every packet sent its way, full   *)
(* rings and enqueues under way included.                                  *)
(***************************************************************************)
THEOREM RingsAreAccounted == Spec => []RingAccounting
<1>1. CountInv => RingAccounting
  BY DEF CountInv, Books
<1> QED
  BY CountInit, CountStep, <1>1, PTL DEF Spec

(***************************************************************************)
(* The file that dpdk_finish closes is complete: by then every thread was  *)
(* joined, and what the threads took and have not written is nothing.      *)
(***************************************************************************)
THEOREM ClosedFileIsComplete == Spec => []ClosedDumpComplete
<1>1. CountInv => ClosedDumpComplete
  <2> SUFFICES ASSUME CountInv, dumper = "closed"
               PROVE  /\ \A t \in Thread : mbuf2[t] = <<>>
                      /\ save.read = "1" => Len(file) = 2 * Total(after_dequeue)
    BY DEF ClosedDumpComplete
  <2> USE DEF CountInv, Books, FlowInv, IInv
  <2>1. \A t \in Thread : tpc[t] = "done" /\ mbuf2[t] = <<>>
    BY DEF Joined, Idle
  <2>2. \A r \in Ring : Unwritten[r] = 0
    BY <2>1, EmptySeq DEF Unwritten, Halves
  <2>3. Sum(Unwritten, Ring) = 0
    BY <2>2, Indices, SumZero
  <2>4. Total(after_dequeue) = Sum(after_dequeue, Ring)
    BY CounterTypes DEF Total, FoldFunction, Sum
  <2>5. Len(file) \in Nat
    BY CounterTypes
  <2> QED
    BY <2>1, <2>3, <2>4, <2>5 DEF DumpBooks
<1> QED
  BY CountInit, CountStep, <1>1, PTL DEF Spec

(***************************************************************************)
(* The total printed on exit covers every packet that reached a thread and *)
(* no more than the lcore has received, although it is added up queue by   *)
(* queue while the lcore goes on counting: the threads have stopped by     *)
(* then, and the counters only grow.                                       *)
(***************************************************************************)
THEOREM PrintedTotalCovers == Spec => []CountRxCovers
<1>1. CountInv => CountRxCovers
  <2> SUFFICES ASSUME CountInv, mainpc = "statis", process = "exited"
               PROVE  /\ Total(after_dequeue) <= count_rx
                      /\ count_rx <= Total(rx_queue)
    BY DEF CountRxCovers
  <2> USE DEF CountInv, Books, FlowInv, IInv
  <2>1. /\ Total(after_dequeue) = Sum(after_dequeue, Ring)
        /\ Total(rx_queue) = Sum(rx_queue, Queue)
    BY CounterTypes DEF Total, FoldFunction, Sum
  <2>2. 0 .. QueueNum - 1 = Queue /\ QueueNum .. QueueNum - 1 = {} /\ next = QueueNum
    BY Indices DEF Queue, AddingUp
  <2>3. Sum(rx_queue, {}) = 0
    BY SumEmpty
  <2>4. count_rx <= Sum(rx_queue, Queue) /\ Sum(after_dequeue, Ring) <= count_rx + 0
    BY <2>2, <2>3 DEF AddingUp
  <2>5. count_rx \in Nat
    BY DEF ControlInv, TypeOK, MainType
  <2> QED
    BY <2>1, <2>4, <2>5
<1> QED
  BY CountInit, CountStep, <1>1, PTL DEF Spec
=============================================================================
