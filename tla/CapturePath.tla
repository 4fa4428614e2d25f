---------------------------- MODULE CapturePath ----------------------------
(***************************************************************************)
(* The receive path of the DPDK capture, for one port: the NIC's receive   *)
(* queues, the slave lcore that polls them (slaveCoreRx), the rte_rings it *)
(* distributes packets to, the capture threads that drain the rings        *)
(* (sendQueue2) into one dump file, and the main thread that starts all of *)
(* them (dpdk_test) and stops them on SIGINT (dpdk_finish).                *)
(*                                                                         *)
(* The port has one receive lcore, as in thread mode 1 (-m 1): every ring  *)
(* has a single producer and a single consumer, so that one enqueue or one *)
(* dequeue is one step here; RxRing shows that the ring provides this.     *)
(***************************************************************************)
EXTENDS Integers, Sequences, FiniteSets, Functions

CONSTANTS
    RingNum,        \* ctx->port_ringnum of the port
    QueueNum,       \* ctx->port_queuenum of the port
    ThreadNum,      \* Thread_Num: capture threads; thread k drains ring k
    RingSize,       \* packets a ring can hold (rte_ring_create with 1024)
    Burst,          \* BURST_SIZE: packets asked of the NIC at a time
    Num,            \* NUM: packets asked of a ring at a time
    NicSize,        \* RX_RING_SIZE: descriptors of a receive queue
    NumMbufs,       \* NUM_MBUFS: mbufs in the pool
    Word,           \* 2^32, the modulus of uint32_t
    Header,         \* packet headers: records [ver, src, dst]
    RssQueue,       \* the receive queue the NIC's hash gives a header
    MaxPackets,     \* bound on the packets the wire delivers
    SaveSettings    \* conf[1]: as dpdk_test's parameter gives it, and as
                    \* sendQueue2 finds it in the global of the same name

Ring   == 0 .. RingNum - 1
Queue  == 0 .. QueueNum - 1
Thread == 0 .. ThreadNum - 1
Slot   == 0 .. QueueNum * RingNum - 1
Packet == [n : 1 .. MaxPackets, h : Header]
NoThread == -1

ASSUME SizeAssumption ==
    /\ {RingNum, QueueNum, ThreadNum, RingSize, Burst, Num, NicSize, Word}
         \subseteq Nat \ {0}
    /\ {NumMbufs, MaxPackets} \subseteq Nat
    /\ ThreadNum <= RingNum

ASSUME TrafficAssumption ==
    /\ Header \subseteq [ver : Nat, src : Nat, dst : Nat]
    /\ RssQueue \in [Header -> Queue]

ASSUME ConfAssumption ==
    SaveSettings \subseteq [conf : {"1", "0"}, read : {"1", "0", "unmapped"}]

(***************************************************************************)
(* The ring of a packet: the sum of its addresses for IPv4 and IPv6 (of a  *)
(* v6 address, the 32 bits the code keeps), ring 0 for anything else.      *)
(***************************************************************************)
RingId(h) == IF h.ver \in {4, 6} THEN ((h.src + h.dst) % Word) % RingNum ELSE 0

VARIABLES
    arrived,        \* packets the wire has delivered
    nic,            \* nic[q]: packets waiting in receive queue q
    pool,           \* free mbufs
    slot,           \* the core's position in its (queue, ring) double loop
    rxpc,           \* where the core is in slaveCoreRx
    bufs,           \* the core's burst, the packets not yet dealt with
    ring,           \* ring[r]: the packets of rxring[port][r]
    rx_queue,       \* ctx->rx_queue[port][q]
    before_enqueue, \* ctx->before_enqueue[port][r]
    after_enqueue,  \* ctx->after_enqueue[port][r]
    after_dequeue,  \* ctx->after_dequeue[port][r]
    overrun,        \* packets whose enqueue failed; nobody owns their mbuf
    tpc,            \* tpc[t]: where thread t is in sendQueue2
    mbuf2,          \* mbuf2[t]: the packets thread t has still to handle
    mutexDumper,    \* the thread holding the mutex, or NoThread
    file,           \* what has been written to DpdkTest.pcap
    unfreed,        \* packets a thread was done with without freeing them
    save,           \* the setting of this run
    mainpc,         \* where the main thread is in dpdk_test or dpdk_finish
    next,           \* main's loop counter
    timeflag,       \* cleared by dpdk_finish to stop the threads
    dumper,         \* the dump file: "null", "open" or "closed"
    count_rx,       \* the sum dpdk_statis_data computes
    process         \* "run", or how the process ended

nicVars    == <<arrived, nic>>
coreVars   == <<slot, rxpc, bufs, rx_queue, before_enqueue, after_enqueue, overrun>>
threadVars == <<tpc, mbuf2, mutexDumper, file, unfreed, after_dequeue>>
mainVars   == <<mainpc, next, timeflag, dumper, count_rx>>
vars == <<nicVars, pool, coreVars, ring, threadVars, save, mainVars, process>>

Running == process = "run"

Init ==
    /\ arrived = 0
    /\ nic = [q \in Queue |-> <<>>]
    /\ pool = NumMbufs
    /\ slot = 0
    /\ rxpc = "off"
    /\ bufs = <<>>
    /\ ring = [r \in Ring |-> <<>>]
    /\ rx_queue = [q \in Queue |-> 0]
    /\ before_enqueue = [r \in Ring |-> 0]
    /\ after_enqueue = [r \in Ring |-> 0]
    /\ after_dequeue = [r \in Ring |-> 0]
    /\ overrun = {}
    /\ tpc = [t \in Thread |-> "none"]
    /\ mbuf2 = [t \in Thread |-> <<>>]
    /\ mutexDumper = NoThread
    /\ file = <<>>
    /\ unfreed = {}
    /\ save \in SaveSettings
    /\ mainpc = "open"
    /\ next = 0
    /\ timeflag = 1
    /\ dumper = "null"
    /\ count_rx = 0
    /\ process = "run"

-----------------------------------------------------------------------------
(* The wire and the NIC *)

(***************************************************************************)
(* A packet arrives. The NIC puts it in the queue its hash selects, in an  *)
(* mbuf of the pool; with no descriptor or no mbuf left it drops it.       *)
(***************************************************************************)
Arrive(h) ==
    LET q == RssQueue[h]
        p == [n |-> arrived + 1, h |-> h]
    IN  /\ Running
        /\ rxpc # "off"
        /\ arrived < MaxPackets
        /\ arrived' = arrived + 1
        /\ \/ /\ Len(nic[q]) < NicSize
              /\ pool > 0
              /\ nic' = [nic EXCEPT ![q] = Append(@, p)]
              /\ pool' = pool - 1
           \/ /\ Len(nic[q]) >= NicSize \/ pool = 0
              /\ UNCHANGED <<nic, pool>>
        /\ UNCHANGED <<coreVars, ring, threadVars, save, mainVars, process>>

-----------------------------------------------------------------------------
(* The receive lcore: slaveCoreRx *)

SlotQueue == slot \div RingNum

(* Mutants: the loops never start over; only the rings are iterated. *)
NextSlotUnwrapped == slot + 1
NextSlotFirstQueue == (slot + 1) % RingNum

NextSlot == (slot + 1) % (QueueNum * RingNum)

(* The packets a burst of at most k takes off s, and those it leaves. *)
Size(s, k) == IF Len(s) < k THEN Len(s) ELSE k

(* Mutant: the burst is handed over backwards. *)
TakenBackwards(s, k) == [i \in 1 .. Size(s, k) |-> s[Size(s, k) + 1 - i]]

Taken(s, k) == SubSeq(s, 1, Size(s, k))
Rest(s, k)  == SubSeq(s, Size(s, k) + 1, Len(s))

(* rte_eth_rx_burst finds the queue empty: on to the next turn of the loops. *)
RxIdle ==
    /\ Running
    /\ rxpc = "poll"
    /\ nic[SlotQueue] = <<>>
    /\ slot' = NextSlot
    /\ UNCHANGED <<nicVars, pool, rxpc, bufs, rx_queue, before_enqueue, after_enqueue,
                   overrun, ring, threadVars, save, mainVars, process>>

(* rte_eth_rx_burst returns packets, which are counted for their queue. *)
RxBurst ==
    LET q   == SlotQueue
        got == Taken(nic[q], Burst)
    IN  /\ Running
        /\ rxpc = "poll"
        /\ nic[q] # <<>>
        /\ nic' = [nic EXCEPT ![q] = Rest(@, Burst)]
        /\ bufs' = got
        /\ rx_queue' = [rx_queue EXCEPT ![q] = @ + Len(got)]
        /\ rxpc' = "before"
        /\ UNCHANGED <<arrived, pool, slot, before_enqueue, after_enqueue, overrun, ring,
                       threadVars, save, mainVars, process>>

(* Mutant: the loop's own ring is counted instead of the packet's. *)
RxBeforeLoopRing ==
    /\ Running
    /\ rxpc = "before"
    /\ before_enqueue' = [before_enqueue EXCEPT ![slot % RingNum] = @ + 1]
    /\ rxpc' = "enqueue"
    /\ UNCHANGED <<nicVars, pool, slot, bufs, rx_queue, after_enqueue, overrun, ring,
                   threadVars, save, mainVars, process>>

(* The ring of the next packet is chosen and before_enqueue counted. *)
RxBefore ==
    /\ Running
    /\ rxpc = "before"
    /\ before_enqueue' = [before_enqueue EXCEPT ![RingId(Head(bufs).h)] = @ + 1]
    /\ rxpc' = "enqueue"
    /\ UNCHANGED <<nicVars, pool, slot, bufs, rx_queue, after_enqueue, overrun, ring,
                   threadVars, save, mainVars, process>>

(***************************************************************************)
(* rte_ring_enqueue. The code ignores its result: when the ring is full    *)
(* the packet is in no ring and its mbuf is not freed either.              *)
(***************************************************************************)
RxEnqueue ==
    LET p == Head(bufs)
        r == RingId(p.h)
    IN  /\ Running
        /\ rxpc = "enqueue"
        /\ \/ /\ Len(ring[r]) < RingSize
              /\ ring' = [ring EXCEPT ![r] = Append(@, p)]
              /\ UNCHANGED overrun
           \/ /\ Len(ring[r]) >= RingSize
              /\ overrun' = overrun \cup {p}
              /\ UNCHANGED ring
        /\ rxpc' = "after"
        /\ UNCHANGED <<nicVars, pool, slot, bufs, rx_queue, before_enqueue, after_enqueue,
                       threadVars, save, mainVars, process>>

(* after_enqueue is counted, and the loop over the burst goes on or ends. *)
RxAfter ==
    LET r == RingId(Head(bufs).h)
    IN  /\ Running
        /\ rxpc = "after"
        /\ after_enqueue' = [after_enqueue EXCEPT ![r] = @ + 1]
        /\ bufs' = Tail(bufs)
        /\ \/ /\ Len(bufs) > 1
              /\ rxpc' = "before"
              /\ UNCHANGED slot
           \/ /\ Len(bufs) = 1
              /\ rxpc' = "poll"
              /\ slot' = NextSlot
        /\ UNCHANGED <<nicVars, pool, rx_queue, before_enqueue, overrun, ring, threadVars,
                       save, mainVars, process>>

CoreStep == RxIdle \/ RxBurst \/ RxBefore \/ RxEnqueue \/ RxAfter

-----------------------------------------------------------------------------
(* A capture thread: sendQueue2 *)

Goto(t, label) == tpc' = [tpc EXCEPT ![t] = label]

(* Mutant: a thread leaves its burst when it is told to stop. *)
NextPacketUnlessStopped(t) ==
    /\ mbuf2' = [mbuf2 EXCEPT ![t] = Tail(@)]
    /\ Goto(t, IF Len(mbuf2[t]) > 1 /\ timeflag = 1 THEN "packet" ELSE "while")

(* The burst's loop goes on to its next packet, or ends. *)
NextPacket(t) ==
    /\ mbuf2' = [mbuf2 EXCEPT ![t] = Tail(@)]
    /\ Goto(t, IF Len(mbuf2[t]) > 1 THEN "packet" ELSE "while")

(* while (timeflag) *)
TestTimeflag(t) ==
    /\ Running
    /\ tpc[t] = "while"
    /\ Goto(t, IF timeflag = 1 THEN "masterRx" ELSE "done")
    /\ UNCHANGED <<nicVars, pool, coreVars, ring, mbuf2, mutexDumper, file, unfreed,
                   after_dequeue, save, mainVars, process>>

(* dpdk_masterRx: up to Num packets of the thread's ring. *)
MasterRx(t) ==
    LET got == Taken(ring[t], Num)
    IN  /\ Running
        /\ tpc[t] = "masterRx"
        /\ ring' = [ring EXCEPT ![t] = Rest(@, Num)]
        /\ after_dequeue' = [after_dequeue EXCEPT ![t] = @ + Len(got)]
        /\ mbuf2' = [mbuf2 EXCEPT ![t] = got]
        /\ Goto(t, IF got = <<>> THEN "while" ELSE "packet")
        /\ UNCHANGED <<nicVars, pool, coreVars, mutexDumper, file, unfreed, save,
                       mainVars, process>>

(***************************************************************************)
(* strcmp(conf[1], "1") on the global conf, which nothing in DpdkTest.c    *)
(* assigns: the packet is to be saved, or left alone (and not freed), or   *)
(* the read faults.                                                        *)
(***************************************************************************)
TestSave(t) ==
    /\ Running
    /\ tpc[t] = "packet"
    /\ \/ /\ save.read = "1"
          /\ Goto(t, "lock")
          /\ UNCHANGED <<mbuf2, unfreed, process>>
       \/ /\ save.read = "0"
          /\ unfreed' = unfreed \cup {Head(mbuf2[t])}
          /\ NextPacket(t)
          /\ UNCHANGED process
       \/ /\ save.read = "unmapped"
          /\ process' = "crashed"
          /\ UNCHANGED <<tpc, mbuf2, unfreed>>
    /\ UNCHANGED <<nicVars, pool, coreVars, ring, mutexDumper, file, after_dequeue,
                   save, mainVars>>

(* Mutant: the dump file is not locked against the other threads. *)
LockDumperAnyway(t) ==
    /\ Running
    /\ tpc[t] = "lock"
    /\ mutexDumper' = t
    /\ Goto(t, "header")
    /\ UNCHANGED <<nicVars, pool, coreVars, ring, mbuf2, file, unfreed, after_dequeue,
                   save, mainVars, process>>

(* pthread_mutex_lock(&mutexDumper) *)
LockDumper(t) ==
    /\ Running
    /\ tpc[t] = "lock"
    /\ mutexDumper = NoThread
    /\ mutexDumper' = t
    /\ Goto(t, "header")
    /\ UNCHANGED <<nicVars, pool, coreVars, ring, mbuf2, file, unfreed, after_dequeue,
                   save, mainVars, process>>

(***************************************************************************)
(* pcap_dump writes the record header, then the bytes of the packet; with  *)
(* no open dumper it faults.                                               *)
(***************************************************************************)
DumpHeader(t) ==
    /\ Running
    /\ tpc[t] = "header"
    /\ \/ /\ dumper = "open"
          /\ file' = Append(file, [part |-> "header", p |-> Head(mbuf2[t])])
          /\ Goto(t, "data")
          /\ UNCHANGED process
       \/ /\ dumper # "open"
          /\ process' = "crashed"
          /\ UNCHANGED <<file, tpc>>
    /\ UNCHANGED <<nicVars, pool, coreVars, ring, mbuf2, mutexDumper, unfreed,
                   after_dequeue, save, mainVars>>

(* Mutant: the mutex is not released. *)
DumpDataKeepsLock(t) ==
    /\ Running
    /\ tpc[t] = "data"
    /\ file' = Append(file, [part |-> "data", p |-> Head(mbuf2[t])])
    /\ Goto(t, "free")
    /\ UNCHANGED <<nicVars, pool, coreVars, ring, mbuf2, mutexDumper, unfreed,
                   after_dequeue, save, mainVars, process>>

(* The rest of pcap_dump, and pthread_mutex_unlock(&mutexDumper) *)
DumpData(t) ==
    /\ Running
    /\ tpc[t] = "data"
    /\ file' = Append(file, [part |-> "data", p |-> Head(mbuf2[t])])
    /\ mutexDumper' = NoThread
    /\ Goto(t, "free")
    /\ UNCHANGED <<nicVars, pool, coreVars, ring, mbuf2, unfreed, after_dequeue, save,
                   mainVars, process>>

(* Mutant: the loop does not advance, the packet is handled again. *)
FreeMbufAgain(t) ==
    /\ Running
    /\ tpc[t] = "free"
    /\ pool' = pool + 1
    /\ Goto(t, "packet")
    /\ UNCHANGED <<nicVars, coreVars, ring, mbuf2, mutexDumper, file, unfreed, after_dequeue,
                   save, mainVars, process>>

(* daq_free gives the mbuf back to the pool. *)
FreeMbuf(t) ==
    /\ Running
    /\ tpc[t] = "free"
    /\ pool' = pool + 1
    /\ NextPacket(t)
    /\ UNCHANGED <<nicVars, coreVars, ring, mutexDumper, file, unfreed, after_dequeue,
                   save, mainVars, process>>

ThreadStep(t) ==
    \/ TestTimeflag(t) \/ MasterRx(t) \/ TestSave(t)
    \/ LockDumper(t) \/ DumpHeader(t) \/ DumpData(t) \/ FreeMbuf(t)

-----------------------------------------------------------------------------
(* The main thread: dpdk_test, then dpdk_finish on SIGINT *)

(* pcap_dump_open when packets are to be saved; dpdk_test returns if it fails. *)
OpenDumper ==
    /\ Running
    /\ mainpc = "open"
    /\ \/ /\ save.conf = "1"
          /\ dumper' = "open"
          /\ UNCHANGED process
       \/ /\ save.conf = "1"
          /\ process' = "exited"
          /\ UNCHANGED dumper
       \/ /\ save.conf # "1"
          /\ UNCHANGED <<dumper, process>>
    /\ mainpc' = "begin"
    /\ UNCHANGED <<nicVars, pool, coreVars, ring, threadVars, save, next, timeflag,
                   count_rx>>

(* begin() initialises DPDK, which launches mainLoop on the slave lcores. *)
Begin ==
    /\ Running
    /\ mainpc = "begin"
    /\ mainpc' = "create"
    /\ rxpc' = "poll"
    /\ UNCHANGED <<nicVars, pool, slot, bufs, rx_queue, before_enqueue, after_enqueue,
                   overrun, ring, threadVars, save, next, timeflag, dumper, count_rx,
                   process>>

(* pthread_create, a second apart, for each capture thread. *)
CreateThread ==
    /\ Running
    /\ mainpc = "create"
    /\ tpc' = [tpc EXCEPT ![next] = "while"]
    /\ \/ /\ next + 1 < ThreadNum
          /\ next' = next + 1
          /\ UNCHANGED mainpc
       \/ /\ next + 1 = ThreadNum
          /\ next' = 0
          /\ mainpc' = "signal"
    /\ UNCHANGED <<nicVars, pool, coreVars, ring, mbuf2, mutexDumper, file, unfreed,
                   after_dequeue, save, timeflag, dumper, count_rx, process>>

(* signal(SIGINT, dpdk_finish), then sleep for ever. *)
InstallHandler ==
    /\ Running
    /\ mainpc = "signal"
    /\ mainpc' = "sleep"
    /\ UNCHANGED <<nicVars, pool, coreVars, ring, threadVars, save, next, timeflag,
                   dumper, count_rx, process>>

(***************************************************************************)
(* SIGINT, at most once: it kills the process before the handler is        *)
(* installed; afterwards the handler starts and clears timeflag.           *)
(***************************************************************************)
Sigint ==
    /\ Running
    /\ \/ /\ mainpc \in {"open", "begin", "create", "signal"}
          /\ process' = "killed"
          /\ UNCHANGED <<mainpc, timeflag>>
       \/ /\ mainpc = "sleep"
          /\ timeflag' = 0
          /\ mainpc' = "join"
          /\ UNCHANGED process
    /\ UNCHANGED <<nicVars, pool, coreVars, ring, threadVars, save, next, dumper,
                   count_rx>>

(* pthread_join of each thread in turn. *)
JoinThread ==
    /\ Running
    /\ mainpc = "join"
    /\ tpc[next] = "done"
    /\ \/ /\ next + 1 < ThreadNum
          /\ next' = next + 1
          /\ UNCHANGED mainpc
       \/ /\ next + 1 = ThreadNum
          /\ next' = 0
          /\ mainpc' = "close"
    /\ UNCHANGED <<nicVars, pool, coreVars, ring, threadVars, save, timeflag, dumper,
                   count_rx, process>>

(* pcap_dump_close(dumper), which faults when no dumper was opened. *)
CloseDumper ==
    /\ Running
    /\ mainpc = "close"
    /\ \/ /\ dumper = "open"
          /\ dumper' = "closed"
          /\ UNCHANGED process
       \/ /\ dumper # "open"
          /\ process' = "crashed"
          /\ UNCHANGED dumper
    /\ mainpc' = "statis"
    /\ UNCHANGED <<nicVars, pool, coreVars, ring, threadVars, save, next, timeflag,
                   count_rx>>

(* Mutant: the first queue is added up every time. *)
StatisFirstQueue ==
    /\ Running
    /\ mainpc = "statis"
    /\ count_rx' = count_rx + rx_queue[0]
    /\ next' = next + 1
    /\ process' = IF next + 1 = QueueNum THEN "exited" ELSE "run"
    /\ UNCHANGED <<nicVars, pool, coreVars, ring, threadVars, save, mainpc, timeflag,
                   dumper>>

(***************************************************************************)
(* dpdk_statis_data adds up the queues' counters one by one while the      *)
(* lcore still counts; the process exits after the last.                   *)
(***************************************************************************)
StatisQueue ==
    /\ Running
    /\ mainpc = "statis"
    /\ count_rx' = count_rx + rx_queue[next]
    /\ next' = next + 1
    /\ process' = IF next + 1 = QueueNum THEN "exited" ELSE "run"
    /\ UNCHANGED <<nicVars, pool, coreVars, ring, threadVars, save, mainpc, timeflag,
                   dumper>>

MainStep == \/ OpenDumper \/ Begin \/ CreateThread \/ InstallHandler
            \/ JoinThread \/ CloseDumper \/ StatisQueue

-----------------------------------------------------------------------------
(* An ended process does nothing more. *)
Ended == ~Running /\ UNCHANGED vars

Next ==
    \/ \E h \in Header : Arrive(h)
    \/ CoreStep
    \/ \E t \in Thread : ThreadStep(t)
    \/ MainStep
    \/ Sigint
    \/ Ended

(***************************************************************************)
(* The lcore, the threads and the main thread are scheduled by the         *)
(* operating system for as long as they can run; a mutex that is free is   *)
(* eventually given to a thread that waits for it. Nothing is assumed of   *)
(* the wire or of the user's Ctrl-C.                                       *)
(***************************************************************************)
Fairness ==
    /\ WF_vars(CoreStep)
    /\ WF_vars(MainStep)
    /\ \A t \in Thread : WF_vars(ThreadStep(t))

Spec == Init /\ [][Next]_vars
FairSpec == Spec /\ Fairness

-----------------------------------------------------------------------------
(* Properties *)

WireType ==
    /\ arrived \in 0 .. MaxPackets
    /\ nic \in [Queue -> Seq(Packet)]
    /\ pool \in Nat
CoreType ==
    /\ slot \in Slot
    /\ rxpc \in {"off", "poll", "before", "enqueue", "after"}
    /\ bufs \in Seq(Packet)
    /\ rx_queue \in [Queue -> Nat]
    /\ before_enqueue \in [Ring -> Nat]
    /\ after_enqueue \in [Ring -> Nat]
    /\ overrun \subseteq Packet
RingType ==
    /\ ring \in [Ring -> Seq(Packet)]
    /\ after_dequeue \in [Ring -> Nat]
ThreadType ==
    /\ tpc \in [Thread -> {"none", "while", "masterRx", "packet", "lock", "header",
                           "data", "free", "done"}]
    /\ mbuf2 \in [Thread -> Seq(Packet)]
    /\ mutexDumper \in Thread \cup {NoThread}
    /\ unfreed \subseteq Packet
    /\ save \in SaveSettings
FileType == file \in Seq([part : {"header", "data"}, p : Packet])
MainType ==
    /\ mainpc \in {"open", "begin", "create", "signal", "sleep", "join", "close", "statis"}
    /\ next \in Nat
    /\ timeflag \in {0, 1}
    /\ dumper \in {"null", "open", "closed"}
    /\ count_rx \in Nat
    /\ process \in {"run", "exited", "killed", "crashed"}

(* Every variable keeps its type. *)
TypeOK == WireType /\ CoreType /\ RingType /\ ThreadType /\ FileType /\ MainType

(* What the lcore still owns of its burst: an enqueued packet is given away. *)
CoreOwned == Range(IF rxpc = "after" THEN Tail(bufs) ELSE bufs)

(* The packets that wait in the receive queues, in the rings, and those the *)
(* threads have in hand.                                                    *)
WaitingNic  == UNION {Range(nic[q]) : q \in Queue}
WaitingRing == UNION {Range(ring[r]) : r \in Ring}
InHand      == UNION {Range(mbuf2[t]) : t \in Thread}

Owned == WaitingNic \cup CoreOwned \cup WaitingRing \cup InHand

(***************************************************************************)
(* Mbufs are neither duplicated nor conjured up on the way from the NIC    *)
(* to the dump file: the pool lacks exactly one mbuf for each packet that  *)
(* waits somewhere or was leaked (the enqueue in slaveCoreRx that fails,   *)
(* the daq_free that sendQueue2 does not reach), and none is held twice.   *)
(***************************************************************************)
MbufConservation == pool + Cardinality(Owned \cup overrun \cup unfreed) = NumMbufs

(***************************************************************************)
(* The counters of a ring account for every packet sent its way: those     *)
(* counted by before_enqueue were dequeued, wait in the ring, were lost to *)
(* a full ring, or are about to be enqueued.                               *)
(***************************************************************************)
RingAccounting ==
    \A r \in Ring :
        before_enqueue[r] =
            after_dequeue[r] + Len(ring[r])
              + Cardinality({p \in overrun : RingId(p.h) = r})
              + (IF rxpc = "enqueue" /\ RingId(Head(bufs).h) = r THEN 1 ELSE 0)

(***************************************************************************)
(* Packets of one flow are saved in the order they arrived, through the    *)
(* queue, the burst, the ring and the capture thread, whatever else is     *)
(* lost on the way.                                                        *)
(***************************************************************************)
FlowOrder ==
    \A i, j \in DOMAIN file :
        (i < j /\ file[i].part = file[j].part /\ file[i].p.h = file[j].p.h)
            => file[i].p.n < file[j].p.n

(***************************************************************************)
(* The dump file is a sequence of whole records, each a header followed by *)
(* the data of the same packet: the writes of two capture threads never    *)
(* mix (mutexDumper).                                                      *)
(***************************************************************************)
DumpWellFormed ==
    \A i \in DOMAIN file :
        IF i % 2 = 1
        THEN file[i].part = "header"
        ELSE file[i].part = "data" /\ file[i].p = file[i - 1].p

Total(counter) == FoldFunction(+, 0, counter)

(***************************************************************************)
(* dpdk_finish closes the dump file only when it is complete: it holds a   *)
(* record of every packet the threads took off their rings, and no thread  *)
(* is left with packets in hand.                                           *)
(***************************************************************************)
ClosedDumpComplete ==
    dumper = "closed" =>
        /\ \A t \in Thread : mbuf2[t] = <<>>
        /\ save.read = "1" => Len(file) = 2 * Total(after_dequeue)

(***************************************************************************)
(* The total printed on exit is read while the lcore goes on counting: it  *)
(* covers every packet that reached a thread, and no more than the lcore   *)
(* has received.                                                           *)
(***************************************************************************)
CountRxCovers ==
    (mainpc = "statis" /\ process = "exited") =>
        /\ Total(after_dequeue) <= count_rx
        /\ count_rx <= Total(rx_queue)

(***************************************************************************)
(* Once dpdk_finish runs, the process ends: no capture thread stays in its *)
(* loop or waits for the mutex for ever.                                   *)
(***************************************************************************)
FinishEnds == mainpc = "join" ~> ~Running

(***************************************************************************)
(* A packet in a receive queue is eventually handled by a capture thread   *)
(* (saved, or left unsaved), unless its ring was full, nobody drains its   *)
(* ring, or the capture is being stopped.                                  *)
(***************************************************************************)
InNic(n) == \E q \in Queue : \E p \in Range(nic[q]) :
                p.n = n /\ RingId(p.h) \in Thread
Handled(n) ==
    \/ \E i \in DOMAIN file : file[i].part = "data" /\ file[i].p.n = n
    \/ \E p \in overrun \cup unfreed : p.n = n
ReceivedIsHandled ==
    \A n \in 1 .. MaxPackets :
        InNic(n) ~> (Handled(n) \/ timeflag = 0 \/ ~Running)
=============================================================================
