---------------------------- MODULE PcapCapture -----------------------------
(***************************************************************************)
(* The libpcap capture: one thread for each NIC (capturePacket), which     *)
(* opens the NIC and the dump file, registers its device, and runs         *)
(* pcap_loop; the main thread (libpcap_test), which on SIGINT (finish)     *)
(* sends each of them SIGUSR1, whose handler (captureFinish) stops the     *)
(* loop of the thread it runs on; and what they share: the hash of devices *)
(* by thread, the dumper, the total.                                       *)
(***************************************************************************)
EXTENDS Integers, Sequences, FiniteSets, Functions

CONSTANTS
    NIC_Num,        \* NICs, each with a capture thread
    SaveConfs,      \* values for conf[1]: "1" to save the packets
    MaxPackets,     \* bound on the packets of each NIC
    RecordSize,     \* what the n-th packet of a NIC takes in the file
    BufferSize      \* what stdio may keep of a file in memory

ASSUME PcapAssumption ==
    /\ NIC_Num \in Nat \ {0} /\ MaxPackets \in Nat
    /\ SaveConfs \subseteq {"0", "1"}
    /\ RecordSize \in [1 .. MaxPackets -> Nat \ {0}] /\ BufferSize \in Nat

Thread == 1 .. NIC_Num
Nobody == 0         \* the owner of a free mutex, and the dumper that is NULL

(***************************************************************************)
(* A dumper is a FILE of its own, with its buffer and its offset, on the   *)
(* one PcapTest.pcap that all threads open; a thread opens one, so dumpers *)
(* are named by threads. What goes through a dumper is a sequence of       *)
(* pieces, as many for a packet as its record is long, and lies in the     *)
(* file at its own offsets: the file is known by which dumper wrote each   *)
(* place last. The file's header, the same from each of them, is left out. *)
(***************************************************************************)

VARIABLES
    saveConf,       \* conf[1] in this run
    tpc,            \* tpc[t]: where thread t is in capturePacket
    device,         \* device[t]: "none", "open" or "closed"
    break_loop,     \* break_loop[t]: pcap_breakloop was called on its device
    packet_num,     \* packet_num[t]: the packets its NIC has delivered
    seen,           \* seen[t]: p_hash as thread t found it in HASH_ADD
    p_hash,         \* the threads whose device findDevice finds
    dumper,         \* the thread that opened the shared dumper last, or Nobody
    saved,          \* saved[d]: the pieces of packets written through thread d's dumper
    through,        \* the dumper that the owner of mutexDumper has handed to pcap_dump
    flushed,        \* flushed[d]: how much of saved[d] has left the buffer for the file
    file,           \* PcapTest.pcap: for each place the dumper that wrote it, or Nobody
    mutexDumper, mutexPacketNum,    \* their owners
    total,          \* total[t]: packet_num_tot as thread t has read it
    packet_num_tot,
    mainpc,         \* where the main thread is in libpcap_test or finish
    next,           \* finish's loop counter
    sigusr1,        \* the threads SIGUSR1 is pending for
    handler,        \* captureFinish is installed for SIGUSR1
    process         \* "run", or how the process ended

deviceVars == <<device, break_loop>>
hashVars   == <<seen, p_hash>>
fileVars   == <<flushed, file>>
saveVars   == <<saveConf, dumper, saved, mutexDumper, through, fileVars>>
totalVars  == <<mutexPacketNum, total, packet_num_tot>>
mainVars   == <<mainpc, next, sigusr1, handler>>

vars == <<tpc, deviceVars, packet_num, hashVars, saveVars, totalVars, mainVars, process>>

Running == process = "run"

Init ==
    /\ saveConf \in SaveConfs
    /\ tpc = [t \in Thread |-> "none"]
    /\ device = [t \in Thread |-> "none"]
    /\ break_loop = [t \in Thread |-> FALSE]
    /\ packet_num = [t \in Thread |-> 0]
    /\ seen = [t \in Thread |-> {}]
    /\ p_hash = {}
    /\ dumper = Nobody
    /\ saved = [t \in Thread |-> <<>>]
    /\ through = Nobody
    /\ flushed = [t \in Thread |-> 0]
    /\ file = <<>>
    /\ mutexDumper = Nobody /\ mutexPacketNum = Nobody
    /\ total = [t \in Thread |-> 0]
    /\ packet_num_tot = 0
    /\ mainpc = "create"
    /\ next = 1
    /\ sigusr1 = {}
    /\ handler = FALSE
    /\ process = "run"

At(t, label) == Running /\ tpc[t] = label
Goto(t, label) == tpc' = [tpc EXCEPT ![t] = label]
Exit(how) == process' = how

-----------------------------------------------------------------------------
(* A capture thread: capturePacket *)

(* pcap_open_live, which may fail; that is looked at only further down. *)
OpenLive(t) ==
    /\ At(t, "open")
    /\ \E d \in {"open", "none"} : device' = [device EXCEPT ![t] = d]
    /\ Goto(t, "dumper")
    /\ UNCHANGED <<break_loop, packet_num, hashVars, saveVars, totalVars, mainVars, process>>

(***************************************************************************)
(* Every thread opens the same file, which empties it, and leaves the      *)
(* result in the shared dumper, NULL when it fails; then it checks whether *)
(* its NIC was opened. A dumper that is replaced is not closed.            *)
(***************************************************************************)
OpenDumper(t) ==
    /\ At(t, "dumper")
    /\ \/ /\ saveConf = "1"
          /\ dumper' = t
          /\ file' = <<>>
          /\ Goto(t, IF device[t] = "none" THEN "done" ELSE "add")
       \/ /\ saveConf = "1"
          /\ dumper' = Nobody
          /\ UNCHANGED file
          /\ Goto(t, "done")
       \/ /\ saveConf # "1"
          /\ UNCHANGED <<dumper, file>>
          /\ Goto(t, IF device[t] = "none" THEN "done" ELSE "add")
    /\ UNCHANGED <<deviceVars, packet_num, hashVars, saveConf, saved, mutexDumper, through,
                   flushed, totalVars, mainVars, process>>

(* addThreadDevice: HASH_ADD reads the hash ... *)
AddRead(t) ==
    /\ At(t, "add")
    /\ seen' = [seen EXCEPT ![t] = p_hash]
    /\ Goto(t, "insert")
    /\ UNCHANGED <<deviceVars, packet_num, p_hash, saveVars, totalVars, mainVars, process>>

(***************************************************************************)
(* ... and links the thread in. An empty hash is replaced by a new one;    *)
(* what another thread has added since the reading may be lost, when it    *)
(* went to the same bucket. There is no lock.                              *)
(***************************************************************************)
AddInsert(t) ==
    /\ At(t, "insert")
    /\ \/ p_hash' = seen[t] \cup {t}
       \/ seen[t] # {} /\ p_hash' = p_hash \cup {t}
    /\ Goto(t, "loop")
    /\ UNCHANGED <<deviceVars, packet_num, seen, saveVars, totalVars, mainVars, process>>

(* Mutant: the test for saving is the wrong way round. *)
PacketUnsaved(t) ==
    /\ At(t, "loop")
    /\ device[t] = "open" /\ ~break_loop[t]
    /\ packet_num[t] < MaxPackets
    /\ packet_num' = [packet_num EXCEPT ![t] = @ + 1]
    /\ IF saveConf # "1" THEN Goto(t, "lock") ELSE UNCHANGED tpc
    /\ UNCHANGED <<deviceVars, hashVars, saveVars, totalVars, mainVars, process>>

(* pcap_loop hands _capturePacket a packet. *)
PacketArrives(t) ==
    /\ At(t, "loop")
    /\ device[t] = "open" /\ ~break_loop[t]
    /\ packet_num[t] < MaxPackets
    /\ packet_num' = [packet_num EXCEPT ![t] = @ + 1]
    /\ IF saveConf = "1" THEN Goto(t, "lock") ELSE UNCHANGED tpc
    /\ UNCHANGED <<deviceVars, hashVars, saveVars, totalVars, mainVars, process>>

(***************************************************************************)
(* The lock, and the load of the shared dumper for pcap_dump. No lock      *)
(* keeps another thread from replacing it afterwards.                      *)
(***************************************************************************)
LockDumper(t) ==
    /\ At(t, "lock")
    /\ mutexDumper = Nobody
    /\ mutexDumper' = t
    /\ through' = dumper
    /\ Goto(t, "dump")
    /\ UNCHANGED <<deviceVars, packet_num, hashVars, saveConf, dumper, saved, fileVars, totalVars,
                   mainVars, process>>

(* What went through dumper d leaves its buffer up to n; a gap is zeros. *)
WriteOut(d, n) ==
    LET last == IF n > Len(file) THEN n ELSE Len(file)
    IN  /\ flushed' = [flushed EXCEPT ![d] = n]
        /\ IF n = flushed[d] THEN UNCHANGED file
           ELSE file' = [i \in 1 .. last |-> IF flushed[d] < i /\ i <= n THEN d
                                             ELSE IF i <= Len(file) THEN file[i] ELSE Nobody]

Record(t) == [i \in 1 .. RecordSize[packet_num[t]] |-> <<t, packet_num[t]>>]

(***************************************************************************)
(* pcap_dump, and the unlock; NULL faults. Of what was written stdio keeps *)
(* at most a buffer in memory.                                             *)
(***************************************************************************)
Dump(t) ==
    /\ At(t, "dump")
    /\ \/ /\ through # Nobody
          /\ saved' = [saved EXCEPT ![through] = @ \o Record(t)]
          /\ \E n \in flushed[through] .. Len(saved'[through]) :
                /\ Len(saved'[through]) - n <= BufferSize
                /\ WriteOut(through, n)
          /\ mutexDumper' = Nobody /\ through' = Nobody
          /\ Goto(t, "loop")
          /\ UNCHANGED process
       \/ /\ through = Nobody
          /\ Exit("crashed")
          /\ UNCHANGED <<tpc, saved, fileVars, mutexDumper, through>>
    /\ UNCHANGED <<deviceVars, packet_num, hashVars, saveConf, dumper, totalVars, mainVars>>

(***************************************************************************)
(* pcap_loop returns: its loop was broken, or the NIC failed. After        *)
(* captureFinish it still works on a device that was closed (and freed),   *)
(* and may find the flag there or not.                                     *)
(***************************************************************************)
LoopReturns(t) ==
    /\ At(t, "loop")
    /\ Goto(t, "sum")
    /\ UNCHANGED <<deviceVars, packet_num, hashVars, saveVars, totalVars, mainVars, process>>

(* The closed device, or a packet in its buffer, is used: it may fault. *)
UseClosed(t) ==
    /\ At(t, "loop") \/ At(t, "dump")
    /\ device[t] = "closed"
    /\ Exit("crashed")
    /\ UNCHANGED <<tpc, deviceVars, packet_num, hashVars, saveVars, totalVars, mainVars>>

(* Mutant: packet_num_tot is not locked. *)
LockTotalAnyway(t) ==
    /\ At(t, "sum")
    /\ mutexPacketNum' = t
    /\ Goto(t, "read")
    /\ UNCHANGED <<deviceVars, packet_num, hashVars, saveVars, total, packet_num_tot,
                   mainVars, process>>

LockTotal(t) ==
    /\ At(t, "sum")
    /\ mutexPacketNum = Nobody
    /\ mutexPacketNum' = t
    /\ Goto(t, "read")
    /\ UNCHANGED <<deviceVars, packet_num, hashVars, saveVars, total, packet_num_tot,
                   mainVars, process>>

(* packet_num_tot += packet_num: the load ... *)
ReadTotal(t) ==
    /\ At(t, "read")
    /\ total' = [total EXCEPT ![t] = packet_num_tot]
    /\ Goto(t, "write")
    /\ UNCHANGED <<deviceVars, packet_num, hashVars, saveVars, mutexPacketNum,
                   packet_num_tot, mainVars, process>>

(* ... and the store, and the unlock. *)
WriteTotal(t) ==
    /\ At(t, "write")
    /\ packet_num_tot' = total[t] + packet_num[t]
    /\ mutexPacketNum' = Nobody
    /\ Goto(t, "done")
    /\ UNCHANGED <<deviceVars, packet_num, hashVars, saveVars, total, mainVars, process>>

(* Mutant: the handler stops no loop. *)
CaptureFinishNoBreak(t) ==
    /\ Running
    /\ t \in sigusr1
    /\ tpc[t] # "none"
    /\ sigusr1' = sigusr1 \ {t}
    /\ UNCHANGED <<tpc, deviceVars, packet_num, hashVars, saveVars, totalVars, mainpc, next,
                   handler, process>>

(***************************************************************************)
(* captureFinish, on thread t, wherever in capturePacket it is: the device *)
(* that the hash has for it is told to break its loop, and closed. Without *)
(* a handler the signal ends the process; a thread that is over gets none. *)
(***************************************************************************)
CaptureFinish(t) ==
    LET found == t \in p_hash
    IN  /\ Running
        /\ t \in sigusr1
        /\ sigusr1' = sigusr1 \ {t}
        /\ \/ /\ handler /\ tpc[t] # "done" /\ found
              /\ break_loop' = [break_loop EXCEPT ![t] = TRUE]
              /\ device' = [device EXCEPT ![t] = "closed"]
              /\ UNCHANGED process
           \/ /\ handler /\ (tpc[t] = "done" \/ ~found)
              /\ UNCHANGED <<deviceVars, process>>
           \/ /\ ~handler /\ tpc[t] # "done"
              /\ Exit("killed")
              /\ UNCHANGED deviceVars
           \/ /\ ~handler /\ tpc[t] = "done"
              /\ UNCHANGED <<deviceVars, process>>
        /\ UNCHANGED <<tpc, packet_num, hashVars, saveVars, totalVars, mainpc, next, handler>>

(* What a thread does of itself, without a packet and without the NIC failing. *)
ThreadStep(t) ==
    \/ OpenLive(t) \/ OpenDumper(t) \/ AddRead(t) \/ AddInsert(t)
    \/ LockDumper(t) \/ Dump(t)
    \/ (break_loop[t] /\ LoopReturns(t))
    \/ LockTotal(t) \/ ReadTotal(t) \/ WriteTotal(t)
    \/ CaptureFinish(t)

NicFails(t) == ~break_loop[t] /\ LoopReturns(t)

-----------------------------------------------------------------------------
(* The main thread: libpcap_test, and finish on SIGINT *)

(* pthread_create; when it fails the process exits. *)
CreateThread ==
    /\ Running
    /\ mainpc = "create"
    /\ \/ /\ Goto(next, "open")
          /\ \/ next < NIC_Num /\ next' = next + 1 /\ UNCHANGED mainpc
             \/ next = NIC_Num /\ next' = 1 /\ mainpc' = "sigint"
          /\ UNCHANGED process
       \/ /\ Exit("exited")
          /\ UNCHANGED <<tpc, mainpc, next>>
    /\ UNCHANGED <<deviceVars, packet_num, hashVars, saveVars, totalVars, sigusr1, handler>>

(* signal(SIGINT, finish) *)
InstallFinish ==
    /\ Running
    /\ mainpc = "sigint"
    /\ mainpc' = "sigusr1"
    /\ UNCHANGED <<tpc, deviceVars, packet_num, hashVars, saveVars, totalVars, next,
                   sigusr1, handler, process>>

(* signal(SIGUSR1, captureFinish), then sleep for ever *)
InstallCaptureFinish ==
    /\ Running
    /\ mainpc = "sigusr1"
    /\ mainpc' = "sleep"
    /\ handler' = TRUE
    /\ UNCHANGED <<tpc, deviceVars, packet_num, hashVars, saveVars, totalVars, next,
                   sigusr1, process>>

(* SIGINT, at most once: it ends the process until finish is installed. *)
Sigint ==
    /\ Running
    /\ \/ /\ mainpc \in {"create", "sigint"}
          /\ Exit("killed")
          /\ UNCHANGED mainpc
       \/ /\ mainpc \in {"sigusr1", "sleep"}
          /\ mainpc' = "kill"
          /\ UNCHANGED process
    /\ UNCHANGED <<tpc, deviceVars, packet_num, hashVars, saveVars, totalVars, next,
                   sigusr1, handler>>

(* pthread_kill(pts[i], SIGUSR1) *)
KillThread ==
    /\ Running
    /\ mainpc = "kill"
    /\ sigusr1' = sigusr1 \cup {next}
    /\ \/ next < NIC_Num /\ next' = next + 1 /\ UNCHANGED mainpc
       \/ next = NIC_Num /\ next' = 1 /\ mainpc' = "join"
    /\ UNCHANGED <<tpc, deviceVars, packet_num, hashVars, saveVars, totalVars, handler, process>>

(* pthread_join(pts[i], NULL) *)
JoinThread ==
    /\ Running
    /\ mainpc = "join"
    /\ tpc[next] = "done"
    /\ \/ next < NIC_Num /\ next' = next + 1 /\ UNCHANGED mainpc
       \/ next = NIC_Num /\ next' = 1 /\ mainpc' = "close"
    /\ UNCHANGED <<tpc, deviceVars, packet_num, hashVars, saveVars, totalVars, sigusr1,
                   handler, process>>

(* pcap_dump_close(dumper), which faults on NULL, and the total *)
CloseDumper ==
    /\ Running
    /\ mainpc = "close"
    /\ mainpc' = "exit"
    /\ \/ /\ dumper = Nobody
          /\ Exit("crashed")
          /\ UNCHANGED fileVars
       \/ /\ dumper # Nobody
          /\ WriteOut(dumper, Len(saved[dumper]))
          /\ UNCHANGED process
    /\ UNCHANGED <<tpc, deviceVars, packet_num, hashVars, saveConf, dumper, saved, mutexDumper,
                   through, totalVars, next, sigusr1, handler>>

(***************************************************************************)
(* exit(0) writes out what the buffers of the replaced dumpers hold, one   *)
(* after the other, each at its own offset ...                             *)
(***************************************************************************)
Unflushed(d) == flushed[d] < Len(saved[d])

ExitFlush(d) ==
    /\ Running
    /\ mainpc = "exit"
    /\ Unflushed(d)
    /\ WriteOut(d, Len(saved[d]))
    /\ UNCHANGED <<tpc, deviceVars, packet_num, hashVars, saveConf, dumper, saved, mutexDumper,
                   through, totalVars, mainVars, process>>

(* ... and ends the process. *)
ExitProcess ==
    /\ Running
    /\ mainpc = "exit"
    /\ \A d \in Thread : ~Unflushed(d)
    /\ Exit("exited")
    /\ UNCHANGED <<tpc, deviceVars, packet_num, hashVars, saveVars, totalVars, mainVars>>

MainStep == \/ CreateThread \/ InstallFinish \/ InstallCaptureFinish
            \/ KillThread \/ JoinThread \/ CloseDumper
            \/ (\E d \in Thread : ExitFlush(d)) \/ ExitProcess

Ended == ~Running /\ UNCHANGED vars

(* Nothing left to do but to wait for packets, or for a signal. *)
Waiting ==
    /\ Running
    /\ mainpc = "sleep" \/ (mainpc = "join" /\ tpc[next] # "done")
    /\ \A t \in Thread : tpc[t] \in {"loop", "done"}
    /\ UNCHANGED vars

Next ==
    \/ \E t \in Thread : ThreadStep(t) \/ PacketArrives(t) \/ NicFails(t) \/ UseClosed(t)
    \/ MainStep \/ Sigint \/ Ended \/ Waiting

(***************************************************************************)
(* Threads run when they can, a pending signal is delivered, and a loop    *)
(* that was told to break returns. Nothing is assumed of packets, of NICs  *)
(* that fail, or of the user.                                              *)
(***************************************************************************)
Fairness == WF_vars(MainStep) /\ \A t \in Thread : WF_vars(ThreadStep(t))

Spec == Init /\ [][Next]_vars
FairSpec == Spec /\ Fairness

-----------------------------------------------------------------------------
(* Properties *)

(* Every variable keeps its type. *)
TypeOK ==
    /\ saveConf \in SaveConfs
    /\ tpc \in [Thread -> {"none", "open", "dumper", "add", "insert", "loop", "lock", "dump",
                           "sum", "read", "write", "done"}]
    /\ device \in [Thread -> {"none", "open", "closed"}]
    /\ break_loop \in [Thread -> BOOLEAN]
    /\ packet_num \in [Thread -> 0 .. MaxPackets]
    /\ seen \in [Thread -> SUBSET Thread] /\ p_hash \subseteq Thread
    /\ dumper \in Thread \cup {Nobody}
    /\ saved \in [Thread -> Seq(Thread \X (1 .. MaxPackets))]
    /\ through \in Thread \cup {Nobody}
    /\ flushed \in [Thread -> Nat] /\ file \in Seq(Thread \cup {Nobody})
    /\ {mutexDumper, mutexPacketNum} \subseteq Thread \cup {Nobody}
    /\ total \in [Thread -> Nat] /\ packet_num_tot \in Nat
    /\ mainpc \in {"create", "sigint", "sigusr1", "sleep", "kill", "join", "close", "exit"}
    /\ next \in Thread /\ sigusr1 \subseteq Thread /\ handler \in BOOLEAN
    /\ process \in {"run", "exited", "killed", "crashed"}

(***************************************************************************)
(* The total that finish prints is the sum over the NICs: no thread's      *)
(* addition is lost to another's (mutexPacketNum), and finish waits for    *)
(* all of them. Every variable keeps its type.                             *)
(***************************************************************************)
TotalIsSum ==
    /\ TypeOK
    /\ mainpc = "exit" => packet_num_tot = FoldFunction(+, 0, packet_num)

Exited == process = "exited" /\ mainpc = "exit" /\ saveConf = "1"

(* Where what went through a dumper has packets of the NIC of t, and which. *)
Places(list, t) == {i \in 1 .. Len(list) : list[i][1] = t}
FromNic(list, t) == {list[i][2] : i \in Places(list, t)}
InSequence(list, t) == \A i, j \in Places(list, t) : i < j => list[i][2] <= list[j][2]

(***************************************************************************)
(* conf/initial.xml: "1 for saving as pcap format file". Every thread      *)
(* opens the file, so that not all packets of all NICs are in it on a      *)
(* regular exit. But through the last dumper went each NIC's packets in    *)
(* order and without a gap up to the last one, and all of those of the NIC *)
(* whose thread opened it; and all of that is in the file, at its place,   *)
(* beyond what went through any replaced dumper, which may have            *)
(* overwritten the file up to there. Where nothing went through another    *)
(* dumper, the file is as the last one wrote it.                           *)
(***************************************************************************)
SavedTail ==
    Exited =>
        /\ \A t \in Thread :
              /\ InSequence(saved[dumper], t)
              /\ \E k \in 0 .. packet_num[t] :
                    /\ FromNic(saved[dumper], t) = k + 1 .. packet_num[t]
                    /\ dumper = t => k = 0
        /\ Len(file) >= Len(saved[dumper])
        /\ \A i \in 1 .. Len(saved[dumper]) :
              (\A d \in Thread \ {dumper} : i > Len(saved[d])) => file[i] = dumper

(***************************************************************************)
(* A stop that comes when every thread is in the hash, or over, ends the   *)
(* process: each thread breaks out of its loop and finish joins it.        *)
(***************************************************************************)
Registered(t) == t \in p_hash \/ tpc[t] \in {"sum", "read", "write", "done"}
StopEnds == (mainpc = "kill" /\ next = 1 /\ \A t \in Thread : Registered(t)) ~> ~Running
=============================================================================
