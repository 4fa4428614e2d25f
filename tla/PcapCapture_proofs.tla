------------------------- MODULE PcapCapture_proofs --------------------------
(***************************************************************************)
(* Proofs about the libpcap capture, for any number of NICs and of         *)
(* packets: the total that finish prints is the sum over the NICs, and     *)
(* the file it closes has the last packets of each NIC, in order.          *)
(***************************************************************************)
EXTENDS PcapCapture, DataTheorems

(* Before its loop a thread has no packet, and nothing went through its dumper. *)
Before == {"none", "open", "dumper", "add", "insert"}
Fresh == \A t \in Thread :
    /\ tpc[t] \in Before => packet_num[t] = 0
    /\ tpc[t] \in {"none", "open", "dumper"} => saved[t] = <<>> /\ dumper # t /\ through # t

(* A packet is on its way to the file. *)
InHand(t) == tpc[t] \in {"lock", "dump"}
Taken == \A t \in Thread : InHand(t) => packet_num[t] >= 1

(* libpcap_test creates the threads one after the other. *)
Created == mainpc = "create" => \A t \in Thread : t >= next => tpc[t] = "none"

TypeInv == TypeOK /\ Fresh /\ Taken /\ Created

(* mutexPacketNum is held by the thread that adds, and only by it, ... *)
Locked == \A t \in Thread : mutexPacketNum = t <=> tpc[t] \in {"read", "write"}

(* ... so that what it has read is still there when it writes. *)
Loaded == \A t \in Thread : tpc[t] = "write" => total[t] = packet_num_tot

(* The total has what the threads that are over have counted. *)
Counted == [t \in Thread |-> IF tpc[t] = "done" THEN packet_num[t] ELSE 0]
Summed == packet_num_tot = Sum(Counted, Thread)

(* finish waits for the threads one after the other. *)
Joined ==
    /\ mainpc = "join" => \A t \in Thread : t < next => tpc[t] = "done"
    /\ mainpc \in {"close", "exit"} => \A t \in Thread : tpc[t] = "done"

SumInv == Locked /\ Loaded /\ Summed /\ Joined

(* The packets of t that went through a dumper *)
Dumped(t) == IF InHand(t) THEN packet_num[t] - 1 ELSE packet_num[t]

(* The last of them went through the shared dumper, without a gap. *)
FileTail(t) ==
    /\ InSequence(saved[dumper], t)
    /\ \E k \in 0 .. Dumped(t) :
          /\ FromNic(saved[dumper], t) = k + 1 .. Dumped(t)
          /\ dumper = t => k = 0
Saving == saveConf = "1" /\ dumper # Nobody => \A t \in Thread : FileTail(t)

(* mutexDumper is held by the thread that dumps, and only by it, ... *)
Held == \A t \in Thread : mutexDumper = t <=> tpc[t] = "dump"

(* ... so that a dumper opened after that one loaded the shared one is empty. *)
Late == \A t \in Thread :
    tpc[t] = "dump" /\ through # dumper /\ dumper # Nobody => saved[dumper] = <<>> /\ dumper # t

(* What has left the shared dumper's buffer is in the file, where no other reaches. *)
Beyond(i) == \A d \in Thread \ {dumper} : i > Len(saved[d])
Written ==
    /\ \A d \in Thread : flushed[d] <= Len(saved[d])
    /\ dumper # Nobody =>
          /\ flushed[dumper] <= Len(file)
          /\ \A i \in 1 .. flushed[dumper] : Beyond(i) => file[i] = dumper

(* finish has emptied the buffer of the shared dumper, or faulted. *)
Closing == mainpc = "exit" /\ process # "crashed" =>
    dumper # Nobody /\ flushed[dumper] = Len(saved[dumper])

SaveInv == Saving /\ Held /\ Late /\ Written /\ Closing

IInv == TypeInv /\ SumInv /\ SaveInv

-----------------------------------------------------------------------------

LEMMA ThreadSet == IsFiniteSet(Thread) /\ Thread \subseteq Nat \ {0} /\ 1 \in Thread /\ Nobody \notin Thread
BY FS_Interval, PcapAssumption DEF Thread, Nobody

LEMMA TypeInit == Init => TypeInv
<1> USE PcapAssumption, ThreadSet
<1> SUFFICES ASSUME Init PROVE TypeInv
  OBVIOUS
<1>1. saved \in [Thread -> Seq(Thread \X (1 .. MaxPackets))]
  BY DEF Init
<1>2. TypeOK
  <2>1. /\ {mutexDumper, mutexPacketNum} \subseteq Thread \cup {Nobody}
        /\ dumper \in Thread \cup {Nobody}
    BY DEF Init
  <2>2. /\ packet_num \in [Thread -> 0 .. MaxPackets] /\ total \in [Thread -> Nat]
        /\ packet_num_tot \in Nat /\ next \in Thread
    BY DEF Init
  <2>3. /\ saveConf \in SaveConfs /\ tpc \in [Thread -> {"none"}] /\ device \in [Thread -> {"none"}]
        /\ break_loop \in [Thread -> BOOLEAN] /\ seen \in [Thread -> SUBSET Thread]
        /\ p_hash \subseteq Thread /\ sigusr1 \subseteq Thread /\ handler \in BOOLEAN
        /\ mainpc = "create" /\ process = "run"
    BY DEF Init
  <2>4. /\ through \in Thread \cup {Nobody} /\ flushed \in [Thread -> Nat]
        /\ file \in Seq(Thread \cup {Nobody})
    BY EmptySeq DEF Init
  <2> QED
    BY <1>1, <2>1, <2>2, <2>3, <2>4 DEF TypeOK
<1>3. Fresh /\ Taken /\ Created
  BY DEF Init, Fresh, Taken, InHand, Before, Created, Nobody
<1> QED
  BY <1>2, <1>3 DEF TypeInv

Label == {"none", "open", "dumper", "add", "insert", "loop", "lock", "dump", "sum", "read",
          "write", "done"}

(* Where a thread goes *)
LEMMA GotoIs ==
    ASSUME TypeOK, NEW t \in Thread, NEW l \in Label, Goto(t, l)
    PROVE  /\ tpc' \in [Thread -> Label] /\ tpc'[t] = l
           /\ \A u \in Thread \ {t} : tpc'[u] = tpc[u]
BY DEF TypeOK, Goto, Label

(* A step that leaves the files and the packets alone *)
LEMMA TypeQuiet ==
    ASSUME TypeInv, NEW t \in Thread, UNCHANGED <<packet_num, saved>>,
           \A u \in Thread \ {t} : tpc'[u] = tpc[u],
           \/ tpc'[t] = tpc[t]
           \/ tpc'[t] = "insert" /\ tpc[t] = "add"
           \/ tpc'[t] \in {"open", "dumper"} /\ tpc[t] \in {"none", "open"}
           \/ tpc'[t] \in {"add", "done"} /\ tpc[t] = "dumper"
           \/ tpc'[t] \notin Before /\ ~InHand(t)' /\ tpc[t] # "dumper"
           \/ InHand(t)' /\ InHand(t),
           dumper' # dumper => tpc'[t] \in {"add", "done"} /\ dumper' \in {t, Nobody},
           through' \in {through, dumper}
    PROVE  Fresh' /\ Taken'
BY ThreadSet DEF TypeInv, Fresh, Taken, InHand, Before

(* Nor do steps matter that move no thread. *)
LEMMA TypeStill ==
    ASSUME TypeInv, UNCHANGED <<tpc, packet_num, saved, dumper, through>>
    PROVE  Fresh' /\ Taken'
BY DEF TypeInv, Fresh, Taken, InHand, Before

LEMMA CreatedThread ==
    ASSUME TypeInv, NEW t \in Thread,
           ThreadStep(t) \/ PacketArrives(t) \/ NicFails(t) \/ UseClosed(t)
    PROVE  Created'
<1> USE DEF At, Goto, mainVars, ThreadStep, NicFails, OpenLive, OpenDumper, AddRead, AddInsert,
            PacketArrives, LockDumper, Dump, LoopReturns, UseClosed, LockTotal, ReadTotal,
            WriteTotal, CaptureFinish
<1>1. UNCHANGED <<mainpc, next>>
  OBVIOUS
<1>2. \A u \in Thread : tpc[u] = "none" => tpc'[u] = "none"
  BY DEF TypeInv, TypeOK
<1> QED
  BY <1>1, <1>2 DEF TypeInv, Created

LEMMA FunctionIsSeq ==
    ASSUME NEW S, NEW n \in Nat, NEW f \in [1 .. n -> S]
    PROVE  f \in Seq(S) /\ Len(f) = n
BY LenProperties

(* What goes through a dumper for a packet *)
LEMMA RecordType ==
    ASSUME TypeInv, NEW t \in Thread, InHand(t)
    PROVE  /\ Record(t) \in Seq(Thread \X (1 .. MaxPackets)) /\ Len(Record(t)) \in Nat \ {0}
           /\ \A i \in 1 .. Len(Record(t)) : Record(t)[i] = <<t, packet_num[t]>>
<1> DEFINE n == packet_num[t]
<1>1. n \in 1 .. MaxPackets
  BY PcapAssumption DEF TypeInv, TypeOK, Taken
<1>2. RecordSize[n] \in Nat \ {0}
  BY <1>1, PcapAssumption
<1>3. /\ Record(t) \in [1 .. RecordSize[n] -> Thread \X (1 .. MaxPackets)]
      /\ \A i \in 1 .. RecordSize[n] : Record(t)[i] = <<t, n>>
  BY <1>1 DEF Record
<1> HIDE DEF n
<1>4. Len(Record(t)) = RecordSize[n] /\ Record(t) \in Seq(Thread \X (1 .. MaxPackets))
  BY <1>2, <1>3, FunctionIsSeq
<1> QED
  BY <1>2, <1>3, <1>4 DEF n

(* What leaves a buffer *)
LEMMA Wrote ==
    ASSUME flushed \in [Thread -> Nat], file \in Seq(Thread \cup {Nobody}),
           NEW d \in Thread, NEW n \in Nat, WriteOut(d, n)
    PROVE  /\ flushed' \in [Thread -> Nat] /\ flushed'[d] = n
           /\ \A e \in Thread \ {d} : flushed'[e] = flushed[e]
           /\ file' \in Seq(Thread \cup {Nobody}) /\ Len(file') >= Len(file)
           /\ \/ n = flushed[d]
              \/ Len(file') >= n /\ \A i \in flushed[d] + 1 .. n : file'[i] = d
           /\ \A i \in 1 .. Len(file) : i > n \/ i <= flushed[d] => file'[i] = file[i]
<1>1. /\ flushed' \in [Thread -> Nat] /\ flushed'[d] = n /\ flushed[d] \in Nat
      /\ \A e \in Thread \ {d} : flushed'[e] = flushed[e]
  BY DEF WriteOut
<1>2. CASE n = flushed[d]
  BY <1>1, <1>2, LenProperties DEF WriteOut
<1>3. CASE n # flushed[d]
  <2> DEFINE last == IF n > Len(file) THEN n ELSE Len(file)
             At0(i) == IF flushed[d] < i /\ i <= n THEN d
                       ELSE IF i <= Len(file) THEN file[i] ELSE Nobody
  <2>1. file' = [i \in 1 .. last |-> At0(i)]
    BY <1>3 DEF WriteOut
  <2>2. last \in Nat /\ last >= n /\ last >= Len(file) /\ Len(file) \in Nat
    BY LenProperties
  <2>3. \A i \in 1 .. last : At0(i) \in Thread \cup {Nobody}
    BY <1>1, <2>2, ElementOfSeq
  <2> HIDE DEF last
  <2>4. file' \in Seq(Thread \cup {Nobody}) /\ Len(file') = last
    <3> HIDE DEF At0
    <3>1. file' \in [1 .. last -> Thread \cup {Nobody}]
      BY <2>1, <2>3
    <3> QED
      BY <2>2, <3>1, FunctionIsSeq
  <2>5. \A i \in flushed[d] + 1 .. n : file'[i] = d
    BY <1>1, <2>1, <2>2
  <2>6. \A i \in 1 .. Len(file) : i > n \/ i <= flushed[d] => file'[i] = file[i]
    BY <1>1, <2>1, <2>2
  <2> QED
    BY <1>1, <2>2, <2>4, <2>5, <2>6
<1> QED
  BY <1>2, <1>3

LEMMA WroteType ==
    ASSUME TypeInv, NEW d \in Thread, NEW n \in Nat, WriteOut(d, n)
    PROVE  flushed' \in [Thread -> Nat] /\ file' \in Seq(Thread \cup {Nobody})
BY Wrote DEF TypeInv, TypeOK

(* What pcap_dump has written may leave the buffer. *)
LEMMA DumpWrites ==
    ASSUME TypeInv, NEW t \in Thread, Dump(t), through # Nobody
    PROVE  \E n \in Nat : /\ flushed[through] <= n /\ n <= Len(saved'[through])
                          /\ WriteOut(through, n)
<1>1. PICK n \in flushed[through] .. Len(saved'[through]) : WriteOut(through, n)
  BY DEF Dump
<1>2. flushed[through] \in Nat
  BY DEF TypeInv, TypeOK
<1> QED
  BY <1>1, <1>2

(* What a thread does keeps the types. *)
LEMMA TypeThread ==
    ASSUME TypeInv, NEW t \in Thread,
           ThreadStep(t) \/ PacketArrives(t) \/ NicFails(t) \/ UseClosed(t)
    PROVE  TypeInv'
<1> SUFFICES TypeOK' /\ Fresh' /\ Taken'
  BY CreatedThread DEF TypeInv
<1> USE PcapAssumption, ThreadSet
<1> USE DEF TypeInv, At, Running, Exit, deviceVars, hashVars, saveVars, fileVars, totalVars, mainVars
<1>1. CASE OpenLive(t)
  <2>1. Goto(t, "dumper") /\ tpc[t] = "open"
    BY <1>1 DEF OpenLive
  <2>2. /\ tpc' \in [Thread -> Label] /\ tpc'[t] = "dumper"
        /\ \A u \in Thread \ {t} : tpc'[u] = tpc[u]
    BY <2>1, GotoIs DEF Label
  <2>3. device' \in [Thread -> {"none", "open", "closed"}]
    BY <1>1 DEF OpenLive, TypeOK
  <2>4. TypeOK'
    BY <1>1, <2>2, <2>3 DEF OpenLive, TypeOK, Label
  <2>5. UNCHANGED <<packet_num, saved, dumper, through>>
    BY <1>1 DEF OpenLive
  <2>6. Fresh' /\ Taken'
    BY <2>1, <2>2, <2>5, TypeQuiet
  <2> QED
    BY <2>4, <2>6
<1>2. CASE OpenDumper(t)
  <2>1. PICK l \in {"add", "done"} : Goto(t, l)
    BY <1>2 DEF OpenDumper
  <2>2. /\ tpc' \in [Thread -> Label] /\ tpc'[t] = l
        /\ \A u \in Thread \ {t} : tpc'[u] = tpc[u]
    BY <2>1, GotoIs DEF Label
  <2>3. /\ dumper' \in {t, Nobody, dumper} /\ tpc[t] = "dumper"
        /\ UNCHANGED <<packet_num, saved, through, flushed>> /\ file' \in {file, <<>>}
    BY <1>2 DEF OpenDumper
  <2>4. TypeOK'
    <3>1. file' \in Seq(Thread \cup {Nobody}) /\ dumper' \in Thread \cup {Nobody}
      <4>1. <<>> \in Seq(Thread \cup {Nobody})
        BY EmptySeq
      <4> QED
        BY <2>3, <4>1 DEF TypeOK
    <3>2. UNCHANGED <<deviceVars, packet_num, hashVars, saveConf, saved, mutexDumper, through,
                      flushed, totalVars, mainVars, process>>
      BY <1>2 DEF OpenDumper
    <3> QED
      BY ONLY TypeOK, <2>2, <3>1, <3>2
      DEF TypeOK, Label, deviceVars, hashVars, totalVars, mainVars
  <2>5. Fresh' /\ Taken'
    BY <2>2, <2>3, TypeQuiet
  <2> QED
    BY <2>4, <2>5
<1>3. CASE AddRead(t)
  <2>1. Goto(t, "insert") /\ tpc[t] = "add"
    BY <1>3 DEF AddRead
  <2>2. /\ tpc' \in [Thread -> Label] /\ tpc'[t] = "insert"
        /\ \A u \in Thread \ {t} : tpc'[u] = tpc[u]
    BY <2>1, GotoIs DEF Label
  <2>3. TypeOK'
    BY <1>3, <2>2 DEF AddRead, TypeOK, Label
  <2>4. UNCHANGED <<packet_num, saved, dumper, through>>
    BY <1>3 DEF AddRead
  <2>5. Fresh' /\ Taken'
    BY <2>1, <2>2, <2>4, TypeQuiet
  <2> QED
    BY <2>3, <2>5
<1>4. CASE AddInsert(t)
  <2>1. Goto(t, "loop") /\ tpc[t] = "insert"
    BY <1>4 DEF AddInsert
  <2>2. /\ tpc' \in [Thread -> Label] /\ tpc'[t] = "loop"
        /\ \A u \in Thread \ {t} : tpc'[u] = tpc[u]
    BY <2>1, GotoIs DEF Label
  <2>3. p_hash' \subseteq Thread
    BY <1>4 DEF AddInsert, TypeOK
  <2>4. TypeOK'
    BY <1>4, <2>2, <2>3 DEF AddInsert, TypeOK, Label
  <2>5. UNCHANGED <<packet_num, saved, dumper, through>>
    BY <1>4 DEF AddInsert
  <2>6. Fresh' /\ Taken'
    BY <2>1, <2>2, <2>5, TypeQuiet DEF Before, InHand
  <2> QED
    BY <2>4, <2>6
<1>5. CASE PacketArrives(t)
  <2>1. /\ tpc[t] = "loop" /\ packet_num[t] \in 0 .. MaxPackets /\ packet_num[t] < MaxPackets
        /\ packet_num' = [packet_num EXCEPT ![t] = packet_num[t] + 1]
    BY <1>5 DEF PacketArrives, TypeOK
  <2>2. /\ packet_num' \in [Thread -> 0 .. MaxPackets] /\ packet_num'[t] = packet_num[t] + 1
        /\ \A u \in Thread \ {t} : packet_num'[u] = packet_num[u]
    <3>1. packet_num \in [Thread -> 0 .. MaxPackets]
      BY DEF TypeOK
    <3>2. packet_num[t] + 1 \in 0 .. MaxPackets
      BY <2>1
    <3> QED
      BY <2>1, <3>1, <3>2
  <2>3. /\ tpc' \in [Thread -> Label] /\ tpc'[t] \in {"loop", "lock"}
        /\ \A u \in Thread \ {t} : tpc'[u] = tpc[u]
    <3>1. CASE Goto(t, "lock")
      BY <3>1, GotoIs DEF Label
    <3>2. CASE UNCHANGED tpc
      BY <2>1, <3>2 DEF TypeOK, Label
    <3> QED
      BY <1>5, <3>1, <3>2 DEF PacketArrives
  <2>4. UNCHANGED <<deviceVars, hashVars, saveVars, totalVars, mainVars, process>>
    BY <1>5 DEF PacketArrives
  <2>5. TypeOK'
    BY <2>2, <2>3, <2>4 DEF TypeOK, Label
  <2>6. packet_num'[t] >= 1
    BY <2>1, <2>2
  <2>7. Fresh' /\ Taken'
    BY <2>1, <2>2, <2>3, <2>4, <2>6 DEF Fresh, Taken, InHand, Before
  <2> QED
    BY <2>5, <2>7
<1>6. CASE LockDumper(t)
  <2>1. Goto(t, "dump") /\ tpc[t] = "lock"
    BY <1>6 DEF LockDumper
  <2>2. /\ tpc' \in [Thread -> Label] /\ tpc'[t] = "dump"
        /\ \A u \in Thread \ {t} : tpc'[u] = tpc[u]
    BY <2>1, GotoIs DEF Label
  <2>3. TypeOK'
    <3>1. mutexDumper' = t /\ through' = dumper
      BY <1>6 DEF LockDumper
    <3>2. UNCHANGED <<deviceVars, packet_num, hashVars, saveConf, dumper, saved, fileVars,
                      totalVars, mainVars, process>>
      BY <1>6 DEF LockDumper
    <3>3. {mutexDumper', through'} \subseteq Thread \cup {Nobody}
      BY <3>1 DEF TypeOK
    <3> QED
      BY ONLY TypeOK, <2>2, <3>2, <3>3
      DEF TypeOK, Label, deviceVars, hashVars, fileVars, totalVars, mainVars
  <2>4. UNCHANGED <<packet_num, saved, dumper>> /\ through' = dumper
    BY <1>6 DEF LockDumper
  <2>5. Fresh' /\ Taken'
    BY <2>1, <2>2, <2>4, TypeQuiet DEF InHand
  <2> QED
    BY <2>3, <2>5
<1>7. CASE Dump(t) /\ through = Nobody
  <2>1. /\ UNCHANGED <<tpc, packet_num, saved, dumper, through>> /\ process' = "crashed"
        /\ UNCHANGED <<mutexDumper, fileVars>>
    BY <1>7 DEF Dump
  <2>2. Fresh' /\ Taken'
    BY <2>1, TypeStill
  <2>3. TypeOK'
    BY <1>7, <2>1 DEF Dump, TypeOK, fileVars
  <2> QED
    BY <2>2, <2>3
<1>8. CASE Dump(t) /\ through # Nobody
  <2>1. /\ Goto(t, "loop") /\ tpc[t] = "dump" /\ through \in Thread
        /\ saved' = [saved EXCEPT ![through] = saved[through] \o Record(t)]
        /\ mutexDumper' = Nobody /\ through' = Nobody
        /\ UNCHANGED <<deviceVars, packet_num, hashVars, saveConf, dumper, totalVars, mainVars,
                       process>>
    BY <1>8 DEF Dump, TypeOK
  <2>2. /\ tpc' \in [Thread -> Label] /\ tpc'[t] = "loop"
        /\ \A u \in Thread \ {t} : tpc'[u] = tpc[u]
    BY <2>1, GotoIs DEF Label
  <2>3. Record(t) \in Seq(Thread \X (1 .. MaxPackets))
    BY <2>1, RecordType DEF InHand
  <2>4. saved[through] \o Record(t) \in Seq(Thread \X (1 .. MaxPackets))
    BY <2>1, <2>3, ConcatProperties DEF TypeOK
  <2>5. saved' \in [Thread -> Seq(Thread \X (1 .. MaxPackets))]
    BY <2>1, <2>4 DEF TypeOK
  <2>6. flushed' \in [Thread -> Nat] /\ file' \in Seq(Thread \cup {Nobody})
    BY <1>8, <2>1, DumpWrites, WroteType
  <2>7. TypeOK'
    <3>1. {mutexDumper', through'} \subseteq Thread \cup {Nobody}
      BY <2>1
    <3> QED
      BY ONLY TypeOK, <2>1, <2>2, <2>5, <2>6, <3>1
      DEF TypeOK, Label, deviceVars, hashVars, totalVars, mainVars
  <2>8. \A u \in Thread \ {through} : saved'[u] = saved[u]
    BY <2>1 DEF TypeOK
  <2>9. tpc'[through] \notin {"none", "open", "dumper"}
    BY <2>1, <2>2 DEF Fresh
  <2>10. Fresh' /\ Taken'
    BY <2>1, <2>2, <2>8, <2>9 DEF Fresh, Taken, InHand, Before
  <2> QED
    BY <2>7, <2>10
<1>9. CASE LoopReturns(t)
  <2>1. Goto(t, "sum") /\ tpc[t] = "loop"
    BY <1>9 DEF LoopReturns
  <2>2. /\ tpc' \in [Thread -> Label] /\ tpc'[t] = "sum"
        /\ \A u \in Thread \ {t} : tpc'[u] = tpc[u]
    BY <2>1, GotoIs DEF Label
  <2>3. TypeOK'
    BY <1>9, <2>2 DEF LoopReturns, TypeOK, Label
  <2>4. UNCHANGED <<packet_num, saved, dumper, through>>
    BY <1>9 DEF LoopReturns
  <2>5. Fresh' /\ Taken'
    BY <2>1, <2>2, <2>4, TypeQuiet DEF Before, InHand
  <2> QED
    BY <2>3, <2>5
<1>10. CASE UseClosed(t)
  BY <1>10 DEF UseClosed, TypeOK, Fresh, Taken, InHand
<1>11. CASE LockTotal(t)
  <2>1. Goto(t, "read") /\ tpc[t] = "sum"
    BY <1>11 DEF LockTotal
  <2>2. /\ tpc' \in [Thread -> Label] /\ tpc'[t] = "read"
        /\ \A u \in Thread \ {t} : tpc'[u] = tpc[u]
    BY <2>1, GotoIs DEF Label
  <2>3. TypeOK'
    BY <1>11, <2>2 DEF LockTotal, TypeOK, Label
  <2>4. UNCHANGED <<packet_num, saved, dumper, through>>
    BY <1>11 DEF LockTotal
  <2>5. Fresh' /\ Taken'
    BY <2>1, <2>2, <2>4, TypeQuiet DEF Before, InHand
  <2> QED
    BY <2>3, <2>5
<1>12. CASE ReadTotal(t)
  <2>1. Goto(t, "write") /\ tpc[t] = "read"
    BY <1>12 DEF ReadTotal
  <2>2. /\ tpc' \in [Thread -> Label] /\ tpc'[t] = "write"
        /\ \A u \in Thread \ {t} : tpc'[u] = tpc[u]
    BY <2>1, GotoIs DEF Label
  <2>3. TypeOK'
    BY <1>12, <2>2 DEF ReadTotal, TypeOK, Label
  <2>4. UNCHANGED <<packet_num, saved, dumper, through>>
    BY <1>12 DEF ReadTotal
  <2>5. Fresh' /\ Taken'
    BY <2>1, <2>2, <2>4, TypeQuiet DEF Before, InHand
  <2> QED
    BY <2>3, <2>5
<1>13. CASE WriteTotal(t)
  <2>1. Goto(t, "done") /\ tpc[t] = "write"
    BY <1>13 DEF WriteTotal
  <2>2. /\ tpc' \in [Thread -> Label] /\ tpc'[t] = "done"
        /\ \A u \in Thread \ {t} : tpc'[u] = tpc[u]
    BY <2>1, GotoIs DEF Label
  <2>3. total[t] + packet_num[t] \in Nat
    <3>1. total[t] \in Nat /\ packet_num[t] \in 0 .. MaxPackets
      BY DEF TypeOK
    <3> QED
      BY <3>1
  <2>4. TypeOK'
    BY <1>13, <2>2, <2>3 DEF WriteTotal, TypeOK, Label
  <2>5. UNCHANGED <<packet_num, saved, dumper, through>>
    BY <1>13 DEF WriteTotal
  <2>6. Fresh' /\ Taken'
    BY <2>1, <2>2, <2>5, TypeQuiet DEF Before, InHand
  <2> QED
    BY <2>4, <2>6
<1>14. CASE CaptureFinish(t)
  BY <1>14 DEF CaptureFinish, TypeOK, Fresh, Taken, InHand
<1> QED
  BY <1>1, <1>2, <1>3, <1>4, <1>5, <1>6, <1>7, <1>8, <1>9, <1>10, <1>11, <1>12, <1>13, <1>14
     DEF ThreadStep, NicFails

(* What finish and exit do is to empty the buffers. *)
LEMMA CloseWrites ==
    ASSUME TypeInv, CloseDumper \/ ExitProcess \/ \E d \in Thread : ExitFlush(d)
    PROVE  \/ UNCHANGED fileVars
           \/ \E d \in Thread : Len(saved[d]) \in Nat /\ WriteOut(d, Len(saved[d]))
<1>1. \A d \in Thread : Len(saved[d]) \in Nat
  BY LenProperties DEF TypeInv, TypeOK
<1> QED
  BY <1>1 DEF CloseDumper, ExitProcess, ExitFlush, TypeInv, TypeOK, saveVars, fileVars

(* So does what the main thread does. *)
LEMMA TypeMain ==
    ASSUME TypeInv, MainStep \/ Sigint \/ Ended \/ Waiting \/ UNCHANGED vars
    PROVE  TypeInv'
<1> USE PcapAssumption, ThreadSet
<1> USE DEF TypeInv, Running, Exit, deviceVars, hashVars, saveVars, fileVars, totalVars, mainVars
<1>0. /\ next < NIC_Num => next + 1 \in Thread
      /\ next \in Thread /\ next <= NIC_Num
  BY DEF Thread, TypeOK
<1>1. CASE CreateThread /\ UNCHANGED process
  <2>1. /\ tpc' \in [Thread -> Label] /\ tpc'[next] = "open"
        /\ \A u \in Thread \ {next} : tpc'[u] = tpc[u]
    BY <1>0, <1>1, GotoIs DEF Label, CreateThread
  <2>2. /\ mainpc = "create"
        /\ \/ next < NIC_Num /\ next' = next + 1 /\ mainpc' = mainpc
           \/ next = NIC_Num /\ next' = 1 /\ mainpc' = "sigint"
    BY <1>1 DEF CreateThread
  <2>3. UNCHANGED <<deviceVars, packet_num, hashVars, saveVars, totalVars, sigusr1, handler, process>>
    BY <1>1 DEF CreateThread
  <2>4. TypeOK'
    BY <1>0, <2>1, <2>2, <2>3 DEF Label, TypeOK
  <2>5. tpc[next] = "none"
    BY <1>0, <2>2 DEF Created
  <2>6. Fresh' /\ Taken'
    BY <1>0, <2>1, <2>3, <2>5, TypeQuiet
  <2>7. Created'
    BY <1>0, <2>1, <2>2 DEF Created
  <2> QED
    BY <2>4, <2>6, <2>7
<1>2. CASE CreateThread /\ ~UNCHANGED process
  <2>1. UNCHANGED <<tpc, mainpc, next, packet_num, saved, dumper, through>> /\ process' = "exited"
    BY <1>2 DEF CreateThread
  <2>2. Fresh' /\ Taken'
    BY <2>1, TypeStill
  <2>3. Created'
    BY <2>1 DEF Created
  <2>4. TypeOK'
    BY <1>2, <2>1 DEF CreateThread, TypeOK
  <2> QED
    BY <2>2, <2>3, <2>4
<1>3. CASE InstallFinish
  BY <1>3 DEF InstallFinish, TypeOK, Fresh, Taken, InHand, Created
<1>4. CASE InstallCaptureFinish
  BY <1>4 DEF InstallCaptureFinish, TypeOK, Fresh, Taken, InHand, Created
<1>5. CASE Sigint
  BY <1>5 DEF Sigint, TypeOK, Fresh, Taken, InHand, Created
<1>6. CASE KillThread
  <2>1. /\ UNCHANGED <<tpc, packet_num, saved, dumper, through, process>>
        /\ sigusr1' = sigusr1 \cup {next}
        /\ next' \in Thread /\ mainpc' \in {"kill", "join"}
    BY <1>0, <1>6 DEF KillThread
  <2>2. Fresh' /\ Taken'
    BY <2>1, TypeStill
  <2>3. Created'
    BY <2>1 DEF Created
  <2>4. TypeOK'
    BY <1>0, <1>6, <2>1 DEF KillThread, TypeOK
  <2> QED
    BY <2>2, <2>3, <2>4
<1>7. CASE JoinThread
  BY <1>0, <1>7 DEF JoinThread, TypeOK, Fresh, Taken, InHand, Created
<1>8. CASE CloseDumper \/ ExitProcess \/ \E d \in Thread : ExitFlush(d)
  <2>1. /\ UNCHANGED <<tpc, deviceVars, packet_num, hashVars, saveConf, dumper, saved,
                       mutexDumper, through, totalVars, next, sigusr1, handler>>
        /\ mainpc' = "exit" /\ process' \in {process, "crashed", "exited"}
    BY <1>8 DEF CloseDumper, ExitProcess, ExitFlush
  <2>2. Fresh' /\ Taken' /\ Created'
    BY <2>1, TypeStill DEF Created
  <2>3. flushed' \in [Thread -> Nat] /\ file' \in Seq(Thread \cup {Nobody})
    <3>1. CASE UNCHANGED fileVars
      BY <3>1 DEF TypeOK
    <3>2. CASE ~UNCHANGED fileVars
      BY <1>8, <3>2, CloseWrites, WroteType
    <3> QED
      BY <3>1, <3>2
  <2>4. TypeOK'
    BY ONLY TypeOK, <2>1, <2>3 DEF TypeOK, deviceVars, hashVars, totalVars
  <2> QED
    BY <2>2, <2>4
<1>9. CASE UNCHANGED vars
  BY <1>9 DEF vars, TypeOK, Fresh, Taken, InHand, Created
<1>10. CASE CreateThread
  BY <1>1, <1>2, <1>10 DEF CreateThread
<1> QED
  BY <1>3, <1>4, <1>5, <1>6, <1>7, <1>8, <1>9, <1>10 DEF MainStep, Ended, Waiting

LEMMA TypeInvariant == Spec => []TypeInv
<1>1. TypeInv /\ [Next]_vars => TypeInv'
  BY TypeThread, TypeMain DEF Next
<1> QED
  BY <1>1, TypeInit, PTL DEF Spec

-----------------------------------------------------------------------------
(* The total *)

LEMMA SumInit == Init => SumInv
<1> SUFFICES ASSUME Init PROVE SumInv
  OBVIOUS
<1>1. \A t \in Thread : Counted[t] = 0
  BY DEF Init, Counted
<1>2. Sum(Counted, Thread) = 0
  <2> HIDE DEF Counted
  <2> QED
    BY <1>1, SumZero, ThreadSet
<1> QED
  BY <1>2, ThreadSet DEF Init, SumInv, Locked, Loaded, Summed, Joined

LEMMA CountedType == TypeOK => \A t \in Thread : Counted[t] \in Nat
BY PcapAssumption DEF TypeOK, Counted

(* What counts nothing new keeps the sum. *)
LEMMA SummedSame ==
    ASSUME TypeInv, Summed, packet_num_tot' = packet_num_tot,
           \A t \in Thread : Counted'[t] = Counted[t]
    PROVE  Summed'
<1>1. Sum(Counted', Thread) = Sum(Counted, Thread)
  <2> HIDE DEF Counted
  <2> QED
    BY ThreadSet, SumSame
<1> QED
  BY <1>1 DEF Summed

(* What a thread does before it adds, or as it handles the signal *)
LEMMA SumOther ==
    ASSUME TypeInv, SumInv, NEW t \in Thread,
           \/ OpenLive(t) \/ OpenDumper(t) \/ AddRead(t) \/ AddInsert(t) \/ PacketArrives(t)
           \/ LockDumper(t) \/ Dump(t) \/ LoopReturns(t) \/ UseClosed(t) \/ CaptureFinish(t)
    PROVE  SumInv'
<1>1. /\ UNCHANGED totalVars /\ UNCHANGED <<mainpc, next>>
      /\ \A u \in Thread \ {t} : tpc'[u] = tpc[u] /\ packet_num'[u] = packet_num[u]
  BY DEF OpenLive, OpenDumper, AddRead, AddInsert, PacketArrives, LockDumper, Dump, LoopReturns,
         UseClosed, CaptureFinish, Goto, TypeInv, TypeOK, mainVars
<1>2. \/ tpc'[t] = tpc[t] /\ packet_num'[t] = packet_num[t]
      \/ /\ tpc[t] \notin {"read", "write", "done"}
         /\ tpc'[t] \notin {"read", "write"}
         /\ tpc'[t] = "done" => tpc[t] = "dumper" /\ packet_num'[t] = packet_num[t]
  <2> USE DEF At, Goto, TypeInv, TypeOK
  <2>1. CASE OpenLive(t) \/ OpenDumper(t) \/ AddRead(t) \/ AddInsert(t)
    BY <2>1 DEF OpenLive, OpenDumper, AddRead, AddInsert
  <2>2. CASE PacketArrives(t) \/ LockDumper(t) \/ Dump(t) \/ LoopReturns(t)
    BY <2>2 DEF PacketArrives, LockDumper, Dump, LoopReturns
  <2>3. CASE UseClosed(t) \/ CaptureFinish(t)
    BY <2>3 DEF UseClosed, CaptureFinish
  <2> QED
    BY <2>1, <2>2, <2>3
<1>3. \A u \in Thread : Counted'[u] = Counted[u]
  <2>1. tpc[t] = "dumper" => packet_num[t] = 0
    BY DEF TypeInv, Fresh, Before
  <2> QED
    BY <1>1, <1>2, <2>1 DEF Counted
<1>4. Summed'
  BY <1>1, <1>3, SummedSame DEF SumInv, totalVars
<1>5. Locked' /\ Loaded' /\ Joined'
  BY <1>1, <1>2 DEF SumInv, Locked, Loaded, Joined, totalVars
<1> QED
  BY <1>4, <1>5 DEF SumInv

LEMMA SumAdds ==
    ASSUME TypeInv, SumInv, NEW t \in Thread, LockTotal(t) \/ ReadTotal(t) \/ WriteTotal(t)
    PROVE  SumInv'
<1> USE ThreadSet
<1>1. CASE LockTotal(t)
  <2>1. /\ tpc[t] = "sum" /\ mutexPacketNum = Nobody /\ mutexPacketNum' = t
        /\ UNCHANGED <<packet_num, total, packet_num_tot, mainpc, next>>
        /\ Goto(t, "read")
    BY <1>1 DEF LockTotal, At, mainVars
  <2>2. tpc'[t] = "read" /\ \A u \in Thread \ {t} : tpc'[u] = tpc[u]
    BY <2>1, GotoIs DEF Label, TypeInv
  <2>3. \A u \in Thread : Counted'[u] = Counted[u]
    BY <2>1, <2>2 DEF Counted
  <2>4. Summed'
    BY <2>1, <2>3, SummedSame DEF SumInv
  <2>5. Locked' /\ Loaded' /\ Joined'
    BY <2>1, <2>2 DEF SumInv, Locked, Loaded, Joined
  <2> QED
    BY <2>4, <2>5 DEF SumInv
<1>2. CASE ReadTotal(t)
  <2>1. /\ tpc[t] = "read" /\ total' = [total EXCEPT ![t] = packet_num_tot]
        /\ UNCHANGED <<packet_num, mutexPacketNum, packet_num_tot, mainpc, next>>
        /\ Goto(t, "write")
    BY <1>2 DEF ReadTotal, At, mainVars
  <2>2. /\ tpc'[t] = "write" /\ \A u \in Thread \ {t} : tpc'[u] = tpc[u]
        /\ total'[t] = packet_num_tot /\ \A u \in Thread \ {t} : total'[u] = total[u]
    BY <2>1, GotoIs DEF Label, TypeInv, TypeOK
  <2>3. \A u \in Thread : Counted'[u] = Counted[u]
    BY <2>1, <2>2 DEF Counted
  <2>4. Summed'
    BY <2>1, <2>3, SummedSame DEF SumInv
  <2>5. Locked' /\ Loaded' /\ Joined'
    BY <2>1, <2>2 DEF SumInv, Locked, Loaded, Joined
  <2> QED
    BY <2>4, <2>5 DEF SumInv
<1>3. CASE WriteTotal(t)
  <2>1. /\ tpc[t] = "write" /\ packet_num_tot' = total[t] + packet_num[t]
        /\ mutexPacketNum' = Nobody
        /\ UNCHANGED <<packet_num, total, mainpc, next>>
        /\ Goto(t, "done")
    BY <1>3 DEF WriteTotal, At, mainVars
  <2>2. tpc'[t] = "done" /\ \A u \in Thread \ {t} : tpc'[u] = tpc[u]
    BY <2>1, GotoIs DEF Label, TypeInv
  <2>3. mutexPacketNum = t /\ total[t] = packet_num_tot
    BY <2>1 DEF SumInv, Locked, Loaded
  <2>4. \A u \in Thread \ {t} : tpc[u] \notin {"read", "write"}
    BY <2>3 DEF SumInv, Locked
  <2>5. /\ Counted[t] = 0 /\ Counted'[t] = packet_num[t]
        /\ \A u \in Thread \ {t} : Counted'[u] = Counted[u]
    BY <2>1, <2>2 DEF Counted
  <2>6. \A u \in Thread : Counted[u] \in Nat /\ Counted'[u] \in Nat
    <3>1. packet_num[t] \in Nat
      BY PcapAssumption DEF TypeInv, TypeOK
    <3>2. \A u \in Thread : Counted[u] \in Nat
      BY CountedType DEF TypeInv
    <3> HIDE DEF Counted
    <3> QED
      BY <2>5, <3>1, <3>2
  <2>7. Sum(Counted', Thread) = Sum(Counted, Thread) + Counted'[t] - Counted[t]
    <3> HIDE DEF Counted
    <3> QED
      BY <2>5, <2>6, SumUpdate
  <2>8. Sum(Counted, Thread) \in Nat
    <3> HIDE DEF Counted
    <3> QED
      BY <2>6, SumType
  <2>9. Summed'
    <3>1. packet_num[t] \in Nat
      BY PcapAssumption DEF TypeInv, TypeOK
    <3>2. Sum(Counted', Thread) = Sum(Counted, Thread) + packet_num[t]
      BY <2>5, <2>7, <2>8, <3>1
    <3> QED
      BY <2>1, <2>3, <3>2 DEF SumInv, Summed
  <2>10. Locked' /\ Loaded' /\ Joined'
    BY <2>1, <2>2, <2>4 DEF SumInv, Locked, Loaded, Joined
  <2> QED
    BY <2>9, <2>10 DEF SumInv
<1> QED
  BY <1>1, <1>2, <1>3

LEMMA SumMain ==
    ASSUME TypeInv, SumInv, MainStep \/ Sigint \/ Ended \/ Waiting \/ UNCHANGED vars
    PROVE  SumInv'
<1>1. UNCHANGED <<packet_num, totalVars>>
  BY DEF MainStep, Sigint, Ended, Waiting, vars, CreateThread, InstallFinish,
         InstallCaptureFinish, KillThread, JoinThread, CloseDumper, ExitFlush, ExitProcess, mainVars
<1>2. \A t \in Thread : tpc'[t] = tpc[t] \/ (tpc[t] = "none" /\ tpc'[t] = "open")
  <2>1. CASE CreateThread
    <3>1. mainpc = "create" /\ next \in Thread /\ tpc[next] = "none"
      BY <2>1, ThreadSet DEF CreateThread, TypeInv, TypeOK, Created, Thread
    <3> QED
      BY <2>1, <3>1 DEF CreateThread, Goto, TypeInv, TypeOK
  <2> QED
    BY <2>1 DEF MainStep, Sigint, Ended, Waiting, vars, InstallFinish,
           InstallCaptureFinish, KillThread, JoinThread, CloseDumper, ExitFlush, ExitProcess, mainVars
<1>3. \A t \in Thread : Counted'[t] = Counted[t]
  BY <1>1, <1>2 DEF Counted
<1>4. Summed'
  BY <1>1, <1>3, SummedSame DEF SumInv, totalVars
<1>5. Locked' /\ Loaded'
  BY <1>1, <1>2 DEF SumInv, Locked, Loaded, totalVars
<1>6. Joined'
  <2> USE ThreadSet DEF TypeInv, TypeOK, SumInv, Joined
  <2>1. CASE CreateThread
    BY <2>1 DEF CreateThread
  <2>2. CASE InstallFinish \/ InstallCaptureFinish \/ Sigint
    BY <2>2 DEF InstallFinish, InstallCaptureFinish, Sigint
  <2>3. CASE KillThread
    <3>1. mainpc' = "join" => next' = 1
      BY <2>3 DEF KillThread
    <3>2. \A t \in Thread : ~(t < 1)
      BY DEF Thread
    <3>3. mainpc' \in {"kill", "join"}
      BY <2>3 DEF KillThread
    <3> QED
      BY <3>1, <3>2, <3>3
  <2>4. CASE JoinThread
    <3>1. /\ mainpc = "join" /\ tpc[next] = "done" /\ tpc' = tpc
          /\ \/ next < NIC_Num /\ next' = next + 1 /\ mainpc' = mainpc
             \/ next = NIC_Num /\ mainpc' = "close"
      BY <2>4 DEF JoinThread
    <3>2. \A t \in Thread : t < next + 1 => tpc[t] = "done"
      <4>1. \A t \in Thread : t < next => tpc[t] = "done"
        BY <3>1 DEF SumInv, Joined
      <4>2. \A t \in Thread : t < next + 1 => t < next \/ t = next
        BY DEF Thread, TypeInv, TypeOK
      <4> QED
        BY <3>1, <4>1, <4>2
    <3>3. \A t \in Thread : t < NIC_Num + 1
      BY PcapAssumption DEF Thread
    <3> QED
      BY <3>1, <3>2, <3>3
  <2>5. CASE CloseDumper \/ ExitProcess \/ \E d \in Thread : ExitFlush(d)
    <3>1. mainpc \in {"close", "exit"} /\ mainpc' = "exit" /\ tpc' = tpc
      BY <2>5 DEF CloseDumper, ExitProcess, ExitFlush, mainVars
    <3> QED
      BY <3>1
  <2>6. CASE UNCHANGED vars
    <3>1. UNCHANGED <<mainpc, next, tpc>>
      BY <2>6 DEF vars, mainVars
    <3> QED
      BY <3>1
  <2> QED
    BY <2>1, <2>2, <2>3, <2>4, <2>5, <2>6 DEF MainStep, Ended, Waiting
<1> QED
  BY <1>4, <1>5, <1>6 DEF SumInv

LEMMA SumInvariant == Spec => [](TypeInv /\ SumInv)
<1>1. TypeInv /\ SumInv /\ [Next]_vars => SumInv'
  BY SumOther, SumAdds, SumMain DEF Next, ThreadStep, NicFails
<1> QED
  BY <1>1, SumInit, TypeInvariant, PTL DEF Spec

(***************************************************************************)
(* The total that finish prints is the sum of what the threads counted:    *)
(* the mutex keeps the load and the store of each addition together, and   *)
(* finish has joined every thread.                                         *)
(***************************************************************************)
THEOREM TotalIsRight == Spec => []TotalIsSum
<1>1. TypeInv /\ SumInv => TotalIsSum
  <2> SUFFICES ASSUME TypeInv, SumInv, mainpc = "exit"
               PROVE  packet_num_tot = FoldFunction(+, 0, packet_num)
    BY DEF TotalIsSum, TypeInv
  <2>1. \A t \in Thread : Counted[t] = packet_num[t]
    BY DEF SumInv, Joined, Counted
  <2>2. Sum(Counted, Thread) = Sum(packet_num, Thread)
    <3> HIDE DEF Counted
    <3> QED
      BY <2>1, ThreadSet, SumSame
  <2>3. DOMAIN packet_num = Thread
    BY DEF TypeInv, TypeOK
  <2> QED
    BY <2>2, <2>3 DEF SumInv, Summed, FoldFunction, Sum
<1> QED
  BY <1>1, SumInvariant, PTL

-----------------------------------------------------------------------------
(* The file *)

LEMMA FileEmpty ==
    ASSUME NEW t
    PROVE  InSequence(<<>>, t) /\ FromNic(<<>>, t) = {}
<1>1. Places(<<>>, t) = {}
  BY EmptySeq DEF Places
<1> QED
  BY <1>1 DEF InSequence, FromNic

(* What is added to a list: the other NICs' packets in it are as before, ... *)
LEMMA FileOther ==
    ASSUME NEW S, NEW list \in Seq(S), NEW more \in Seq(S), NEW t,
           \A i \in 1 .. Len(more) : more[i][1] # t
    PROVE  /\ FromNic(list \o more, t) = FromNic(list, t)
           /\ InSequence(list, t) => InSequence(list \o more, t)
<1> DEFINE g == list \o more
           a == Len(list)
<1>1. /\ Len(g) = a + Len(more) /\ a \in Nat /\ Len(more) \in Nat
      /\ \A i \in 1 .. a + Len(more) : g[i] = IF i <= a THEN list[i] ELSE more[i - a]
  BY ConcatProperties, LenProperties
<1>2. \A i \in 1 .. a : i \in 1 .. Len(g) /\ g[i] = list[i]
  BY <1>1
<1>3. \A i \in 1 .. Len(g) : i \in 1 .. a \/ (i - a \in 1 .. Len(more) /\ g[i] = more[i - a])
  BY <1>1
<1> HIDE DEF g
<1>4. \A i : i \in Places(g, t) <=> i \in Places(list, t)
  BY <1>2, <1>3 DEF Places
<1>5. \A i \in Places(list, t) : g[i] = list[i]
  BY <1>2 DEF Places
<1>6. FromNic(g, t) = FromNic(list, t)
  BY <1>4, <1>5 DEF FromNic
<1>7. InSequence(list, t) => InSequence(g, t)
  BY <1>4, <1>5 DEF InSequence
<1> QED
  BY <1>6, <1>7 DEF g

(* ... and the NIC whose packet it is has it at the end. *)
LEMMA FileMine ==
    ASSUME NEW S, NEW list \in Seq(S), NEW more \in Seq(S), NEW t, NEW n \in Nat,
           Len(more) \in Nat \ {0}, \A i \in 1 .. Len(more) : more[i] = <<t, n>>,
           InSequence(list, t), \A m \in FromNic(list, t) : m \in Nat /\ m < n
    PROVE  /\ FromNic(list \o more, t) = FromNic(list, t) \cup {n}
           /\ InSequence(list \o more, t)
<1> DEFINE g == list \o more
           a == Len(list)
<1>1. /\ Len(g) = a + Len(more) /\ a \in Nat /\ Len(more) \in Nat
      /\ \A i \in 1 .. a + Len(more) : g[i] = IF i <= a THEN list[i] ELSE more[i - a]
  BY ConcatProperties, LenProperties
<1>2. \A i \in 1 .. a : i \in 1 .. Len(g) /\ g[i] = list[i]
  BY <1>1
<1>3. \A i \in 1 .. Len(g) : i \in 1 .. a \/ (i > a /\ g[i][1] = t /\ g[i][2] = n)
  <2> SUFFICES ASSUME NEW i \in 1 .. Len(g), i \notin 1 .. a
               PROVE  i > a /\ g[i] = <<t, n>>
    OBVIOUS
  <2>1. i > a /\ i - a \in 1 .. Len(more) /\ g[i] = more[i - a]
    BY <1>1
  <2> QED
    BY <2>1
<1>4. a + 1 \in 1 .. Len(g) /\ a + 1 \notin 1 .. a
  BY <1>1
<1>5. \A i \in 1 .. a : \A j \in 1 .. Len(g) : j > a => i < j
  BY <1>1
<1>6. \A i \in 1 .. a : ~(i > a)
  BY <1>1
<1> HIDE DEF g
<1>7. \A i \in Places(g, t) : \/ /\ i \in Places(list, t) /\ g[i] = list[i]
                                 /\ g[i][2] \in Nat /\ g[i][2] < n
                              \/ i > a /\ g[i][2] = n
  BY <1>2, <1>3 DEF Places, FromNic
<1>8. /\ \A i \in Places(list, t) : i \in Places(g, t) /\ i \in 1 .. a
      /\ a + 1 \in Places(g, t)
  BY <1>2, <1>3, <1>4 DEF Places
<1>9. FromNic(g, t) = FromNic(list, t) \cup {n}
  <2>1. \A m \in FromNic(g, t) : m \in FromNic(list, t) \cup {n}
    BY <1>7 DEF FromNic
  <2>2. \A m \in FromNic(list, t) : m \in FromNic(g, t)
    BY <1>2, <1>8 DEF FromNic
  <2>3. n \in FromNic(g, t)
    BY <1>3, <1>4, <1>8 DEF FromNic
  <2> QED
    BY <2>1, <2>2, <2>3
<1>10. InSequence(g, t)
  <2> SUFFICES ASSUME NEW i \in Places(g, t), NEW j \in Places(g, t), i < j
               PROVE  g[i][2] <= g[j][2]
    BY DEF InSequence
  <2>0. i \in Nat /\ j \in Nat /\ a \in Nat
    BY <1>1 DEF Places
  <2>1. CASE i > a
    <3>1. j > a
      BY <2>0, <2>1
    <3>2. g[j][2] = n /\ g[i][2] = n
      BY <1>6, <1>7, <1>8, <2>1, <3>1
    <3> QED
      BY <3>2
  <2>2. CASE ~(i > a)
    <3>1. i \in Places(list, t) /\ g[i] = list[i] /\ g[i][2] \in Nat /\ g[i][2] < n
      BY <1>7, <2>2
    <3>2. CASE j > a
      BY <1>6, <1>7, <1>8, <3>1, <3>2
    <3>3. CASE ~(j > a)
      BY <1>7, <3>1, <3>3 DEF InSequence
    <3> QED
      BY <3>2, <3>3
  <2> QED
    BY <2>1, <2>2
<1> QED
  BY <1>9, <1>10 DEF g

LEMMA DumpedType == TypeInv => \A t \in Thread : Dumped(t) \in 0 .. MaxPackets
<1> SUFFICES ASSUME TypeInv, NEW t \in Thread PROVE Dumped(t) \in 0 .. MaxPackets
  OBVIOUS
<1>1. packet_num[t] \in 0 .. MaxPackets /\ MaxPackets \in Nat
  BY PcapAssumption DEF TypeInv, TypeOK
<1>2. InHand(t) => packet_num[t] >= 1
  BY DEF TypeInv, Taken
<1> QED
  BY <1>1, <1>2 DEF Dumped

LEMMA SavedType ==
    ASSUME TypeInv, NEW d \in Thread
    PROVE  Len(saved[d]) \in Nat /\ flushed[d] \in Nat /\ Len(file) \in Nat
BY LenProperties DEF TypeInv, TypeOK

LEMMA SaveInit == Init => SaveInv
BY ThreadSet, EmptySeq DEF Init, SaveInv, Saving, Held, Late, Written, Closing

(* What leaves the lists and what should be in them as they are *)
LEMMA SavingSame ==
    ASSUME Saving, UNCHANGED <<saveConf, dumper, saved>>,
           saveConf = "1" => \A t \in Thread : Dumped(t)' = Dumped(t)
    PROVE  Saving'
<1>1. \A t \in Thread : FileTail(t) /\ Dumped(t)' = Dumped(t) => FileTail(t)'
  BY DEF FileTail, InSequence, FromNic, Places
<1> QED
  BY <1>1 DEF Saving

(* What leaves the dumpers and the file as they are *)
LEMMA WrittenSame ==
    ASSUME Written, UNCHANGED <<dumper, saved, fileVars>>
    PROVE  Written'
BY DEF Written, Beyond, fileVars

(* A buffer that leaves for the file, no further than what went through its dumper *)
LEMMA WrittenOut ==
    ASSUME TypeInv, TypeInv', Written, UNCHANGED dumper, NEW d \in Thread, NEW n \in Nat,
           flushed[d] <= n, n <= Len(saved'[d]), WriteOut(d, n),
           \A e \in Thread : Len(saved'[e]) >= Len(saved[e])
    PROVE  Written'
<1>1. /\ flushed'[d] = n /\ \A e \in Thread \ {d} : flushed'[e] = flushed[e]
      /\ Len(file') >= Len(file)
      /\ n = flushed[d] \/ (Len(file') >= n /\ \A i \in flushed[d] + 1 .. n : file'[i] = d)
      /\ \A i \in 1 .. Len(file) : i > n \/ i <= flushed[d] => file'[i] = file[i]
  BY Wrote DEF TypeInv, TypeOK
<1>2. \A e \in Thread : flushed'[e] <= Len(saved'[e])
  <2> SUFFICES ASSUME NEW e \in Thread PROVE flushed'[e] <= Len(saved'[e])
    OBVIOUS
  <2>1. Len(saved[e]) \in Nat /\ flushed[e] \in Nat /\ Len(saved'[e]) \in Nat
    BY SavedType, LenProperties DEF TypeInv, TypeOK
  <2>2. flushed[e] <= Len(saved[e]) /\ Len(saved[e]) <= Len(saved'[e])
    BY DEF Written
  <2> QED
    BY <1>1, <2>1, <2>2
<1>3. ASSUME dumper # Nobody
      PROVE  /\ flushed'[dumper] <= Len(file')
             /\ \A i \in 1 .. flushed'[dumper] : Beyond(i)' => file'[i] = dumper
  <2>1. /\ dumper \in Thread /\ flushed[dumper] \in Nat /\ flushed[d] \in Nat
        /\ Len(file) \in Nat /\ Len(file') \in Nat
    BY <1>3, SavedType, LenProperties DEF TypeInv, TypeOK
  <2>2. flushed[dumper] <= Len(file)
    BY <1>3 DEF Written
  <2>3. flushed'[dumper] <= Len(file')
    BY <1>1, <2>1, <2>2
  <2> SUFFICES ASSUME NEW i \in 1 .. flushed'[dumper], Beyond(i)'
               PROVE  file'[i] = dumper
    BY <2>3
  <2>4. Beyond(i)
    <3> SUFFICES ASSUME NEW e \in Thread \ {dumper} PROVE i > Len(saved[e])
      BY DEF Beyond
    <3>1. i > Len(saved'[e]) /\ Len(saved'[e]) >= Len(saved[e])
      BY DEF Beyond
    <3>2. Len(saved[e]) \in Nat /\ Len(saved'[e]) \in Nat /\ i \in Nat
      BY <2>1, SavedType, LenProperties DEF TypeInv, TypeOK
    <3> QED
      BY <3>1, <3>2
  <2>5. i \in 1 .. flushed[dumper] => file[i] = dumper /\ i \in 1 .. Len(file)
    BY <1>3, <2>1, <2>2, <2>4 DEF Written
  <2>6. CASE d = dumper
    BY <1>1, <2>1, <2>5, <2>6
  <2>7. CASE d # dumper
    <3>1. i > n
      <4>1. i > Len(saved'[d]) /\ n <= Len(saved'[d])
        BY <2>7 DEF Beyond
      <4>2. Len(saved'[d]) \in Nat
        BY LenProperties DEF TypeInv, TypeOK
      <4> QED
        BY <2>1, <4>1, <4>2
    <3> QED
      BY <1>1, <2>1, <2>5, <2>7, <3>1
  <2> QED
    BY <2>6, <2>7
<1> QED
  BY <1>2, <1>3 DEF Written

(* A dumper that was opened just now *)
LEMMA SaveOpens ==
    ASSUME TypeInv, SaveInv, NEW t \in Thread, OpenDumper(t)
    PROVE  Saving' /\ Held' /\ Late' /\ Written'
<1>1. /\ tpc[t] = "dumper"
      /\ UNCHANGED <<saveConf, saved, packet_num, mutexDumper, through, flushed>>
      /\ \/ dumper' = t /\ file' = <<>>
         \/ dumper' = Nobody /\ file' = file /\ saveConf = "1"
         \/ dumper' = dumper /\ file' = file
      /\ saveConf # "1" => dumper' = dumper
      /\ \/ Goto(t, "add") \/ Goto(t, "done")
  BY DEF OpenDumper, At
<1>2. /\ saved[t] = <<>> /\ packet_num[t] = 0
      /\ tpc'[t] \in {"add", "done"} /\ \A u \in Thread \ {t} : tpc'[u] = tpc[u]
  BY <1>1, GotoIs DEF TypeInv, Fresh, Before, Label
<1>3. \A u \in Thread : Dumped(u)' = Dumped(u)
  BY <1>1, <1>2 DEF Dumped, InHand
<1>4. Held'
  BY <1>1, <1>2 DEF SaveInv, Held
<1>5. CASE dumper' = dumper /\ file' = file
  <2>1. Saving' /\ Written'
    BY <1>1, <1>3, <1>5, SavingSame, WrittenSame DEF SaveInv, fileVars
  <2>2. Late'
    BY <1>1, <1>2, <1>5 DEF SaveInv, Late
  <2> QED
    BY <1>4, <2>1, <2>2
<1>6. CASE dumper' = Nobody /\ file' = file
  <2>1. Saving' /\ Late'
    BY <1>6 DEF Saving, Late
  <2>2. Written'
    BY <1>1, <1>6 DEF SaveInv, Written
  <2> QED
    BY <1>4, <2>1, <2>2
<1>7. CASE dumper' = t /\ file' = <<>>
  <2>1. Late'
    BY <1>1, <1>2, <1>7 DEF Late
  <2>2. Written'
    <3>1. flushed[t] = 0
      <4>1. Len(saved[t]) = 0 /\ flushed[t] \in Nat /\ flushed[t] <= Len(saved[t])
        BY <1>2, SavedType, EmptySeq DEF SaveInv, Written
      <4> QED
        BY <4>1
    <3>2. Len(file') = 0
      BY <1>7, EmptySeq
    <3>3. \A i : i \notin 1 .. 0
      OBVIOUS
    <3>4. \A d \in Thread : flushed'[d] <= Len(saved'[d])
      BY <1>1 DEF SaveInv, Written
    <3> QED
      BY <1>1, <1>7, <3>1, <3>2, <3>3, <3>4 DEF Written
  <2> SUFFICES ASSUME NEW u \in Thread PROVE FileTail(u)'
    BY <1>4, <2>1, <2>2 DEF Saving
  <2>3. saved'[dumper'] = <<>>
    BY <1>1, <1>2, <1>7
  <2>4. Dumped(u)' \in 0 .. MaxPackets /\ (u = t => Dumped(u)' = 0)
    BY <1>1, <1>2, <1>3, DumpedType DEF Dumped, InHand
  <2>5. InSequence(saved'[dumper'], u) /\ FromNic(saved'[dumper'], u) = {}
    BY <2>3, FileEmpty
  <2> DEFINE n == Dumped(u)'
  <2>6. n \in 0 .. n /\ n + 1 .. n = {}
    BY <2>4, PcapAssumption
  <2>7. dumper' = u => n = 0
    BY <1>7, <2>4
  <2> HIDE DEF n
  <2>8. \E k \in 0 .. n : FromNic(saved'[dumper'], u) = k + 1 .. n /\ (dumper' = u => k = 0)
    BY <2>5, <2>6, <2>7
  <2> QED
    BY <2>5, <2>8 DEF FileTail, n, InSequence, FromNic, Places
<1> QED
  BY <1>1, <1>5, <1>6, <1>7

(* A packet that goes through the shared dumper is the next of its NIC. *)
LEMMA SaveDumps ==
    ASSUME TypeInv, SaveInv, NEW t \in Thread, Dump(t), through # Nobody
    PROVE  Saving'
<1> SUFFICES ASSUME saveConf = "1", dumper # Nobody, NEW u \in Thread PROVE FileTail(u)'
  BY DEF Dump, Saving
<1> DEFINE n == packet_num[t]
           list == saved[dumper]
<1>1. /\ tpc[t] = "dump" /\ Goto(t, "loop") /\ dumper \in Thread /\ through \in Thread
      /\ saved' = [saved EXCEPT ![through] = saved[through] \o Record(t)]
      /\ UNCHANGED <<saveConf, dumper, packet_num>>
  BY DEF Dump, At, TypeInv, TypeOK
<1>2. tpc'[t] = "loop" /\ \A v \in Thread \ {t} : tpc'[v] = tpc[v]
  BY <1>1, GotoIs DEF TypeInv, Label
<1>3. n \in 1 .. MaxPackets
  BY <1>1 DEF TypeInv, TypeOK, Taken, InHand
<1>4. Dumped(t) = n - 1 /\ Dumped(t)' = n /\ \A v \in Thread \ {t} : Dumped(v)' = Dumped(v)
  BY <1>1, <1>2 DEF Dumped, InHand
<1>5. /\ list \in Seq(Thread \X (1 .. MaxPackets))
      /\ Record(t) \in Seq(Thread \X (1 .. MaxPackets)) /\ Len(Record(t)) \in Nat \ {0}
      /\ \A i \in 1 .. Len(Record(t)) : Record(t)[i] = <<t, n>>
  BY <1>1, RecordType DEF TypeInv, TypeOK, InHand
<1>6. FileTail(u)
  BY DEF SaveInv, Saving
<1>7. through = dumper => saved'[dumper'] = list \o Record(t)
  BY <1>1 DEF TypeInv, TypeOK
<1>8. through # dumper => saved'[dumper'] = list
  BY <1>1 DEF TypeInv, TypeOK
<1> HIDE DEF n
<1>9. CASE u # t
  <2>1. InSequence(saved'[dumper'], u) /\ FromNic(saved'[dumper'], u) = FromNic(list, u)
    <3>1. CASE through = dumper
      <4>1. \A i \in 1 .. Len(Record(t)) : Record(t)[i][1] # u
        BY <1>5, <1>9
      <4> HIDE DEF list
      <4>2. /\ FromNic(list \o Record(t), u) = FromNic(list, u)
            /\ InSequence(list, u) => InSequence(list \o Record(t), u)
        BY <1>5, <4>1, FileOther
      <4> QED
        BY <1>6, <1>7, <3>1, <4>2 DEF FileTail, list
    <3>2. CASE through # dumper
      BY <1>6, <1>8, <3>2 DEF FileTail
    <3> QED
      BY <3>1, <3>2
  <2> QED
    BY <1>1, <1>4, <1>6, <1>9, <2>1 DEF FileTail, InSequence, FromNic, Places
<1>10. CASE u = t
  <2>1. n \in Nat /\ n >= 1
    BY <1>3, PcapAssumption
  <2>2. \E k \in 0 .. n : /\ FromNic(saved'[dumper'], t) = k + 1 .. n
                          /\ dumper = t => k = 0
    <3>1. CASE through = dumper
      <4>1. PICK k \in 0 .. n - 1 : FromNic(list, t) = k + 1 .. n - 1 /\ (dumper = t => k = 0)
        BY <1>4, <1>6, <1>10 DEF FileTail
      <4>2. \A m \in FromNic(list, t) : m \in Nat /\ m < n
        BY <2>1, <4>1
      <4>3. InSequence(list, t)
        BY <1>6, <1>10 DEF FileTail
      <4> HIDE DEF list
      <4>4. FromNic(list \o Record(t), t) = FromNic(list, t) \cup {n}
        <5> DEFINE more == Record(t)
        <5>1. /\ more \in Seq(Thread \X (1 .. MaxPackets)) /\ Len(more) \in Nat \ {0}
              /\ \A i \in 1 .. Len(more) : more[i] = <<t, n>>
          BY <1>5
        <5> HIDE DEF more
        <5>2. FromNic(list \o more, t) = FromNic(list, t) \cup {n} /\ InSequence(list \o more, t)
          BY ONLY <1>5, <2>1, <4>2, <4>3, <5>1, FileMine
        <5> QED
          BY <5>2 DEF more
      <4>5. (k + 1 .. n - 1) \cup {n} = k + 1 .. n /\ k \in 0 .. n
        BY <2>1
      <4> QED
        BY <1>7, <3>1, <4>1, <4>4, <4>5
    <3>2. CASE through # dumper
      <4>1. list = <<>> /\ dumper # t
        BY <1>1, <3>2 DEF SaveInv, Late
      <4>2. FromNic(saved'[dumper'], t) = {}
        BY <1>8, <3>2, <4>1, FileEmpty
      <4>3. n + 1 .. n = {} /\ n \in 0 .. n
        BY <2>1
      <4> QED
        BY <4>1, <4>2, <4>3
    <3> QED
      BY <3>1, <3>2
  <2>3. InSequence(saved'[dumper'], t)
    <3>1. CASE through = dumper
      <4>1. PICK k \in 0 .. n - 1 : FromNic(list, t) = k + 1 .. n - 1
        BY <1>4, <1>6, <1>10 DEF FileTail
      <4>2. \A m \in FromNic(list, t) : m \in Nat /\ m < n
        BY <2>1, <4>1
      <4>5. InSequence(list, t)
        BY <1>6, <1>10 DEF FileTail
      <4> HIDE DEF list
      <4>3. InSequence(list \o Record(t), t)
        BY <1>5, <2>1, <4>2, <4>5, FileMine
      <4> QED
        BY <1>7, <3>1, <4>3
    <3>2. CASE through # dumper
      BY <1>6, <1>8, <1>10, <3>2 DEF FileTail
    <3> QED
      BY <3>1, <3>2
  <2> QED
    BY <1>1, <1>4, <1>10, <2>2, <2>3 DEF FileTail, InSequence, FromNic, Places
<1> QED
  BY <1>9, <1>10

LEMMA SaveDump ==
    ASSUME TypeInv, TypeInv', SaveInv, NEW t \in Thread, Dump(t)
    PROVE  Saving' /\ Held' /\ Late' /\ Written'
<1>1. CASE through = Nobody
  <2>1. UNCHANGED <<tpc, packet_num, saveConf, dumper, saved, fileVars, mutexDumper, through>>
    BY <1>1 DEF Dump
  <2>2. Saving' /\ Written'
    BY <2>1, SavingSame, WrittenSame DEF SaveInv, Dumped, InHand
  <2> QED
    BY <2>1, <2>2 DEF SaveInv, Held, Late
<1>2. CASE through # Nobody
  <2>1. /\ tpc[t] = "dump" /\ Goto(t, "loop") /\ mutexDumper' = Nobody /\ through \in Thread
        /\ saved' = [saved EXCEPT ![through] = saved[through] \o Record(t)]
        /\ UNCHANGED dumper
    BY <1>2 DEF Dump, At, TypeInv, TypeOK
  <2>2. tpc'[t] = "loop" /\ \A u \in Thread \ {t} : tpc'[u] = tpc[u]
    BY <2>1, GotoIs DEF TypeInv, Label
  <2>3. mutexDumper = t /\ \A u \in Thread \ {t} : tpc[u] # "dump"
    BY <2>1 DEF SaveInv, Held
  <2>4. Held' /\ Late'
    BY <2>1, <2>2, <2>3, ThreadSet DEF Held, Late
  <2>5. \A e \in Thread : Len(saved'[e]) >= Len(saved[e])
    <3> SUFFICES ASSUME NEW e \in Thread PROVE Len(saved'[e]) >= Len(saved[e])
      OBVIOUS
    <3>1. Len(saved[e]) \in Nat
      BY SavedType
    <3>2. CASE e # through
      BY <2>1, <3>1, <3>2 DEF TypeInv, TypeOK
    <3>3. CASE e = through
      <4>1. Len(saved[e] \o Record(t)) = Len(saved[e]) + Len(Record(t)) /\ Len(Record(t)) \in Nat
        BY <2>1, RecordType, ConcatProperties DEF TypeInv, TypeOK, InHand
      <4> QED
        BY <2>1, <3>1, <3>3, <4>1 DEF TypeInv, TypeOK
    <3> QED
      BY <3>2, <3>3
  <2>6. Written'
    BY <1>2, <2>1, <2>5, DumpWrites, WrittenOut DEF SaveInv
  <2> QED
    BY <1>2, <2>4, <2>6, SaveDumps
<1> QED
  BY <1>1, <1>2

LEMMA SaveThread ==
    ASSUME TypeInv, TypeInv', SumInv, SaveInv, NEW t \in Thread,
           ThreadStep(t) \/ PacketArrives(t) \/ NicFails(t) \/ UseClosed(t)
    PROVE  SaveInv'
<1>1. Closing'
  <2>1. mainpc' = mainpc /\ Running
    BY DEF At, mainVars, ThreadStep, NicFails, OpenLive, OpenDumper, AddRead, AddInsert,
           PacketArrives, LockDumper, Dump, LoopReturns, UseClosed, LockTotal, ReadTotal,
           WriteTotal, CaptureFinish
  <2>2. CASE mainpc # "exit"
    BY <2>1, <2>2 DEF Closing
  <2>3. CASE mainpc = "exit"
    <3>1. tpc[t] = "done"
      BY <2>3 DEF SumInv, Joined
    <3>2. CaptureFinish(t)
      BY <3>1 DEF At, ThreadStep, NicFails, OpenLive, OpenDumper, AddRead, AddInsert,
           PacketArrives, LockDumper, Dump, LoopReturns, UseClosed, LockTotal, ReadTotal,
           WriteTotal
    <3>3. UNCHANGED <<dumper, saved, flushed>>
      BY <3>2 DEF CaptureFinish, saveVars, fileVars
    <3> QED
      BY <2>1, <3>3 DEF SaveInv, Closing, Running
  <2> QED
    BY <2>2, <2>3
<1>2. CASE PacketArrives(t)
  <2>1. /\ tpc[t] = "loop" /\ packet_num' = [packet_num EXCEPT ![t] = packet_num[t] + 1]
        /\ saveConf = "1" => Goto(t, "lock")
        /\ saveConf # "1" => UNCHANGED tpc
        /\ UNCHANGED <<saveConf, dumper, saved, mutexDumper, through, fileVars>>
    BY <1>2 DEF PacketArrives, At, saveVars
  <2>2. packet_num[t] \in Nat /\ packet_num'[t] = packet_num[t] + 1
        /\ \A u \in Thread \ {t} : packet_num'[u] = packet_num[u]
    BY <2>1, PcapAssumption DEF TypeInv, TypeOK
  <2>3. saveConf = "1" => tpc'[t] = "lock" /\ \A u \in Thread \ {t} : tpc'[u] = tpc[u]
    BY <2>1, GotoIs DEF TypeInv, Label
  <2>4. saveConf = "1" => \A u \in Thread : Dumped(u)' = Dumped(u)
    BY <2>1, <2>2, <2>3 DEF Dumped, InHand
  <2>5. Saving' /\ Written'
    BY <2>1, <2>4, SavingSame, WrittenSame DEF SaveInv
  <2>6. Held' /\ Late'
    BY <2>1, <2>3 DEF SaveInv, Held, Late
  <2> QED
    BY <1>1, <2>5, <2>6 DEF SaveInv
<1>3. CASE LockDumper(t)
  <2>1. /\ Goto(t, "dump") /\ tpc[t] = "lock" /\ mutexDumper = Nobody /\ mutexDumper' = t
        /\ through' = dumper
        /\ UNCHANGED <<packet_num, saveConf, dumper, saved, fileVars>>
    BY <1>3 DEF LockDumper, At
  <2>2. tpc'[t] = "dump" /\ \A u \in Thread \ {t} : tpc'[u] = tpc[u]
    BY <2>1, GotoIs DEF TypeInv, Label
  <2>3. Saving' /\ Written'
    BY <2>1, <2>2, SavingSame, WrittenSame DEF SaveInv, Dumped, InHand
  <2>4. \A u \in Thread : tpc[u] # "dump"
    BY <2>1, ThreadSet DEF SaveInv, Held
  <2>5. Held' /\ Late'
    BY <2>1, <2>2, <2>4 DEF Held, Late
  <2> QED
    BY <1>1, <2>3, <2>5 DEF SaveInv
<1>4. CASE ~PacketArrives(t) /\ ~Dump(t) /\ ~OpenDumper(t) /\ ~LockDumper(t)
  <2>1. UNCHANGED <<packet_num, saveConf, dumper, saved, mutexDumper, through, fileVars>>
    BY <1>4 DEF ThreadStep, NicFails, OpenLive, AddRead, AddInsert, LoopReturns, LockTotal,
           ReadTotal, WriteTotal, UseClosed, CaptureFinish, saveVars
  <2>6. \/ UNCHANGED tpc
        \/ /\ tpc[t] \notin {"lock", "dump"}
           /\ \E l \in Label \ {"lock", "dump"} : Goto(t, l)
    BY <1>4 DEF ThreadStep, NicFails, OpenLive, AddRead, AddInsert, LoopReturns, LockTotal,
           ReadTotal, WriteTotal, UseClosed, CaptureFinish, At, Label
  <2>7. \A u \in Thread : InHand(u)' = InHand(u) /\ (tpc'[u] = "dump" <=> tpc[u] = "dump")
    <3>1. CASE UNCHANGED tpc
      BY <3>1 DEF InHand
    <3>2. ASSUME NEW l \in Label \ {"lock", "dump"}, Goto(t, l), tpc[t] \notin {"lock", "dump"}
          PROVE  \A u \in Thread : InHand(u)' = InHand(u) /\ (tpc'[u] = "dump" <=> tpc[u] = "dump")
      <4>1. tpc'[t] = l /\ \A u \in Thread \ {t} : tpc'[u] = tpc[u]
        BY <3>2, GotoIs DEF TypeInv
      <4> QED
        BY <3>2, <4>1 DEF InHand
    <3> QED
      BY <2>6, <3>1, <3>2
  <2>2. \A u \in Thread : Dumped(u)' = Dumped(u)
    BY <2>1, <2>7 DEF Dumped
  <2>3. Saving' /\ Written'
    BY <2>1, <2>2, SavingSame, WrittenSame DEF SaveInv
  <2>4. Held' /\ Late'
    BY <2>1, <2>7 DEF SaveInv, Held, Late
  <2> QED
    BY <1>1, <2>3, <2>4 DEF SaveInv
<1> QED
  BY <1>1, <1>2, <1>3, <1>4, SaveOpens, SaveDump DEF SaveInv

LEMMA SaveMain ==
    ASSUME TypeInv, TypeInv', SaveInv, MainStep \/ Sigint \/ Ended \/ Waiting \/ UNCHANGED vars
    PROVE  SaveInv'
<1>1. UNCHANGED <<packet_num, saveConf, dumper, saved, mutexDumper, through>>
  BY DEF MainStep, Sigint, Ended, Waiting, vars, CreateThread, InstallFinish,
         InstallCaptureFinish, KillThread, JoinThread, CloseDumper, ExitFlush, ExitProcess,
         saveVars
<1>2. \A t \in Thread : InHand(t)' = InHand(t) /\ (tpc'[t] = "dump" <=> tpc[t] = "dump")
  <2>1. CASE CreateThread
    <3>1. mainpc = "create" /\ next \in Thread /\ tpc[next] = "none"
      BY <2>1, ThreadSet DEF CreateThread, TypeInv, TypeOK, Created, Thread
    <3>2. \/ UNCHANGED tpc
          \/ tpc'[next] = "open" /\ \A u \in Thread \ {next} : tpc'[u] = tpc[u]
      BY <2>1, <3>1, GotoIs DEF CreateThread, TypeInv, Label
    <3> QED
      BY <3>1, <3>2 DEF InHand
  <2> QED
    BY <2>1 DEF MainStep, Sigint, Ended, Waiting, vars, InstallFinish, InHand,
           InstallCaptureFinish, KillThread, JoinThread, CloseDumper, ExitFlush, ExitProcess
<1>3. Saving'
  BY <1>1, <1>2, SavingSame DEF SaveInv, Dumped
<1>4. Held' /\ Late'
  BY <1>1, <1>2 DEF SaveInv, Held, Late
<1>5. CASE ~CloseDumper /\ ~\E d \in Thread : ExitFlush(d)
  <2>1. UNCHANGED fileVars
    BY <1>5 DEF MainStep, Sigint, Ended, Waiting, vars, CreateThread, InstallFinish,
           InstallCaptureFinish, KillThread, JoinThread, ExitProcess, saveVars
  <2>2. Closing'
    <3>1. mainpc' = "exit" =>
             \/ mainpc = "exit" /\ process # "crashed"
             \/ UNCHANGED <<mainpc, process>>
      BY <1>5 DEF MainStep, Sigint, Ended, Waiting, vars, CreateThread, InstallFinish,
             InstallCaptureFinish, KillThread, JoinThread, ExitProcess, saveVars, Running,
             Exit, mainVars
    <3> QED
      BY <1>1, <2>1, <3>1 DEF SaveInv, Closing, fileVars
  <2>3. Written'
    BY <1>1, <2>1, WrittenSame DEF SaveInv
  <2> QED
    BY <1>3, <1>4, <2>2, <2>3 DEF SaveInv
<1>6. ASSUME NEW d \in Thread, WriteOut(d, Len(saved[d]))
      PROVE  Written' /\ flushed'[d] = Len(saved[d])
             /\ \A e \in Thread \ {d} : flushed'[e] = flushed[e]
  <2>1. Len(saved[d]) \in Nat /\ flushed[d] <= Len(saved[d])
    BY SavedType DEF SaveInv, Written
  <2>2. \A e \in Thread : Len(saved'[e]) >= Len(saved[e])
    BY <1>1, SavedType
  <2>3. Len(saved[d]) <= Len(saved'[d])
    BY <1>1, <2>1
  <2>4. Written'
    BY <1>1, <1>6, <2>1, <2>2, <2>3, WrittenOut DEF SaveInv
  <2> QED
    BY <1>6, <2>1, <2>4, Wrote DEF TypeInv, TypeOK
<1>7. CASE CloseDumper
  <2>1. CASE dumper = Nobody
    <3>1. UNCHANGED fileVars /\ process' = "crashed"
      BY <1>7, <2>1 DEF CloseDumper, Exit
    <3>2. Written' /\ Closing'
      BY <1>1, <3>1, WrittenSame DEF SaveInv, Closing
    <3> QED
      BY <1>3, <1>4, <3>2 DEF SaveInv
  <2>2. CASE dumper # Nobody
    <3>1. dumper \in Thread /\ WriteOut(dumper, Len(saved[dumper]))
      BY <1>7, <2>2 DEF CloseDumper, TypeInv, TypeOK
    <3>2. Written' /\ Closing'
      BY <1>1, <1>6, <2>2, <3>1 DEF Closing
    <3> QED
      BY <1>3, <1>4, <3>2 DEF SaveInv
  <2> QED
    BY <2>1, <2>2
<1>8. ASSUME NEW d \in Thread, ExitFlush(d)
      PROVE  SaveInv'
  <2>1. WriteOut(d, Len(saved[d])) /\ mainpc = "exit" /\ process = "run" /\ UNCHANGED process
    BY <1>8 DEF ExitFlush, Running
  <2>2. Written' /\ flushed'[d] = Len(saved[d]) /\ \A e \in Thread \ {d} : flushed'[e] = flushed[e]
    BY <1>6, <2>1
  <2>3. dumper # Nobody /\ flushed[dumper] = Len(saved[dumper]) /\ dumper \in Thread
    BY <2>1 DEF SaveInv, Closing, TypeInv, TypeOK
  <2>4. Closing'
    BY <1>1, <2>2, <2>3 DEF Closing
  <2> QED
    BY <1>3, <1>4, <2>2, <2>4 DEF SaveInv
<1> QED
  BY <1>5, <1>7, <1>8

(***************************************************************************)
(* Through the dumper that was opened last went, of each NIC, the last     *)
(* packets, in order and without a gap, and all of the NIC whose thread    *)
(* opened it: a packet is written by the thread that counted it, before it *)
(* takes the next, and to the dumper that was opened last, which nobody    *)
(* has written to before, or to the one it had loaded under the mutex. On  *)
(* a regular exit that is in the file, at the places beyond the reach of   *)
(* every replaced dumper: those that leave their buffers later, at exit,   *)
(* write at their own offsets, which end where what went through them ends.*)
(***************************************************************************)
THEOREM FileHasTheLast == Spec => []SavedTail
<1>1. IInv /\ [Next]_vars => TypeInv' /\ SumInv' /\ SaveInv'
  <2> SUFFICES ASSUME IInv, [Next]_vars PROVE TypeInv' /\ SumInv' /\ SaveInv'
    OBVIOUS
  <2>1. TypeInv' /\ SumInv'
    BY TypeThread, TypeMain, SumOther, SumAdds, SumMain DEF IInv, Next, ThreadStep, NicFails
  <2> QED
    BY <2>1, SaveThread, SaveMain DEF IInv, Next
<1>2. IInv => SavedTail
  <2> SUFFICES ASSUME IInv, Exited PROVE SavedTail
    BY DEF SavedTail
  <2>1. /\ dumper # Nobody /\ dumper \in Thread /\ saveConf = "1"
        /\ flushed[dumper] = Len(saved[dumper]) /\ \A t \in Thread : tpc[t] = "done"
    BY DEF IInv, SaveInv, Closing, SumInv, Joined, Exited, TypeInv, TypeOK
  <2>2. \A t \in Thread : FileTail(t) /\ Dumped(t) = packet_num[t]
    BY <2>1 DEF IInv, SaveInv, Saving, Dumped, InHand
  <2>3. Len(file) >= Len(saved[dumper])
    <3>1. flushed[dumper] <= Len(file)
      BY <2>1 DEF IInv, SaveInv, Written
    <3> QED
      BY <2>1, <3>1, SavedType DEF IInv
  <2>4. \A i \in 1 .. Len(saved[dumper]) : Beyond(i) => file[i] = dumper
    BY <2>1 DEF IInv, SaveInv, Written
  <2> QED
    BY <2>2, <2>3, <2>4 DEF SavedTail, FileTail, Beyond
<1>3. Init => IInv
  BY TypeInit, SumInit, SaveInit DEF IInv
<1>4. IInv /\ [Next]_vars => IInv'
  BY <1>1 DEF IInv
<1> QED
  BY <1>2, <1>3, <1>4, PTL DEF Spec
=============================================================================
