----------------------------- MODULE FwdEngines -----------------------------
(***************************************************************************)
(* testpmd: the forwarding engines. Each lcore runs one stream: it takes a *)
(* burst of packets from the receive queue or makes one, offers it to the  *)
(* transmit queue, may offer the rest again, counts, and frees what the    *)
(* NIC did not take. The lcores share a pool of mbufs; the command thread  *)
(* changes what they read. Sessions are in PortSession, checksums in       *)
(* CsumOffload.                                                            *)
(*                                                                         *)
(* A packet is the record of its mbufs, the bytes in each (lens), what it  *)
(* is (kind) and what the engine made of it (out). Headers but those of    *)
(* txonly's packets and csum's checksums are abstracted to "received" and  *)
(* what the engine rewrites them to.                                       *)
(***************************************************************************)
EXTENDS Integers, Sequences, FiniteSets, Functions, CsumOffload

CONSTANTS
    Stream,
    Mbufs,              \* Mbufs[e]: the mbufs of the pool for engine e
    Engine,             \* the engines a behaviour may start
    Kinds,              \* Kinds[e]: the packets that arrive for engine e
    CsumConfigs,        \* settings of csum and tso at the start
    TxPkts,             \* lengths of segments the user may set, the first ones at the start:
                        \* those of the whole array
    BurstSizes,         \* numbers of packets per burst the user may set
    RetryNums,          \* burst_tx_retry_num, or 0 when retry_enabled is not set
    MAX_PKT_BURST,
    UINT8,              \* how many values the index of icmpecho's loop has
    HDR_LEN,            \* bytes of the Ethernet, IP and UDP headers
    mbuf_data_size, tailroom, nb_txd,
    cfg_n_flows,
    MaxBursts,          \* MaxBursts[e][s]: bound on the bursts of stream s, engine e
    MaxChanges          \* MaxChanges[e]: bound on the commands

ASSUME EnginesAssumption ==
    /\ IsFiniteSet(Stream)
    /\ \A e \in Engine : IsFiniteSet(Mbufs[e])
    /\ Engine \subseteq {"io", "mac", "macswap", "rxonly", "txonly", "flowgen", "csum",
                         "icmpecho"}
    /\ \A e \in Engine : \A k \in Kinds[e] :
          /\ k.lens \in Seq(Nat) /\ \A j \in DOMAIN k.lens : k.lens[j] <= tailroom
          /\ e = "csum" => k.hdr \in Packets
    /\ MAX_PKT_BURST \in BurstSizes /\ BurstSizes \subseteq Nat /\ RetryNums \subseteq Nat
    /\ CsumConfigs \subseteq Configs /\ CsumConfigs # {}
    /\ TxPkts \in Seq(Seq(Nat)) /\ Len(TxPkts) > 0 /\ Len(TxPkts[1]) > 0
    /\ \A lens \in Range(TxPkts) : Len(lens) <= Len(TxPkts[1])
    /\ TxPkts[1][1] >= HDR_LEN
    /\ {MAX_PKT_BURST, UINT8, HDR_LEN, mbuf_data_size, tailroom, nb_txd, cfg_n_flows}
          \subseteq Nat \ {0}
    /\ MaxBursts \in [Engine -> [Stream -> Nat]] /\ MaxChanges \in [Engine -> Nat]

VARIABLES
    engine, burst_tx_retry_num,
    nb_pkt_per_burst, tx_pkt_split, csum_config,    \* globals the lcores read
    tx_pkt_seg_lengths, tx_pkt_nb_segs, tx_pkt_length,
    setting,        \* the segments set txpkts is setting
    nb_set,         \* how many of their lengths it has written
    pkt_ip_hdr,     \* length of the packets that txonly's headers tell
    next_flow,
    pool,           \* free mbufs
    nic,            \* packets the NIC has and did not free
    st,             \* st[s]: where the lcore of s is, and its local variables
    fs,             \* fs[s]: its counters; extra: packets made, less those answered not
    bursts, changes,
    crashed,        \* an lcore went where the program does not return from
    recycled,       \* packets sent with mbufs that were free
    torn            \* streams whose packet was begun before a set txpkts ended

segments == <<tx_pkt_seg_lengths, tx_pkt_nb_segs, tx_pkt_length, setting, nb_set>>
settings == <<nb_pkt_per_burst, tx_pkt_split, csum_config, segments>>
fixed    == <<engine, burst_tx_retry_num, pkt_ip_hdr>>
history  == <<recycled, torn>>
vars == <<settings, fixed, next_flow, pool, nic, st, fs, bursts, changes, crashed, history>>

Plain == [name |-> "plain", lens |-> <<HDR_LEN>>]
Mbuf == Mbufs[engine]
NoOut == [addr |-> "received"]

FirstPc == IF engine = "txonly" THEN "alloc" ELSE "receive"
Idle(pc) == [pc |-> pc, burst |-> <<>>, nb_pkt |-> 0, nb_rx |-> 0, nb_tx |-> 0, retry |-> 0,
             i |-> 1, info |-> NoInfo, flow |-> 0, len |-> 0, split |-> "off", nb_segs |-> 0]

Init ==
    /\ engine \in Engine
    /\ burst_tx_retry_num \in RetryNums
    /\ nb_pkt_per_burst = MAX_PKT_BURST
    /\ tx_pkt_split = "off"
    /\ csum_config \in IF engine = "csum" THEN CsumConfigs
                       ELSE {CHOOSE c \in CsumConfigs : TRUE}
    /\ tx_pkt_seg_lengths = TxPkts[1]
    /\ tx_pkt_nb_segs = 1 /\ tx_pkt_length = TxPkts[1][1]
    /\ setting = <<>> /\ nb_set = 0
    /\ pkt_ip_hdr = tx_pkt_length
    /\ next_flow = 0
    /\ pool = Mbuf /\ nic = {}
    /\ st = [s \in Stream |-> Idle(FirstPc)]
    /\ fs = [s \in Stream |-> [rx_packets |-> 0, tx_packets |-> 0, fwd_dropped |-> 0,
                               extra |-> 0]]
    /\ bursts = [s \in Stream |-> 0] /\ changes = 0
    /\ crashed = {} /\ recycled = {} /\ torn = {}

-----------------------------------------------------------------------------
(* Packets and bursts *)

MbufsOf(pkts) == UNION {Range(p.mbufs) : p \in pkts}
Bytes(lens) == FoldFunction(+, 0, lens)

(* k free mbufs of the pool: which ones makes no difference. *)
Alloc(k) == CHOOSE ms \in [1 .. k -> pool] : IsInjective(ms)

(* How many mbufs packets of the kinds ks take *)
NumMbufs(ks) == FoldFunction(+, 0, [j \in DOMAIN ks |-> Len(ks[j].lens)])

(* The packets of the kinds ks, in the mbufs ms *)
Filled(ks, ms) ==
    [j \in DOMAIN ks |->
        LET from == NumMbufs(SubSeq(ks, 1, j - 1))
        IN  [mbufs |-> SubSeq(ms, from + 1, from + Len(ks[j].lens)),
             lens |-> ks[j].lens, kind |-> ks[j], out |-> NoOut]]

Set(s, changed) == st' = [st EXCEPT ![s] = changed]
At(s, pc) == crashed = {} /\ st[s].pc = pc /\ bursts[s] < MaxBursts[engine][s]

(* The engine returns, to be called for the next burst. *)
Returns(s) ==
    /\ Set(s, Idle(FirstPc))
    /\ bursts' = [bursts EXCEPT ![s] = @ + 1]

(* rxonly and flowgen free what they receive. *)
FreedOnReceipt(s, pkts) == IF engine \in {"rxonly", "flowgen"} THEN MbufsOf(pkts) ELSE {}

(* rte_eth_rx_burst: the queue is filled again from the pool, or not. *)
RxBurst(s) ==
    /\ At(s, "receive")
    /\ \E n \in 0 .. nb_pkt_per_burst : \E ks \in [1 .. n -> Kinds[engine]] :
          LET ms   == Alloc(NumMbufs(ks))
              pkts == Filled(ks, ms)
          IN  /\ n = 0 => engine = "flowgen"
              /\ NumMbufs(ks) <= Cardinality(pool)
              /\ pool' = (pool \ Range(ms)) \cup FreedOnReceipt(s, Range(pkts))
              /\ fs' = [fs EXCEPT ![s].rx_packets = @ + n]
              /\ IF engine = "rxonly"
                 THEN Returns(s)
                 ELSE /\ Set(s, IF engine = "flowgen"
                                THEN [st[s] EXCEPT !.pc = "alloc", !.burst = pkts, !.nb_rx = n,
                                                   !.len = tx_pkt_length - 4]
                                ELSE [st[s] EXCEPT !.pc = engine, !.burst = pkts, !.nb_rx = n,
                                                   !.nb_pkt = n])
                      /\ UNCHANGED bursts
    /\ UNCHANGED <<settings, fixed, next_flow, nic, changes, crashed, history>>

-----------------------------------------------------------------------------
(* Engines that send what they receive *)

Rewritten(s, addr) ==
    [j \in DOMAIN st[s].burst |-> [st[s].burst[j] EXCEPT !.out = [addr |-> addr]]]

Rewrites(s, addr) ==
    /\ Set(s, [st[s] EXCEPT !.burst = Rewritten(s, addr), !.pc = "send"])
    /\ UNCHANGED <<settings, fixed, next_flow, pool, nic, fs, bursts, changes, crashed,
                   history>>

IoForward(s)  == At(s, "io") /\ Rewrites(s, "received")
MacForward(s) == At(s, "mac") /\ Rewrites(s, "peer")
MacSwap(s)    == At(s, "macswap") /\ Rewrites(s, "swapped")

Echoed(s) == {j \in DOMAIN st[s].burst : st[s].burst[j].kind.name = "request"}
Others(s) == DOMAIN st[s].burst \ Echoed(s)

(* The replies close up at the front of the array. *)
EchoedAt(s, k) == CHOOSE j \in Echoed(s) : Cardinality({i \in Echoed(s) : i <= j}) = k
Replies(s) == [k \in 1 .. Cardinality(Echoed(s)) |-> Rewritten(s, "replied")[EchoedAt(s, k)]]

(* icmpecho: replies to ARP and ICMP echo requests, frees the rest. Its     *)
(* index has 8 bits: a burst it cannot count is never done.                 *)
IcmpEcho(s) ==
    /\ At(s, "icmpecho")
    /\ IF st[s].nb_rx >= UINT8
       THEN /\ crashed' = {"index"}
            /\ UNCHANGED <<pool, st, bursts>>
       ELSE /\ pool' = pool \cup MbufsOf({st[s].burst[j] : j \in Others(s)})
            /\ UNCHANGED crashed
            /\ IF Echoed(s) = {}
               THEN Returns(s)
               ELSE /\ Set(s, [st[s] EXCEPT !.burst = Replies(s), !.pc = "send",
                                            !.nb_pkt = Cardinality(Echoed(s))])
                    /\ UNCHANGED bursts
    /\ fs' = [fs EXCEPT ![s].extra = @ - Cardinality(Others(s))]
    /\ UNCHANGED <<settings, fixed, next_flow, nic, changes, history>>

(***************************************************************************)
(* pkt_copy_split. The segments are those set, as many as the packet       *)
(* needs, the last one longer if it must be; each is an mbuf, the last one *)
(* allocated first. A segment of the copy never goes on with the next      *)
(* segment of the packet, so that there may be too few.                    *)
(***************************************************************************)
SegsToUse(len, lens) ==
    LET enough == {j \in DOMAIN lens : Bytes(SubSeq(lens, 1, j)) >= len}
    IN  IF enough = {} THEN Len(lens) ELSE CHOOSE j \in enough : \A k \in enough : j <= k

SplitLens(len, lens) ==
    LET n    == SegsToUse(len, lens)
        used == Bytes(SubSeq(lens, 1, n))
    IN  [SubSeq(lens, 1, n) EXCEPT ![n] = IF len > used THEN @ + (len - used) ELSE @]

(* What is left of the source after a segment *)
CopyInto(rest, room) ==
    IF rest = <<>> THEN rest
    ELSE IF Head(rest) <= room THEN Tail(rest)
    ELSE <<Head(rest) - room>> \o Tail(rest)

(* and after each of the segments, ... *)
Left(src, lens) ==
    LET left[j \in 0 .. Len(lens)] ==
            IF j = 0 THEN src ELSE CopyInto(left[j - 1], lens[j])
    IN  left

(* ... and what each of them got *)
CopiedLens(src, lens) ==
    [j \in DOMAIN lens |->
        LET rest == Left(src, lens)[j - 1]
        IN  IF rest = <<>> THEN 0
            ELSE IF Head(rest) <= lens[j] THEN Head(rest) ELSE lens[j]]

NumsOfSegs == IF tx_pkt_split = "rnd" THEN 1 .. tx_pkt_nb_segs ELSE {tx_pkt_nb_segs}

(* Whether the copy can be made: mbufs enough, each with the room for its  *)
(* segment (the first one is not asked), segments enough.                    *)
Copies(pkt, lens) ==
    /\ Len(lens) <= Cardinality(pool)
    /\ \A j \in 2 .. Len(lens) : lens[j] <= tailroom
    /\ Left(pkt.lens, lens)[Len(lens)] = <<>>

(* The loop of pkt_burst_checksum_forward for a packet: the checksums, and *)
(* a copy in its place.                                                    *)
CsumPacket(s) ==
    LET pkt    == st[s].burst[st[s].i]
        info   == Parse(pkt.kind.hdr, st[s].info, csum_config.flags)
        summed == [pkt EXCEPT !.out = [addr |-> "peer", info |-> info, cfg |-> csum_config,
                                       sums |-> Checksums(pkt.kind.hdr, info, csum_config)]]
        next   == [st[s] EXCEPT !.i = @ + 1, !.info = info,
                                !.pc = IF st[s].i = st[s].nb_rx THEN "send" ELSE "csum"]
    IN  /\ At(s, "csum")
        /\ \E n \in NumsOfSegs :
              LET lens == SplitLens(Bytes(pkt.lens), SubSeq(tx_pkt_seg_lengths, 1, n))
              IN  IF tx_pkt_split = "off" \/ ~Copies(pkt, lens)
                  THEN /\ Set(s, [next EXCEPT !.burst[st[s].i] = summed])
                       /\ UNCHANGED pool
                  ELSE LET ms == Alloc(Len(lens)) IN
                       /\ Set(s, [next EXCEPT !.burst[st[s].i] =
                                    [summed EXCEPT !.mbufs = ms,
                                                   !.lens = CopiedLens(pkt.lens, lens)]])
                       /\ pool' = (pool \ Range(ms)) \cup Range(pkt.mbufs)
        /\ UNCHANGED <<settings, fixed, next_flow, nic, fs, bursts, changes, crashed, history>>

-----------------------------------------------------------------------------
(* Engines that make packets *)

AllocFrame == UNCHANGED <<settings, fixed, nic, fs, bursts, changes, recycled>>

(***************************************************************************)
(* flowgen: a packet of the next flow. What was received stays in the      *)
(* array behind the packets made. All lcores share next_flow, a plain int: *)
(* each read and each write of it is a step, and a read may give what the  *)
(* lcore still has of it in a register (flow).                             *)
(***************************************************************************)
Reads(s) == {st[s].flow, next_flow}

FlowPacket(s) ==
    LET n == st[s].nb_pkt
        ms  == Alloc(1)
        pkt == [mbufs |-> ms, lens |-> <<st[s].len>>, kind |-> Plain,
                out |-> [flow |-> next_flow]]
    IN  /\ engine = "flowgen" /\ At(s, "alloc")
        /\ n < nb_pkt_per_burst /\ pool # {}
        /\ pool' = pool \ Range(ms)
        /\ Set(s, [st[s] EXCEPT !.pc = "count", !.nb_pkt = n + 1, !.flow = next_flow,
                      !.burst = [j \in DOMAIN @ \cup {n + 1} |->
                                    IF j = n + 1 THEN pkt ELSE @[j]]])
        /\ UNCHANGED <<next_flow, crashed, torn>>
        /\ AllocFrame

(* The % of C is of unsigned numbers of 32 bits, which cfg_n_flows divides. *)
CountFlow(s) ==
    /\ At(s, "count")
    /\ \E now \in Reads(s) :
          Set(s, [st[s] EXCEPT !.pc = "counted", !.flow = (now + 1) % cfg_n_flows])
    /\ UNCHANGED <<next_flow, pool, crashed, torn>>
    /\ AllocFrame

NextFlow(s) ==
    /\ At(s, "counted")
    /\ next_flow' = st[s].flow
    /\ Set(s, [st[s] EXCEPT !.pc = "alloc"])
    /\ UNCHANGED <<pool, crashed, torn>>
    /\ AllocFrame

(***************************************************************************)
(* txonly: a packet in segments. It reads the length of each segment when  *)
(* it has its mbuf, and how many there are after the first (and after      *)
(* tx_pkt_split, which no command sets together with them). The packet is  *)
(* the last one of burst from its first mbuf on, and not yet in nb_pkt.    *)
(***************************************************************************)
Making(s) == st[s].burst[st[s].nb_pkt + 1]

TxPacket(s) ==
    LET ms == Alloc(1)
    IN  /\ engine = "txonly" /\ At(s, "alloc")
        /\ st[s].nb_pkt < nb_pkt_per_burst /\ pool # {}
        /\ pool' = pool \ Range(ms)
        /\ Set(s, [st[s] EXCEPT !.pc = "split",
              !.burst = Append(@, [mbufs |-> ms, lens |-> <<tx_pkt_seg_lengths[1]>>,
                                   kind |-> Plain, out |-> [total |-> pkt_ip_hdr]])])
        /\ torn' = IF setting = <<>> THEN torn \ {s} ELSE torn \cup {s}
        /\ UNCHANGED <<next_flow, crashed>>
        /\ AllocFrame

TxSplit(s) ==
    /\ At(s, "split")
    /\ \E n \in NumsOfSegs :
          Set(s, [st[s] EXCEPT !.pc = "segments", !.split = tx_pkt_split, !.nb_segs = n])
    /\ UNCHANGED <<next_flow, pool, crashed, torn>>
    /\ AllocFrame

TxSegment(s) ==
    LET k      == Len(Making(s).lens)
        ms     == Alloc(1)
        longer == [Making(s) EXCEPT !.mbufs = @ \o ms,
                                    !.lens = Append(@, tx_pkt_seg_lengths[k + 1])]
    IN  /\ At(s, "segments")
        /\ k < st[s].nb_segs /\ pool # {}
        /\ pool' = pool \ Range(ms)
        /\ Set(s, [st[s] EXCEPT !.burst[st[s].nb_pkt + 1] = longer])
        /\ UNCHANGED <<next_flow, crashed, torn>>
        /\ AllocFrame

(* Headers that the segments do not hold are copied past the last one. *)
TxHeaders(s) ==
    /\ At(s, "segments")
    /\ Len(Making(s).lens) = st[s].nb_segs
    /\ IF Bytes(Making(s).lens) < HDR_LEN
       THEN crashed' = {"headers"} /\ UNCHANGED st
       ELSE /\ Set(s, [st[s] EXCEPT !.pc = "alloc", !.nb_pkt = @ + 1])
            /\ UNCHANGED crashed
    /\ UNCHANGED <<next_flow, pool, torn>>
    /\ AllocFrame

(* A packet that gets too few mbufs is freed, and the burst ends. *)
TxSegmentFails(s) ==
    /\ At(s, "segments")
    /\ Len(Making(s).lens) < st[s].nb_segs /\ pool = {}
    /\ pool' = Range(Making(s).mbufs)
    /\ IF st[s].nb_pkt = 0
       THEN Returns(s)
       ELSE /\ Set(s, [st[s] EXCEPT !.pc = "send", !.burst = SubSeq(@, 1, st[s].nb_pkt)])
            /\ UNCHANGED bursts
    /\ UNCHANGED <<settings, fixed, next_flow, nic, fs, changes, crashed, history>>

(* No more packets: enough of them, or no mbuf. *)
LastPacket(s) ==
    /\ At(s, "alloc")
    /\ st[s].nb_pkt >= nb_pkt_per_burst \/ pool = {}
    /\ IF engine = "txonly" /\ st[s].nb_pkt = 0 /\ nb_pkt_per_burst > 0
       THEN Returns(s)
       ELSE Set(s, [st[s] EXCEPT !.pc = "send"]) /\ UNCHANGED bursts
    /\ UNCHANGED <<settings, fixed, next_flow, pool, nic, fs, changes, crashed, history>>

-----------------------------------------------------------------------------
(* Sending *)

(* The NIC takes k more packets of the array, whatever they are. *)
Takes(s, k) ==
    LET more == {st[s].burst[j] : j \in st[s].nb_tx + 1 .. st[s].nb_tx + k}
    IN  /\ nic' = nic \cup more
        /\ UNCHANGED torn
        /\ recycled' = recycled \cup
              {st[s].burst[j] : j \in st[s].nb_pkt + 1 .. st[s].nb_tx + k}

(* How many packets the retries are for: flowgen's are those received. *)
ToRetry(s) == IF engine = "flowgen" THEN st[s].nb_rx ELSE st[s].nb_pkt

TxBurst(s) ==
    /\ At(s, "send")
    /\ \E k \in 0 .. st[s].nb_pkt :
          /\ Takes(s, k)
          /\ Set(s, [st[s] EXCEPT !.nb_tx = k, !.pc = "retry"])
    /\ UNCHANGED <<settings, fixed, next_flow, pool, fs, bursts, changes, crashed>>

Retry(s) ==
    /\ At(s, "retry")
    /\ st[s].nb_tx < ToRetry(s) /\ st[s].retry < burst_tx_retry_num
    /\ \E k \in 0 .. ToRetry(s) - st[s].nb_tx :
          /\ Takes(s, k)
          /\ Set(s, [st[s] EXCEPT !.nb_tx = @ + k, !.retry = @ + 1])
    /\ UNCHANGED <<settings, fixed, next_flow, pool, fs, bursts, changes, crashed>>

(* Mutant: until the NIC has taken all *)
TriesForEver(s) == st[s].nb_tx >= ToRetry(s)

NoMoreTries(s) == st[s].nb_tx >= ToRetry(s) \/ st[s].retry = burst_tx_retry_num

(* Mutant: the flows of unsent packets are not taken back. *)
TakenBackNot(unsent) == next_flow

TakenBack(unsent) == next_flow - unsent

(* Mutant: all of the burst but the last packet *)
RestButLast(s) == {st[s].burst[j] : j \in st[s].nb_tx + 1 .. st[s].nb_pkt - 1}

Rest(s) == {st[s].burst[j] : j \in st[s].nb_tx + 1 .. st[s].nb_pkt}

FreesRest(s) == pool' = pool \cup MbufsOf(Rest(s)) /\ Returns(s)

(* Counts and frees the rest; flowgen first backs out their flows. *)
EndBurst(s) ==
    LET unsent == IF st[s].nb_pkt > st[s].nb_tx THEN st[s].nb_pkt - st[s].nb_tx ELSE 0
    IN  /\ At(s, "retry") /\ NoMoreTries(s)
        /\ fs' = [fs EXCEPT ![s].tx_packets = @ + st[s].nb_tx,
                            ![s].fwd_dropped = IF engine = "flowgen" THEN @ ELSE @ + unsent,
                            ![s].extra = IF engine = "txonly" THEN @ + st[s].nb_pkt ELSE @]
        /\ IF engine = "flowgen" /\ unsent > 0
           THEN /\ Set(s, [st[s] EXCEPT !.pc = "backout", !.flow = TakenBack(unsent)])
                /\ UNCHANGED <<pool, bursts>>
           ELSE FreesRest(s)
    /\ UNCHANGED <<settings, fixed, next_flow, nic, changes, crashed, history>>

(* next_flow is written, ... *)
BackOut(s) ==
    /\ At(s, "backout")
    /\ next_flow' = st[s].flow
    /\ Set(s, [st[s] EXCEPT !.pc = "backed"])
    /\ UNCHANGED <<settings, fixed, pool, nic, fs, bursts, changes, crashed, history>>

(* ... and while it is negative, ... *)
BackedOut(s) ==
    /\ At(s, "backed")
    /\ \E now \in Reads(s) :
          IF now < 0
          THEN Set(s, [st[s] EXCEPT !.pc = "add", !.flow = now]) /\ UNCHANGED <<pool, bursts>>
          ELSE FreesRest(s)
    /\ UNCHANGED <<settings, fixed, next_flow, nic, fs, changes, crashed, history>>

(* ... read again, added to and written. *)
AddFlows(s) ==
    /\ At(s, "add")
    /\ \E now \in Reads(s) :
          Set(s, [st[s] EXCEPT !.pc = "backout", !.flow = now + cfg_n_flows])
    /\ UNCHANGED <<settings, fixed, next_flow, pool, nic, fs, bursts, changes, crashed, history>>

(* The NIC has sent its packets. *)
TxDone ==
    /\ nic # {} /\ crashed = {}
    /\ pool' = pool \cup MbufsOf(nic)
    /\ nic' = {}
    /\ UNCHANGED <<settings, fixed, next_flow, st, fs, bursts, changes, crashed, history>>

-----------------------------------------------------------------------------
(* The command thread: none of these commands looks at test_done. They are *)
(* given while an engine runs that reads what they set.                    *)

CommandFrame ==
    UNCHANGED <<fixed, next_flow, pool, nic, st, fs, bursts, crashed, recycled>>
Command ==
    /\ crashed = {} /\ setting = <<>>
    /\ changes < MaxChanges[engine] /\ changes' = changes + 1
    /\ CommandFrame

BurstAllowed(n) == n <= MAX_PKT_BURST

(* set_nb_pkt_per_burst (port config all burst, besides, takes no 0) *)
SetBurst(n) ==
    /\ Command
    /\ BurstAllowed(n)
    /\ nb_pkt_per_burst' = n
    /\ UNCHANGED <<tx_pkt_split, csum_config, segments, torn>>

(* set txsplit *)
SetTxSplit(split) ==
    /\ Command
    /\ engine \in {"txonly", "csum"}
    /\ tx_pkt_split' = split
    /\ UNCHANGED <<nb_pkt_per_burst, csum_config, segments, torn>>

(* The commands for csum; a burst reads all of csum_config at once. *)
SetCsumConfig(cfg) ==
    /\ Command
    /\ engine = "csum"
    /\ csum_config' = cfg
    /\ \A s \in Stream : st[s].pc # "csum"
    /\ UNCHANGED <<nb_pkt_per_burst, tx_pkt_split, segments, torn>>

(* csum set, csum parse-tunnel, tso set, tunnel_tso set *)
SetCsum(proto, hw) ==
    LET flags == csum_config.flags
    IN  SetCsumConfig([csum_config EXCEPT
                          !.flags = IF hw THEN flags \cup {proto} ELSE flags \ {proto}])
SetParseTunnel(on) ==
    LET flags == csum_config.flags \ {"PARSE_TUNNEL"}
    IN  SetCsumConfig([csum_config EXCEPT
                          !.flags = IF on THEN flags \cup {"PARSE_TUNNEL"} ELSE flags])
SetTso(segsz) == SetCsumConfig([csum_config EXCEPT !.tso_segsz = segsz])
SetTunnelTso(segsz) == SetCsumConfig([csum_config EXCEPT !.tunnel_tso_segsz = segsz])

(* Mutant: the sum of the lengths is not looked at. *)
LengthsAccepted(lens) == \A j \in DOMAIN lens : lens[j] <= mbuf_data_size

(* set_tx_pkt_segments: the sum of the lengths has 16 bits. *)
LengthsAllowed(lens) ==
    /\ Len(lens) < nb_txd
    /\ \A j \in DOMAIN lens : lens[j] <= mbuf_data_size
    /\ Bytes(lens) % 65536 >= HDR_LEN

(* set txpkts: looks at all the lengths, ... *)
SetTxPkts(lens) ==
    /\ Command
    /\ engine \in {"txonly", "csum", "flowgen"}
    /\ LengthsAllowed(lens)
    /\ setting' = lens /\ nb_set' = 0
    /\ torn' = torn \cup {s \in Stream : st[s].pc \in {"split", "segments"}}
    /\ UNCHANGED <<nb_pkt_per_burst, tx_pkt_split, csum_config, tx_pkt_seg_lengths,
                   tx_pkt_nb_segs, tx_pkt_length>>

SettingFrame ==
    UNCHANGED <<nb_pkt_per_burst, tx_pkt_split, csum_config, changes, torn>> /\ CommandFrame

(* ... writes one after the other, ... *)
SetTxPktLength ==
    /\ crashed = {} /\ nb_set < Len(setting)
    /\ tx_pkt_seg_lengths' = [tx_pkt_seg_lengths EXCEPT ![nb_set + 1] = setting[nb_set + 1]]
    /\ nb_set' = nb_set + 1
    /\ UNCHANGED <<tx_pkt_nb_segs, tx_pkt_length, setting>>
    /\ SettingFrame

(* ... and then how many there are. *)
SetTxPktNumber ==
    /\ crashed = {} /\ setting # <<>> /\ nb_set = Len(setting)
    /\ tx_pkt_length' = Bytes(setting) % 65536
    /\ tx_pkt_nb_segs' = Len(setting)
    /\ setting' = <<>> /\ nb_set' = 0
    /\ UNCHANGED tx_pkt_seg_lengths
    /\ SettingFrame

-----------------------------------------------------------------------------
Lcore(s) ==
    \/ RxBurst(s)
    \/ IoForward(s) \/ MacForward(s) \/ MacSwap(s) \/ IcmpEcho(s) \/ CsumPacket(s)
    \/ FlowPacket(s) \/ CountFlow(s) \/ NextFlow(s)
    \/ TxPacket(s) \/ TxSplit(s) \/ TxSegment(s) \/ TxHeaders(s) \/ TxSegmentFails(s)
    \/ LastPacket(s)
    \/ TxBurst(s) \/ Retry(s) \/ EndBurst(s)
    \/ BackOut(s) \/ BackedOut(s) \/ AddFlows(s)

CommandThread ==
    \/ \E n \in BurstSizes : SetBurst(n)
    \/ \E split \in {"off", "on", "rnd"} : SetTxSplit(split)
    \/ \E proto \in OlFlags \ {"PARSE_TUNNEL"}, hw \in BOOLEAN : SetCsum(proto, hw)
    \/ \E on \in BOOLEAN : SetParseTunnel(on)
    \/ \E segsz \in {0, 1} : SetTso(segsz) \/ SetTunnelTso(segsz)
    \/ \E lens \in Range(TxPkts) : SetTxPkts(lens)
    \/ SetTxPktLength \/ SetTxPktNumber

Next == (\E s \in Stream : Lcore(s)) \/ TxDone \/ CommandThread

(* An lcore does nothing but run its stream. *)
Spec == Init /\ [][Next]_vars /\ \A s \in Stream : WF_vars(Lcore(s))

-----------------------------------------------------------------------------
(* Properties *)

(* The positions of the array with packets that are the lcore's *)
HeldAt(s) == CASE st[s].pc \in {"send", "alloc", "count", "counted"} -> 1 .. st[s].nb_pkt
               [] st[s].pc \in {"retry", "backout", "backed", "add"} ->
                      st[s].nb_tx + 1 .. st[s].nb_pkt
               [] OTHER -> DOMAIN st[s].burst
Held(s) == {st[s].burst[j] : j \in HeldAt(s)}

TypeOK ==
    /\ engine \in Engine /\ burst_tx_retry_num \in RetryNums
    /\ nb_pkt_per_burst \in BurstSizes /\ nb_pkt_per_burst <= MAX_PKT_BURST
    /\ tx_pkt_split \in {"off", "on", "rnd"} /\ csum_config \in Configs
    /\ tx_pkt_nb_segs \in 1 .. Len(tx_pkt_seg_lengths)
    /\ next_flow \in Int
    /\ pool \subseteq Mbuf /\ MbufsOf(nic) \subseteq Mbuf
    /\ \A s \in Stream : bursts[s] \in 0 .. MaxBursts[engine][s] /\ MbufsOf(Held(s)) \subseteq Mbuf
    /\ changes \in 0 .. MaxChanges[engine]
    /\ crashed \subseteq {"index", "headers"} /\ torn \subseteq Stream

(***************************************************************************)
(* Every mbuf is in one place: free, with the NIC, or in a packet of the   *)
(* burst of one lcore; none is lost or given out twice when a queue is     *)
(* full, the pool is dry, a packet is copied or the burst is changed under *)
(* way. Only flowgen's retries, which offer what it received and freed,    *)
(* break this. Every variable keeps its type.                              *)
(***************************************************************************)
Share(p, q) == Range(p.mbufs) \cap Range(q.mbufs) # {}

NoneLost == Mbuf = pool \cup MbufsOf(nic) \cup UNION {MbufsOf(Held(s)) : s \in Stream}
NoneTwice ==
    /\ pool \cap MbufsOf(nic) = {}
    /\ \A p, q \in nic : IsInjective(p.mbufs) /\ (Share(p, q) => p = q)
    /\ \A s \in Stream :
          /\ (pool \cup MbufsOf(nic)) \cap MbufsOf(Held(s)) = {}
          /\ \A t \in Stream \ {s} : MbufsOf(Held(s)) \cap MbufsOf(Held(t)) = {}
          /\ \A i, j \in HeldAt(s) : /\ IsInjective(st[s].burst[i].mbufs)
                                     /\ Share(st[s].burst[i], st[s].burst[j]) => i = j

MbufConservation ==
    /\ TypeOK
    /\ recycled = {} => NoneLost /\ NoneTwice
    /\ recycled # {} => engine = "flowgen" /\ burst_tx_retry_num > 0

(***************************************************************************)
(* Between bursts the counters of a stream tell what became of every       *)
(* packet: what came in or was made went out, was dropped or, in icmpecho, *)
(* was not to be answered. flowgen has no drops to tell, but the flows of  *)
(* the packets it sends follow one another, dropped ones left out: while   *)
(* one lcore runs alone, next_flow counts what was sent.                   *)
(***************************************************************************)
Busy(s) == st[s] # Idle(FirstPc)
Alone == Cardinality({s \in Stream : Busy(s) \/ bursts[s] > 0}) < 2
CountersAgree ==
    \A s \in Stream : ~Busy(s) /\ recycled = {} =>
        IF engine = "flowgen"
        THEN Alone /\ bursts[s] > 0 => next_flow = fs[s].tx_packets % cfg_n_flows
        ELSE engine # "rxonly" =>
             fs[s].rx_packets + fs[s].extra = fs[s].tx_packets + fs[s].fwd_dropped

(***************************************************************************)
(* What the NIC is given is what the engine says. It was rewritten once,   *)
(* however often it was offered; only requests are answered; a copy in     *)
(* segments has all the bytes, in mbufs that hold them; the checksums are  *)
(* right, with the exceptions that Right names; flowgen's flows are those  *)
(* of its table while one lcore runs alone: several take them back over    *)
(* each other, to outside of it; txonly's packets are as long as their     *)
(* headers tell, if set txpkts and set txsplit were not used since the     *)
(* start.                                                                  *)
(***************************************************************************)
CsumRight(p) ==
    /\ Bytes(p.lens) = Bytes(p.kind.lens)
    /\ \A j \in DOMAIN p.lens : p.lens[j] <= tailroom
    /\ Right(p.kind.hdr, p.out.info, p.out.cfg, p.out.sums)

SentAsMade ==
    \A p \in nic \ recycled :
        CASE engine = "mac"      -> p.out.addr = "peer"
          [] engine = "macswap"  -> p.out.addr = "swapped"
          [] engine = "icmpecho" -> p.out.addr = "replied" /\ p.kind.name = "request"
          [] engine = "csum"     -> p.out.addr = "peer" /\ CsumRight(p)
          [] engine = "flowgen"  -> Alone => p.out.flow \in 0 .. cfg_n_flows - 1
          [] engine = "txonly"   -> changes = 0 => Bytes(p.lens) = p.out.total
          [] OTHER               -> TRUE

(***************************************************************************)
(* The headers of a txonly packet fit into its segments, in whatever order *)
(* the lcore reads the lengths and their number and the command thread     *)
(* writes them, but for two cases: the packet was to have fewer segments,  *)
(* drawn at random, or it was begun before a set txpkts ended and goes on  *)
(* after it was accepted, so that it may mix the lengths of two settings.  *)
(* (icmpecho's index of 8 bits is the other way an lcore is lost, by any   *)
(* burst of 256 packets.)                                                  *)
(***************************************************************************)
LcoresSurvive ==
    "headers" \in crashed =>
        \E s \in Stream : /\ st[s].pc = "segments" /\ Bytes(Making(s).lens) < HDR_LEN
                          /\ st[s].split = "rnd" \/ s \in torn

(* A burst that was begun ends, though the NIC may take nothing for ever:  *)
(* else an lcore would never look at whether it was told to stop.          *)
BurstsEnd == \A s \in Stream : Busy(s) ~> ~Busy(s) \/ crashed # {}

(***************************************************************************)
(* flowgen.c: "Received traffic is simply discarded": it is not sent.      *)
(***************************************************************************)
ReceivedDiscarded == engine = "flowgen" => recycled = {}
=============================================================================
