------------------------- MODULE FwdEngines_proofs -------------------------
(***************************************************************************)
(* Proofs about FwdEngines, for any number of lcores, mbufs, packets and   *)
(* settings, and a NIC that takes any part of a burst.                     *)
(***************************************************************************)
EXTENDS FwdEngines, DataTheorems

-----------------------------------------------------------------------------
(* Types. Those of packets and streams depend on the engine e.              *)

Pc == {"receive", "alloc", "count", "counted", "split", "segments", "io", "mac", "macswap",
       "csum", "icmpecho", "send", "retry", "backout", "backed", "add"}

Protos == {"none", "ip4", "ip6", "arp", "tcp", "udp", "sctp", "icmp", "gre", "ipip"}
InfoType == [is_tunnel : BOOLEAN, ethertype : Protos, l4_proto : Protos,
             outer_ethertype : Protos, outer_l4_proto : Protos]
Done == {"none", "hw", "sw", "zero", "kept", "astray"}
SumsType == [ip : Done, l4 : Done, seg : BOOLEAN, outer_ip : Done, outer_udp : Done]

Addrs == {"received", "peer", "swapped", "replied"}
OutType == [addr : Addrs]
              \cup [addr : Addrs, info : InfoType, cfg : Configs, sums : SumsType]
              \cup [flow : Int] \cup [total : Nat]

(* flowgen's packets are 4 bytes shorter than what was set. *)
LenType(e) == IF e = "flowgen" THEN Int ELSE Nat
KindType(e) == IF e \in {"flowgen", "txonly"} THEN Kinds[e] \cup {Plain} ELSE Kinds[e]
PacketType(e) == [mbufs : Seq(Mbufs[e]), lens : Seq(LenType(e)), kind : KindType(e),
                  out : OutType]

NumLengths == Len(TxPkts[1])

StreamType(e) == [pc : Pc, burst : Seq(PacketType(e)), nb_pkt : 0 .. MAX_PKT_BURST,
                  nb_rx : 0 .. MAX_PKT_BURST, nb_tx : Nat, retry : Nat, i : Nat,
                  info : InfoType, flow : Int, len : Int, split : {"off", "on", "rnd"},
                  nb_segs : 0 .. NumLengths]
CounterType == [rx_packets : Nat, tx_packets : Nat, fwd_dropped : Nat, extra : Int]

SettingTypes ==
    /\ nb_pkt_per_burst \in BurstSizes /\ nb_pkt_per_burst <= MAX_PKT_BURST
    /\ tx_pkt_split \in {"off", "on", "rnd"} /\ csum_config \in Configs
    /\ tx_pkt_seg_lengths \in [1 .. NumLengths -> Nat]
    /\ setting \in Seq(Nat) /\ Len(setting) <= NumLengths /\ nb_set \in 0 .. Len(setting)
    /\ tx_pkt_nb_segs \in 1 .. NumLengths
    /\ tx_pkt_length \in Nat /\ pkt_ip_hdr \in Nat

(* Where an lcore is, and what its array holds there *)
Forwards == {"io", "mac", "macswap", "csum", "icmpecho"}
FlowPcs == {"count", "counted", "backout", "backed", "add"}
TxPcs == {"split", "segments"}
Unsending == {"backout", "backed", "add"}
Place(e, r) ==
    /\ r.pc = "receive" => r = Idle("receive") /\ e # "txonly"
    /\ r.pc \in FlowPcs => e = "flowgen"
    /\ r.pc \in Unsending => r.nb_tx < r.nb_pkt
    /\ r.pc \in TxPcs => /\ e = "txonly" /\ r.nb_pkt < MAX_PKT_BURST
                         /\ Len(r.burst) = r.nb_pkt + 1
    /\ r.pc = "split" => Len(r.burst[r.nb_pkt + 1].lens) = 1
    /\ r.pc = "segments" => Len(r.burst[r.nb_pkt + 1].lens) \in 1 .. r.nb_segs
    /\ r.pc = "alloc" => e \in {"txonly", "flowgen"}
    /\ r.pc \in Forwards => r.pc = e /\ r.nb_rx = r.nb_pkt
    /\ r.pc = "csum" => r.i \in 1 .. r.nb_pkt
    /\ r.pc \notin {"retry"} \cup Unsending => r.nb_tx = 0 /\ r.retry = 0
    /\ e # "flowgen" /\ r.pc \notin TxPcs => Len(r.burst) = r.nb_pkt
    /\ e # "flowgen" => r.nb_tx <= r.nb_pkt
    /\ e = "flowgen" => /\ r.nb_pkt <= Len(r.burst) /\ r.nb_rx <= Len(r.burst)
                        /\ r.nb_tx <= r.nb_pkt \/ r.nb_tx <= r.nb_rx
    /\ e = "rxonly" => r.pc = "receive"

LcoreTypes ==
    /\ st \in [Stream -> StreamType(engine)]
    /\ \A s \in Stream : Place(engine, st[s])
    /\ fs \in [Stream -> CounterType]
    /\ bursts \in [Stream -> Nat] /\ \A s \in Stream : bursts[s] <= MaxBursts[engine][s]

TypeInv ==
    /\ engine \in Engine /\ burst_tx_retry_num \in RetryNums
    /\ SettingTypes
    /\ pool \subseteq Mbuf /\ nic \subseteq PacketType(engine)
    /\ LcoreTypes
    /\ next_flow \in Int
    /\ changes \in 0 .. MaxChanges[engine]
    /\ crashed \subseteq {"index", "headers"} /\ torn \subseteq Stream

-----------------------------------------------------------------------------
(* Numbers of mbufs and bytes *)

LEMMA SeqIs ==
    ASSUME NEW S, NEW n \in Nat, NEW f \in [1 .. n -> S]
    PROVE  f \in Seq(S) /\ Len(f) = n /\ DOMAIN f = 1 .. n
BY SMT

LEMMA SeqTypes ==
    ASSUME NEW S, NEW s \in Seq(S)
    PROVE  /\ Len(s) \in Nat /\ DOMAIN s = 1 .. Len(s) /\ s \in [1 .. Len(s) -> S]
           /\ \A j \in 1 .. Len(s) : s[j] \in S
BY SMT

(* Alloc finds as many mbufs as there are. *)
LEMMA AllocIs ==
    ASSUME IsFiniteSet(pool), NEW k \in 0 .. Cardinality(pool)
    PROVE  Alloc(k) \in [1 .. k -> pool] /\ IsInjective(Alloc(k))
<1> DEFINE n == Cardinality(pool)
<1>1. n \in Nat /\ ExistsBijection(1 .. n, pool)
  BY FS_CountingElements, FS_CardinalityType
<1> HIDE DEF n
<1>2. PICK f \in Bijection(1 .. n, pool) : TRUE
  BY <1>1 DEF ExistsBijection
<1>3. f \in [1 .. n -> pool] /\ \A i, j \in 1 .. n : f[i] = f[j] => i = j
  BY <1>2, Fun_BijectionProperties DEF Bijection, Injection, IsInjective
<1>4. \A i \in 1 .. k : i \in 1 .. n
  BY <1>1 DEF n
<1> DEFINE g == [i \in 1 .. k |-> f[i]]
<1>5. g \in [1 .. k -> pool] /\ IsInjective(g)
  BY <1>3, <1>4 DEF IsInjective
<1> HIDE DEF g
<1>6. \E ms \in [1 .. k -> pool] : IsInjective(ms)
  BY <1>5
<1> QED
  BY <1>6 DEF Alloc

LEMMA BytesIs ==
    ASSUME NEW lens \in Seq(Nat)
    PROVE  Bytes(lens) = Sum(lens, 1 .. Len(lens)) /\ Bytes(lens) \in Nat
<1>1. DOMAIN lens = 1 .. Len(lens) /\ Len(lens) \in Nat /\ \A i \in 1 .. Len(lens) : lens[i] \in Nat
  BY SeqTypes
<1>2. Bytes(lens) = Sum(lens, 1 .. Len(lens))
  BY <1>1 DEF Bytes, FoldFunction, Sum
<1> QED
  BY <1>1, <1>2, PrefixMono

(* A prefix has the bytes of its segments. *)
LEMMA PrefixBytes ==
    ASSUME NEW lens \in Seq(Nat), NEW n \in 0 .. Len(lens)
    PROVE  /\ SubSeq(lens, 1, n) \in Seq(Nat) /\ Len(SubSeq(lens, 1, n)) = n
           /\ \A i \in 1 .. n : SubSeq(lens, 1, n)[i] = lens[i]
           /\ Bytes(SubSeq(lens, 1, n)) = Sum(lens, 1 .. n)
<1> DEFINE t == SubSeq(lens, 1, n)
<1>1. t \in Seq(Nat) /\ Len(t) = n /\ \A i \in 1 .. n : t[i] = lens[i]
  BY CutIs
<1> HIDE DEF t
<1>2. Bytes(t) = Sum(t, 1 .. n)
  BY <1>1, BytesIs
<1>3. IsFiniteSet(1 .. n)
  BY IntervalFinite
<1>4. Sum(t, 1 .. n) = Sum(lens, 1 .. n)
  BY <1>1, <1>3, SumSame
<1> QED
  BY <1>1, <1>2, <1>4 DEF t

(* What NumMbufs counts, packet by packet *)
Takes1(ks) == [j \in DOMAIN ks |-> Len(ks[j].lens)]

LEMMA NumMbufsIs ==
    ASSUME NEW K, \A k \in K : k.lens \in Seq(Nat), NEW ks \in Seq(K)
    PROVE  /\ NumMbufs(ks) = Sum(Takes1(ks), 1 .. Len(ks)) /\ NumMbufs(ks) \in Nat
           /\ \A j \in 1 .. Len(ks) : Takes1(ks)[j] = Len(ks[j].lens) /\ Takes1(ks)[j] \in Nat
<1>1. DOMAIN ks = 1 .. Len(ks) /\ Len(ks) \in Nat /\ \A i \in 1 .. Len(ks) : ks[i] \in K
  BY SeqTypes
<1>2. \A j \in 1 .. Len(ks) : Takes1(ks)[j] = Len(ks[j].lens) /\ Len(ks[j].lens) \in Nat
  BY <1>1, LenProperties DEF Takes1
<1>3. NumMbufs(ks) = Sum(Takes1(ks), 1 .. Len(ks))
  BY <1>1 DEF NumMbufs, Takes1, FoldFunction, Sum
<1> QED
  BY <1>1, <1>2, <1>3, PrefixMono, SMTT(30)

LEMMA NumMbufsPrefix ==
    ASSUME NEW K, \A k \in K : k.lens \in Seq(Nat), NEW ks \in Seq(K), NEW n \in 0 .. Len(ks)
    PROVE  NumMbufs(SubSeq(ks, 1, n)) = Sum(Takes1(ks), 1 .. n)
<1> DEFINE t == SubSeq(ks, 1, n)
<1>1. t \in Seq(K) /\ Len(t) = n /\ \A i \in 1 .. n : t[i] = ks[i]
  BY CutIs
<1> HIDE DEF t
<1>2. NumMbufs(t) = Sum(Takes1(t), 1 .. n) /\ \A j \in 1 .. n : Takes1(t)[j] = Len(t[j].lens)
  BY <1>1, NumMbufsIs
<1>3. \A j \in 1 .. n : Takes1(ks)[j] = Len(ks[j].lens)
  <2>1. \A j \in 1 .. n : j \in 1 .. Len(ks)
    BY LenProperties
  <2> QED
    BY <2>1, NumMbufsIs
<1>4. IsFiniteSet(1 .. n)
  BY IntervalFinite
<1>5. Sum(Takes1(t), 1 .. n) = Sum(Takes1(ks), 1 .. n)
  BY <1>1, <1>2, <1>3, <1>4, SumSame
<1> QED
  BY <1>2, <1>5 DEF t

(***************************************************************************)
(* The packets of RxBurst. Each has mbufs of its own of those allocated,    *)
(* as many as its kind takes, and between them they have them all.          *)
(***************************************************************************)
LEMMA FilledIs ==
    ASSUME NEW K, \A k \in K : k.lens \in Seq(Nat), NEW ks \in Seq(K),
           NEW S, NEW ms \in [1 .. NumMbufs(ks) -> S], IsInjective(ms)
    PROVE  LET pkts == Filled(ks, ms)
           IN  /\ DOMAIN pkts = 1 .. Len(ks)
               /\ \A j \in 1 .. Len(ks) :
                     /\ pkts[j] = [mbufs |-> pkts[j].mbufs, lens |-> ks[j].lens,
                                   kind |-> ks[j], out |-> NoOut]
                     /\ pkts[j].mbufs \in Seq(S)
                     /\ IsInjective(pkts[j].mbufs)
               /\ \A i, j \in 1 .. Len(ks) : Share(pkts[i], pkts[j]) => i = j
               /\ UNION {Range(pkts[j].mbufs) : j \in 1 .. Len(ks)} = Range(ms)
<1> DEFINE pkts == Filled(ks, ms)
           n    == Len(ks)
           F(j) == Sum(Takes1(ks), 1 .. j)
           L(j) == Len(ks[j].lens)
<1>1. n \in Nat /\ DOMAIN ks = 1 .. n
  BY SeqTypes
<1>2. /\ NumMbufs(ks) = F(n) /\ NumMbufs(ks) \in Nat
      /\ \A j \in 1 .. n : Takes1(ks)[j] = L(j) /\ Takes1(ks)[j] \in Nat
  BY NumMbufsIs
<1>3. \A j \in 0 .. n : F(j) \in Nat /\ F(j) <= F(n)
  BY <1>1, <1>2, PrefixMono
<1>4. ASSUME NEW j \in 1 .. n
      PROVE  /\ j - 1 \in 0 .. n /\ F(j) = F(j - 1) + L(j)
             /\ NumMbufs(SubSeq(ks, 1, j - 1)) = F(j - 1)
  <2>1. j - 1 \in 0 .. n /\ (j - 1) + 1 = j /\ j - 1 \in Nat
    BY <1>1
  <2>2. \A i \in 1 .. (j - 1) + 1 : Takes1(ks)[i] \in Nat
    BY <1>1, <1>2, <2>1
  <2>3. F((j - 1) + 1) = F(j - 1) + Takes1(ks)[(j - 1) + 1]
    BY <2>1, <2>2, SumStep
  <2> QED
    BY <1>2, <2>1, <2>3, NumMbufsPrefix
<1> HIDE DEF n, F, L
<1>5. ASSUME NEW j \in 1 .. n
      PROVE  /\ pkts[j] = [mbufs |-> SubSeq(ms, F(j - 1) + 1, F(j - 1) + L(j)),
                           lens |-> ks[j].lens, kind |-> ks[j], out |-> NoOut]
  BY <1>1, <1>4 DEF Filled, L
<1>6. DOMAIN pkts = 1 .. n
  BY <1>1 DEF Filled
<1> HIDE DEF pkts
<1>7. ASSUME NEW j \in 1 .. n
      PROVE  /\ pkts[j].mbufs \in Seq(S)
             /\ Len(pkts[j].mbufs) = L(j)
             /\ \A i \in 1 .. L(j) : /\ F(j - 1) + i \in 1 .. NumMbufs(ks)
                                     /\ pkts[j].mbufs[i] = ms[F(j - 1) + i]
  <2> DEFINE a == F(j - 1) + 1
             b == F(j - 1) + L(j)
             t == SubSeq(ms, a, b)
  <2>1. F(j - 1) \in Nat /\ L(j) \in Nat /\ F(j) = F(j - 1) + L(j) /\ F(j) <= NumMbufs(ks)
        /\ NumMbufs(ks) \in Nat
    BY <1>2, <1>3, <1>4
  <2>2. a \in Int /\ b \in Int /\ \A i \in a .. b : ms[i] \in S
    <3>1. \A i \in a .. b : i \in 1 .. NumMbufs(ks)
      BY <2>1
    <3> QED
      BY <2>1, <3>1
  <2>3. /\ t \in Seq(S) /\ Len(t) = (IF a <= b THEN b - a + 1 ELSE 0)
        /\ \A i \in 1 .. b - a + 1 : t[i] = ms[a + i - 1]
    <3> HIDE DEF a, b
    <3> QED
      BY <2>2, SubSeqProperties
  <2>4. pkts[j].mbufs = t
    <3> HIDE DEF t
    <3>1. pkts[j] = [mbufs |-> t, lens |-> ks[j].lens, kind |-> ks[j], out |-> NoOut]
      BY <1>5 DEF t
    <3> QED
      BY <3>1
  <2> HIDE DEF t
  <2>5. Len(t) = L(j) /\ \A i \in 1 .. L(j) : t[i] = ms[F(j - 1) + i]
    BY <2>1, <2>3, SMTT(30)
  <2>6. \A i \in 1 .. L(j) : F(j - 1) + i \in 1 .. NumMbufs(ks)
    BY <2>1
  <2> QED
    BY <2>3, <2>4, <2>5, <2>6
<1>8. ASSUME NEW j \in 1 .. n
      PROVE  Range(pkts[j].mbufs) = {ms[F(j - 1) + i] : i \in 1 .. L(j)}
  <2> DEFINE m == pkts[j].mbufs
  <2>1. m \in Seq(S) /\ Len(m) = L(j) /\ \A i \in 1 .. L(j) : m[i] = ms[F(j - 1) + i]
    BY <1>7
  <2> HIDE DEF m
  <2>2. Range(m) = {m[i] : i \in 1 .. L(j)}
    BY <2>1, RangeIs
  <2> QED
    BY <2>1, <2>2 DEF m
<1>9. \A a, b \in 1 .. NumMbufs(ks) : ms[a] = ms[b] => a = b
  BY DEF IsInjective
<1>10. ASSUME NEW j \in 1 .. n PROVE IsInjective(pkts[j].mbufs)
  <2>1. DOMAIN pkts[j].mbufs = 1 .. L(j)
    BY <1>7, SeqTypes
  <2>2. F(j - 1) \in Nat
    BY <1>3, <1>4
  <2>3. ASSUME NEW a \in 1 .. L(j), NEW b \in 1 .. L(j), pkts[j].mbufs[a] = pkts[j].mbufs[b]
        PROVE  a = b
    <3>1. F(j - 1) + a = F(j - 1) + b
      BY <1>7, <1>9, <2>3
    <3> QED
      BY <2>2, <3>1
  <2> QED
    BY <2>1, <2>3 DEF IsInjective
<1>11. ASSUME NEW i \in 1 .. n, NEW j \in 1 .. n, i < j PROVE ~ Share(pkts[i], pkts[j])
  <2>1. SUFFICES ASSUME NEW a \in 1 .. L(i), NEW b \in 1 .. L(j),
                        ms[F(i - 1) + a] = ms[F(j - 1) + b]
                 PROVE  FALSE
    BY <1>8 DEF Share
  <2>2. F(i - 1) + a = F(j - 1) + b
    BY <1>7, <1>9, <2>1
  <2>3. F(i) <= F(j - 1)
    <3>1. i \in 0 .. j - 1 /\ j - 1 \in Nat /\ \A k \in 1 .. j - 1 : Takes1(ks)[k] \in Nat
      BY <1>1, <1>2, <1>11
    <3> QED
      BY <3>1, PrefixMono DEF F
  <2>4. F(i) = F(i - 1) + L(i) /\ F(i - 1) \in Nat /\ F(j - 1) \in Nat /\ L(i) \in Nat
    BY <1>2, <1>3, <1>4
  <2> QED
    BY <2>2, <2>3, <2>4
<1>12. ASSUME NEW i \in 1 .. n, NEW j \in 1 .. n, Share(pkts[i], pkts[j]) PROVE i = j
  <2>1. i < j \/ j < i \/ i = j
    BY <1>1
  <2>2. Share(pkts[j], pkts[i])
    BY <1>12 DEF Share
  <2> QED
    BY <1>11, <1>12, <2>1, <2>2
<1>13. Range(ms) = {ms[m] : m \in 1 .. NumMbufs(ks)}
  BY DEF Range
<1>14. ASSUME NEW m \in 1 .. NumMbufs(ks)
       PROVE  \E j \in 1 .. n : ms[m] \in Range(pkts[j].mbufs)
  <2>1. PICK j \in 1 .. n : F(j - 1) < m /\ m <= F(j)
    BY <1>1, <1>2, PrefixFinds DEF F
  <2>2. F(j) = F(j - 1) + L(j) /\ F(j - 1) \in Nat /\ L(j) \in Nat
    BY <1>2, <1>3, <1>4
  <2>3. m - F(j - 1) \in 1 .. L(j) /\ F(j - 1) + (m - F(j - 1)) = m
    BY <2>1, <2>2
  <2> QED
    BY <1>8, <2>3
<1>15. UNION {Range(pkts[j].mbufs) : j \in 1 .. n} = Range(ms)
  <2>1. ASSUME NEW j \in 1 .. n PROVE Range(pkts[j].mbufs) \subseteq Range(ms)
    <3>1. \A i \in 1 .. L(j) : ms[F(j - 1) + i] \in Range(ms)
      BY <1>7, <1>13
    <3> QED
      BY <1>8, <3>1
  <2>2. \A m \in Range(ms) : \E j \in 1 .. n : m \in Range(pkts[j].mbufs)
    BY <1>13, <1>14
  <2> QED
    BY <2>1, <2>2
<1> QED
  BY <1>5, <1>6, <1>7, <1>10, <1>12, <1>15 DEF pkts, n

-----------------------------------------------------------------------------
(* The copy in segments *)

(* What a segment gets of what is left *)
Got(rest, room) ==
    IF rest = <<>> THEN 0 ELSE IF Head(rest) <= room THEN Head(rest) ELSE room

LEMMA NoBytes == Bytes(<<>>) = 0
<1> DEFINE none == <<>>
<1>1. none \in Seq(Nat) /\ Len(none) = 0
  OBVIOUS
<1> HIDE DEF none
<1>2. Bytes(none) = Sum(none, 1 .. 0)
  BY <1>1, BytesIs
<1>3. 1 .. 0 = {}
  OBVIOUS
<1> QED
  BY <1>2, <1>3, SumEmpty DEF none

LEMMA BytesTail ==
    ASSUME NEW lens \in Seq(Nat), lens # <<>>
    PROVE  /\ Head(lens) \in Nat /\ Tail(lens) \in Seq(Nat)
           /\ Bytes(lens) = Head(lens) + Bytes(Tail(lens)) /\ Bytes(Tail(lens)) \in Nat
<1> DEFINE t == Tail(lens)
           n == Len(t)
<1>1. /\ t \in Seq(Nat) /\ Len(t) = Len(lens) - 1 /\ Len(lens) \in Nat \ {0}
      /\ \A i \in 1 .. Len(t) : t[i] = lens[i + 1]
      /\ Head(lens) = lens[1]
  BY HeadTailProperties, EmptySeq
<1>2. \A i \in 1 .. Len(lens) : lens[i] \in Nat
  BY SeqTypes
<1>3. n \in Nat /\ n + 1 = Len(lens) /\ 1 \in 1 .. Len(lens)
  BY <1>1
<1>6. \A i \in 1 .. n : t[i] = lens[i + 1]
  BY <1>1
<1>7. \A i \in 1 .. n + 1 : lens[i] \in Nat
  BY <1>2, <1>3
<1>8. n \in Nat
  BY <1>3
<1> HIDE DEF t, n
<1>4. Sum(lens, 1 .. n + 1) = lens[1] + Sum(t, 1 .. n)
  BY <1>6, <1>7, <1>8, SumTail, Zenon
<1>5. Bytes(lens) = Sum(lens, 1 .. n + 1) /\ Bytes(t) = Sum(t, 1 .. n) /\ Bytes(t) \in Nat
  BY <1>1, <1>3, BytesIs DEF n
<1> QED
  BY <1>1, <1>2, <1>3, <1>4, <1>5 DEF t

LEMMA CopyIntoIs ==
    ASSUME NEW rest \in Seq(Nat), NEW room \in Nat
    PROVE  /\ CopyInto(rest, room) \in Seq(Nat)
           /\ Got(rest, room) \in Nat /\ Got(rest, room) <= room
           /\ Bytes(CopyInto(rest, room)) \in Nat
           /\ Got(rest, room) + Bytes(CopyInto(rest, room)) = Bytes(rest)
<1>1. CASE rest = <<>>
  BY <1>1, NoBytes DEF CopyInto, Got
<1>2. CASE rest # <<>>
  <2>1. /\ Head(rest) \in Nat /\ Tail(rest) \in Seq(Nat)
        /\ Bytes(rest) = Head(rest) + Bytes(Tail(rest)) /\ Bytes(Tail(rest)) \in Nat
    BY <1>2, BytesTail
  <2>2. CASE Head(rest) <= room
    BY <1>2, <2>1, <2>2 DEF CopyInto, Got
  <2>3. CASE ~(Head(rest) <= room)
    <3> DEFINE u == <<Head(rest) - room>> \o Tail(rest)
    <3>1. Head(rest) - room \in Nat
      BY <2>1, <2>3
    <3>2. /\ u \in Seq(Nat) /\ u # <<>> /\ Head(u) = Head(rest) - room
          /\ Tail(u) = Tail(rest)
      <4> DEFINE h == <<Head(rest) - room>>
                 v == Tail(rest)
      <4>1. h \in Seq(Nat) /\ Len(h) = 1 /\ h[1] = Head(rest) - room /\ v \in Seq(Nat)
        BY <2>1, <3>1
      <4> HIDE DEF h, v
      <4>2. /\ h \o v \in Seq(Nat) /\ Len(h \o v) = 1 + Len(v)
            /\ (h \o v)[1] = h[1] /\ \A i \in 1 .. Len(v) : (h \o v)[1 + i] = v[i]
        <5>1. 1 \in 1 .. Len(h)
          BY <4>1
        <5>2. /\ h \o v \in Seq(Nat) /\ Len(h \o v) = Len(h) + Len(v)
              /\ \A i \in 1 .. Len(h) : (h \o v)[i] = h[i]
              /\ \A i \in 1 .. Len(v) : (h \o v)[Len(h) + i] = v[i]
          <6>1. h \in Seq(Nat) /\ v \in Seq(Nat)
            BY <4>1
          <6> QED
            BY <6>1, JoinIs
        <5> QED
          BY <4>1, <5>1, <5>2
      <4> DEFINE w == h \o v
      <4> HIDE DEF w
      <4>3. Len(v) \in Nat /\ w # <<>>
        BY <4>1, <4>2, LenProperties, EmptySeq DEF w
      <4>4. /\ Head(w) = w[1] /\ Tail(w) \in Seq(Nat) /\ Len(Tail(w)) = Len(w) - 1
            /\ \A i \in 1 .. Len(Tail(w)) : Tail(w)[i] = w[i + 1]
        BY <4>2, <4>3, HeadTailProperties DEF w
      <4>5. Len(Tail(w)) = Len(v)
        BY <4>2, <4>3, <4>4 DEF w
      <4>6. \A i \in 1 .. Len(Tail(w)) : Tail(w)[i] = v[i]
        <5>1. \A i \in 1 .. Len(v) : 1 + i = i + 1
          BY <4>3
        <5> QED
          BY <4>2, <4>4, <4>5, <5>1 DEF w
      <4>7. Tail(w) = v
        BY <4>1, <4>4, <4>5, <4>6, SeqEqual
      <4> QED
        BY <4>1, <4>2, <4>3, <4>4, <4>7 DEF w, h, v
    <3> HIDE DEF u
    <3>3. Bytes(u) = Head(u) + Bytes(Tail(u)) /\ Bytes(u) \in Nat
      BY <3>2, BytesTail, BytesIs
    <3>4. CopyInto(rest, room) = u /\ Got(rest, room) = room
      BY <1>2, <2>3 DEF CopyInto, Got, u
    <3>5. room + Bytes(u) = Bytes(rest)
      <4>1. Bytes(Tail(u)) = Bytes(Tail(rest))
        BY <3>2
      <4>2. Bytes(u) = (Head(rest) - room) + Bytes(Tail(rest))
        BY <3>2, <3>3, <4>1
      <4> DEFINE b == Bytes(Tail(rest))
                 a == Head(rest)
      <4> HIDE DEF a, b
      <4>3. Bytes(u) = (a - room) + b /\ Bytes(rest) = a + b /\ a \in Nat /\ b \in Nat
        BY <2>1, <4>2 DEF a, b
      <4> QED
        BY <4>3
    <3>6. room <= room
      OBVIOUS
    <3> QED
      BY <3>2, <3>3, <3>4, <3>5, <3>6
  <2> QED
    BY <2>2, <2>3
<1> QED
  BY <1>1, <1>2

(* The recursion of Left has a solution up to each segment. *)
LeftUpTo(f, src, lens, k) ==
    f = [j \in 0 .. k |-> IF j = 0 THEN src ELSE CopyInto(f[j - 1], lens[j])]

LEMMA LeftExists ==
    ASSUME NEW src, NEW lens, NEW n \in Nat
    PROVE  \E f : LeftUpTo(f, src, lens, n)
<1> DEFINE Bad == {k \in 0 .. n : ~ \E f : LeftUpTo(f, src, lens, k)}
<1>1. SUFFICES ASSUME Bad # {} PROVE FALSE
  OBVIOUS
<1>2. IsFiniteSet(Bad) /\ \A k \in Bad : k \in Int
  <2>1. Bad \subseteq 0 .. n /\ IsFiniteSet(0 .. n)
    BY FS_Interval
  <2> QED
    BY <2>1, FS_Subset
<1>3. PICK k \in Bad : \A i \in Bad : k <= i
  BY <1>1, <1>2, FiniteHasLeast
<1>4. CASE k = 0
  <2>1. LeftUpTo([j \in 0 .. 0 |-> src], src, lens, 0)
    BY DEF LeftUpTo
  <2> QED
    BY <1>3, <1>4, <2>1
<1>5. CASE k # 0
  <2>1. k \in 1 .. n /\ k - 1 \in 0 .. n /\ k - 1 \notin Bad
    BY <1>3, <1>5
  <2>2. PICK f : LeftUpTo(f, src, lens, k - 1)
    BY <2>1
  <2> DEFINE g == [j \in 0 .. k |-> IF j = k THEN CopyInto(f[k - 1], lens[k]) ELSE f[j]]
  <2>3. \A j \in 0 .. k - 1 : f[j] = IF j = 0 THEN src ELSE CopyInto(f[j - 1], lens[j])
    BY <2>2 DEF LeftUpTo
  <2>4. \A j \in 0 .. k : g[j] = IF j = 0 THEN src ELSE CopyInto(g[j - 1], lens[j])
    <3> TAKE j \in 0 .. k
    <3>1. CASE j = k
      <4>1. k - 1 \in 0 .. k /\ k - 1 # k /\ k \in 0 .. k
        BY <2>1
      <4> QED
        BY <1>5, <3>1, <4>1
    <3>2. CASE j # k
      <4>1. j \in 0 .. k - 1
        BY <2>1, <3>2
      <4>2. CASE j = 0
        BY <2>1, <2>3, <3>2, <4>1, <4>2
      <4>3. CASE j # 0
        <5>1. j - 1 \in 0 .. k /\ j - 1 # k
          BY <2>1, <4>1, <4>3
        <5> QED
          BY <2>3, <3>2, <4>1, <4>3, <5>1
      <4> QED
        BY <4>2, <4>3
    <3> QED
      BY <3>1, <3>2
  <2>5. g = [j \in 0 .. k |-> g[j]]
    OBVIOUS
  <2> HIDE DEF g
  <2>6. LeftUpTo(g, src, lens, k)
    BY <2>4, <2>5 DEF LeftUpTo
  <2> QED
    BY <1>3, <2>6
<1> QED
  BY <1>4, <1>5

LEMMA LeftIs ==
    ASSUME NEW src \in Seq(Nat), NEW lens \in Seq(Nat)
    PROVE  /\ Left(src, lens)[0] = src
           /\ \A j \in 1 .. Len(lens) :
                 Left(src, lens)[j] = CopyInto(Left(src, lens)[j - 1], lens[j])
           /\ \A j \in 0 .. Len(lens) : Left(src, lens)[j] \in Seq(Nat)
<1> DEFINE n == Len(lens)
           f == Left(src, lens)
<1>1. n \in Nat /\ \A i \in 1 .. n : lens[i] \in Nat
  BY SeqTypes
<1>2. LeftUpTo(f, src, lens, n)
  <2>1. \E g : LeftUpTo(g, src, lens, n)
    BY <1>1, LeftExists
  <2>2. f = CHOOSE g : LeftUpTo(g, src, lens, n)
    BY DEF Left, LeftUpTo
  <2> HIDE DEF f
  <2> QED
    BY <2>1, <2>2
<1> HIDE DEF f
<1>3. \A j \in 0 .. n : f[j] = IF j = 0 THEN src ELSE CopyInto(f[j - 1], lens[j])
  BY <1>2 DEF LeftUpTo
<1>4. f[0] = src
  BY <1>1, <1>3
<1>5. \A j \in 1 .. n : f[j] = CopyInto(f[j - 1], lens[j])
  BY <1>1, <1>3
<1> DEFINE Bad == {k \in 0 .. n : f[k] \notin Seq(Nat)}
<1>6. SUFFICES ASSUME Bad # {} PROVE FALSE
  BY <1>4, <1>5 DEF f
<1>7. IsFiniteSet(Bad) /\ \A k \in Bad : k \in Int
  <2>1. Bad \subseteq 0 .. n /\ IsFiniteSet(0 .. n)
    BY <1>1, FS_Interval
  <2> QED
    BY <2>1, FS_Subset
<1>8. PICK k \in Bad : \A i \in Bad : k <= i
  BY <1>6, <1>7, FiniteHasLeast
<1>9. k # 0
  BY <1>4, <1>8
<1>10. k \in 1 .. n /\ k - 1 \in 0 .. n /\ f[k - 1] \in Seq(Nat)
  BY <1>1, <1>8, <1>9
<1>11. CopyInto(f[k - 1], lens[k]) \in Seq(Nat)
  BY <1>1, <1>10, CopyIntoIs
<1> QED
  BY <1>5, <1>8, <1>10, <1>11

(* No byte is lost: what the segments got and what is left after them are  *)
(* the bytes of the packet.                                                *)
LEMMA CopiedIs ==
    ASSUME NEW src \in Seq(Nat), NEW lens \in Seq(Nat)
    PROVE  /\ CopiedLens(src, lens) \in Seq(Nat) /\ Len(CopiedLens(src, lens)) = Len(lens)
           /\ \A j \in 1 .. Len(lens) : CopiedLens(src, lens)[j] <= lens[j]
           /\ Len(lens) > 0 => CopiedLens(src, lens)[1] = Got(src, lens[1])
           /\ Left(src, lens)[Len(lens)] = <<>> => Bytes(CopiedLens(src, lens)) = Bytes(src)
<1> DEFINE n == Len(lens)
           f == Left(src, lens)
           c == CopiedLens(src, lens)
<1>1. n \in Nat /\ DOMAIN lens = 1 .. n /\ \A i \in 1 .. n : lens[i] \in Nat
  BY SeqTypes
<1>2. /\ f[0] = src /\ \A j \in 1 .. n : f[j] = CopyInto(f[j - 1], lens[j])
      /\ \A j \in 0 .. n : f[j] \in Seq(Nat)
  BY LeftIs
<1>3. c = [j \in 1 .. n |-> Got(f[j - 1], lens[j])]
  BY <1>1 DEF CopiedLens, Got
<1> HIDE DEF f, c
<1>4. ASSUME NEW j \in 1 .. n
      PROVE  /\ c[j] \in Nat /\ c[j] <= lens[j]
             /\ Bytes(f[j]) \in Nat /\ c[j] + Bytes(f[j]) = Bytes(f[j - 1])
  <2>1. j - 1 \in 0 .. n /\ f[j - 1] \in Seq(Nat) /\ lens[j] \in Nat
    BY <1>1, <1>2
  <2> QED
    BY <1>2, <1>3, <2>1, CopyIntoIs
<1>5. c \in Seq(Nat) /\ Len(c) = n
  <2>1. c \in [1 .. n -> Nat]
    BY <1>3, <1>4
  <2> QED
    BY <1>1, <2>1, SeqIs
<1>6. n > 0 => c[1] = Got(src, lens[1])
  BY <1>1, <1>2, <1>3
<1> DEFINE Bad == {k \in 0 .. n : Sum(c, 1 .. k) + Bytes(f[k]) # Bytes(src)}
<1>7. Bad = {}
  <2>1. SUFFICES ASSUME Bad # {} PROVE FALSE
    OBVIOUS
  <2>2. IsFiniteSet(Bad) /\ \A k \in Bad : k \in Int
    <3>1. Bad \subseteq 0 .. n /\ IsFiniteSet(0 .. n)
      BY <1>1, FS_Interval
    <3> QED
      BY <3>1, FS_Subset
  <2>3. PICK k \in Bad : \A i \in Bad : k <= i
    BY <2>1, <2>2, FiniteHasLeast
  <2>4. CASE k = 0
    <3>1. Sum(c, 1 .. 0) = 0
      <4>1. 1 .. 0 = {}
        OBVIOUS
      <4> QED
        BY <4>1, SumEmpty
    <3>2. Bytes(src) \in Nat
      BY BytesIs
    <3> QED
      BY <1>2, <2>3, <2>4, <3>1, <3>2
  <2>5. CASE k # 0
    <3>1. k \in 1 .. n /\ k - 1 \in 0 .. n /\ k - 1 \in Nat /\ (k - 1) + 1 = k
      BY <1>1, <2>3, <2>5
    <3>2. Sum(c, 1 .. k - 1) + Bytes(f[k - 1]) = Bytes(src)
      BY <2>3, <3>1
    <3>3. Sum(c, 1 .. (k - 1) + 1) = Sum(c, 1 .. k - 1) + c[(k - 1) + 1]
      <4>1. \A i \in 1 .. (k - 1) + 1 : c[i] \in Nat
        BY <1>4, <3>1
      <4> QED
        BY <3>1, <4>1, SumStep
    <3>4. Sum(c, 1 .. k - 1) \in Nat
      <4>1. \A i \in 1 .. n : c[i] \in Nat
        BY <1>4
      <4> QED
        BY <1>1, <3>1, <4>1, PrefixMono
    <3>5. c[k] + Bytes(f[k]) = Bytes(f[k - 1]) /\ Bytes(f[k]) \in Nat /\ c[k] \in Nat
      BY <1>4, <3>1
    <3> QED
      BY <2>3, <3>1, <3>2, <3>3, <3>4, <3>5
  <2> QED
    BY <2>4, <2>5
<1>8. ASSUME f[n] = <<>> PROVE Bytes(c) = Bytes(src)
  <2>1. Bytes(c) = Sum(c, 1 .. n) /\ Bytes(c) \in Nat
    BY <1>5, BytesIs
  <2>2. Sum(c, 1 .. n) + Bytes(f[n]) = Bytes(src)
    BY <1>1, <1>7
  <2> QED
    BY <1>8, <2>1, <2>2, NoBytes
<1> QED
  BY <1>4, <1>5, <1>6, <1>8 DEF f, c

LEMMA SplitIs ==
    ASSUME NEW len \in Nat, NEW lens \in Seq(Nat), Len(lens) > 0
    PROVE  SplitLens(len, lens) \in Seq(Nat) /\ Len(SplitLens(len, lens)) \in 1 .. Len(lens)
<1> DEFINE n      == SegsToUse(len, lens)
           enough == {j \in DOMAIN lens : Bytes(SubSeq(lens, 1, j)) >= len}
<1>1. DOMAIN lens = 1 .. Len(lens) /\ Len(lens) \in Nat
  BY SeqTypes
<1>2. n \in 1 .. Len(lens)
  <2>1. CASE enough = {}
    BY <1>1, <2>1 DEF SegsToUse
  <2>2. CASE enough # {}
    <3>1. IsFiniteSet(enough) /\ (\A j \in enough : j \in Int) /\ enough \subseteq 1 .. Len(lens)
      <4>1. enough \subseteq 1 .. Len(lens) /\ IsFiniteSet(1 .. Len(lens))
        BY <1>1, IntervalFinite
      <4> QED
        BY <4>1, FS_Subset
    <3>2. n = CHOOSE j \in enough : \A k \in enough : j <= k
      BY <2>2 DEF SegsToUse
    <3> HIDE DEF enough, n
    <3>3. \E j \in enough : \A k \in enough : j <= k
      BY <2>2, <3>1, FiniteHasLeast
    <3>4. n \in enough
      BY <3>2, <3>3
    <3> QED
      BY <3>1, <3>4
  <2> QED
    BY <2>1, <2>2
<1> HIDE DEF n
<1> DEFINE t    == SubSeq(lens, 1, n)
           used == Bytes(t)
<1>3. t \in Seq(Nat) /\ Len(t) = n
  BY <1>2, PrefixBytes
<1> HIDE DEF t
<1>4. used \in Nat /\ n \in 1 .. Len(t) /\ t[n] \in Nat
  BY <1>2, <1>3, BytesIs, SeqTypes
<1> HIDE DEF used
<1>5. SplitLens(len, lens) = [t EXCEPT ![n] = IF len > used THEN @ + (len - used) ELSE @]
  BY DEF SplitLens, n, t, used
<1>6. (IF len > used THEN t[n] + (len - used) ELSE t[n]) \in Nat
  BY <1>4
<1> QED
  BY <1>2, <1>3, <1>4, <1>5, <1>6

-----------------------------------------------------------------------------
(* Checksums *)

LEMMA ParseIs ==
    ASSUME NEW pkt \in Packets, NEW old \in InfoType, NEW flags
    PROVE  LET info == Parse(pkt, old, flags)
           IN  /\ info \in InfoType
               /\ ~info.is_tunnel \/ /\ pkt.tunnel # "none"
                                     /\ pkt.tunnel # "ipip" =>
                                          info.outer_l4_proto = OuterProto(pkt.tunnel)
<1>1. pkt.tunnel \in Tunnels /\ pkt.outer_l3 \in Protos /\ pkt.l3 \in Protos /\ pkt.l4 \in Protos
  BY DEF Packets, Protos
<1>2. OuterProto(pkt.tunnel) \in Protos
  BY <1>1 DEF OuterProto, Tunnels, Protos
<1> DEFINE i0 == [old EXCEPT !.is_tunnel = FALSE]
           i1 == ParseEthernet(i0, pkt.outer_l3, OuterProto(pkt.tunnel))
           i2 == KeepOuter(i1, pkt.tunnel)
<1>3. \A i \in InfoType, a \in Protos, b \in Protos :
         /\ ParseEthernet(i, a, b) \in InfoType
         /\ ParseEthernet(i, a, b).is_tunnel = i.is_tunnel
         /\ ParseEthernet(i, a, b).outer_l4_proto = i.outer_l4_proto
  <2>1. "none" \in Protos
    BY DEF Protos
  <2> QED
    BY <2>1 DEF ParseEthernet, InfoType
<1>4. i0 \in InfoType /\ i0.is_tunnel = FALSE
  BY DEF InfoType
<1> HIDE DEF i0
<1>5. i1 \in InfoType /\ i1.is_tunnel = FALSE
  BY <1>1, <1>2, <1>3, <1>4
<1>6. i1.l4_proto = IF pkt.outer_l3 = "arp" THEN "none" ELSE OuterProto(pkt.tunnel)
  BY <1>4 DEF ParseEthernet, InfoType
<1>7. pkt.outer_l3 # "arp"
  BY DEF Packets
<1> HIDE DEF i1
<1>8. i2 \in InfoType /\ (pkt.tunnel # "ipip" => i2.outer_l4_proto = i1.l4_proto)
  BY <1>5 DEF KeepOuter, InfoType
<1> HIDE DEF i2
<1>9. Parse(pkt, old, flags) = IF pkt.tunnel = "none" THEN ParseEthernet(i0, pkt.l3, pkt.l4)
                               ELSE IF "PARSE_TUNNEL" \in flags
                                    THEN ParseEthernet(i2, pkt.l3, pkt.l4) ELSE i1
  BY DEF Parse, i0, i1, i2
<1>10. CASE pkt.tunnel = "none"
  <2> DEFINE p == ParseEthernet(i0, pkt.l3, pkt.l4)
  <2>1. p \in InfoType /\ p.is_tunnel = FALSE
    BY <1>1, <1>3, <1>4
  <2>2. Parse(pkt, old, flags) = p
    BY <1>9, <1>10
  <2> HIDE DEF p
  <2> QED
    BY <2>1, <2>2
<1>11. CASE pkt.tunnel # "none" /\ "PARSE_TUNNEL" \in flags
  <2> DEFINE p == ParseEthernet(i2, pkt.l3, pkt.l4)
  <2>1. p \in InfoType /\ p.outer_l4_proto = i2.outer_l4_proto
    BY <1>1, <1>3, <1>8
  <2>2. Parse(pkt, old, flags) = p
    BY <1>9, <1>11
  <2> HIDE DEF p
  <2>3. pkt.tunnel # "ipip" => p.outer_l4_proto = OuterProto(pkt.tunnel)
    BY <1>6, <1>7, <1>8, <2>1
  <2> QED
    BY <1>11, <2>1, <2>2, <2>3
<1>12. CASE pkt.tunnel # "none" /\ "PARSE_TUNNEL" \notin flags
  BY <1>5, <1>9, <1>12
<1> QED
  BY <1>10, <1>11, <1>12

LEMMA ChecksumsType ==
    ASSUME NEW pkt \in Packets, NEW info \in InfoType, NEW cfg \in Configs
    PROVE  Checksums(pkt, info, cfg) \in SumsType
<1>1. \A flag : HwOr(flag, cfg) \in {"hw", "sw"}
  BY DEF HwOr
<1>2. InnerIp(pkt, info, cfg) \in Done
  BY <1>1 DEF InnerIp, Done
<1>3. InnerL4(pkt, info, cfg) \in Done
  BY <1>1 DEF InnerL4, Done
<1>4. TcpSeg(pkt, info, cfg) \in BOOLEAN
  BY DEF TcpSeg, Packets, Tso
<1>5. OuterIp(info, cfg) \in Done
  BY <1>1 DEF OuterIp, Done
<1>6. OuterUdp(pkt, info, cfg) \in Done
  BY DEF OuterUdp, Done
<1> QED
  BY <1>2, <1>3, <1>4, <1>5, <1>6 DEF Checksums, SumsType

(***************************************************************************)
(* csum does what it promises of a packet whatever came before it in the   *)
(* burst, with the exceptions that Right names.                            *)
(***************************************************************************)
LEMMA ChecksumsRight ==
    ASSUME NEW pkt \in Packets, NEW old \in InfoType, NEW cfg \in Configs
    PROVE  LET info == Parse(pkt, old, cfg.flags)
           IN  Right(pkt, info, cfg, Checksums(pkt, info, cfg))
<1> DEFINE info == Parse(pkt, old, cfg.flags)
           out  == Checksums(pkt, info, cfg)
<1>1. /\ info \in InfoType
      /\ ~info.is_tunnel \/ /\ pkt.tunnel # "none"
                            /\ pkt.tunnel # "ipip" => info.outer_l4_proto = OuterProto(pkt.tunnel)
  BY ParseIs
<1> HIDE DEF info
<1>2. SUFFICES Right(pkt, info, cfg, out)
  BY DEF info
<1>3. pkt.tunnel \in {"none", "vxlan", "gre", "ipip"}
  BY DEF Packets, Tunnels
<1>4. \A flag : HwOr(flag, cfg) \in {"hw", "sw"} /\ (HwOr(flag, cfg) = "hw" => flag \in cfg.flags)
  BY DEF HwOr
<1>5. /\ out.ip = InnerIp(pkt, info, cfg) /\ out.l4 = InnerL4(pkt, info, cfg)
      /\ out.seg = TcpSeg(pkt, info, cfg) /\ out.outer_udp = OuterUdp(pkt, info, cfg)
  BY DEF Checksums
<1> HIDE DEF out
<1>6. ToSum(pkt, info) => out.l4 \in {"hw", "sw"} \/ NoCrc(pkt, info, cfg)
  BY <1>4, <1>5 DEF InnerL4, ToSum, NoCrc
<1>7. pkt.tunnel # "vxlan" => OuterUdp(pkt, info, cfg) = "none" \/ StaleOuter(pkt, info)
  BY <1>1, <1>3 DEF OuterUdp, OuterProto, StaleOuter
<1>8. ASSUME TcpSeg(pkt, info, cfg)
      PROVE  /\ out.ip # "sw" /\ out.l4 = "hw" /\ out.outer_udp \notin {"sw", "kept"}
  <2>1. info.ethertype \in {"ip4", "ip6"} /\ info.l4_proto = "tcp" /\ Tso(pkt, info, cfg)
    BY <1>8 DEF TcpSeg
  <2>2. InnerIp(pkt, info, cfg) # "sw"
    BY <2>1 DEF InnerIp
  <2>3. InnerL4(pkt, info, cfg) = "hw"
    BY <2>1 DEF InnerL4
  <2>4. OuterUdp(pkt, info, cfg) \notin {"sw", "kept"}
    BY <1>8 DEF OuterUdp
  <2> QED
    BY <1>5, <2>2, <2>3, <2>4
<1>9. ASSUME out.outer_udp = "sw"
      PROVE  "hw" \notin {out.ip, out.l4} \/ InnerInHw(pkt, cfg)
  <2>1. pkt.tunnel = "vxlan" /\ ~TcpSeg(pkt, info, cfg)
    BY <1>5, <1>9 DEF OuterUdp
  <2>2. info.ethertype = "ip4" => ~(info.l4_proto = "tcp" /\ Tso(pkt, info, cfg))
    BY <2>1 DEF TcpSeg
  <2>3. out.ip = "hw" => "IP" \in cfg.flags
    BY <1>4, <1>5, <2>2 DEF InnerIp
  <2>4. out.l4 = "hw" => cfg.flags \cap {"UDP", "TCP", "SCTP"} # {}
    BY <1>4, <1>5, <2>1 DEF InnerL4, TcpSeg
  <2> QED
    BY <2>1, <2>3, <2>4 DEF InnerInHw
<1> QED
  BY <1>5, <1>6, <1>7, <1>8, <1>9 DEF Right

-----------------------------------------------------------------------------
(* The initial state has the types. *)

LEMMA NumLengthsIs == NumLengths \in Nat /\ NumLengths > 0
BY EnginesAssumption, LenProperties DEF NumLengths

LEMMA Constants ==
    ASSUME TypeInv
    PROVE  /\ engine \in Engine
           /\ engine \in {"io", "mac", "macswap", "rxonly", "txonly", "flowgen", "csum",
                          "icmpecho"}
           /\ IsFiniteSet(Stream) /\ IsFiniteSet(Mbuf) /\ IsFiniteSet(pool)
           /\ Cardinality(pool) \in Nat
           /\ MAX_PKT_BURST \in Nat /\ MAX_PKT_BURST > 0
           /\ nb_pkt_per_burst \in 0 .. MAX_PKT_BURST
           /\ burst_tx_retry_num \in Nat
           /\ cfg_n_flows \in Nat /\ cfg_n_flows > 0
           /\ HDR_LEN \in Nat /\ HDR_LEN > 0 /\ tailroom \in Nat
           /\ \A k \in Kinds[engine] : k.lens \in Seq(Nat)
           /\ NumLengths \in Nat /\ NumLengths > 0
<1>1. engine \in Engine /\ pool \subseteq Mbuf
  BY DEF TypeInv
<1>2. IsFiniteSet(Mbuf)
  BY <1>1, EnginesAssumption DEF Mbuf
<1>3. IsFiniteSet(pool) /\ Cardinality(pool) \in Nat
  BY <1>1, <1>2, FS_Subset, FS_CardinalityType
<1>4. /\ MAX_PKT_BURST \in Nat /\ MAX_PKT_BURST > 0 /\ cfg_n_flows \in Nat /\ cfg_n_flows > 0
      /\ HDR_LEN \in Nat /\ HDR_LEN > 0 /\ tailroom \in Nat
  BY EnginesAssumption
<1>5. nb_pkt_per_burst \in 0 .. MAX_PKT_BURST
  BY <1>4, EnginesAssumption DEF TypeInv, SettingTypes
<1>6. burst_tx_retry_num \in Nat
  BY EnginesAssumption DEF TypeInv
<1>8. \A k \in Kinds[engine] : k.lens \in Seq(Nat)
  BY <1>1, EnginesAssumption
<1> QED
  BY <1>1, <1>2, <1>3, <1>4, <1>5, <1>6, <1>8, NumLengthsIs, EnginesAssumption

LEMMA IdleType ==
    ASSUME NEW e, NEW pc \in Pc, MAX_PKT_BURST \in Nat
    PROVE  /\ Idle(pc) \in StreamType(e)
           /\ Idle(pc).pc = pc /\ Idle(pc).burst = <<>> /\ Len(Idle(pc).burst) = 0
           /\ Idle(pc).nb_pkt = 0 /\ Idle(pc).nb_rx = 0 /\ Idle(pc).nb_tx = 0
           /\ Idle(pc).retry = 0
<1>4. 0 \in 0 .. NumLengths
  BY NumLengthsIs
<1>1. NoInfo \in InfoType
  BY DEF NoInfo, InfoType, Protos
<1>2. \A S : <<>> \in Seq(S)
  OBVIOUS
<1>3. <<>> \in Seq(PacketType(e)) /\ 0 \in 0 .. MAX_PKT_BURST
  BY <1>2
<1> QED
  BY <1>1, <1>3, <1>4 DEF Idle, StreamType

LEMMA FirstIs ==
    ASSUME TypeInv
    PROVE  /\ FirstPc \in Pc /\ FirstPc = (IF engine = "txonly" THEN "alloc" ELSE "receive")
           /\ Idle(FirstPc) \in StreamType(engine) /\ Place(engine, Idle(FirstPc))
<1>1. FirstPc \in Pc /\ FirstPc = (IF engine = "txonly" THEN "alloc" ELSE "receive")
  BY DEF FirstPc, Pc
<1> DEFINE r == Idle(FirstPc)
<1>2. MAX_PKT_BURST \in Nat
  BY Constants
<1>3. /\ r \in StreamType(engine) /\ r.pc = FirstPc /\ Len(r.burst) = 0 /\ r.nb_pkt = 0
      /\ r.nb_rx = 0 /\ r.nb_tx = 0 /\ r.retry = 0
  BY <1>1, <1>2, IdleType
<1>4. r.pc = "receive" => r = Idle("receive")
  BY <1>1, <1>3
<1> HIDE DEF r
<1>5. Place(engine, r)
  BY <1>1, <1>3, <1>4, Constants DEF Place, Forwards, FlowPcs, TxPcs, Unsending
<1> QED
  BY <1>1, <1>3, <1>5 DEF r

LEMMA TypeInit == Init => TypeInv
<1> SUFFICES ASSUME Init PROVE TypeInv
  OBVIOUS
<1>1. /\ engine \in Engine /\ burst_tx_retry_num \in RetryNums /\ pool = Mbuf /\ nic = {}
      /\ crashed = {} /\ changes = 0 /\ next_flow = 0 /\ torn = {}
  BY DEF Init
<1>2. changes \in 0 .. MaxChanges[engine] /\ \A s \in Stream : 0 <= MaxBursts[engine][s]
  BY <1>1, EnginesAssumption
<1>3. SettingTypes
  <2>1. /\ TxPkts \in Seq(Seq(Nat)) /\ Len(TxPkts) > 0 /\ Len(TxPkts[1]) > 0
    BY EnginesAssumption
  <2>2. TxPkts[1] \in Seq(Nat)
    BY <2>1
  <2>3. /\ TxPkts[1][1] \in Nat /\ 1 \in 1 .. NumLengths
        /\ TxPkts[1] \in [1 .. NumLengths -> Nat]
    BY <2>1, <2>2, LenProperties DEF NumLengths
  <2>4. csum_config \in Configs
    BY EnginesAssumption DEF Init
  <2>5. MAX_PKT_BURST \in BurstSizes /\ MAX_PKT_BURST <= MAX_PKT_BURST
    BY EnginesAssumption
  <2>6. setting \in Seq(Nat) /\ Len(setting) = 0 /\ 0 <= NumLengths /\ nb_set = 0
    BY NumLengthsIs DEF Init
  <2> QED
    BY <2>1, <2>2, <2>3, <2>4, <2>5, <2>6 DEF Init, SettingTypes
<1>4. LcoreTypes
  <2>1. FirstPc \in Pc /\ MAX_PKT_BURST \in Nat
        /\ FirstPc = (IF engine = "txonly" THEN "alloc" ELSE "receive")
    BY EnginesAssumption DEF FirstPc, Pc
  <2>2. Idle(FirstPc) \in StreamType(engine)
    BY <2>1, IdleType
  <2>3. Place(engine, Idle(FirstPc))
    <3>1. engine \in {"io", "mac", "macswap", "rxonly", "txonly", "flowgen", "csum",
                      "icmpecho"}
      BY <1>1, EnginesAssumption
    <3> DEFINE r == Idle(FirstPc)
    <3>2. /\ r.pc = FirstPc /\ Len(r.burst) = 0 /\ r.nb_pkt = 0
          /\ r.nb_rx = 0 /\ r.nb_tx = 0 /\ r.retry = 0
      BY <2>1, IdleType
    <3>3. r.pc = "receive" => r = Idle("receive")
      BY <2>1, <3>2
    <3> HIDE DEF r
    <3>4. Place(engine, r)
      BY <2>1, <3>1, <3>2, <3>3 DEF Place, Forwards, FlowPcs, TxPcs, Unsending
    <3> QED
      BY <3>4 DEF r
  <2>4. st = [s \in Stream |-> Idle(FirstPc)]
    BY DEF Init
  <2>5. fs \in [Stream -> CounterType] /\ bursts = [s \in Stream |-> 0]
    BY DEF Init, CounterType
  <2> QED
    BY <1>2, <2>2, <2>3, <2>4, <2>5 DEF LcoreTypes
<1> QED
  BY <1>1, <1>2, <1>3, <1>4 DEF TypeInv

-----------------------------------------------------------------------------
(* What a step of an lcore does to the variables, in general *)

LEMMA SetIs ==
    ASSUME TypeInv, NEW s \in Stream, NEW r, Set(s, r)
    PROVE  /\ st' = [st EXCEPT ![s] = r] /\ st'[s] = r
           /\ \A t \in Stream \ {s} : st'[t] = st[t]
           /\ DOMAIN st' = Stream
BY DEF Set, TypeInv, LcoreTypes

LEMMA StreamIs ==
    ASSUME TypeInv, NEW s \in Stream
    PROVE  /\ st[s] \in StreamType(engine) /\ Place(engine, st[s])
           /\ fs[s] \in CounterType /\ bursts[s] \in Nat
           /\ st[s].burst \in Seq(PacketType(engine))
           /\ DOMAIN st[s].burst = 1 .. Len(st[s].burst) /\ Len(st[s].burst) \in Nat
           /\ \A j \in 1 .. Len(st[s].burst) : st[s].burst[j] \in PacketType(engine)
           /\ st[s].pc \in Pc
           /\ st[s].nb_pkt \in Nat /\ st[s].nb_rx \in Nat /\ st[s].nb_tx \in Nat
           /\ st[s].nb_pkt <= MAX_PKT_BURST /\ st[s].nb_rx <= MAX_PKT_BURST
           /\ st[s].retry \in Nat /\ st[s].i \in Nat
           /\ st[s].info \in InfoType /\ st[s].flow \in Int /\ st[s].len \in Int
           /\ st[s].split \in {"off", "on", "rnd"} /\ st[s].nb_segs \in 0 .. NumLengths
<1>1. /\ st[s] \in StreamType(engine) /\ Place(engine, st[s])
      /\ fs[s] \in CounterType /\ bursts[s] \in Nat
  BY DEF TypeInv, LcoreTypes
<1>2. st[s].burst \in Seq(PacketType(engine))
  BY <1>1 DEF StreamType
<1>3. /\ DOMAIN st[s].burst = 1 .. Len(st[s].burst) /\ Len(st[s].burst) \in Nat
      /\ \A j \in 1 .. Len(st[s].burst) : st[s].burst[j] \in PacketType(engine)
  BY <1>2, SeqTypes
<1>4. MAX_PKT_BURST \in Nat
  BY Constants
<1> QED
  BY <1>1, <1>2, <1>3, <1>4 DEF StreamType

(* An lcore's step that leaves the settings alone *)
LEMMA TypeStep ==
    ASSUME TypeInv, NEW s \in Stream, NEW r \in StreamType(engine), Place(engine, r),
           Set(s, r), UNCHANGED <<settings, fixed, changes>>,
           \/ UNCHANGED bursts
           \/ bursts[s] < MaxBursts[engine][s] /\ bursts' = [bursts EXCEPT ![s] = @ + 1],
           fs' \in [Stream -> CounterType],
           pool' \subseteq Mbuf, nic' \subseteq PacketType(engine), next_flow' \in Int,
           crashed' \subseteq {"index", "headers"},
           UNCHANGED history \/ UNCHANGED torn \/ torn' \subseteq Stream
    PROVE  TypeInv'
<1>7. torn' \subseteq Stream
  BY DEF history, TypeInv
<1>1. engine' = engine /\ burst_tx_retry_num' = burst_tx_retry_num /\ changes' = changes
  BY DEF fixed
<1>2. SettingTypes'
  BY DEF SettingTypes, settings, segments, fixed, TypeInv
<1>3. Mbuf' = Mbuf
  BY <1>1 DEF Mbuf
<1>4. st' \in [Stream -> StreamType(engine)] /\ \A t \in Stream : Place(engine, st'[t])
  <2>1. /\ st' = [st EXCEPT ![s] = r] /\ st'[s] = r
        /\ \A t \in Stream \ {s} : st'[t] = st[t]
    BY SetIs
  <2>2. st \in [Stream -> StreamType(engine)] /\ \A t \in Stream : Place(engine, st[t])
    BY DEF TypeInv, LcoreTypes
  <2>3. \A t \in Stream : Place(engine, st'[t])
    <3> TAKE t \in Stream
    <3>1. CASE t = s
      BY <2>1, <3>1
    <3>2. CASE t # s
      BY <2>1, <2>2, <3>2
    <3> QED
      BY <3>1, <3>2
  <2> QED
    BY <2>1, <2>2, <2>3
<1>5. bursts' \in [Stream -> Nat] /\ \A t \in Stream : bursts'[t] <= MaxBursts[engine][t]
  <2>1. /\ bursts \in [Stream -> Nat] /\ \A t \in Stream : bursts[t] <= MaxBursts[engine][t]
        /\ MaxBursts[engine] \in [Stream -> Nat]
    BY EnginesAssumption DEF TypeInv, LcoreTypes
  <2>2. CASE UNCHANGED bursts
    BY <2>1, <2>2
  <2>3. CASE bursts[s] < MaxBursts[engine][s] /\ bursts' = [bursts EXCEPT ![s] = @ + 1]
    BY <2>1, <2>3
  <2> QED
    BY <2>2, <2>3
<1>6. LcoreTypes'
  BY <1>1, <1>4, <1>5 DEF LcoreTypes
<1> QED
  BY <1>1, <1>2, <1>3, <1>6, <1>7 DEF TypeInv

(* The engine returns. *)
LEMMA TypeReturns ==
    ASSUME TypeInv, NEW s \in Stream, bursts[s] < MaxBursts[engine][s], Returns(s),
           UNCHANGED <<settings, fixed, changes>>,
           fs' \in [Stream -> CounterType],
           pool' \subseteq Mbuf, nic' \subseteq PacketType(engine), next_flow' \in Int,
           crashed' \subseteq {"index", "headers"}, UNCHANGED history
    PROVE  TypeInv'
<1>1. Idle(FirstPc) \in StreamType(engine) /\ Place(engine, Idle(FirstPc))
  BY FirstIs
<1>2. Set(s, Idle(FirstPc)) /\ bursts' = [bursts EXCEPT ![s] = @ + 1]
  BY DEF Returns
<1> QED
  BY <1>1, <1>2, TypeStep

-----------------------------------------------------------------------------
(* What the actions do to a packet and a burst *)

LEMMA OutTypes ==
    /\ NoOut \in OutType /\ NoOut.addr = "received"
    /\ \A a \in Addrs : [addr |-> a] \in OutType
    /\ \A a \in Addrs, info \in InfoType, cfg \in Configs, sums \in SumsType :
          [addr |-> a, info |-> info, cfg |-> cfg, sums |-> sums] \in OutType
    /\ \A f \in Int : [flow |-> f] \in OutType
    /\ \A n \in Nat : [total |-> n] \in OutType
<1>1. \A a \in Addrs : [addr |-> a] \in OutType
  BY DEF OutType
<1>2. NoOut \in OutType /\ NoOut.addr = "received"
  BY <1>1 DEF NoOut, Addrs
<1> QED
  BY <1>1, <1>2 DEF OutType

LEMMA PacketIs ==
    ASSUME NEW e, NEW p \in PacketType(e)
    PROVE  /\ p.mbufs \in Seq(Mbufs[e]) /\ p.lens \in Seq(LenType(e)) /\ p.kind \in KindType(e)
           /\ p.out \in OutType /\ Range(p.mbufs) \subseteq Mbufs[e]
           /\ e # "flowgen" => p.lens \in Seq(Nat)
<1>1. /\ p.mbufs \in Seq(Mbufs[e]) /\ p.lens \in Seq(LenType(e)) /\ p.kind \in KindType(e)
      /\ p.out \in OutType
  BY DEF PacketType
<1>2. Range(p.mbufs) \subseteq Mbufs[e]
  BY <1>1, RangeIs
<1> QED
  BY <1>1, <1>2 DEF LenType

LEMMA MbufsType ==
    ASSUME NEW P, P \subseteq PacketType(engine)
    PROVE  MbufsOf(P) \subseteq Mbuf
<1>1. \A p \in P : Range(p.mbufs) \subseteq Mbuf
  BY PacketIs DEF Mbuf
<1> QED
  BY <1>1 DEF MbufsOf

LEMMA RewrittenIs ==
    ASSUME TypeInv, NEW s \in Stream, NEW addr \in Addrs
    PROVE  LET b == Rewritten(s, addr)
           IN  /\ b \in Seq(PacketType(engine)) /\ Len(b) = Len(st[s].burst)
               /\ \A j \in 1 .. Len(b) :
                     /\ b[j].mbufs = st[s].burst[j].mbufs /\ b[j].lens = st[s].burst[j].lens
                     /\ b[j].kind = st[s].burst[j].kind /\ b[j].out = [addr |-> addr]
<1> DEFINE b == Rewritten(s, addr)
           n == Len(st[s].burst)
<1>1. n \in Nat /\ DOMAIN st[s].burst = 1 .. n
      /\ \A j \in 1 .. n : st[s].burst[j] \in PacketType(engine)
  BY StreamIs
<1> HIDE DEF n
<1>2. b = [j \in 1 .. n |-> [st[s].burst[j] EXCEPT !.out = [addr |-> addr]]]
  BY <1>1 DEF Rewritten
<1> HIDE DEF b
<1>3. ASSUME NEW j \in 1 .. n
      PROVE  /\ b[j] \in PacketType(engine)
             /\ b[j].mbufs = st[s].burst[j].mbufs /\ b[j].lens = st[s].burst[j].lens
             /\ b[j].kind = st[s].burst[j].kind /\ b[j].out = [addr |-> addr]
  <2> DEFINE p == st[s].burst[j]
             o == [addr |-> addr]
  <2>1. p \in PacketType(engine) /\ o \in OutType
    BY <1>1, OutTypes
  <2>2. b[j] = [p EXCEPT !.out = o]
    BY <1>2
  <2> HIDE DEF p, o
  <2>3. /\ b[j] \in PacketType(engine) /\ b[j].mbufs = p.mbufs /\ b[j].lens = p.lens
        /\ b[j].kind = p.kind /\ b[j].out = o
    BY <2>1, <2>2 DEF PacketType
  <2> QED
    BY <2>3 DEF p, o
<1>4. b \in [1 .. n -> PacketType(engine)]
  BY <1>2, <1>3
<1>5. b \in Seq(PacketType(engine)) /\ Len(b) = n
  BY <1>1, <1>4, SeqIs
<1> QED
  BY <1>3, <1>5 DEF b, n

(***************************************************************************)
(* A burst that comes in: n packets with mbufs of their own, that were free *)
(* and are freed at once in rxonly and flowgen.                             *)
(***************************************************************************)
Received(s, n, pkts, S) ==
    /\ n \in 0 .. MAX_PKT_BURST /\ pkts \in Seq(PacketType(engine)) /\ Len(pkts) = n
    /\ n = 0 => engine = "flowgen"
    /\ S \subseteq pool /\ UNION {Range(pkts[j].mbufs) : j \in 1 .. n} = S
    /\ \A j \in 1 .. n : /\ IsInjective(pkts[j].mbufs) /\ pkts[j].kind \in Kinds[engine]
                         /\ pkts[j].lens = pkts[j].kind.lens /\ pkts[j].out = NoOut
    /\ \A i, j \in 1 .. n : Share(pkts[i], pkts[j]) => i = j
    /\ pool' = IF engine \in {"rxonly", "flowgen"} THEN pool ELSE pool \ S
    /\ fs' = [fs EXCEPT ![s].rx_packets = @ + n]
    /\ IF engine = "rxonly"
       THEN Returns(s)
       ELSE /\ Set(s, IF engine = "flowgen"
                      THEN [st[s] EXCEPT !.pc = "alloc", !.burst = pkts, !.nb_rx = n,
                                         !.len = tx_pkt_length - 4]
                      ELSE [st[s] EXCEPT !.pc = engine, !.burst = pkts, !.nb_rx = n,
                                         !.nb_pkt = n])
            /\ UNCHANGED bursts

LEMMA RxIs ==
    ASSUME TypeInv, NEW s \in Stream, RxBurst(s)
    PROVE  \E n, pkts, S : Received(s, n, pkts, S)
<1>0. PICK n \in 0 .. nb_pkt_per_burst : \E ks \in [1 .. n -> Kinds[engine]] :
          LET ms   == Alloc(NumMbufs(ks))
              pkts == Filled(ks, ms)
          IN  /\ n = 0 => engine = "flowgen"
              /\ NumMbufs(ks) <= Cardinality(pool)
              /\ pool' = (pool \ Range(ms)) \cup FreedOnReceipt(s, Range(pkts))
              /\ fs' = [fs EXCEPT ![s].rx_packets = @ + n]
              /\ IF engine = "rxonly"
                 THEN Returns(s)
                 ELSE /\ Set(s, IF engine = "flowgen"
                                THEN [st[s] EXCEPT !.pc = "alloc", !.burst = pkts, !.nb_rx = n,
                                                   !.len = tx_pkt_length - 4]
                                ELSE [st[s] EXCEPT !.pc = engine, !.burst = pkts, !.nb_rx = n,
                                                   !.nb_pkt = n])
                      /\ UNCHANGED bursts
  BY DEF RxBurst
<1>1. PICK ks \in [1 .. n -> Kinds[engine]] :
          LET ms   == Alloc(NumMbufs(ks))
              pkts == Filled(ks, ms)
          IN  /\ n = 0 => engine = "flowgen"
              /\ NumMbufs(ks) <= Cardinality(pool)
              /\ pool' = (pool \ Range(ms)) \cup FreedOnReceipt(s, Range(pkts))
              /\ fs' = [fs EXCEPT ![s].rx_packets = @ + n]
              /\ IF engine = "rxonly"
                 THEN Returns(s)
                 ELSE /\ Set(s, IF engine = "flowgen"
                                THEN [st[s] EXCEPT !.pc = "alloc", !.burst = pkts, !.nb_rx = n,
                                                   !.len = tx_pkt_length - 4]
                                ELSE [st[s] EXCEPT !.pc = engine, !.burst = pkts, !.nb_rx = n,
                                                   !.nb_pkt = n])
                      /\ UNCHANGED bursts
  BY <1>0
<1> DEFINE ms   == Alloc(NumMbufs(ks))
           pkts == Filled(ks, ms)
           S    == Range(ms)
<1>2. /\ n \in Nat /\ n \in 0 .. MAX_PKT_BURST /\ IsFiniteSet(pool) /\ Cardinality(pool) \in Nat
      /\ \A k \in Kinds[engine] : k.lens \in Seq(Nat)
  BY Constants
<1>3. ks \in Seq(Kinds[engine]) /\ Len(ks) = n /\ DOMAIN ks = 1 .. n
  BY <1>2, SeqIs
<1>4. NumMbufs(ks) \in Nat
  BY <1>2, <1>3, NumMbufsIs
<1>5. ms \in [1 .. NumMbufs(ks) -> pool] /\ IsInjective(ms)
  BY <1>1, <1>2, <1>4, AllocIs
<1> HIDE DEF ms
<1>6. /\ DOMAIN pkts = 1 .. n
      /\ \A j \in 1 .. n :
            /\ pkts[j] = [mbufs |-> pkts[j].mbufs, lens |-> ks[j].lens,
                          kind |-> ks[j], out |-> NoOut]
            /\ pkts[j].mbufs \in Seq(pool)
            /\ IsInjective(pkts[j].mbufs)
      /\ \A i, j \in 1 .. n : Share(pkts[i], pkts[j]) => i = j
      /\ UNION {Range(pkts[j].mbufs) : j \in 1 .. n} = S
  BY <1>2, <1>3, <1>5, FilledIs
<1>7. pkts = [j \in 1 .. n |-> pkts[j]]
  BY <1>3 DEF Filled
<1>8. /\ n = 0 => engine = "flowgen"
      /\ pool' = (pool \ S) \cup FreedOnReceipt(s, Range(pkts))
      /\ fs' = [fs EXCEPT ![s].rx_packets = @ + n]
      /\ IF engine = "rxonly"
         THEN Returns(s)
         ELSE /\ Set(s, IF engine = "flowgen"
                        THEN [st[s] EXCEPT !.pc = "alloc", !.burst = pkts, !.nb_rx = n,
                                           !.len = tx_pkt_length - 4]
                        ELSE [st[s] EXCEPT !.pc = engine, !.burst = pkts, !.nb_rx = n,
                                           !.nb_pkt = n])
              /\ UNCHANGED bursts
  BY <1>1 DEF ms
<1> HIDE DEF pkts
<1>9. S \subseteq pool
  BY <1>5 DEF Range
<1> HIDE DEF S
<1>10. ASSUME NEW j \in 1 .. n
       PROVE  /\ pkts[j] \in PacketType(engine) /\ pkts[j].kind \in Kinds[engine]
              /\ pkts[j].lens = pkts[j].kind.lens /\ pkts[j].out = NoOut
  <2> DEFINE m == pkts[j].mbufs
             k == ks[j]
  <2>1. k \in Kinds[engine] /\ k.lens \in Seq(Nat)
    BY <1>2
  <2>2. m \in Seq(Mbufs[engine])
    <3>1. pool \subseteq Mbufs[engine]
      BY DEF TypeInv, Mbuf
    <3> QED
      BY <1>6, <3>1
  <2>3. k.lens \in Seq(LenType(engine)) /\ k \in KindType(engine)
    BY <2>1 DEF LenType, KindType
  <2>4. pkts[j] = [mbufs |-> m, lens |-> k.lens, kind |-> k, out |-> NoOut]
    BY <1>6
  <2> HIDE DEF m, k
  <2> QED
    BY <2>1, <2>2, <2>3, <2>4, OutTypes DEF PacketType
<1>11. pkts \in Seq(PacketType(engine)) /\ Len(pkts) = n
  <2>1. pkts \in [1 .. n -> PacketType(engine)]
    BY <1>7, <1>10
  <2> QED
    BY <1>2, <2>1, SeqIs
<1>12. pool' = IF engine \in {"rxonly", "flowgen"} THEN pool ELSE pool \ S
  <2>1. Range(pkts) = {pkts[j] : j \in 1 .. n}
    BY <1>6 DEF Range
  <2>2. MbufsOf(Range(pkts)) = S
    BY <1>6, <2>1 DEF MbufsOf
  <2> QED
    BY <1>8, <1>9, <2>2 DEF FreedOnReceipt
<1>13. Received(s, n, pkts, S)
  BY <1>2, <1>6, <1>8, <1>9, <1>10, <1>11, <1>12 DEF Received
<1> QED
  BY <1>13

(***************************************************************************)
(* A packet of csum: what becomes of packet i of the burst. It stays in    *)
(* its mbufs or goes into others, which were free.                         *)
(***************************************************************************)
LEMMA SegsIs ==
    ASSUME TypeInv
    PROVE  /\ tx_pkt_seg_lengths \in Seq(Nat) /\ Len(tx_pkt_seg_lengths) = NumLengths
           /\ tx_pkt_nb_segs \in Nat /\ tx_pkt_nb_segs \in 1 .. NumLengths
           /\ \A n \in NumsOfSegs :
                 /\ n \in Nat /\ n > 0 /\ n <= tx_pkt_nb_segs /\ n \in 1 .. NumLengths
                 /\ n \in 1 .. Len(tx_pkt_seg_lengths)
<1>1. NumLengths \in Nat
  BY Constants
<1>2. tx_pkt_seg_lengths \in [1 .. NumLengths -> Nat] /\ tx_pkt_nb_segs \in 1 .. NumLengths
  BY DEF TypeInv, SettingTypes
<1>3. tx_pkt_seg_lengths \in Seq(Nat) /\ Len(tx_pkt_seg_lengths) = NumLengths
  BY <1>1, <1>2, SeqIs
<1> QED
  BY <1>1, <1>2, <1>3 DEF NumsOfSegs

Fits(lens) == \A j \in DOMAIN lens : lens[j] <= tailroom

Summed(s, new) ==
    LET pkt == st[s].burst[st[s].i]
    IN  /\ new \in PacketType(engine) /\ new.kind = pkt.kind
        /\ new.out.addr = "peer"
        /\ Right(new.kind.hdr, new.out.info, new.out.cfg, new.out.sums)
        /\ Bytes(new.lens) = Bytes(pkt.lens)
        /\ Fits(pkt.lens) => Fits(new.lens)
        /\ \/ new.mbufs = pkt.mbufs /\ UNCHANGED pool
           \/ /\ IsInjective(new.mbufs) /\ Range(new.mbufs) \subseteq pool
              /\ pool' = (pool \ Range(new.mbufs)) \cup Range(pkt.mbufs)

LEMMA CsumIs ==
    ASSUME TypeInv, NEW s \in Stream, CsumPacket(s)
    PROVE  \E new : /\ Summed(s, new)
                    /\ \E info \in InfoType :
                          Set(s, [st[s] EXCEPT !.i = @ + 1, !.info = info,
                                     !.pc = IF st[s].i = st[s].nb_rx THEN "send" ELSE "csum",
                                     !.burst = [@ EXCEPT ![st[s].i] = new]])
<1> DEFINE i    == st[s].i
           pkt  == st[s].burst[i]
           hdr  == pkt.kind.hdr
           info == Parse(hdr, st[s].info, csum_config.flags)
           sums == Checksums(hdr, info, csum_config)
           out  == [addr |-> "peer", info |-> info, cfg |-> csum_config, sums |-> sums]
           summed == [pkt EXCEPT !.out = out]
           After(new) == [st[s] EXCEPT !.i = @ + 1, !.info = info,
                             !.pc = IF st[s].i = st[s].nb_rx THEN "send" ELSE "csum",
                             !.burst = [@ EXCEPT ![st[s].i] = new]]
<1>1. /\ At(s, "csum") /\ engine = "csum" /\ i \in 1 .. Len(st[s].burst)
      /\ st[s] \in StreamType(engine)
  <2>1. At(s, "csum")
    BY DEF CsumPacket
  <2>2. st[s].pc = "csum"
    BY <2>1 DEF At
  <2> QED
    BY <2>1, <2>2, StreamIs DEF Place, Forwards, TxPcs
<1>2. pkt \in PacketType(engine) /\ pkt.kind \in Kinds[engine] /\ pkt.lens \in Seq(Nat)
  <2>1. pkt \in PacketType(engine)
    BY <1>1, StreamIs
  <2> HIDE DEF pkt
  <2>2. pkt.kind \in KindType(engine) /\ pkt.lens \in Seq(Nat)
    BY <1>1, <2>1, PacketIs
  <2> QED
    BY <1>1, <2>1, <2>2 DEF KindType
<1>3. hdr \in Packets
  BY <1>1, <1>2, Constants, EnginesAssumption
<1>4. st[s].info \in InfoType /\ csum_config \in Configs
  BY StreamIs DEF TypeInv, SettingTypes
<1>5. info \in InfoType /\ sums \in SumsType
      /\ Right(hdr, info, csum_config, sums)
  <2>1. info \in InfoType
    BY <1>3, <1>4, ParseIs
  <2>2. Right(hdr, info, csum_config, sums)
    <3> DEFINE old == st[s].info
    <3>1. hdr \in Packets /\ old \in InfoType /\ csum_config \in Configs
      BY <1>3, <1>4
    <3> HIDE DEF hdr, old
    <3>2. LET in == Parse(hdr, old, csum_config.flags)
          IN  Right(hdr, in, csum_config, Checksums(hdr, in, csum_config))
      BY <3>1, ChecksumsRight
    <3> QED
      BY <3>2 DEF old
  <2> HIDE DEF info
  <2>3. sums \in SumsType
    BY <1>3, <1>4, <2>1, ChecksumsType
  <2> QED
    BY <2>1, <2>2, <2>3
<1>6. /\ \E n \in NumsOfSegs :
            LET lens == SplitLens(Bytes(pkt.lens), SubSeq(tx_pkt_seg_lengths, 1, n))
                next == [st[s] EXCEPT !.i = @ + 1, !.info = info,
                                      !.pc = IF st[s].i = st[s].nb_rx THEN "send" ELSE "csum"]
            IN  IF tx_pkt_split = "off" \/ ~Copies(pkt, lens)
                THEN /\ Set(s, [next EXCEPT !.burst[st[s].i] = summed])
                     /\ UNCHANGED pool
                ELSE LET ms == Alloc(Len(lens)) IN
                     /\ Set(s, [next EXCEPT !.burst[st[s].i] =
                                  [summed EXCEPT !.mbufs = ms,
                                                 !.lens = CopiedLens(pkt.lens, lens)]])
                     /\ pool' = (pool \ Range(ms)) \cup Range(pkt.mbufs)
  BY DEF CsumPacket
<1> HIDE DEF info, sums, hdr
<1> DEFINE With(m, l) == [summed EXCEPT !.mbufs = m, !.lens = l]
<1>7. /\ summed \in PacketType(engine) /\ summed.kind = pkt.kind /\ summed.out = out
      /\ summed.mbufs = pkt.mbufs /\ summed.lens = pkt.lens
      /\ \A m, l : /\ With(m, l).kind = pkt.kind /\ With(m, l).out = out
                   /\ With(m, l).mbufs = m /\ With(m, l).lens = l
                   /\ m \in Seq(Mbufs[engine]) /\ l \in Seq(LenType(engine)) =>
                         With(m, l) \in PacketType(engine)
  <2>1. out \in OutType
    <3>1. "peer" \in Addrs
      BY DEF Addrs
    <3> QED
      BY <1>4, <1>5, <3>1, OutTypes
  <2> HIDE DEF out, pkt
  <2> QED
    BY <1>2, <2>1 DEF PacketType
<1>8. out.addr = "peer" /\ out.info = info /\ out.cfg = csum_config /\ out.sums = sums
  OBVIOUS
<1>9. pkt.kind.hdr = hdr
  BY DEF hdr
<1> HIDE DEF out, summed
<1>10. PICK n \in NumsOfSegs :
            LET lens == SplitLens(Bytes(pkt.lens), SubSeq(tx_pkt_seg_lengths, 1, n))
            IN  IF tx_pkt_split = "off" \/ ~Copies(pkt, lens)
                THEN /\ Set(s, After(summed))
                     /\ UNCHANGED pool
                ELSE LET ms == Alloc(Len(lens)) IN
                     /\ Set(s, After(With(ms, CopiedLens(pkt.lens, lens))))
                     /\ pool' = (pool \ Range(ms)) \cup Range(pkt.mbufs)
  <2>1. \A new : [[st[s] EXCEPT !.i = @ + 1, !.info = info,
                                !.pc = IF st[s].i = st[s].nb_rx THEN "send" ELSE "csum"]
                     EXCEPT !.burst[st[s].i] = new] = After(new)
    BY <1>1 DEF StreamType
  <2> HIDE DEF After, pkt
  <2> QED
    BY <1>6, <2>1
<1> DEFINE segs == SubSeq(tx_pkt_seg_lengths, 1, n)
           lens == SplitLens(Bytes(pkt.lens), segs)
<1> HIDE DEF After, With
<1>11. CASE tx_pkt_split = "off" \/ ~Copies(pkt, lens)
  <2>1. Set(s, After(summed)) /\ UNCHANGED pool
    BY <1>10, <1>11
  <2>2. Summed(s, summed)
    BY <1>5, <1>7, <1>8, <1>9, <2>1 DEF Summed
  <2> QED
    BY <1>5, <2>1, <2>2 DEF After
<1>12. CASE ~(tx_pkt_split = "off" \/ ~Copies(pkt, lens))
  <2> DEFINE ms  == Alloc(Len(lens))
             got == CopiedLens(pkt.lens, lens)
             new == With(ms, got)
  <2>1. Set(s, After(new)) /\ pool' = (pool \ Range(ms)) \cup Range(pkt.mbufs)
    BY <1>10, <1>12
  <2>2. n \in 1 .. Len(tx_pkt_seg_lengths) /\ tx_pkt_seg_lengths \in Seq(Nat)
    BY SegsIs
  <2>3. segs \in Seq(Nat) /\ Len(segs) = n /\ Len(segs) > 0
    BY <2>2, PrefixBytes
  <2>4. Bytes(pkt.lens) \in Nat
    BY <1>2, BytesIs
  <2> HIDE DEF segs, pkt
  <2>5. lens \in Seq(Nat) /\ Len(lens) \in 1 .. Len(segs)
    BY <2>3, <2>4, SplitIs
  <2> HIDE DEF lens
  <2>6. /\ Len(lens) <= Cardinality(pool)
        /\ \A j \in 2 .. Len(lens) : lens[j] <= tailroom
        /\ Left(pkt.lens, lens)[Len(lens)] = <<>>
    BY <1>12 DEF Copies
  <2>7. Len(lens) \in Nat /\ Len(lens) > 0 /\ \A j \in 1 .. Len(lens) : lens[j] \in Nat
    BY <2>3, <2>5, SeqTypes
  <2>8. ms \in [1 .. Len(lens) -> pool] /\ IsInjective(ms)
    BY <2>6, <2>7, Constants, AllocIs
  <2>9. /\ got \in Seq(Nat) /\ Len(got) = Len(lens)
        /\ \A j \in 1 .. Len(lens) : got[j] <= lens[j]
        /\ got[1] = Got(pkt.lens, lens[1])
        /\ Bytes(got) = Bytes(pkt.lens)
    BY <1>2, <2>5, <2>6, <2>7, CopiedIs
  <2> HIDE DEF ms, got
  <2>10. ms \in Seq(Mbufs[engine]) /\ Range(ms) \subseteq pool
    <3>1. pool \subseteq Mbufs[engine]
      BY DEF TypeInv, Mbuf
    <3>2. ms \in Seq(pool)
      BY <2>7, <2>8, SeqIs
    <3> QED
      BY <3>1, <3>2, RangeIs
  <2>11. new \in PacketType(engine) /\ new.kind = pkt.kind /\ new.out = out
         /\ new.mbufs = ms /\ new.lens = got
    <3>1. got \in Seq(LenType(engine))
      BY <2>9 DEF LenType
    <3> QED
      BY <1>7, <2>10, <3>1
  <2> HIDE DEF new
  <2>12. ASSUME Fits(pkt.lens) PROVE Fits(got)
    <3>1. DOMAIN got = 1 .. Len(lens) /\ \A j \in 1 .. Len(lens) : got[j] \in Nat
      BY <2>9, SeqTypes
    <3>2. tailroom \in Nat
      BY Constants
    <3>3. got[1] <= tailroom
      <4>1. CASE pkt.lens = <<>>
        BY <2>9, <3>2, <4>1 DEF Got
      <4>2. CASE pkt.lens # <<>>
        <5>1. /\ Head(pkt.lens) = pkt.lens[1] /\ Head(pkt.lens) \in Nat
              /\ 1 \in DOMAIN pkt.lens
          <6>1. Len(pkt.lens) \in Nat \ {0} /\ DOMAIN pkt.lens = 1 .. Len(pkt.lens)
            BY <1>2, <4>2, SeqTypes, EmptySeq
          <6> QED
            BY <1>2, <4>2, <6>1, HeadTailProperties
        <5>2. Head(pkt.lens) <= tailroom
          BY <2>12, <5>1 DEF Fits
        <5>3. Got(pkt.lens, lens[1]) <= Head(pkt.lens)
          BY <2>7, <4>2, <5>1 DEF Got
        <5>4. got[1] \in Nat
          BY <2>7, <3>1
        <5> QED
          BY <2>9, <3>2, <5>1, <5>2, <5>3, <5>4
      <4> QED
        BY <4>1, <4>2
    <3>4. ASSUME NEW j \in 2 .. Len(lens) PROVE got[j] <= tailroom
      <4>1. j \in 1 .. Len(lens)
        BY <2>7
      <4> QED
        BY <2>6, <2>7, <2>9, <3>1, <3>2, <4>1
    <3>5. \A j \in 1 .. Len(lens) : j = 1 \/ j \in 2 .. Len(lens)
      BY <2>7
    <3> QED
      BY <3>1, <3>3, <3>4, <3>5 DEF Fits
  <2>13. Summed(s, new)
    <3>1. Right(new.kind.hdr, new.out.info, new.out.cfg, new.out.sums)
      BY <1>5, <1>8, <1>9, <2>11
    <3>2. new.out.addr = "peer"
      BY <1>8, <2>11
    <3>3. Bytes(new.lens) = Bytes(pkt.lens) /\ (Fits(pkt.lens) => Fits(new.lens))
      BY <2>9, <2>11, <2>12
    <3>4. /\ IsInjective(new.mbufs) /\ Range(new.mbufs) \subseteq pool
          /\ pool' = (pool \ Range(new.mbufs)) \cup Range(pkt.mbufs)
      BY <2>1, <2>8, <2>10, <2>11
    <3> QED
      BY <2>11, <3>1, <3>2, <3>3, <3>4 DEF Summed, pkt
  <2>14. Set(s, After(new))
    BY <2>1 DEF new
  <2> QED
    BY <1>5, <2>13, <2>14 DEF After
<1> QED
  BY <1>11, <1>12

(* In a finite set of numbers, each number up to its size is how many of   *)
(* them come up to one of them.                                            *)
UpTo(K, j) == Cardinality({i \in K : i <= j})

LEMMA UpToIs ==
    ASSUME NEW K, IsFiniteSet(K), K \subseteq Int
    PROVE  /\ \A k \in 1 .. Cardinality(K) : \E j \in K : UpTo(K, j) = k
           /\ \A j \in K : UpTo(K, j) \in 1 .. Cardinality(K)
           /\ \A i, j \in K : UpTo(K, i) = UpTo(K, j) => i = j
<1> DEFINE n == Cardinality(K)
<1>1. n \in Nat /\ \A j \in K : j \in Int
  BY FS_CardinalityType
<1>2. /\ \A i \in K : Rank(K, i) \in 0 .. n - 1
      /\ \A k \in 0 .. n - 1 : \E i \in K : Rank(K, i) = k
      /\ \A i, j \in K : Rank(K, i) = Rank(K, j) => i = j
  BY Ranks
<1>3. ASSUME NEW j \in K PROVE UpTo(K, j) = Rank(K, j) + 1
  <2> DEFINE L == {i \in K : i < j}
  <2>1. L \subseteq K /\ j \notin L
    BY <1>1
  <2>2. {i \in K : i <= j} = L \cup {j}
    <3>1. \A i \in K : i <= j <=> i < j \/ i = j
      BY <1>1
    <3> QED
      BY <3>1
  <2> HIDE DEF L
  <2>3. IsFiniteSet(L)
    BY <2>1, FS_Subset
  <2>4. Cardinality(L \cup {j}) = Cardinality(L) + 1
    BY <2>1, <2>3, FS_AddElement
  <2> QED
    BY <2>2, <2>4 DEF UpTo, Rank, L
<1> HIDE DEF n
<1>4. \A k \in 1 .. n : \E j \in K : UpTo(K, j) = k
  <2> TAKE k \in 1 .. n
  <2>1. k - 1 \in 0 .. n - 1 /\ (k - 1) + 1 = k
    BY <1>1
  <2>2. PICK j \in K : Rank(K, j) = k - 1
    BY <1>2, <2>1
  <2> QED
    BY <1>3, <2>1, <2>2
<1>5. \A j \in K : UpTo(K, j) \in 1 .. n
  <2> TAKE j \in K
  <2>1. Rank(K, j) \in 0 .. n - 1 /\ UpTo(K, j) = Rank(K, j) + 1
    BY <1>2, <1>3
  <2> QED
    BY <1>1, <2>1
<1>6. \A i, j \in K : UpTo(K, i) = UpTo(K, j) => i = j
  <2> TAKE i \in K, j \in K
  <2>1. /\ Rank(K, i) \in 0 .. n - 1 /\ UpTo(K, i) = Rank(K, i) + 1
        /\ Rank(K, j) \in 0 .. n - 1 /\ UpTo(K, j) = Rank(K, j) + 1
    BY <1>2, <1>3
  <2>2. UpTo(K, i) = UpTo(K, j) => Rank(K, i) = Rank(K, j)
    BY <1>1, <2>1
  <2> QED
    BY <1>2, <2>2
<1> QED
  BY <1>4, <1>5, <1>6 DEF n

(***************************************************************************)
(* The replies of icmpecho: f tells which packet each of them was. There   *)
(* is one for each request, and the rest is not answered.                  *)
(***************************************************************************)
Answers(s, f) ==
    LET m == Cardinality(Echoed(s))
    IN  /\ f \in [1 .. m -> Echoed(s)] /\ IsInjective(f)
        /\ \A j \in Echoed(s) : \E k \in 1 .. m : f[k] = j
        /\ \A k \in 1 .. m :
              /\ Replies(s)[k].mbufs = st[s].burst[f[k]].mbufs
              /\ Replies(s)[k].lens = st[s].burst[f[k]].lens
              /\ Replies(s)[k].kind = st[s].burst[f[k]].kind
              /\ Replies(s)[k].out = [addr |-> "replied"]

LEMMA RepliesAre ==
    ASSUME TypeInv, NEW s \in Stream
    PROVE  /\ Echoed(s) \subseteq 1 .. Len(st[s].burst)
           /\ Others(s) = (1 .. Len(st[s].burst)) \ Echoed(s)
           /\ Cardinality(Echoed(s)) \in 0 .. Len(st[s].burst)
           /\ Cardinality(Others(s)) = Len(st[s].burst) - Cardinality(Echoed(s))
           /\ Echoed(s) = {} <=> Cardinality(Echoed(s)) = 0
           /\ Replies(s) \in Seq(PacketType(engine)) /\ Len(Replies(s)) = Cardinality(Echoed(s))
           /\ \E f : Answers(s, f)
<1> DEFINE E == Echoed(s)
           n == Len(st[s].burst)
           m == Cardinality(E)
           b == Rewritten(s, "replied")
           R == Replies(s)
<1>1. n \in Nat /\ DOMAIN st[s].burst = 1 .. n
  BY StreamIs
<1>2. E \subseteq 1 .. n /\ Others(s) = (1 .. n) \ E
  BY <1>1 DEF Echoed, Others
<1>3. /\ b \in Seq(PacketType(engine)) /\ Len(b) = n
      /\ \A j \in 1 .. n :
            /\ b[j].mbufs = st[s].burst[j].mbufs /\ b[j].lens = st[s].burst[j].lens
            /\ b[j].kind = st[s].burst[j].kind /\ b[j].out = [addr |-> "replied"]
  BY RewrittenIs DEF Addrs
<1> HIDE DEF n
<1>4. \A j \in 1 .. n : b[j] \in PacketType(engine)
  BY <1>3, SeqTypes
<1>5. IsFiniteSet(1 .. n) /\ Cardinality(1 .. n) = n
  BY <1>1, FS_Interval
<1> HIDE DEF E, b, R
<1>6. IsFiniteSet(E) /\ m \in Nat /\ m <= n /\ (E = {} <=> m = 0) /\ E \subseteq Int
  <2>1. E \in SUBSET (1 .. n) /\ E \subseteq Int
    BY <1>1, <1>2
  <2>2. IsFiniteSet(E) /\ Cardinality(E) <= Cardinality(1 .. n)
    BY <1>5, <2>1, FS_Subset
  <2>3. Cardinality(E) \in Nat /\ (E = {} <=> Cardinality(E) = 0)
    BY <2>2, FS_CardinalityType, FS_EmptySet
  <2> QED
    BY <1>5, <2>1, <2>2, <2>3
<1>7. Cardinality(Others(s)) = n - m
  <2>1. Cardinality((1 .. n) \ E) = Cardinality(1 .. n) - Cardinality((1 .. n) \cap E)
    BY <1>5, FS_Difference
  <2>2. (1 .. n) \cap E = E
    BY <1>2
  <2> QED
    BY <1>2, <1>5, <2>1, <2>2
<1> HIDE DEF m
<1> DEFINE At1(k) == CHOOSE j \in E : UpTo(E, j) = k
           f == [k \in 1 .. m |-> At1(k)]
<1>8. \A k \in 1 .. m : At1(k) \in E /\ UpTo(E, At1(k)) = k
  <2> TAKE k \in 1 .. m
  <2>1. \E j \in E : UpTo(E, j) = k
    BY <1>6, UpToIs DEF m
  <2> QED
    BY <2>1
<1>9. R = [k \in 1 .. m |-> b[At1(k)]]
  BY DEF R, Replies, EchoedAt, E, m, b, UpTo
<1> HIDE DEF At1
<1>10. R \in Seq(PacketType(engine)) /\ Len(R) = m
  <2>1. R \in [1 .. m -> PacketType(engine)]
    BY <1>2, <1>4, <1>8, <1>9
  <2> QED
    BY <1>6, <2>1, SeqIs
<1>11. Answers(s, f)
  <2>1. f \in [1 .. m -> E]
    BY <1>8
  <2>2. IsInjective(f)
    BY <1>8 DEF IsInjective
  <2>3. \A j \in E : \E k \in 1 .. m : f[k] = j
    <3> TAKE j \in E
    <3>1. UpTo(E, j) \in 1 .. m /\ \A i \in E : UpTo(E, i) = UpTo(E, j) => i = j
      BY <1>6, UpToIs DEF m
    <3>2. At1(UpTo(E, j)) = j
      BY <1>8, <3>1
    <3> QED
      BY <3>1, <3>2
  <2>4. \A k \in 1 .. m : f[k] \in 1 .. n /\ R[k] = b[f[k]]
    BY <1>2, <1>8, <1>9
  <2> HIDE DEF f
  <2> QED
    BY <1>3, <2>1, <2>2, <2>3, <2>4 DEF Answers, m, E, R
<1> QED
  BY <1>2, <1>6, <1>7, <1>10, <1>11 DEF E, n, m, R

(* The segments of a packet of txonly, and how many mbufs they take *)
LEMMA OneMbufIs ==
    ASSUME TypeInv, pool # {}
    PROVE  /\ Alloc(1) \in [1 .. 1 -> pool] /\ IsInjective(Alloc(1))
           /\ Alloc(1) \in Seq(Mbufs[engine]) /\ Range(Alloc(1)) \subseteq pool
           /\ Len(Alloc(1)) = 1
<1>1. 1 \in 0 .. Cardinality(pool)
  BY Constants, FS_EmptySet
<1> DEFINE ms == Alloc(1)
<1>2. ms \in [1 .. 1 -> pool] /\ IsInjective(ms)
  BY <1>1, Constants, AllocIs
<1>3. pool \subseteq Mbufs[engine]
  BY DEF TypeInv, Mbuf
<1> HIDE DEF ms
<1>4. ms \in Seq(pool) /\ Len(ms) = 1
  BY <1>2, SeqIs
<1>5. ms \in Seq(Mbufs[engine])
  BY <1>3, <1>4
<1>6. Range(ms) \subseteq pool
  BY <1>4, RangeIs
<1> QED
  BY <1>2, <1>4, <1>5, <1>6 DEF ms

LEMMA FlowPacketIs ==
    ASSUME TypeInv, NEW s \in Stream, FlowPacket(s)
    PROVE  \E p \in PacketType(engine) :
              /\ p.mbufs \in [1 .. 1 -> pool] /\ IsInjective(p.mbufs)
              /\ p.out = [flow |-> next_flow]
              /\ pool' = pool \ Range(p.mbufs)
              /\ Set(s, [st[s] EXCEPT !.pc = "count", !.nb_pkt = @ + 1, !.flow = next_flow,
                            !.burst = [j \in DOMAIN @ \cup {st[s].nb_pkt + 1} |->
                                          IF j = st[s].nb_pkt + 1 THEN p ELSE @[j]]])
<1> DEFINE ms == Alloc(1)
           p  == [mbufs |-> ms, lens |-> <<st[s].len>>, kind |-> Plain,
                  out |-> [flow |-> next_flow]]
<1>1. engine = "flowgen" /\ pool # {} /\ next_flow \in Int /\ st[s].len \in Int
  BY StreamIs DEF FlowPacket, TypeInv
<1>3. ms \in [1 .. 1 -> pool] /\ IsInjective(ms) /\ ms \in Seq(Mbufs[engine])
  BY <1>1, OneMbufIs
<1>4. /\ pool' = pool \ Range(ms)
      /\ Set(s, [st[s] EXCEPT !.pc = "count", !.nb_pkt = @ + 1, !.flow = next_flow,
                    !.burst = [j \in DOMAIN @ \cup {st[s].nb_pkt + 1} |->
                                  IF j = st[s].nb_pkt + 1 THEN p ELSE @[j]]])
  BY DEF FlowPacket
<1> HIDE DEF ms
<1>5. p \in PacketType(engine)
  <2>2. <<st[s].len>> \in Seq(LenType(engine))
    BY <1>1 DEF LenType
  <2>3. Plain \in KindType(engine)
    BY <1>1 DEF KindType
  <2>4. [flow |-> next_flow] \in OutType
    BY <1>1, OutTypes
  <2> HIDE DEF p
  <2> QED
    BY <1>3, <2>2, <2>3, <2>4 DEF p, PacketType
<1>6. p.mbufs = ms /\ p.out = [flow |-> next_flow]
  OBVIOUS
<1> HIDE DEF p
<1> QED
  BY <1>3, <1>4, <1>5, <1>6

LEMMA TxPacketIs ==
    ASSUME TypeInv, NEW s \in Stream, TxPacket(s)
    PROVE  \E p \in PacketType(engine) :
              /\ p.mbufs \in [1 .. 1 -> pool] /\ IsInjective(p.mbufs)
              /\ p.lens = <<tx_pkt_seg_lengths[1]>> /\ p.out = [total |-> pkt_ip_hdr]
              /\ pool' = pool \ Range(p.mbufs)
              /\ Set(s, [st[s] EXCEPT !.pc = "split", !.burst = Append(@, p)])
<1> DEFINE ms == Alloc(1)
           lens == <<tx_pkt_seg_lengths[1]>>
           p    == [mbufs |-> ms, lens |-> lens, kind |-> Plain, out |-> [total |-> pkt_ip_hdr]]
<1>1. engine = "txonly" /\ pkt_ip_hdr \in Nat /\ pool # {}
  BY DEF TxPacket, TypeInv, SettingTypes
<1>2. lens \in Seq(Nat)
  <2>1. tx_pkt_seg_lengths[1] \in Nat
    BY Constants DEF TypeInv, SettingTypes
  <2> QED
    BY <2>1
<1>3. ms \in [1 .. 1 -> pool] /\ IsInjective(ms) /\ ms \in Seq(Mbufs[engine])
  BY <1>1, OneMbufIs
<1>4. pool' = pool \ Range(ms) /\ Set(s, [st[s] EXCEPT !.pc = "split", !.burst = Append(@, p)])
  BY DEF TxPacket
<1> HIDE DEF ms, lens
<1>5. p \in PacketType(engine)
  <2>1. lens \in Seq(LenType(engine)) /\ Plain \in KindType(engine)
    BY <1>1, <1>2 DEF LenType, KindType
  <2>2. [total |-> pkt_ip_hdr] \in OutType
    BY <1>1, OutTypes
  <2> QED
    BY <1>3, <2>1, <2>2 DEF PacketType
<1>6. p.mbufs = ms /\ p.lens = lens /\ p.out = [total |-> pkt_ip_hdr]
  OBVIOUS
<1> HIDE DEF p
<1> QED
  BY <1>3, <1>4, <1>5, <1>6 DEF lens

(* The packet that txonly makes *)
LEMMA MakingIs ==
    ASSUME TypeInv, NEW s \in Stream, st[s].pc \in TxPcs
    PROVE  /\ engine = "txonly" /\ st[s].nb_pkt + 1 \in 1 .. Len(st[s].burst)
           /\ Len(st[s].burst) = st[s].nb_pkt + 1 /\ st[s].nb_pkt < MAX_PKT_BURST
           /\ Making(s) = st[s].burst[st[s].nb_pkt + 1] /\ Making(s) \in PacketType(engine)
           /\ Making(s).lens \in Seq(Nat) /\ Len(Making(s).lens) \in Nat
           /\ Len(Making(s).lens) > 0
           /\ Making(s).mbufs \in Seq(Mbufs[engine])
           /\ st[s].nb_tx = 0 /\ st[s].retry = 0
<1>1. /\ engine = "txonly" /\ Len(st[s].burst) = st[s].nb_pkt + 1 /\ st[s].nb_pkt < MAX_PKT_BURST
      /\ st[s].nb_tx = 0 /\ st[s].retry = 0
  BY StreamIs DEF Place, TxPcs, Unsending
<1>4. Len(Making(s).lens) > 0
  <2>1. /\ st[s].pc \in {"split", "segments"} /\ Place(engine, st[s])
        /\ st[s].nb_segs \in 0 .. NumLengths
    BY StreamIs DEF TxPcs
  <2>2. CASE st[s].pc = "split"
    <3>1. Len(st[s].burst[st[s].nb_pkt + 1].lens) = 1
      BY <2>1, <2>2 DEF Place
    <3> QED
      BY <3>1 DEF Making
  <2>3. CASE st[s].pc = "segments"
    <3>1. Len(st[s].burst[st[s].nb_pkt + 1].lens) \in 1 .. st[s].nb_segs
      BY <2>1, <2>3 DEF Place
    <3> QED
      BY <3>1, <2>1, NumLengthsIs DEF Making
  <2> QED
    BY <2>1, <2>2, <2>3
<1>2. st[s].nb_pkt + 1 \in 1 .. Len(st[s].burst) /\ Making(s) \in PacketType(engine)
  BY <1>1, StreamIs DEF Making
<1>3. Making(s).lens \in Seq(Nat) /\ Making(s).mbufs \in Seq(Mbufs[engine])
  BY <1>1, <1>2, PacketIs
<1> QED
  BY <1>1, <1>2, <1>3, <1>4, SeqTypes DEF Making

LEMMA TxSegmentIs ==
    ASSUME TypeInv, NEW s \in Stream, TxSegment(s)
    PROVE  \E ms \in [1 .. 1 -> pool] : \E p \in PacketType(engine) :
              /\ IsInjective(ms) /\ pool' = pool \ Range(ms)
              /\ p.mbufs = Making(s).mbufs \o ms
              /\ p.lens = Append(Making(s).lens, tx_pkt_seg_lengths[Len(Making(s).lens) + 1])
              /\ Len(Making(s).lens) + 1 \in 1 .. NumLengths
              /\ p.kind = Making(s).kind /\ p.out = Making(s).out
              /\ Set(s, [st[s] EXCEPT !.burst = [@ EXCEPT ![st[s].nb_pkt + 1] = p]])
<1> DEFINE q  == Making(s)
           k  == Len(q.lens)
           ms == Alloc(1)
           p  == [q EXCEPT !.mbufs = @ \o ms, !.lens = Append(@, tx_pkt_seg_lengths[k + 1])]
<1>1. st[s].pc = "segments" /\ k < st[s].nb_segs /\ pool # {} /\ pool' = pool \ Range(ms)
  BY DEF TxSegment, At
<1>2. /\ engine = "txonly" /\ q \in PacketType(engine) /\ q.lens \in Seq(Nat) /\ k \in Nat
      /\ q.mbufs \in Seq(Mbufs[engine]) /\ q = st[s].burst[st[s].nb_pkt + 1]
  BY <1>1, MakingIs DEF TxPcs
<1>3. k + 1 \in 1 .. NumLengths
  <2> HIDE DEF k, q, ms
  <2>1. st[s].nb_segs \in 0 .. NumLengths
    BY StreamIs
  <2> QED
    BY <1>1, <1>2, <2>1, NumLengthsIs
<1>4. tx_pkt_seg_lengths[k + 1] \in Nat
  BY <1>3 DEF TypeInv, SettingTypes
<1>5. ms \in [1 .. 1 -> pool] /\ IsInjective(ms) /\ ms \in Seq(Mbufs[engine])
  BY <1>1, OneMbufIs
<1>6. Set(s, [st[s] EXCEPT !.burst = [@ EXCEPT ![st[s].nb_pkt + 1] = p]])
  <2>1. Set(s, [st[s] EXCEPT !.burst[st[s].nb_pkt + 1] = p])
    BY DEF TxSegment
  <2>2. st[s] \in StreamType(engine)
    BY StreamIs
  <2> HIDE DEF p, k, q, ms
  <2> QED
    BY <2>1, <2>2 DEF StreamType
<1> HIDE DEF ms, k, q
<1>7. /\ q.mbufs \o ms \in Seq(Mbufs[engine])
      /\ Append(q.lens, tx_pkt_seg_lengths[k + 1]) \in Seq(LenType(engine))
  BY <1>2, <1>4, <1>5, ConcatProperties, AppendProperties DEF LenType
<1>8. /\ p \in PacketType(engine) /\ p.mbufs = q.mbufs \o ms
      /\ p.lens = Append(q.lens, tx_pkt_seg_lengths[k + 1])
      /\ p.kind = q.kind /\ p.out = q.out
  BY <1>2, <1>7 DEF PacketType
<1> HIDE DEF p
<1> QED
  BY <1>1, <1>3, <1>5, <1>6, <1>8 DEF q, k

-----------------------------------------------------------------------------
(* Every step keeps the types. *)

LEMMA AtIs ==
    ASSUME TypeInv, NEW s \in Stream, NEW pc, At(s, pc)
    PROVE  /\ crashed = {} /\ st[s].pc = pc /\ bursts[s] < MaxBursts[engine][s]
           /\ pool \subseteq Mbuf /\ nic \subseteq PacketType(engine) /\ next_flow \in Int
           /\ fs \in [Stream -> CounterType]
BY DEF At, TypeInv, LcoreTypes

LEMMA TypeRx ==
    ASSUME TypeInv, NEW s \in Stream, RxBurst(s)
    PROVE  TypeInv'
<1>1. /\ At(s, "receive")
      /\ UNCHANGED <<settings, fixed, next_flow, nic, changes, crashed, history>>
  BY DEF RxBurst
<1>2. PICK n, pkts, S : Received(s, n, pkts, S)
  BY RxIs
<1>3. /\ crashed = {} /\ st[s].pc = "receive" /\ bursts[s] < MaxBursts[engine][s]
      /\ pool \subseteq Mbuf /\ nic \subseteq PacketType(engine) /\ next_flow \in Int
      /\ fs \in [Stream -> CounterType]
  BY <1>1, AtIs
<1>4. /\ n \in 0 .. MAX_PKT_BURST /\ n \in Nat /\ pkts \in Seq(PacketType(engine)) /\ Len(pkts) = n
      /\ n = 0 => engine = "flowgen"
      /\ pool' \subseteq pool /\ fs' = [fs EXCEPT ![s].rx_packets = @ + n]
  BY <1>2, Constants DEF Received
<1>5. fs' \in [Stream -> CounterType]
  <2>1. \A c \in CounterType : [c EXCEPT !.rx_packets = @ + n] \in CounterType
    BY <1>4 DEF CounterType
  <2>2. fs' = [fs EXCEPT ![s] = [fs[s] EXCEPT !.rx_packets = @ + n]]
    BY <1>3, <1>4
  <2> QED
    BY <1>3, <2>1, <2>2
<1>6. pool' \subseteq Mbuf /\ nic' = nic /\ next_flow' = next_flow /\ crashed' = {}
  BY <1>1, <1>3, <1>4
<1>7. CASE engine = "rxonly"
  <2>1. Returns(s)
    BY <1>2, <1>7 DEF Received
  <2> QED
    BY <1>1, <1>3, <1>5, <1>6, <2>1, TypeReturns
<1>8. CASE engine # "rxonly"
  <2>1. /\ st[s] \in StreamType(engine) /\ Place(engine, st[s]) /\ st[s] = Idle("receive")
        /\ engine # "txonly"
    BY <1>3, StreamIs DEF Place
  <2>2. tx_pkt_length - 4 \in Int
    BY DEF TypeInv, SettingTypes
  <2>3. CASE engine = "flowgen"
    <3> DEFINE r == [st[s] EXCEPT !.pc = "alloc", !.burst = pkts, !.nb_rx = n,
                                  !.len = tx_pkt_length - 4]
    <3>1. Set(s, r) /\ UNCHANGED bursts
      BY <1>2, <1>8, <2>3 DEF Received
    <3>2. r \in StreamType(engine)
      BY <1>4, <2>1, <2>2 DEF StreamType, Pc
    <3>3. /\ r.pc = "alloc" /\ r.burst = pkts /\ r.nb_rx = n /\ r.nb_tx = 0 /\ r.retry = 0
          /\ r.nb_pkt = 0
      BY <2>1 DEF StreamType, Idle
    <3>4. Place(engine, r)
      <4> HIDE DEF r
      <4> QED
        BY <1>4, <2>3, <3>3 DEF Place, Forwards, FlowPcs, TxPcs, Unsending
    <3> HIDE DEF r
    <3> QED
      BY <1>1, <1>3, <1>5, <1>6, <3>1, <3>2, <3>4, TypeStep
  <2>4. CASE engine # "flowgen"
    <3> DEFINE r == [st[s] EXCEPT !.pc = engine, !.burst = pkts, !.nb_rx = n, !.nb_pkt = n]
    <3>1. Set(s, r) /\ UNCHANGED bursts
      BY <1>2, <1>8, <2>4 DEF Received
    <3>2. engine \in {"io", "mac", "macswap", "csum", "icmpecho"}
      BY <1>8, <2>1, <2>4, Constants
    <3>3. engine \in Pc
      BY <3>2 DEF Pc
    <3>4. r \in StreamType(engine)
      BY <1>4, <2>1, <3>3 DEF StreamType
    <3>5. /\ r.pc = engine /\ r.burst = pkts /\ r.nb_rx = n /\ r.nb_tx = 0 /\ r.retry = 0
          /\ r.nb_pkt = n /\ r.i = 1
      BY <2>1 DEF StreamType, Idle
    <3>6. Place(engine, r)
      <4> HIDE DEF r
      <4> QED
        BY <1>4, <2>4, <3>2, <3>5 DEF Place, Forwards, FlowPcs, TxPcs, Unsending
    <3> HIDE DEF r
    <3> QED
      BY <1>1, <1>3, <1>5, <1>6, <3>1, <3>4, <3>6, TypeStep
  <2> QED
    BY <2>3, <2>4
<1> QED
  BY <1>7, <1>8

LEMMA TypeRewrites ==
    ASSUME TypeInv, NEW s \in Stream, NEW addr \in Addrs,
           At(s, "io") \/ At(s, "mac") \/ At(s, "macswap"), Rewrites(s, addr)
    PROVE  TypeInv'
<1>1. PICK pc \in {"io", "mac", "macswap"} : At(s, pc)
  OBVIOUS
<1>2. /\ crashed = {} /\ st[s].pc = pc /\ bursts[s] < MaxBursts[engine][s]
      /\ pool \subseteq Mbuf /\ nic \subseteq PacketType(engine) /\ next_flow \in Int
      /\ fs \in [Stream -> CounterType]
  BY <1>1, AtIs
<1> DEFINE b == Rewritten(s, addr)
           r == [st[s] EXCEPT !.burst = b, !.pc = "send"]
<1>3. b \in Seq(PacketType(engine)) /\ Len(b) = Len(st[s].burst)
  BY RewrittenIs
<1>4. st[s] \in StreamType(engine) /\ Place(engine, st[s])
  BY StreamIs
<1>5. /\ Set(s, r)
      /\ UNCHANGED <<settings, fixed, next_flow, pool, nic, fs, bursts, changes, crashed,
                     history>>
  BY DEF Rewrites
<1> HIDE DEF b
<1>6. r \in StreamType(engine)
  BY <1>3, <1>4 DEF StreamType, Pc
<1>7. /\ r.pc = "send" /\ r.burst = b /\ r.nb_rx = st[s].nb_rx /\ r.nb_tx = st[s].nb_tx
      /\ r.retry = st[s].retry /\ r.nb_pkt = st[s].nb_pkt
  BY <1>4 DEF StreamType
<1> HIDE DEF r
<1>8. Place(engine, r)
  <2>1. engine = pc /\ engine # "flowgen" /\ engine # "rxonly"
    BY <1>2, <1>4 DEF Place, Forwards, FlowPcs, TxPcs, Unsending
  <2> QED
    BY <1>2, <1>3, <1>4, <1>7, <2>1 DEF Place, Forwards, FlowPcs, TxPcs, Unsending
<1> QED
  BY <1>2, <1>5, <1>6, <1>8, TypeStep

LEMMA TypeEcho ==
    ASSUME TypeInv, NEW s \in Stream, IcmpEcho(s)
    PROVE  TypeInv'
<1>1. At(s, "icmpecho") /\ UNCHANGED <<settings, fixed, next_flow, nic, changes, history>>
  BY DEF IcmpEcho
<1>2. /\ crashed = {} /\ st[s].pc = "icmpecho" /\ bursts[s] < MaxBursts[engine][s]
      /\ pool \subseteq Mbuf /\ nic \subseteq PacketType(engine) /\ next_flow \in Int
      /\ fs \in [Stream -> CounterType]
  BY <1>1, AtIs
<1>3. st[s] \in StreamType(engine) /\ Place(engine, st[s]) /\ engine = "icmpecho"
  BY <1>2, StreamIs DEF Place, Forwards, FlowPcs, TxPcs, Unsending
<1>4. fs' \in [Stream -> CounterType]
  <2>1. Cardinality(Others(s)) \in Int
    BY RepliesAre, StreamIs
  <2>2. fs' = [fs EXCEPT ![s].extra = @ - Cardinality(Others(s))]
    BY DEF IcmpEcho
  <2> QED
    BY <1>2, <2>1, <2>2 DEF CounterType
<1>5. CASE st[s].nb_rx >= UINT8
  <2>1. crashed' = {"index"} /\ UNCHANGED <<pool, st, bursts>>
    BY <1>5 DEF IcmpEcho
  <2>2. Set(s, st[s])
    BY <2>1 DEF Set, TypeInv, LcoreTypes
  <2> QED
    BY <1>1, <1>2, <1>3, <1>4, <2>1, <2>2, TypeStep
<1>6. CASE ~(st[s].nb_rx >= UINT8)
  <2> DEFINE P == {st[s].burst[j] : j \in Others(s)}
             m == Cardinality(Echoed(s))
             R == Replies(s)
  <2>1. /\ pool' = pool \cup MbufsOf(P) /\ crashed' = crashed
        /\ IF Echoed(s) = {}
           THEN Returns(s)
           ELSE /\ Set(s, [st[s] EXCEPT !.burst = R, !.pc = "send", !.nb_pkt = m])
                /\ UNCHANGED bursts
    BY <1>6 DEF IcmpEcho
  <2>2. /\ R \in Seq(PacketType(engine)) /\ Len(R) = m /\ m \in 0 .. Len(st[s].burst)
        /\ Others(s) \subseteq 1 .. Len(st[s].burst)
    BY RepliesAre
  <2>3. P \subseteq PacketType(engine)
    BY <2>2, StreamIs
  <2>4. pool' \subseteq Mbuf /\ nic' \subseteq PacketType(engine) /\ next_flow' \in Int
        /\ crashed' \subseteq {"index", "headers"}
    BY <1>1, <1>2, <2>1, <2>3, MbufsType
  <2>5. CASE Echoed(s) = {}
    BY <1>1, <1>2, <1>4, <2>1, <2>4, <2>5, TypeReturns
  <2>6. CASE Echoed(s) # {}
    <3> DEFINE r == [st[s] EXCEPT !.burst = R, !.pc = "send", !.nb_pkt = m]
    <3>1. Len(st[s].burst) = st[s].nb_pkt
      BY <1>3 DEF Place
    <3> HIDE DEF R, m
    <3>2. m \in 0 .. MAX_PKT_BURST
      BY <2>2, <3>1, StreamIs, Constants
    <3>3. r \in StreamType(engine)
      BY <1>3, <2>2, <3>2 DEF StreamType, Pc
    <3>4. /\ r.pc = "send" /\ r.burst = R /\ r.nb_tx = st[s].nb_tx /\ r.retry = st[s].retry
          /\ r.nb_pkt = m
      BY <1>3 DEF StreamType
    <3>5. Set(s, r) /\ UNCHANGED bursts
      BY <2>1, <2>6
    <3> HIDE DEF r
    <3>6. Place(engine, r)
      BY <1>2, <1>3, <2>2, <3>4 DEF Place, Forwards, FlowPcs, TxPcs, Unsending
    <3> QED
      BY <1>1, <1>2, <1>4, <2>4, <3>3, <3>5, <3>6, TypeStep
  <2> QED
    BY <2>5, <2>6
<1> QED
  BY <1>5, <1>6

LEMMA TypeCsum ==
    ASSUME TypeInv, NEW s \in Stream, CsumPacket(s)
    PROVE  TypeInv'
<1>1. At(s, "csum")
      /\ UNCHANGED <<settings, fixed, next_flow, nic, fs, bursts, changes, crashed, history>>
  BY DEF CsumPacket
<1>2. /\ crashed = {} /\ st[s].pc = "csum" /\ bursts[s] < MaxBursts[engine][s]
      /\ pool \subseteq Mbuf /\ nic \subseteq PacketType(engine) /\ next_flow \in Int
      /\ fs \in [Stream -> CounterType]
  BY <1>1, AtIs
<1>3. /\ st[s] \in StreamType(engine) /\ Place(engine, st[s]) /\ engine = "csum"
      /\ st[s].i \in 1 .. st[s].nb_pkt /\ st[s].nb_rx = st[s].nb_pkt
      /\ Len(st[s].burst) = st[s].nb_pkt
  BY <1>2, StreamIs DEF Place, Forwards, FlowPcs, TxPcs, Unsending
<1>4. PICK new : /\ Summed(s, new)
                 /\ \E info \in InfoType :
                       Set(s, [st[s] EXCEPT !.i = @ + 1, !.info = info,
                                  !.pc = IF st[s].i = st[s].nb_rx THEN "send" ELSE "csum",
                                  !.burst = [@ EXCEPT ![st[s].i] = new]])
  BY CsumIs
<1>5. PICK info \in InfoType :
         Set(s, [st[s] EXCEPT !.i = @ + 1, !.info = info,
                    !.pc = IF st[s].i = st[s].nb_rx THEN "send" ELSE "csum",
                    !.burst = [@ EXCEPT ![st[s].i] = new]])
  BY <1>4
<1> DEFINE b  == [st[s].burst EXCEPT ![st[s].i] = new]
           pc == IF st[s].i = st[s].nb_rx THEN "send" ELSE "csum"
           r  == [st[s] EXCEPT !.i = @ + 1, !.info = info, !.pc = pc, !.burst = b]
<1>6. new \in PacketType(engine)
  BY <1>4 DEF Summed
<1>7. b \in Seq(PacketType(engine)) /\ Len(b) = st[s].nb_pkt
  BY <1>3, <1>6, StreamIs
<1>8. Set(s, r)
  BY <1>5
<1> HIDE DEF b
<1>9. r \in StreamType(engine)
  <2>1. pc \in Pc
    BY DEF Pc
  <2> HIDE DEF pc
  <2> QED
    <3>1. st[s].i + 1 \in Nat
      BY StreamIs
    <3> QED
      BY <1>3, <1>7, <2>1, <3>1 DEF StreamType
<1>10. /\ r.pc = pc /\ r.burst = b /\ r.nb_tx = st[s].nb_tx /\ r.retry = st[s].retry
       /\ r.nb_pkt = st[s].nb_pkt /\ r.nb_rx = st[s].nb_rx /\ r.i = st[s].i + 1
  BY <1>3 DEF StreamType
<1> HIDE DEF r
<1>11. Place(engine, r)
  <2>1. r.pc = "csum" => r.i \in 1 .. r.nb_pkt
    BY <1>3, <1>10
  <2>2. r.pc \in {"send", "csum"}
    BY <1>10
  <2> QED
    BY <1>2, <1>3, <1>7, <1>10, <2>1, <2>2 DEF Place, Forwards, FlowPcs, TxPcs, Unsending
<1>12. pool' \subseteq Mbuf
  <2>1. \/ UNCHANGED pool
        \/ pool' = (pool \ Range(new.mbufs)) \cup Range(st[s].burst[st[s].i].mbufs)
    BY <1>4 DEF Summed
  <2>2. st[s].burst[st[s].i] \in PacketType(engine)
    BY <1>3, StreamIs
  <2>3. Range(st[s].burst[st[s].i].mbufs) \subseteq Mbuf
    BY <2>2, PacketIs DEF Mbuf
  <2> QED
    BY <1>2, <2>1, <2>3
<1> QED
  BY <1>1, <1>2, <1>8, <1>9, <1>11, <1>12, TypeStep

LEMMA MadeIs ==
    ASSUME NEW S, NEW b \in Seq(S), NEW p \in S, NEW n \in Nat, n <= Len(b)
    PROVE  LET c == [j \in DOMAIN b \cup {n + 1} |-> IF j = n + 1 THEN p ELSE b[j]]
           IN  /\ c \in Seq(S) /\ Len(c) = (IF n < Len(b) THEN Len(b) ELSE n + 1)
               /\ c[n + 1] = p /\ \A j \in 1 .. n : c[j] = b[j]
<1> DEFINE c == [j \in DOMAIN b \cup {n + 1} |-> IF j = n + 1 THEN p ELSE b[j]]
           m == IF n < Len(b) THEN Len(b) ELSE n + 1
<1>1. Len(b) \in Nat /\ DOMAIN b = 1 .. Len(b) /\ \A j \in 1 .. Len(b) : b[j] \in S
  BY SeqTypes
<1>2. DOMAIN b \cup {n + 1} = 1 .. m /\ m \in Nat
  BY <1>1
<1>3. c \in [1 .. m -> S]
  <2>1. \A j \in 1 .. m : j # n + 1 => j \in 1 .. Len(b)
    BY <1>1
  <2> QED
    BY <1>1, <1>2, <2>1
<1>4. c[n + 1] = p /\ \A j \in 1 .. n : c[j] = b[j]
  <2>1. \A j \in 1 .. n : j \in 1 .. m /\ j # n + 1
    BY <1>1
  <2>2. n + 1 \in 1 .. m
    BY <1>1
  <2> QED
    BY <1>2, <2>1, <2>2
<1> HIDE DEF c, m
<1>5. c \in Seq(S) /\ Len(c) = m
  BY <1>2, <1>3, SeqIs
<1> QED
  BY <1>4, <1>5 DEF c, m

LEMMA TypeFlow ==
    ASSUME TypeInv, NEW s \in Stream, FlowPacket(s)
    PROVE  TypeInv'
<1>1. /\ engine = "flowgen" /\ At(s, "alloc") /\ st[s].nb_pkt < nb_pkt_per_burst
      /\ UNCHANGED <<settings, fixed, nic, fs, bursts, changes, next_flow, crashed, torn>>
  BY DEF FlowPacket, AllocFrame
<1>2. /\ crashed = {} /\ st[s].pc = "alloc" /\ bursts[s] < MaxBursts[engine][s]
      /\ pool \subseteq Mbuf /\ nic \subseteq PacketType(engine) /\ next_flow \in Int
      /\ fs \in [Stream -> CounterType]
  BY <1>1, AtIs
<1>3. PICK p \in PacketType(engine) :
         /\ pool' = pool \ Range(p.mbufs)
         /\ Set(s, [st[s] EXCEPT !.pc = "count", !.nb_pkt = @ + 1, !.flow = next_flow,
                       !.burst = [j \in DOMAIN @ \cup {st[s].nb_pkt + 1} |->
                                     IF j = st[s].nb_pkt + 1 THEN p ELSE @[j]]])
  BY FlowPacketIs
<1> DEFINE n == st[s].nb_pkt
           b == st[s].burst
           c == [j \in DOMAIN b \cup {n + 1} |-> IF j = n + 1 THEN p ELSE b[j]]
           r == [st[s] EXCEPT !.pc = "count", !.nb_pkt = n + 1, !.flow = next_flow, !.burst = c]
<1>4. /\ st[s] \in StreamType(engine) /\ Place(engine, st[s]) /\ n \in Nat /\ n <= Len(b)
      /\ b \in Seq(PacketType(engine)) /\ Len(b) \in Nat
  BY <1>1, StreamIs DEF Place
<1>5. Set(s, r)
  BY <1>3
<1>6. c \in Seq(PacketType(engine)) /\ Len(c) = (IF n < Len(b) THEN Len(b) ELSE n + 1)
  <2> HIDE DEF b, n
  <2> QED
    BY <1>4, MadeIs
<1>7. n + 1 \in 0 .. MAX_PKT_BURST
  BY <1>1, <1>4, Constants
<1> HIDE DEF c
<1>8. r \in StreamType(engine)
  BY <1>2, <1>4, <1>6, <1>7 DEF StreamType, Pc
<1>9. /\ r.pc = "count" /\ r.burst = c /\ r.nb_tx = st[s].nb_tx /\ r.retry = st[s].retry
      /\ r.nb_pkt = n + 1 /\ r.nb_rx = st[s].nb_rx
  BY <1>4 DEF StreamType
<1> HIDE DEF r
<1>10. Place(engine, r)
  <2>1. st[s].nb_rx <= Len(b) /\ st[s].nb_tx = 0 /\ st[s].retry = 0
    BY <1>1, <1>2, <1>4 DEF Place, Unsending
  <2>2. st[s].nb_rx \in Nat
    BY StreamIs
  <2> HIDE DEF b, n
  <2>3. n + 1 <= Len(c) /\ st[s].nb_rx <= Len(c) /\ 0 <= n + 1
    BY <1>4, <1>6, <2>1, <2>2
  <2> QED
    BY <1>1, <1>9, <2>1, <2>3 DEF Place, Forwards, FlowPcs, TxPcs, Unsending
<1> QED
  BY <1>1, <1>2, <1>3, <1>5, <1>8, <1>10, TypeStep

LEMMA TypeCountFlow ==
    ASSUME TypeInv, NEW s \in Stream, CountFlow(s)
    PROVE  TypeInv'
<1>1. /\ At(s, "count")
      /\ UNCHANGED <<settings, fixed, nic, fs, bursts, changes, next_flow, pool, crashed, torn>>
  BY DEF CountFlow, AllocFrame
<1>2. /\ crashed = {} /\ st[s].pc = "count" /\ bursts[s] < MaxBursts[engine][s]
      /\ pool \subseteq Mbuf /\ nic \subseteq PacketType(engine) /\ next_flow \in Int
      /\ fs \in [Stream -> CounterType]
  BY <1>1, AtIs
<1>3. PICK now \in Reads(s) :
         Set(s, [st[s] EXCEPT !.pc = "counted", !.flow = (now + 1) % cfg_n_flows])
  BY DEF CountFlow
<1> DEFINE f == (now + 1) % cfg_n_flows
           r == [st[s] EXCEPT !.pc = "counted", !.flow = f]
<1>4. f \in Int
  BY <1>2, <1>3, StreamIs, Constants DEF Reads
<1>5. st[s] \in StreamType(engine) /\ Place(engine, st[s])
  BY StreamIs
<1>6. Set(s, r)
  BY <1>3
<1> HIDE DEF f
<1>7. r \in StreamType(engine) /\ Place(engine, r)
  BY <1>2, <1>4, <1>5 DEF StreamType, Pc, Place, Forwards, FlowPcs, TxPcs, Unsending
<1> HIDE DEF r
<1> QED
  BY <1>1, <1>2, <1>6, <1>7, TypeStep

LEMMA TypeNextFlow ==
    ASSUME TypeInv, NEW s \in Stream, NextFlow(s)
    PROVE  TypeInv'
<1> DEFINE r == [st[s] EXCEPT !.pc = "alloc"]
<1>1. /\ At(s, "counted") /\ next_flow' = st[s].flow /\ Set(s, r)
      /\ UNCHANGED <<settings, fixed, nic, fs, bursts, changes, pool, crashed, torn>>
  BY DEF NextFlow, AllocFrame
<1>2. /\ crashed = {} /\ st[s].pc = "counted" /\ bursts[s] < MaxBursts[engine][s]
      /\ pool \subseteq Mbuf /\ nic \subseteq PacketType(engine) /\ next_flow \in Int
      /\ fs \in [Stream -> CounterType]
  BY <1>1, AtIs
<1>3. st[s] \in StreamType(engine) /\ Place(engine, st[s])
  BY StreamIs
<1>4. r \in StreamType(engine) /\ Place(engine, r)
  BY <1>2, <1>3 DEF StreamType, Pc, Place, Forwards, FlowPcs, TxPcs, Unsending
<1>5. next_flow' \in Int
  BY <1>1, StreamIs
<1> QED
  BY <1>1, <1>2, <1>4, <1>5, TypeStep

LEMMA TypeTxPacket ==
    ASSUME TypeInv, NEW s \in Stream, TxPacket(s)
    PROVE  TypeInv'
<1>1. /\ engine = "txonly" /\ At(s, "alloc") /\ st[s].nb_pkt < nb_pkt_per_burst
      /\ UNCHANGED <<settings, fixed, nic, fs, bursts, changes, next_flow, crashed>>
  BY DEF TxPacket, AllocFrame
<1>2. /\ crashed = {} /\ st[s].pc = "alloc" /\ bursts[s] < MaxBursts[engine][s]
      /\ pool \subseteq Mbuf /\ nic \subseteq PacketType(engine) /\ next_flow \in Int
      /\ fs \in [Stream -> CounterType]
  BY <1>1, AtIs
<1>3. PICK p \in PacketType(engine) :
         /\ p.lens = <<tx_pkt_seg_lengths[1]>>
         /\ pool' = pool \ Range(p.mbufs)
         /\ Set(s, [st[s] EXCEPT !.pc = "split", !.burst = Append(@, p)])
  BY TxPacketIs
<1> DEFINE n == st[s].nb_pkt
           b == Append(st[s].burst, p)
           r == [st[s] EXCEPT !.pc = "split", !.burst = b]
<1>4. /\ st[s] \in StreamType(engine) /\ Place(engine, st[s]) /\ n \in Nat /\ Len(st[s].burst) = n
  BY <1>1, <1>2, StreamIs DEF Place, TxPcs
<1>5. Set(s, r)
  BY <1>3
<1>6. b \in Seq(PacketType(engine)) /\ Len(b) = n + 1 /\ b[n + 1] = p
  BY <1>4, StreamIs, AppendProperties
<1>7. n < MAX_PKT_BURST
  BY <1>1, <1>4, Constants
<1> HIDE DEF b
<1>8. r \in StreamType(engine)
  BY <1>2, <1>4, <1>6 DEF StreamType, Pc
<1>9. /\ r.pc = "split" /\ r.burst = b /\ r.nb_tx = st[s].nb_tx /\ r.retry = st[s].retry
      /\ r.nb_pkt = n /\ r.nb_rx = st[s].nb_rx
  BY <1>2, <1>4 DEF StreamType
<1> HIDE DEF r
<1>10. Place(engine, r)
  <2>1. st[s].nb_tx = 0 /\ st[s].retry = 0 /\ Len(p.lens) = 1
    BY <1>2, <1>3, <1>4 DEF Place, Unsending
  <2> QED
    BY <1>1, <1>4, <1>6, <1>7, <1>9, <2>1 DEF Place, Forwards, FlowPcs, TxPcs, Unsending
<1>11. torn' \subseteq Stream
  BY DEF TxPacket, TypeInv
<1> QED
  BY <1>1, <1>2, <1>3, <1>5, <1>8, <1>10, <1>11, TypeStep

LEMMA TypeTxSplit ==
    ASSUME TypeInv, NEW s \in Stream, TxSplit(s)
    PROVE  TypeInv'
<1>1. /\ At(s, "split")
      /\ UNCHANGED <<settings, fixed, nic, fs, bursts, changes, next_flow, pool, crashed, torn>>
  BY DEF TxSplit, AllocFrame
<1>2. /\ crashed = {} /\ st[s].pc = "split" /\ bursts[s] < MaxBursts[engine][s]
      /\ pool \subseteq Mbuf /\ nic \subseteq PacketType(engine) /\ next_flow \in Int
      /\ fs \in [Stream -> CounterType]
  BY <1>1, AtIs
<1>3. PICK n \in NumsOfSegs :
         Set(s, [st[s] EXCEPT !.pc = "segments", !.split = tx_pkt_split, !.nb_segs = n])
  BY DEF TxSplit
<1> DEFINE r == [st[s] EXCEPT !.pc = "segments", !.split = tx_pkt_split, !.nb_segs = n]
<1>4. /\ st[s] \in StreamType(engine) /\ Place(engine, st[s])
      /\ n \in 0 .. NumLengths /\ n > 0 /\ n \in Nat /\ tx_pkt_split \in {"off", "on", "rnd"}
  <2>1. n \in 1 .. NumLengths
    BY SegsIs
  <2>2. tx_pkt_split \in {"off", "on", "rnd"}
    BY DEF TypeInv, SettingTypes
  <2> QED
    BY <2>1, <2>2, StreamIs, NumLengthsIs
<1>5. r \in StreamType(engine)
  BY <1>2, <1>4 DEF StreamType, Pc
<1>6. Set(s, r)
  BY <1>3
<1>7. /\ r.pc = "segments" /\ r.burst = st[s].burst /\ r.nb_tx = st[s].nb_tx
      /\ r.retry = st[s].retry /\ r.nb_pkt = st[s].nb_pkt /\ r.nb_rx = st[s].nb_rx
      /\ r.nb_segs = n
  BY <1>4 DEF StreamType
<1> HIDE DEF r
<1>8. Len(st[s].burst[st[s].nb_pkt + 1].lens) = 1
  BY <1>2, <1>4 DEF Place
<1>9. Place(engine, r)
  BY <1>2, <1>4, <1>7, <1>8 DEF Place, Forwards, FlowPcs, TxPcs, Unsending
<1> QED
  BY <1>1, <1>2, <1>5, <1>6, <1>9, TypeStep

LEMMA TypeTxSegment ==
    ASSUME TypeInv, NEW s \in Stream, TxSegment(s)
    PROVE  TypeInv'
<1>1. /\ At(s, "segments") /\ Len(Making(s).lens) < st[s].nb_segs
      /\ UNCHANGED <<settings, fixed, nic, fs, bursts, changes, next_flow, crashed, torn>>
  BY DEF TxSegment, AllocFrame
<1>2. /\ crashed = {} /\ st[s].pc = "segments" /\ bursts[s] < MaxBursts[engine][s]
      /\ pool \subseteq Mbuf /\ nic \subseteq PacketType(engine) /\ next_flow \in Int
      /\ fs \in [Stream -> CounterType]
  BY <1>1, AtIs
<1>3. PICK ms \in [1 .. 1 -> pool] : \E p \in PacketType(engine) :
         /\ pool' = pool \ Range(ms)
         /\ p.lens = Append(Making(s).lens, tx_pkt_seg_lengths[Len(Making(s).lens) + 1])
         /\ Len(Making(s).lens) + 1 \in 1 .. NumLengths
         /\ Set(s, [st[s] EXCEPT !.burst = [@ EXCEPT ![st[s].nb_pkt + 1] = p]])
  BY TxSegmentIs
<1>4. PICK p \in PacketType(engine) :
         /\ p.lens = Append(Making(s).lens, tx_pkt_seg_lengths[Len(Making(s).lens) + 1])
         /\ Len(Making(s).lens) + 1 \in 1 .. NumLengths
         /\ Set(s, [st[s] EXCEPT !.burst = [@ EXCEPT ![st[s].nb_pkt + 1] = p]])
  BY <1>3
<1> DEFINE n == st[s].nb_pkt
           b == [st[s].burst EXCEPT ![n + 1] = p]
           r == [st[s] EXCEPT !.burst = b]
<1>5. /\ st[s] \in StreamType(engine) /\ Place(engine, st[s]) /\ n \in Nat
      /\ Len(st[s].burst) = n + 1 /\ st[s].burst \in Seq(PacketType(engine))
      /\ Making(s).lens \in Seq(Nat) /\ Len(Making(s).lens) \in Nat
      /\ engine = "txonly" /\ n < MAX_PKT_BURST /\ st[s].nb_tx = 0 /\ st[s].retry = 0
      /\ st[s].nb_segs \in Nat
  BY <1>2, StreamIs, MakingIs, Constants, NumLengthsIs DEF TxPcs
<1>6. Set(s, r)
  BY <1>4
<1>7. b \in Seq(PacketType(engine)) /\ Len(b) = n + 1 /\ b[n + 1] = p
  BY <1>5
<1>8. Len(p.lens) = Len(Making(s).lens) + 1
  <2>1. tx_pkt_seg_lengths[Len(Making(s).lens) + 1] \in Nat
    BY <1>4 DEF TypeInv, SettingTypes
  <2> QED
    BY <1>4, <1>5, <2>1, AppendProperties
<1> HIDE DEF b
<1>9. r \in StreamType(engine)
  BY <1>5, <1>7 DEF StreamType
<1>10. /\ r.pc = "segments" /\ r.burst = b /\ r.nb_tx = st[s].nb_tx
       /\ r.retry = st[s].retry /\ r.nb_pkt = n /\ r.nb_rx = st[s].nb_rx
       /\ r.nb_segs = st[s].nb_segs
  BY <1>2, <1>5 DEF StreamType
<1> HIDE DEF r
<1>12. Len(r.burst[r.nb_pkt + 1].lens) \in 1 .. r.nb_segs
  BY <1>1, <1>5, <1>7, <1>8, <1>10
<1>11. Place(engine, r)
  BY <1>5, <1>7, <1>10, <1>12 DEF Place, Forwards, FlowPcs, TxPcs, Unsending
<1> QED
  BY <1>1, <1>2, <1>3, <1>6, <1>9, <1>11, TypeStep

LEMMA TypeTxHeaders ==
    ASSUME TypeInv, NEW s \in Stream, TxHeaders(s)
    PROVE  TypeInv'
<1> DEFINE r == [st[s] EXCEPT !.pc = "alloc", !.nb_pkt = @ + 1]
<1>1. /\ At(s, "segments")
      /\ UNCHANGED <<settings, fixed, nic, fs, bursts, changes, next_flow, pool, torn>>
      /\ \/ crashed' = {"headers"} /\ UNCHANGED st
         \/ Set(s, r) /\ UNCHANGED crashed
  BY DEF TxHeaders, AllocFrame
<1>2. /\ crashed = {} /\ st[s].pc = "segments" /\ bursts[s] < MaxBursts[engine][s]
      /\ pool \subseteq Mbuf /\ nic \subseteq PacketType(engine) /\ next_flow \in Int
      /\ fs \in [Stream -> CounterType]
  BY <1>1, AtIs
<1>3. /\ st[s] \in StreamType(engine) /\ Place(engine, st[s]) /\ engine = "txonly"
      /\ st[s].nb_pkt + 1 \in 0 .. MAX_PKT_BURST /\ Len(st[s].burst) = st[s].nb_pkt + 1
      /\ st[s].nb_tx = 0 /\ st[s].retry = 0
  <2>1. st[s] \in StreamType(engine) /\ Place(engine, st[s]) /\ st[s].nb_pkt \in Nat
    BY StreamIs
  <2>2. st[s].pc \in TxPcs
    BY <1>2 DEF TxPcs
  <2>3. /\ engine = "txonly" /\ Len(st[s].burst) = st[s].nb_pkt + 1 /\ st[s].nb_pkt < MAX_PKT_BURST
        /\ st[s].nb_tx = 0 /\ st[s].retry = 0
    BY <2>2, MakingIs
  <2>4. MAX_PKT_BURST \in Nat
    BY Constants
  <2>5. st[s].nb_pkt + 1 \in 0 .. MAX_PKT_BURST
    BY <2>1, <2>3, <2>4
  <2> QED
    BY <2>1, <2>3, <2>5
<1>4. CASE crashed' = {"headers"} /\ UNCHANGED st
  <2>1. Set(s, st[s])
    BY <1>4 DEF Set, TypeInv, LcoreTypes
  <2> QED
    BY <1>1, <1>2, <1>3, <1>4, <2>1, TypeStep
<1>5. CASE Set(s, r) /\ UNCHANGED crashed
  <2>1. r \in StreamType(engine)
    BY <1>3 DEF StreamType, Pc
  <2>2. /\ r.pc = "alloc" /\ r.burst = st[s].burst /\ r.nb_tx = 0 /\ r.retry = 0
        /\ r.nb_pkt = st[s].nb_pkt + 1
    BY <1>3 DEF StreamType
  <2> HIDE DEF r
  <2>3. Place(engine, r)
    BY <1>3, <2>2 DEF Place, Forwards, FlowPcs, TxPcs, Unsending
  <2> QED
    BY <1>1, <1>2, <1>5, <2>1, <2>3, TypeStep
<1> QED
  BY <1>1, <1>4, <1>5

LEMMA TypeTxFails ==
    ASSUME TypeInv, NEW s \in Stream, TxSegmentFails(s)
    PROVE  TypeInv'
<1> DEFINE n == st[s].nb_pkt
           b == SubSeq(st[s].burst, 1, n)
           r == [st[s] EXCEPT !.pc = "send", !.burst = b]
<1>1. /\ At(s, "segments") /\ pool' = Range(Making(s).mbufs)
      /\ UNCHANGED <<settings, fixed, next_flow, nic, fs, changes, crashed, history>>
      /\ Returns(s) \/ (Set(s, r) /\ UNCHANGED bursts)
  BY DEF TxSegmentFails
<1>2. /\ crashed = {} /\ st[s].pc = "segments" /\ bursts[s] < MaxBursts[engine][s]
      /\ pool \subseteq Mbuf /\ nic \subseteq PacketType(engine) /\ next_flow \in Int
      /\ fs \in [Stream -> CounterType]
  BY <1>1, AtIs
<1>3. /\ st[s] \in StreamType(engine) /\ Place(engine, st[s]) /\ engine = "txonly" /\ n \in Nat
      /\ Len(st[s].burst) = n + 1 /\ st[s].burst \in Seq(PacketType(engine))
      /\ st[s].nb_tx = 0 /\ st[s].retry = 0 /\ Making(s) \in PacketType(engine)
  BY <1>2, StreamIs, MakingIs DEF TxPcs
<1>4. pool' \subseteq Mbuf
  BY <1>1, <1>3, PacketIs DEF Mbuf
<1>5. CASE Returns(s)
  BY <1>1, <1>2, <1>4, <1>5, TypeReturns
<1>6. CASE Set(s, r) /\ UNCHANGED bursts
  <2>1. b \in Seq(PacketType(engine)) /\ Len(b) = n
    <3>1. n \in 0 .. Len(st[s].burst)
      BY <1>3
    <3> QED
      BY <1>3, <3>1, CutIs
  <2> HIDE DEF b
  <2>2. r \in StreamType(engine)
    BY <1>3, <2>1 DEF StreamType, Pc
  <2>3. /\ r.pc = "send" /\ r.burst = b /\ r.nb_tx = 0 /\ r.retry = 0 /\ r.nb_pkt = n
    BY <1>3 DEF StreamType
  <2> HIDE DEF r
  <2>4. Place(engine, r)
    BY <1>3, <2>1, <2>3 DEF Place, Forwards, FlowPcs, TxPcs, Unsending
  <2> QED
    BY <1>1, <1>2, <1>4, <1>6, <2>2, <2>4, TypeStep
<1> QED
  BY <1>1, <1>5, <1>6

LEMMA TypeLast ==
    ASSUME TypeInv, NEW s \in Stream, LastPacket(s)
    PROVE  TypeInv'
<1> DEFINE r == [st[s] EXCEPT !.pc = "send"]
<1>1. /\ At(s, "alloc") /\ (Returns(s) \/ (Set(s, r) /\ UNCHANGED bursts))
      /\ UNCHANGED <<settings, fixed, next_flow, pool, nic, fs, changes, crashed, history>>
  BY DEF LastPacket
<1>2. /\ crashed = {} /\ st[s].pc = "alloc" /\ bursts[s] < MaxBursts[engine][s]
      /\ pool \subseteq Mbuf /\ nic \subseteq PacketType(engine) /\ next_flow \in Int
      /\ fs \in [Stream -> CounterType]
  BY <1>1, AtIs
<1>3. CASE Returns(s)
  BY <1>1, <1>2, <1>3, TypeReturns
<1>4. CASE Set(s, r) /\ UNCHANGED bursts
  <2>1. st[s] \in StreamType(engine) /\ Place(engine, st[s])
    BY StreamIs
  <2>2. r \in StreamType(engine) /\ Place(engine, r)
    BY <1>2, <2>1 DEF StreamType, Pc, Place, Forwards, FlowPcs, TxPcs, Unsending
  <2> QED
    BY <1>1, <1>2, <1>4, <2>2, TypeStep
<1> QED
  BY <1>1, <1>3, <1>4

LEMMA TypeTakes ==
    ASSUME TypeInv, NEW s \in Stream, NEW k \in Nat, Takes(s, k),
           st[s].nb_tx + k <= Len(st[s].burst)
    PROVE  nic' \subseteq PacketType(engine) /\ UNCHANGED torn
<1> DEFINE more == {st[s].burst[j] : j \in st[s].nb_tx + 1 .. st[s].nb_tx + k}
<1>1. \A j \in st[s].nb_tx + 1 .. st[s].nb_tx + k : j \in 1 .. Len(st[s].burst)
  BY StreamIs
<1>2. more \subseteq PacketType(engine)
  BY <1>1, StreamIs
<1>3. nic' = nic \cup more /\ UNCHANGED torn
  BY DEF Takes
<1> QED
  BY <1>2, <1>3 DEF TypeInv

LEMMA ToRetryIs ==
    ASSUME TypeInv, NEW s \in Stream
    PROVE  /\ ToRetry(s) \in Nat /\ ToRetry(s) <= Len(st[s].burst)
           /\ st[s].nb_pkt <= Len(st[s].burst)
           /\ ToRetry(s) = IF engine = "flowgen" THEN st[s].nb_rx ELSE st[s].nb_pkt
BY StreamIs DEF Place, ToRetry

LEMMA TypeTxBurst ==
    ASSUME TypeInv, NEW s \in Stream, TxBurst(s)
    PROVE  TypeInv'
<1>1. /\ At(s, "send")
      /\ UNCHANGED <<settings, fixed, next_flow, pool, fs, bursts, changes, crashed>>
  BY DEF TxBurst
<1>2. /\ crashed = {} /\ st[s].pc = "send" /\ bursts[s] < MaxBursts[engine][s]
      /\ pool \subseteq Mbuf /\ nic \subseteq PacketType(engine) /\ next_flow \in Int
      /\ fs \in [Stream -> CounterType]
  BY <1>1, AtIs
<1>3. PICK k \in 0 .. st[s].nb_pkt :
         Takes(s, k) /\ Set(s, [st[s] EXCEPT !.nb_tx = k, !.pc = "retry"])
  BY DEF TxBurst
<1> DEFINE r == [st[s] EXCEPT !.nb_tx = k, !.pc = "retry"]
<1>4. /\ st[s] \in StreamType(engine) /\ Place(engine, st[s]) /\ st[s].nb_pkt \in Nat
      /\ k \in Nat /\ st[s].nb_tx = 0 /\ st[s].nb_pkt <= Len(st[s].burst)
      /\ Len(st[s].burst) \in Nat
  BY <1>2, StreamIs, ToRetryIs DEF Place, Unsending
<1>5. nic' \subseteq PacketType(engine) /\ UNCHANGED torn
  BY <1>3, <1>4, TypeTakes
<1>6. r \in StreamType(engine)
  BY <1>4 DEF StreamType, Pc
<1>7. /\ r.pc = "retry" /\ r.burst = st[s].burst /\ r.nb_tx = k
      /\ r.nb_pkt = st[s].nb_pkt /\ r.nb_rx = st[s].nb_rx
  BY <1>4 DEF StreamType
<1> HIDE DEF r
<1>8. Place(engine, r)
  BY <1>2, <1>3, <1>4, <1>7 DEF Place, Forwards, FlowPcs, TxPcs, Unsending
<1> QED
  BY <1>1, <1>2, <1>3, <1>5, <1>6, <1>8, TypeStep DEF r

LEMMA TypeRetry ==
    ASSUME TypeInv, NEW s \in Stream, Retry(s)
    PROVE  TypeInv'
<1>1. /\ At(s, "retry") /\ st[s].nb_tx < ToRetry(s)
      /\ UNCHANGED <<settings, fixed, next_flow, pool, fs, bursts, changes, crashed>>
  BY DEF Retry
<1>2. /\ crashed = {} /\ st[s].pc = "retry" /\ bursts[s] < MaxBursts[engine][s]
      /\ pool \subseteq Mbuf /\ nic \subseteq PacketType(engine) /\ next_flow \in Int
      /\ fs \in [Stream -> CounterType]
  BY <1>1, AtIs
<1>3. PICK k \in 0 .. ToRetry(s) - st[s].nb_tx :
         Takes(s, k) /\ Set(s, [st[s] EXCEPT !.nb_tx = @ + k, !.retry = @ + 1])
  BY DEF Retry
<1> DEFINE r == [st[s] EXCEPT !.nb_tx = @ + k, !.retry = @ + 1]
<1>4. /\ st[s] \in StreamType(engine) /\ Place(engine, st[s]) /\ st[s].nb_tx \in Nat
      /\ ToRetry(s) \in Nat /\ ToRetry(s) <= Len(st[s].burst) /\ Len(st[s].burst) \in Nat
      /\ ToRetry(s) = IF engine = "flowgen" THEN st[s].nb_rx ELSE st[s].nb_pkt
  BY StreamIs, ToRetryIs
<1>5. k \in Nat /\ st[s].nb_tx + k \in Nat /\ st[s].nb_tx + k <= ToRetry(s)
  BY <1>3, <1>4
<1>6. nic' \subseteq PacketType(engine) /\ UNCHANGED torn
  BY <1>3, <1>4, <1>5, TypeTakes
<1>7. r \in StreamType(engine)
  <2>1. st[s].retry + 1 \in Nat
    BY StreamIs
  <2> QED
    BY <1>4, <1>5, <2>1 DEF StreamType
<1>8. /\ r.pc = "retry" /\ r.burst = st[s].burst /\ r.nb_tx = st[s].nb_tx + k
      /\ r.nb_pkt = st[s].nb_pkt /\ r.nb_rx = st[s].nb_rx
  BY <1>2, <1>4 DEF StreamType
<1> HIDE DEF r
<1>9. Place(engine, r)
  BY <1>2, <1>4, <1>5, <1>8 DEF Place, Forwards, FlowPcs, TxPcs, Unsending
<1> QED
  BY <1>1, <1>2, <1>3, <1>6, <1>7, <1>9, TypeStep DEF r

Unsent(s) == IF st[s].nb_pkt > st[s].nb_tx THEN st[s].nb_pkt - st[s].nb_tx ELSE 0

LEMMA UnsentIs ==
    ASSUME TypeInv, NEW s \in Stream
    PROVE  Unsent(s) \in Nat /\ Unsent(s) <= MAX_PKT_BURST /\ Rest(s) \subseteq PacketType(engine)
<1>1. Unsent(s) \in Nat /\ Unsent(s) <= MAX_PKT_BURST
  BY StreamIs, Constants DEF Unsent
<1>2. \A j \in st[s].nb_tx + 1 .. st[s].nb_pkt : j \in 1 .. Len(st[s].burst)
  BY StreamIs, ToRetryIs
<1>3. Rest(s) \subseteq PacketType(engine)
  BY <1>2, StreamIs DEF Rest
<1> QED
  BY <1>1, <1>3

(* What EndBurst leaves of flowgen's lcore when the NIC did not take all: *)
Backs(s, n) == [st[s] EXCEPT !.pc = "backout", !.flow = TakenBack(n)]

LEMMA EndIs ==
    ASSUME TypeInv, NEW s \in Stream, EndBurst(s)
    PROVE  /\ At(s, "retry") /\ NoMoreTries(s)
           /\ fs' = [fs EXCEPT ![s] =
                       [fs[s] EXCEPT !.tx_packets = @ + st[s].nb_tx,
                          !.fwd_dropped = IF engine = "flowgen" THEN @ ELSE @ + Unsent(s),
                          !.extra = IF engine = "txonly" THEN @ + st[s].nb_pkt ELSE @]]
           /\ fs' \in [Stream -> CounterType]
           /\ IF engine = "flowgen" /\ Unsent(s) > 0
              THEN Set(s, Backs(s, Unsent(s))) /\ UNCHANGED <<pool, bursts>>
              ELSE pool' = pool \cup MbufsOf(Rest(s)) /\ Returns(s)
           /\ UNCHANGED <<settings, fixed, nic, changes, crashed, history, next_flow>>
<1> DEFINE c == [fs[s] EXCEPT !.tx_packets = @ + st[s].nb_tx,
                   !.fwd_dropped = IF engine = "flowgen" THEN @ ELSE @ + Unsent(s),
                   !.extra = IF engine = "txonly" THEN @ + st[s].nb_pkt ELSE @]
<1>1. /\ At(s, "retry") /\ NoMoreTries(s)
      /\ IF engine = "flowgen" /\ Unsent(s) > 0
         THEN Set(s, Backs(s, Unsent(s))) /\ UNCHANGED <<pool, bursts>>
         ELSE pool' = pool \cup MbufsOf(Rest(s)) /\ Returns(s)
      /\ UNCHANGED <<settings, fixed, nic, changes, crashed, history, next_flow>>
  BY DEF EndBurst, Unsent, FreesRest, Backs
<1>2. fs \in [Stream -> CounterType] /\ fs[s] \in CounterType
      /\ Unsent(s) \in Nat /\ st[s].nb_tx \in Nat /\ st[s].nb_pkt \in Nat /\ next_flow \in Int
  BY <1>1, AtIs, StreamIs, UnsentIs
<1>3. fs' = [fs EXCEPT ![s] = c]
  <2>1. fs' = [fs EXCEPT ![s].tx_packets = @ + st[s].nb_tx,
                         ![s].fwd_dropped = IF engine = "flowgen" THEN @ ELSE @ + Unsent(s),
                         ![s].extra = IF engine = "txonly" THEN @ + st[s].nb_pkt ELSE @]
    BY DEF EndBurst, Unsent
  <2> QED
    BY <1>2, <2>1 DEF CounterType
<1>4. c \in CounterType
  <2>1. /\ fs[s].tx_packets + st[s].nb_tx \in Nat
        /\ (IF engine = "flowgen" THEN fs[s].fwd_dropped ELSE fs[s].fwd_dropped + Unsent(s)) \in Nat
        /\ (IF engine = "txonly" THEN fs[s].extra + st[s].nb_pkt ELSE fs[s].extra) \in Int
    BY <1>2 DEF CounterType
  <2> QED
    BY <1>2, <2>1 DEF CounterType
<1> HIDE DEF c
<1>5. fs' \in [Stream -> CounterType]
  BY <1>2, <1>3, <1>4
<1> QED
  BY <1>1, <1>3, <1>5 DEF c

LEMMA TypeEnd ==
    ASSUME TypeInv, NEW s \in Stream, EndBurst(s)
    PROVE  TypeInv'
<1>1. /\ At(s, "retry") /\ fs' \in [Stream -> CounterType]
      /\ IF engine = "flowgen" /\ Unsent(s) > 0
         THEN Set(s, Backs(s, Unsent(s))) /\ UNCHANGED <<pool, bursts>>
         ELSE pool' = pool \cup MbufsOf(Rest(s)) /\ Returns(s)
      /\ UNCHANGED <<settings, fixed, nic, changes, crashed, history, next_flow>>
  BY EndIs
<1>2. /\ crashed = {} /\ st[s].pc = "retry" /\ bursts[s] < MaxBursts[engine][s]
      /\ pool \subseteq Mbuf /\ nic \subseteq PacketType(engine) /\ next_flow \in Int
      /\ fs \in [Stream -> CounterType]
  BY <1>1, AtIs
<1>3. CASE engine = "flowgen" /\ Unsent(s) > 0
  <2> DEFINE r == Backs(s, Unsent(s))
  <2>1. st[s] \in StreamType(engine) /\ Place(engine, st[s]) /\ st[s].nb_tx < st[s].nb_pkt
    BY <1>3, StreamIs DEF Unsent
  <2>2. TakenBack(Unsent(s)) \in Int
    BY <1>2, UnsentIs DEF TakenBack
  <2>3. r \in StreamType(engine) /\ Place(engine, r)
    BY <1>2, <1>3, <2>1, <2>2 DEF Backs, StreamType, Pc, Place, Forwards, FlowPcs, TxPcs, Unsending
  <2> HIDE DEF r
  <2>4. Set(s, r)
    BY <1>1, <1>3 DEF r
  <2> QED
    BY <1>1, <1>2, <1>3, <2>3, <2>4, TypeStep
<1>4. CASE ~(engine = "flowgen" /\ Unsent(s) > 0)
  <2>1. MbufsOf(Rest(s)) \subseteq Mbuf
    BY UnsentIs, MbufsType
  <2>2. pool' \subseteq Mbuf
    BY <1>1, <1>2, <1>4, <2>1
  <2> QED
    BY <1>1, <1>2, <1>4, <2>2, TypeReturns
<1> QED
  BY <1>3, <1>4

LEMMA TypeBackOut ==
    ASSUME TypeInv, NEW s \in Stream, BackOut(s)
    PROVE  TypeInv'
<1> DEFINE r == [st[s] EXCEPT !.pc = "backed"]
<1>1. /\ At(s, "backout") /\ next_flow' = st[s].flow /\ Set(s, r)
      /\ UNCHANGED <<settings, fixed, pool, nic, fs, bursts, changes, crashed, history>>
  BY DEF BackOut
<1>2. /\ crashed = {} /\ st[s].pc = "backout" /\ bursts[s] < MaxBursts[engine][s]
      /\ pool \subseteq Mbuf /\ nic \subseteq PacketType(engine) /\ next_flow \in Int
      /\ fs \in [Stream -> CounterType]
  BY <1>1, AtIs
<1>3. st[s] \in StreamType(engine) /\ Place(engine, st[s]) /\ next_flow' \in Int
  BY <1>1, StreamIs
<1>4. r \in StreamType(engine) /\ Place(engine, r)
  BY <1>2, <1>3 DEF StreamType, Pc, Place, Forwards, FlowPcs, TxPcs, Unsending
<1> QED
  BY <1>1, <1>2, <1>3, <1>4, TypeStep

LEMMA TypeBackedOut ==
    ASSUME TypeInv, NEW s \in Stream, BackedOut(s)
    PROVE  TypeInv'
<1>1. /\ At(s, "backed")
      /\ UNCHANGED <<settings, fixed, next_flow, nic, fs, changes, crashed, history>>
  BY DEF BackedOut
<1>2. /\ crashed = {} /\ st[s].pc = "backed" /\ bursts[s] < MaxBursts[engine][s]
      /\ pool \subseteq Mbuf /\ nic \subseteq PacketType(engine) /\ next_flow \in Int
      /\ fs \in [Stream -> CounterType]
  BY <1>1, AtIs
<1>3. PICK now \in Reads(s) :
         IF now < 0
         THEN Set(s, [st[s] EXCEPT !.pc = "add", !.flow = now]) /\ UNCHANGED <<pool, bursts>>
         ELSE FreesRest(s)
  BY DEF BackedOut
<1>4. CASE now < 0
  <2> DEFINE r == [st[s] EXCEPT !.pc = "add", !.flow = now]
  <2>1. st[s] \in StreamType(engine) /\ Place(engine, st[s]) /\ now \in Int
    BY <1>2, <1>3, StreamIs DEF Reads
  <2>2. r \in StreamType(engine) /\ Place(engine, r)
    BY <1>2, <2>1 DEF StreamType, Pc, Place, Forwards, FlowPcs, TxPcs, Unsending
  <2>3. Set(s, r) /\ UNCHANGED <<pool, bursts>>
    BY <1>3, <1>4
  <2> HIDE DEF r
  <2> QED
    BY <1>1, <1>2, <2>2, <2>3, TypeStep
<1>5. CASE ~(now < 0)
  <2>1. pool' = pool \cup MbufsOf(Rest(s)) /\ Returns(s)
    BY <1>3, <1>5 DEF FreesRest
  <2>2. MbufsOf(Rest(s)) \subseteq Mbuf
    BY UnsentIs, MbufsType
  <2>3. pool' \subseteq Mbuf
    BY <1>2, <2>1, <2>2
  <2> QED
    BY <1>1, <1>2, <2>1, <2>3, TypeReturns
<1> QED
  BY <1>4, <1>5

LEMMA TypeAdd ==
    ASSUME TypeInv, NEW s \in Stream, AddFlows(s)
    PROVE  TypeInv'
<1>1. /\ At(s, "add")
      /\ UNCHANGED <<settings, fixed, next_flow, pool, nic, fs, bursts, changes, crashed, history>>
  BY DEF AddFlows
<1>2. /\ crashed = {} /\ st[s].pc = "add" /\ bursts[s] < MaxBursts[engine][s]
      /\ pool \subseteq Mbuf /\ nic \subseteq PacketType(engine) /\ next_flow \in Int
      /\ fs \in [Stream -> CounterType]
  BY <1>1, AtIs
<1>3. PICK now \in Reads(s) :
         Set(s, [st[s] EXCEPT !.pc = "backout", !.flow = now + cfg_n_flows])
  BY DEF AddFlows
<1> DEFINE r == [st[s] EXCEPT !.pc = "backout", !.flow = now + cfg_n_flows]
<1>4. st[s] \in StreamType(engine) /\ Place(engine, st[s]) /\ now + cfg_n_flows \in Int
  BY <1>2, <1>3, StreamIs, Constants DEF Reads
<1>5. r \in StreamType(engine) /\ Place(engine, r)
  BY <1>2, <1>4 DEF StreamType, Pc, Place, Forwards, FlowPcs, TxPcs, Unsending
<1>6. Set(s, r)
  BY <1>3
<1> HIDE DEF r
<1> QED
  BY <1>1, <1>2, <1>5, <1>6, TypeStep

LEMMA TypeLcore ==
    ASSUME TypeInv, NEW s \in Stream, Lcore(s)
    PROVE  TypeInv'
<1>1. CASE RxBurst(s)
  BY <1>1, TypeRx
<1>2. CASE IoForward(s) \/ MacForward(s) \/ MacSwap(s)
  <2>1. {"received", "peer", "swapped"} \subseteq Addrs
    BY DEF Addrs
  <2> QED
    BY <1>2, <2>1, TypeRewrites DEF IoForward, MacForward, MacSwap
<1>3. CASE IcmpEcho(s)
  BY <1>3, TypeEcho
<1>4. CASE CsumPacket(s)
  BY <1>4, TypeCsum
<1>5. CASE FlowPacket(s)
  BY <1>5, TypeFlow
<1>6. CASE NextFlow(s)
  BY <1>6, TypeNextFlow
<1>7. CASE TxPacket(s)
  BY <1>7, TypeTxPacket
<1>8. CASE LastPacket(s)
  BY <1>8, TypeLast
<1>9. CASE TxBurst(s)
  BY <1>9, TypeTxBurst
<1>10. CASE Retry(s)
  BY <1>10, TypeRetry
<1>11. CASE EndBurst(s)
  BY <1>11, TypeEnd
<1>12. CASE BackOut(s)
  BY <1>12, TypeBackOut
<1>13. CASE CountFlow(s) \/ BackedOut(s) \/ AddFlows(s)
  BY <1>13, TypeCountFlow, TypeBackedOut, TypeAdd
<1>14. CASE TxSplit(s) \/ TxSegment(s) \/ TxHeaders(s) \/ TxSegmentFails(s)
  BY <1>14, TypeTxSplit, TypeTxSegment, TypeTxHeaders, TypeTxFails
<1> QED
  BY <1>1, <1>2, <1>3, <1>4, <1>5, <1>6, <1>7, <1>8, <1>9, <1>10, <1>11, <1>12, <1>13, <1>14
     DEF Lcore

LEMMA TypeTxDone ==
    ASSUME TypeInv, TxDone
    PROVE  TypeInv'
<1>1. /\ crashed = {} /\ pool' = pool \cup MbufsOf(nic) /\ nic' = {}
      /\ UNCHANGED <<settings, fixed, next_flow, st, fs, bursts, changes, crashed, history>>
  BY DEF TxDone
<1>2. pool' \subseteq Mbuf
  BY <1>1, MbufsType DEF TypeInv
<1>3. Mbuf' = Mbuf /\ engine' = engine
  BY <1>1 DEF Mbuf, fixed
<1>4. SettingTypes'
  BY <1>1 DEF TypeInv, SettingTypes, settings, segments, fixed
<1>5. LcoreTypes'
  BY <1>1, <1>3 DEF TypeInv, LcoreTypes
<1> QED
  BY <1>1, <1>2, <1>3, <1>4, <1>5 DEF TypeInv, fixed, history

(* A command changes the settings only. *)
LEMMA TypeCommand ==
    ASSUME TypeInv, CommandFrame, SettingTypes', changes' \in 0 .. MaxChanges[engine],
           torn' \subseteq Stream
    PROVE  TypeInv'
<1>1. /\ engine' = engine /\ burst_tx_retry_num' = burst_tx_retry_num /\ pool' = pool /\ nic' = nic
      /\ st' = st /\ fs' = fs /\ bursts' = bursts /\ crashed' = crashed /\ next_flow' = next_flow
  BY DEF CommandFrame, fixed
<1>2. Mbuf' = Mbuf
  BY <1>1 DEF Mbuf
<1>3. LcoreTypes'
  BY <1>1 DEF TypeInv, LcoreTypes
<1> QED
  BY <1>1, <1>2, <1>3 DEF TypeInv

LEMMA TxPktsIs ==
    ASSUME NEW lens \in Range(TxPkts)
    PROVE  lens \in Seq(Nat) /\ Len(lens) <= NumLengths
<1>1. TxPkts \in Seq(Seq(Nat))
  BY EnginesAssumption
<1> QED
  BY <1>1, RangeIs, EnginesAssumption DEF NumLengths

LEMMA ChangesIs ==
    ASSUME TypeInv, Command
    PROVE  changes' \in 0 .. MaxChanges[engine] /\ CommandFrame /\ crashed = {} /\ setting = <<>>
<1>1. MaxChanges[engine] \in Nat
  BY Constants, EnginesAssumption
<1> QED
  BY <1>1 DEF Command, TypeInv

LEMMA TypeThread ==
    ASSUME TypeInv, CommandThread
    PROVE  TypeInv'
<1>1. SettingTypes /\ engine \in Engine
  BY DEF TypeInv
<1>2. ASSUME NEW n \in BurstSizes, SetBurst(n) PROVE TypeInv'
  <2>1. Command /\ pkt_ip_hdr' = pkt_ip_hdr /\ torn' \subseteq Stream
    BY <1>2 DEF SetBurst, Command, CommandFrame, fixed, TypeInv
  <2>2. SettingTypes'
    BY <1>1, <1>2, <2>1 DEF SettingTypes, segments, SetBurst, BurstAllowed
  <2> QED
    BY <2>1, <2>2, ChangesIs, TypeCommand
<1>3. ASSUME NEW split \in {"off", "on", "rnd"}, SetTxSplit(split) PROVE TypeInv'
  <2>1. Command /\ pkt_ip_hdr' = pkt_ip_hdr /\ torn' \subseteq Stream
    BY <1>3 DEF SetTxSplit, Command, CommandFrame, fixed, TypeInv
  <2>2. SettingTypes'
    BY <1>1, <1>3, <2>1 DEF SettingTypes, segments, SetTxSplit
  <2> QED
    BY <2>1, <2>2, ChangesIs, TypeCommand
<1>4. ASSUME NEW cfg \in Configs, SetCsumConfig(cfg) PROVE TypeInv'
  <2>1. Command /\ pkt_ip_hdr' = pkt_ip_hdr /\ torn' \subseteq Stream
    BY <1>4 DEF SetCsumConfig, Command, CommandFrame, fixed, TypeInv
  <2>2. SettingTypes'
    BY <1>1, <1>4, <2>1 DEF SettingTypes, segments, SetCsumConfig
  <2> QED
    BY <2>1, <2>2, ChangesIs, TypeCommand
<1>5. csum_config \in Configs
  BY <1>1 DEF SettingTypes
<1>6. ASSUME NEW proto \in OlFlags \ {"PARSE_TUNNEL"}, NEW hw \in BOOLEAN, SetCsum(proto, hw)
      PROVE  TypeInv'
  <2> DEFINE fl  == IF hw THEN csum_config.flags \cup {proto} ELSE csum_config.flags \ {proto}
             cfg == [csum_config EXCEPT !.flags = fl]
  <2>1. cfg \in Configs
    BY <1>5 DEF Configs
  <2>2. SetCsumConfig(cfg)
    BY <1>6 DEF SetCsum
  <2> QED
    BY <1>4, <2>1, <2>2
<1>7. ASSUME NEW on \in BOOLEAN, SetParseTunnel(on) PROVE TypeInv'
  <2> DEFINE off == csum_config.flags \ {"PARSE_TUNNEL"}
             cfg == [csum_config EXCEPT !.flags = IF on THEN off \cup {"PARSE_TUNNEL"} ELSE off]
  <2>1. cfg \in Configs
    BY <1>5 DEF Configs, OlFlags
  <2>2. SetCsumConfig(cfg)
    BY <1>7 DEF SetParseTunnel
  <2> QED
    BY <1>4, <2>1, <2>2
<1>8. ASSUME NEW segsz \in {0, 1}, SetTso(segsz) \/ SetTunnelTso(segsz) PROVE TypeInv'
  <2>1. /\ [csum_config EXCEPT !.tso_segsz = segsz] \in Configs
        /\ [csum_config EXCEPT !.tunnel_tso_segsz = segsz] \in Configs
    BY <1>5 DEF Configs
  <2> QED
    BY <1>4, <1>8, <2>1 DEF SetTso, SetTunnelTso
<1>9. ASSUME NEW lens \in Range(TxPkts), SetTxPkts(lens) PROVE TypeInv'
  <2>1. Command /\ pkt_ip_hdr' = pkt_ip_hdr /\ torn' \subseteq Stream
    BY <1>9 DEF SetTxPkts, Command, CommandFrame, fixed, TypeInv
  <2>2. lens \in Seq(Nat) /\ Len(lens) <= NumLengths /\ 0 \in 0 .. Len(lens)
    BY TxPktsIs, LenProperties
  <2>3. SettingTypes'
    BY <1>1, <1>9, <2>1, <2>2 DEF SettingTypes, SetTxPkts
  <2> QED
    BY <2>1, <2>3, ChangesIs, TypeCommand
<1>10. ASSUME SetTxPktNumber PROVE TypeInv'
  <2>1. /\ setting # <<>> /\ CommandFrame /\ changes' = changes /\ setting' = <<>> /\ nb_set' = 0
        /\ tx_pkt_length' = Bytes(setting) % 65536 /\ tx_pkt_nb_segs' = Len(setting)
        /\ UNCHANGED <<nb_pkt_per_burst, tx_pkt_split, csum_config, tx_pkt_seg_lengths>>
        /\ pkt_ip_hdr' = pkt_ip_hdr /\ torn' = torn
    BY <1>10 DEF SetTxPktNumber, SettingFrame, CommandFrame, fixed
  <2>2. setting \in Seq(Nat) /\ Len(setting) \in Nat \ {0} /\ Len(setting) <= NumLengths
    BY <1>1, <2>1, LenProperties, EmptySeq DEF SettingTypes
  <2>3. Bytes(setting) % 65536 \in Nat
    <3>1. Bytes(setting) \in Nat
      BY <2>2, BytesIs
    <3> QED
      BY <3>1
  <2>4. setting' \in Seq(Nat) /\ Len(setting') = 0 /\ NumLengths \in Nat
    BY <2>1, Constants
  <2>5. SettingTypes'
    BY <1>1, <2>1, <2>2, <2>3, <2>4 DEF SettingTypes
  <2> QED
    BY <2>1, <2>5, TypeCommand DEF TypeInv
<1>11. ASSUME SetTxPktLength PROVE TypeInv'
  <2>1. /\ nb_set < Len(setting) /\ CommandFrame /\ changes' = changes /\ nb_set' = nb_set + 1
        /\ tx_pkt_seg_lengths' = [tx_pkt_seg_lengths EXCEPT ![nb_set + 1] = setting[nb_set + 1]]
        /\ UNCHANGED <<nb_pkt_per_burst, tx_pkt_split, csum_config, tx_pkt_nb_segs,
                       tx_pkt_length, setting>>
        /\ pkt_ip_hdr' = pkt_ip_hdr /\ torn' = torn
    BY <1>11 DEF SetTxPktLength, SettingFrame, CommandFrame, fixed
  <2>2. /\ setting \in Seq(Nat) /\ nb_set \in 0 .. Len(setting) /\ Len(setting) \in Nat
        /\ tx_pkt_seg_lengths \in [1 .. NumLengths -> Nat]
    BY <1>1, LenProperties DEF SettingTypes
  <2>3. setting[nb_set + 1] \in Nat /\ nb_set + 1 \in 0 .. Len(setting)
    BY <2>1, <2>2, SeqTypes
  <2>4. tx_pkt_seg_lengths' \in [1 .. NumLengths -> Nat]
    BY <2>1, <2>2, <2>3
  <2>5. SettingTypes'
    BY <1>1, <2>1, <2>3, <2>4 DEF SettingTypes
  <2> QED
    BY <2>1, <2>5, TypeCommand DEF TypeInv
<1> QED
  BY <1>2, <1>3, <1>6, <1>7, <1>8, <1>9, <1>10, <1>11 DEF CommandThread

LEMMA TypeNext == TypeInv /\ [Next]_vars => TypeInv'
<1> SUFFICES ASSUME TypeInv, [Next]_vars PROVE TypeInv'
  OBVIOUS
<1>1. CASE \E s \in Stream : Lcore(s)
  BY <1>1, TypeLcore
<1>2. CASE TxDone
  BY <1>2, TypeTxDone
<1>3. CASE CommandThread
  BY <1>3, TypeThread
<1>4. CASE UNCHANGED vars
  <2>1. Mbuf' = Mbuf
    BY <1>4 DEF vars, fixed, Mbuf
  <2>2. SettingTypes' /\ LcoreTypes'
    BY <1>4 DEF vars, settings, segments, fixed, TypeInv, SettingTypes, LcoreTypes
  <2> QED
    BY <1>4, <2>1, <2>2 DEF vars, fixed, history, TypeInv
<1> QED
  BY <1>1, <1>2, <1>3, <1>4 DEF Next

(***************************************************************************)
(* At each place of an lcore its burst is of the engine's packets, and its *)
(* counts are within the array pkts_burst (struct fwd_stream, and the      *)
(* local variables of the engines' loops); the segments are those of a set *)
(* txpkts, half way included.                                              *)
(***************************************************************************)
THEOREM Types == Spec => []TypeInv
<1>1. Init => TypeInv
  BY TypeInit
<1>2. TypeInv /\ [Next]_vars => TypeInv'
  BY TypeNext
<1> QED
  BY <1>1, <1>2, PTL DEF Spec

-----------------------------------------------------------------------------

(***************************************************************************)
(* Lcores survive. The segments that are set hold the headers of txonly's  *)
(* packets, and those that set txpkts has accepted will once they are      *)
(* written. A packet that is not torn has the lengths that are set and, if *)
(* they are not drawn, as many: nothing was accepted since it was begun.   *)
(***************************************************************************)
SegsHold ==
    /\ setting = <<>> => Bytes(SubSeq(tx_pkt_seg_lengths, 1, tx_pkt_nb_segs)) >= HDR_LEN
    /\ setting # <<>> => /\ \A i \in 1 .. nb_set : tx_pkt_seg_lengths[i] = setting[i]
                         /\ Bytes(setting) >= HDR_LEN

AsSet(s) ==
    /\ setting = <<>>
    /\ \A i \in 1 .. Len(Making(s).lens) : Making(s).lens[i] = tx_pkt_seg_lengths[i]
    /\ st[s].pc = "segments" /\ st[s].split # "rnd" => st[s].nb_segs = tx_pkt_nb_segs
PacketsHold == \A s \in Stream : st[s].pc \in TxPcs /\ s \notin torn => AsSet(s)

LEMMA LcoreFrame ==
    ASSUME NEW s \in Stream, Lcore(s)
    PROVE  UNCHANGED <<settings, fixed, changes>> /\ crashed = {}
<1>1. CASE RxBurst(s)
  BY <1>1 DEF RxBurst, At
<1>2. CASE IoForward(s) \/ MacForward(s) \/ MacSwap(s)
  BY <1>2 DEF IoForward, MacForward, MacSwap, Rewrites, At
<1>3. CASE IcmpEcho(s)
  BY <1>3 DEF IcmpEcho, At
<1>4. CASE CsumPacket(s)
  BY <1>4 DEF CsumPacket, At
<1>5. CASE FlowPacket(s) \/ CountFlow(s) \/ NextFlow(s)
  BY <1>5 DEF FlowPacket, CountFlow, NextFlow, AllocFrame, At
<1>6. CASE TxPacket(s) \/ TxSplit(s) \/ TxSegment(s) \/ TxHeaders(s) \/ TxSegmentFails(s)
  BY <1>6 DEF TxPacket, TxSplit, TxSegment, TxHeaders, TxSegmentFails, AllocFrame, At
<1>7. CASE LastPacket(s) \/ TxBurst(s) \/ Retry(s) \/ EndBurst(s)
  BY <1>7 DEF LastPacket, TxBurst, Retry, EndBurst, At
<1>8. CASE BackOut(s) \/ BackedOut(s) \/ AddFlows(s)
  BY <1>8 DEF BackOut, BackedOut, AddFlows, At
<1> QED
  BY <1>1, <1>2, <1>3, <1>4, <1>5, <1>6, <1>7, <1>8 DEF Lcore

(* Only two steps of an lcore do not leave it running. *)
LEMMA LcoreCrashes ==
    ASSUME NEW s \in Stream, Lcore(s)
    PROVE  crashed' = {} \/ IcmpEcho(s) \/ TxHeaders(s)
<1>1. crashed = {}
  BY LcoreFrame
<1>2. CASE RxBurst(s)
  BY <1>1, <1>2 DEF RxBurst
<1>3. CASE IoForward(s) \/ MacForward(s) \/ MacSwap(s)
  BY <1>1, <1>3 DEF IoForward, MacForward, MacSwap, Rewrites
<1>4. CASE CsumPacket(s)
  BY <1>1, <1>4 DEF CsumPacket
<1>5. CASE FlowPacket(s) \/ CountFlow(s) \/ NextFlow(s)
  BY <1>1, <1>5 DEF FlowPacket, CountFlow, NextFlow
<1>6. CASE TxPacket(s) \/ TxSplit(s) \/ TxSegment(s) \/ TxSegmentFails(s)
  BY <1>1, <1>6 DEF TxPacket, TxSplit, TxSegment, TxSegmentFails
<1>7. CASE LastPacket(s) \/ TxBurst(s) \/ Retry(s) \/ EndBurst(s)
  BY <1>1, <1>7 DEF LastPacket, TxBurst, Retry, EndBurst
<1>8. CASE BackOut(s) \/ BackedOut(s) \/ AddFlows(s)
  BY <1>1, <1>8 DEF BackOut, BackedOut, AddFlows
<1> QED
  BY <1>2, <1>3, <1>4, <1>5, <1>6, <1>7, <1>8 DEF Lcore

(* A step of an lcore is of its own stream. *)
LEMMA LcoreSets ==
    ASSUME TypeInv, NEW s \in Stream, Lcore(s)
    PROVE  UNCHANGED st \/ \E r : Set(s, r)
<1>1. CASE RxBurst(s)
  BY <1>1 DEF RxBurst, Returns
<1>2. CASE IoForward(s) \/ MacForward(s) \/ MacSwap(s)
  BY <1>2 DEF IoForward, MacForward, MacSwap, Rewrites
<1>3. CASE IcmpEcho(s)
  BY <1>3 DEF IcmpEcho, Returns
<1>4. CASE CsumPacket(s)
  BY <1>4, CsumIs
<1>5. CASE FlowPacket(s) \/ CountFlow(s) \/ NextFlow(s)
  BY <1>5 DEF FlowPacket, CountFlow, NextFlow
<1>6. CASE TxPacket(s) \/ TxSplit(s) \/ TxSegment(s) \/ TxHeaders(s) \/ TxSegmentFails(s)
  BY <1>6 DEF TxPacket, TxSplit, TxSegment, TxHeaders, TxSegmentFails, Returns
<1>7. CASE LastPacket(s) \/ TxBurst(s) \/ Retry(s) \/ EndBurst(s)
  BY <1>7 DEF LastPacket, TxBurst, Retry, EndBurst, FreesRest, Returns
<1>8. CASE BackOut(s) \/ BackedOut(s) \/ AddFlows(s)
  BY <1>8 DEF BackOut, BackedOut, AddFlows, FreesRest, Returns
<1> QED
  BY <1>1, <1>2, <1>3, <1>4, <1>5, <1>6, <1>7, <1>8 DEF Lcore

LEMMA LcoreOwn ==
    ASSUME TypeInv, NEW s \in Stream, Lcore(s), NEW t \in Stream \ {s}
    PROVE  st'[t] = st[t]
<1>1. CASE UNCHANGED st
  BY <1>1
<1>2. ASSUME NEW r, Set(s, r) PROVE st'[t] = st[t]
  BY <1>2, SetIs
<1> QED
  BY <1>1, <1>2, LcoreSets

(* What is not a step of txonly's packet does not begin one. *)
LEMMA LeavesTx ==
    ASSUME TypeInv, NEW s \in Stream, Lcore(s),
           ~(TxPacket(s) \/ TxSplit(s) \/ TxSegment(s))
    PROVE  torn' = torn /\ (UNCHANGED st \/ st'[s].pc \notin TxPcs)
<1>1. /\ st[s] \in StreamType(engine) /\ engine \notin TxPcs /\ Idle(FirstPc).pc \notin TxPcs
  BY StreamIs, Constants, FirstIs, IdleType DEF TxPcs
<1> DEFINE Goes(r) == Set(s, r) /\ r.pc \notin TxPcs
<1>2. ASSUME NEW r, Goes(r) PROVE st'[s].pc \notin TxPcs
  BY <1>2, SetIs
<1>3. Returns(s) => Goes(Idle(FirstPc))
  BY <1>1 DEF Returns
<1>4. CASE RxBurst(s)
  <2>1. \E r : Goes(r)
    <3>1. PICK n, pkts, S : Received(s, n, pkts, S)
      BY <1>4, RxIs
    <3>2. CASE engine = "rxonly"
      BY <1>3, <3>1, <3>2 DEF Received
    <3>3. CASE engine # "rxonly"
      <4> DEFINE r == IF engine = "flowgen"
                      THEN [st[s] EXCEPT !.pc = "alloc", !.burst = pkts, !.nb_rx = n,
                                         !.len = tx_pkt_length - 4]
                      ELSE [st[s] EXCEPT !.pc = engine, !.burst = pkts, !.nb_rx = n,
                                         !.nb_pkt = n]
      <4>1. r.pc \notin TxPcs
        BY <1>1 DEF StreamType, TxPcs
      <4>2. Set(s, r)
        BY <3>1, <3>3 DEF Received
      <4> QED
        BY <4>1, <4>2
    <3> QED
      BY <3>2, <3>3
  <2> QED
    BY <1>2, <1>4, <2>1 DEF RxBurst, history
<1>5. CASE IoForward(s) \/ MacForward(s) \/ MacSwap(s)
  <2>1. PICK addr : Rewrites(s, addr)
    BY <1>5 DEF IoForward, MacForward, MacSwap
  <2>2. [st[s] EXCEPT !.burst = Rewritten(s, addr), !.pc = "send"].pc \notin TxPcs
    BY <1>1 DEF StreamType, TxPcs
  <2> QED
    BY <1>2, <2>1, <2>2 DEF Rewrites, history
<1>6. CASE IcmpEcho(s)
  <2>1. [st[s] EXCEPT !.burst = Replies(s), !.pc = "send",
                      !.nb_pkt = Cardinality(Echoed(s))].pc \notin TxPcs
    BY <1>1 DEF StreamType, TxPcs
  <2>2. UNCHANGED st \/ \E r : Goes(r)
    BY <1>3, <1>6, <2>1 DEF IcmpEcho
  <2> QED
    BY <1>2, <1>6, <2>2 DEF IcmpEcho, history
<1>7. CASE CsumPacket(s)
  <2>1. PICK new, info :
           Set(s, [st[s] EXCEPT !.i = @ + 1, !.info = info,
                      !.pc = IF st[s].i = st[s].nb_rx THEN "send" ELSE "csum",
                      !.burst = [@ EXCEPT ![st[s].i] = new]])
    BY <1>7, CsumIs
  <2>2. [st[s] EXCEPT !.i = @ + 1, !.info = info,
                      !.pc = IF st[s].i = st[s].nb_rx THEN "send" ELSE "csum",
                      !.burst = [@ EXCEPT ![st[s].i] = new]].pc \notin TxPcs
    BY <1>1 DEF StreamType, TxPcs
  <2> QED
    BY <1>2, <1>7, <2>1, <2>2 DEF CsumPacket, history
<1>8. CASE FlowPacket(s)
  <2>1. PICK p :
           Set(s, [st[s] EXCEPT !.pc = "count", !.nb_pkt = @ + 1, !.flow = next_flow,
                      !.burst = [j \in DOMAIN @ \cup {st[s].nb_pkt + 1} |->
                                    IF j = st[s].nb_pkt + 1 THEN p ELSE @[j]]])
    BY <1>8, FlowPacketIs
  <2>2. [st[s] EXCEPT !.pc = "count", !.nb_pkt = @ + 1, !.flow = next_flow,
                      !.burst = [j \in DOMAIN @ \cup {st[s].nb_pkt + 1} |->
                                    IF j = st[s].nb_pkt + 1 THEN p ELSE @[j]]].pc \notin TxPcs
    BY <1>1 DEF StreamType, TxPcs
  <2> QED
    BY <1>2, <1>8, <2>1, <2>2 DEF FlowPacket
<1>9. CASE CountFlow(s)
  <2>1. PICK f : Set(s, [st[s] EXCEPT !.pc = "counted", !.flow = f])
    BY <1>9 DEF CountFlow
  <2>2. [st[s] EXCEPT !.pc = "counted", !.flow = f].pc \notin TxPcs
    BY <1>1 DEF StreamType, TxPcs
  <2> QED
    BY <1>2, <1>9, <2>1, <2>2 DEF CountFlow
<1>10. CASE NextFlow(s)
  <2>1. [st[s] EXCEPT !.pc = "alloc"].pc \notin TxPcs
    BY <1>1 DEF StreamType, TxPcs
  <2> QED
    BY <1>2, <1>10, <2>1 DEF NextFlow
<1>11. CASE TxHeaders(s)
  <2>1. [st[s] EXCEPT !.pc = "alloc", !.nb_pkt = @ + 1].pc \notin TxPcs
    BY <1>1 DEF StreamType, TxPcs
  <2> QED
    BY <1>2, <1>11, <2>1 DEF TxHeaders
<1>12. CASE TxSegmentFails(s)
  <2>1. [st[s] EXCEPT !.pc = "send", !.burst = SubSeq(@, 1, st[s].nb_pkt)].pc \notin TxPcs
    BY <1>1 DEF StreamType, TxPcs
  <2>2. \E r : Goes(r)
    BY <1>3, <1>12, <2>1 DEF TxSegmentFails
  <2> QED
    BY <1>2, <1>12, <2>2 DEF TxSegmentFails, history
<1>13. CASE LastPacket(s)
  <2>1. [st[s] EXCEPT !.pc = "send"].pc \notin TxPcs
    BY <1>1 DEF StreamType, TxPcs
  <2>2. \E r : Goes(r)
    BY <1>3, <1>13, <2>1 DEF LastPacket
  <2> QED
    BY <1>2, <1>13, <2>2 DEF LastPacket, history
<1>14. CASE TxBurst(s)
  <2>1. PICK k : Takes(s, k) /\ Set(s, [st[s] EXCEPT !.nb_tx = k, !.pc = "retry"])
    BY <1>14 DEF TxBurst
  <2>2. [st[s] EXCEPT !.nb_tx = k, !.pc = "retry"].pc \notin TxPcs
    BY <1>1 DEF StreamType, TxPcs
  <2> QED
    BY <1>2, <2>1, <2>2 DEF Takes
<1>15. CASE Retry(s)
  <2>1. PICK k : Takes(s, k) /\ Set(s, [st[s] EXCEPT !.nb_tx = @ + k, !.retry = @ + 1])
    BY <1>15 DEF Retry
  <2>2. [st[s] EXCEPT !.nb_tx = @ + k, !.retry = @ + 1].pc \notin TxPcs
    BY <1>1, <1>15 DEF StreamType, TxPcs, Retry, At
  <2> QED
    BY <1>2, <2>1, <2>2 DEF Takes
<1>16. CASE EndBurst(s)
  <2>1. Backs(s, Unsent(s)).pc \notin TxPcs
    BY <1>1 DEF StreamType, TxPcs, Backs
  <2>2. \E r : Goes(r)
    BY <1>3, <1>16, <2>1, EndIs
  <2> QED
    BY <1>2, <1>16, <2>2 DEF EndBurst, history
<1>17. CASE BackOut(s)
  <2>1. [st[s] EXCEPT !.pc = "backed"].pc \notin TxPcs
    BY <1>1 DEF StreamType, TxPcs
  <2> QED
    BY <1>2, <1>17, <2>1 DEF BackOut, history
<1>18. CASE BackedOut(s)
  <2>1. \A f : [st[s] EXCEPT !.pc = "add", !.flow = f].pc \notin TxPcs
    BY <1>1 DEF StreamType, TxPcs
  <2>2. \E r : Goes(r)
    BY <1>3, <1>18, <2>1 DEF BackedOut, FreesRest
  <2> QED
    BY <1>2, <1>18, <2>2 DEF BackedOut, history
<1>19. CASE AddFlows(s)
  <2>1. \A f : [st[s] EXCEPT !.pc = "backout", !.flow = f].pc \notin TxPcs
    BY <1>1 DEF StreamType, TxPcs
  <2> QED
    BY <1>2, <1>19, <2>1 DEF AddFlows, history
<1> QED
  BY <1>4, <1>5, <1>6, <1>7, <1>8, <1>9, <1>10, <1>11, <1>12, <1>13, <1>14, <1>15, <1>16,
     <1>17, <1>18, <1>19 DEF Lcore

LEMMA SegsInit == Init => SegsHold
<1> SUFFICES ASSUME Init PROVE SegsHold
  OBVIOUS
<1> DEFINE t == TxPkts[1]
<1>1. /\ t \in Seq(Nat) /\ Len(t) \in Nat /\ Len(t) > 0 /\ t[1] >= HDR_LEN
  BY EnginesAssumption, LenProperties
<1>2. tx_pkt_seg_lengths = t /\ tx_pkt_nb_segs = 1 /\ setting = <<>>
  BY DEF Init
<1> HIDE DEF t
<1>3. 1 \in 0 .. Len(t) /\ \A i \in 1 .. Len(t) : t[i] \in Nat
  BY <1>1, SeqTypes
<1>4. Bytes(SubSeq(t, 1, 1)) = Sum(t, 1 .. 1)
  BY <1>1, <1>3, PrefixBytes
<1>5. Sum(t, 1 .. 1) = t[1]
  <2>1. Sum(t, 1 .. 0) = 0
    <3>1. 1 .. 0 = {}
      OBVIOUS
    <3> QED
      BY <3>1, SumEmpty
  <2>2. 0 \in Nat /\ 0 + 1 = 1 /\ \A i \in 1 .. 0 + 1 : t[i] \in Nat
    BY <1>1, <1>3
  <2>3. Sum(t, 1 .. 0 + 1) = Sum(t, 1 .. 0) + t[0 + 1]
    BY <2>2, SumStep
  <2>4. t[1] \in Nat
    BY <2>2
  <2> QED
    BY <2>1, <2>2, <2>3, <2>4
<1> QED
  BY <1>1, <1>2, <1>4, <1>5 DEF SegsHold

(* What is accepted holds the headers. *)
LEMMA AllowedHold ==
    ASSUME TypeInv, NEW lens \in Range(TxPkts), LengthsAllowed(lens)
    PROVE  Bytes(lens) >= HDR_LEN /\ lens # <<>>
<1>1. lens \in Seq(Nat) /\ Bytes(lens) \in Nat /\ HDR_LEN \in Nat /\ HDR_LEN > 0
  BY TxPktsIs, BytesIs, Constants
<1> DEFINE a == Bytes(lens)
           b == 65536
           q == a \div b
           m == a % b
<1>2. a \in Nat /\ b \in Nat \ {0} /\ m >= HDR_LEN
  BY <1>1 DEF LengthsAllowed
<1> HIDE DEF a, b
<1>3. q \in Nat /\ m \in 0 .. b - 1 /\ a = b * q + m
  BY <1>2, Division
<1>4. b * q \in Nat
  BY <1>2, <1>3, Products
<1> HIDE DEF q, m
<1>5. a >= HDR_LEN
  BY <1>1, <1>2, <1>3, <1>4
<1> QED
  BY <1>1, <1>5, NoBytes DEF a

LEMMA SegsNext ==
    ASSUME TypeInv, SegsHold, [Next]_vars
    PROVE  SegsHold'
<1>1. CASE UNCHANGED segments
  BY <1>1 DEF SegsHold, segments
<1>2. CASE \E s \in Stream : Lcore(s)
  BY <1>1, <1>2, LcoreFrame DEF settings
<1>3. CASE TxDone
  BY <1>1, <1>3 DEF TxDone, settings
<1>4. CASE UNCHANGED vars
  BY <1>1, <1>4 DEF vars, settings
<1>5. CASE CommandThread
  <2>1. ASSUME NEW lens \in Range(TxPkts), SetTxPkts(lens) PROVE SegsHold'
    <3>1. LengthsAllowed(lens) /\ setting' = lens /\ nb_set' = 0
      BY <2>1 DEF SetTxPkts
    <3>2. Bytes(lens) >= HDR_LEN /\ lens # <<>>
      BY <3>1, AllowedHold
    <3> QED
      BY <3>1, <3>2 DEF SegsHold
  <2>2. ASSUME SetTxPktLength PROVE SegsHold'
    <3>1. /\ nb_set < Len(setting) /\ nb_set' = nb_set + 1 /\ setting' = setting
          /\ tx_pkt_seg_lengths' = [tx_pkt_seg_lengths EXCEPT ![nb_set + 1] = setting[nb_set + 1]]
      BY <2>2 DEF SetTxPktLength
    <3>2. /\ setting \in Seq(Nat) /\ Len(setting) \in Nat /\ Len(setting) <= NumLengths
          /\ nb_set \in 0 .. Len(setting) /\ tx_pkt_seg_lengths \in [1 .. NumLengths -> Nat]
          /\ NumLengths \in Nat
      BY LenProperties, NumLengthsIs DEF TypeInv, SettingTypes
    <3>3. setting # <<>>
      BY <3>1, <3>2
    <3>4. \A i \in 1 .. nb_set + 1 : tx_pkt_seg_lengths'[i] = setting[i]
      <4> TAKE i \in 1 .. nb_set + 1
      <4>1. i \in 1 .. NumLengths /\ (i \in 1 .. nb_set \/ i = nb_set + 1)
        BY <3>1, <3>2
      <4>2. i \in 1 .. nb_set => tx_pkt_seg_lengths[i] = setting[i] /\ i # nb_set + 1
        BY <3>2, <3>3 DEF SegsHold
      <4> QED
        BY <3>1, <3>2, <4>1, <4>2
    <3> QED
      BY <3>1, <3>3, <3>4 DEF SegsHold
  <2>3. ASSUME SetTxPktNumber PROVE SegsHold'
    <3>1. /\ setting # <<>> /\ setting' = <<>> /\ tx_pkt_nb_segs' = Len(setting)
          /\ tx_pkt_seg_lengths' = tx_pkt_seg_lengths /\ nb_set = Len(setting)
      BY <2>3 DEF SetTxPktNumber
    <3> DEFINE seg == tx_pkt_seg_lengths
               n   == Len(setting)
               t   == SubSeq(seg, 1, n)
    <3>2. seg \in Seq(Nat) /\ setting \in Seq(Nat) /\ n \in Nat /\ n <= Len(seg) /\ Len(seg) \in Nat
      BY LenProperties, SegsIs DEF TypeInv, SettingTypes
    <3>3. t \in Seq(Nat) /\ Len(t) = n /\ \A i \in 1 .. n : t[i] = seg[i]
      BY <3>2, CutIs
    <3>4. (\A i \in 1 .. n : seg[i] = setting[i]) /\ Bytes(setting) >= HDR_LEN
      BY <3>1 DEF SegsHold
    <3> HIDE DEF t
    <3>5. t = setting
      BY <3>2, <3>3, <3>4, SeqEqual
    <3> QED
      BY <3>1, <3>4, <3>5 DEF SegsHold, t
  <2>4. ASSUME NEW n \in BurstSizes, SetBurst(n) PROVE SegsHold'
    BY <1>1, <2>4 DEF SetBurst
  <2>5. ASSUME NEW split, SetTxSplit(split) PROVE SegsHold'
    BY <1>1, <2>5 DEF SetTxSplit
  <2>6. ASSUME NEW cfg, SetCsumConfig(cfg) PROVE SegsHold'
    BY <1>1, <2>6 DEF SetCsumConfig
  <2> QED
    BY <1>5, <2>1, <2>2, <2>3, <2>4, <2>5, <2>6
       DEF CommandThread, SetCsum, SetParseTunnel, SetTso, SetTunnelTso
<1> QED
  BY <1>2, <1>3, <1>4, <1>5 DEF Next

(* A step that leaves a stream and the segments alone *)
LEMMA AsSetStays ==
    ASSUME NEW s \in Stream, st'[s] = st[s], UNCHANGED segments, s \in torn => s \in torn',
           st[s].pc \in TxPcs /\ s \notin torn => AsSet(s)
    PROVE  (st[s].pc \in TxPcs /\ s \notin torn => AsSet(s))'
BY DEF AsSet, Making, segments

LEMMA PacketsLcore ==
    ASSUME TypeInv, PacketsHold, NEW s \in Stream, Lcore(s)
    PROVE  PacketsHold'
<1>1. UNCHANGED segments /\ UNCHANGED settings
  BY LcoreFrame DEF settings
<1>2. \A t \in Stream \ {s} : t \in torn' <=> t \in torn
  <2>1. torn' = torn \/ TxPacket(s)
    BY LeavesTx DEF TxSplit, TxSegment
  <2> QED
    BY <2>1 DEF TxPacket
<1>3. ASSUME NEW t \in Stream \ {s} PROVE (st[t].pc \in TxPcs /\ t \notin torn => AsSet(t))'
  <2>1. st'[t] = st[t]
    BY LcoreOwn
  <2> QED
    BY <1>1, <1>2, <2>1, AsSetStays DEF PacketsHold
<1> SUFFICES ASSUME st'[s].pc \in TxPcs, s \notin torn' PROVE AsSet(s)'
  BY <1>3 DEF PacketsHold
<1>4. CASE TxPacket(s)
  <2>1. PICK p \in PacketType(engine) :
           /\ p.lens = <<tx_pkt_seg_lengths[1]>>
           /\ Set(s, [st[s] EXCEPT !.pc = "split", !.burst = Append(@, p)])
    BY <1>4, TxPacketIs
  <2>2. /\ st[s] \in StreamType(engine) /\ st[s].burst \in Seq(PacketType(engine))
        /\ Len(st[s].burst) = st[s].nb_pkt /\ st[s].nb_pkt \in Nat
    BY <1>4, StreamIs DEF Place, TxPacket, At, TxPcs
  <2>3. /\ st'[s].pc = "split" /\ st'[s].nb_pkt = st[s].nb_pkt
        /\ st'[s].burst = Append(st[s].burst, p)
    <3>1. st'[s] = [st[s] EXCEPT !.pc = "split", !.burst = Append(@, p)]
      BY <2>1, SetIs
    <3> QED
      BY <2>2, <3>1 DEF StreamType
  <2>4. Making(s)' = p
    BY <2>2, <2>3, AppendProperties DEF Making
  <2>5. setting = <<>>
    BY <1>4 DEF TxPacket
  <2>6. \A i \in 1 .. Len(p.lens) : p.lens[i] = tx_pkt_seg_lengths[i]
    BY <2>1
  <2> QED
    BY <1>1, <2>3, <2>4, <2>5, <2>6 DEF AsSet, segments
<1>5. CASE TxSplit(s)
  <2>1. PICK n \in NumsOfSegs :
           Set(s, [st[s] EXCEPT !.pc = "segments", !.split = tx_pkt_split, !.nb_segs = n])
    BY <1>5 DEF TxSplit
  <2>2. /\ st'[s].pc = "segments" /\ st'[s].nb_pkt = st[s].nb_pkt /\ st'[s].burst = st[s].burst
        /\ st'[s].split = tx_pkt_split /\ st'[s].nb_segs = n
    <3>1. st'[s] = [st[s] EXCEPT !.pc = "segments", !.split = tx_pkt_split, !.nb_segs = n]
      BY <2>1, SetIs
    <3>2. st[s] \in StreamType(engine)
      BY StreamIs
    <3> QED
      BY <3>1, <3>2 DEF StreamType
  <2>3. AsSet(s)
    BY <1>5 DEF PacketsHold, TxSplit, At, TxPcs
  <2>4. Making(s)' = Making(s)
    BY <2>2 DEF Making
  <2>5. tx_pkt_split # "rnd" => n = tx_pkt_nb_segs
    BY DEF NumsOfSegs
  <2> QED
    BY <1>1, <2>2, <2>3, <2>4, <2>5 DEF AsSet, segments
<1>6. CASE TxSegment(s)
  <2>1. PICK p \in PacketType(engine) :
           /\ p.lens = Append(Making(s).lens, tx_pkt_seg_lengths[Len(Making(s).lens) + 1])
           /\ Set(s, [st[s] EXCEPT !.burst = [@ EXCEPT ![st[s].nb_pkt + 1] = p]])
    BY <1>6, TxSegmentIs
  <2>2. st[s].pc = "segments" /\ st[s].pc \in TxPcs
    BY <1>6 DEF TxSegment, At, TxPcs
  <2>3. /\ st[s] \in StreamType(engine) /\ st[s].burst \in Seq(PacketType(engine))
        /\ st[s].nb_pkt + 1 \in 1 .. Len(st[s].burst) /\ st[s].nb_pkt \in Nat
        /\ Making(s).lens \in Seq(Nat) /\ Len(Making(s).lens) \in Nat
    BY <2>2, StreamIs, MakingIs
  <2>4. /\ st'[s].pc = "segments" /\ st'[s].nb_pkt = st[s].nb_pkt
        /\ st'[s].burst = [st[s].burst EXCEPT ![st[s].nb_pkt + 1] = p]
        /\ st'[s].split = st[s].split /\ st'[s].nb_segs = st[s].nb_segs
    <3>1. st'[s] = [st[s] EXCEPT !.burst = [@ EXCEPT ![st[s].nb_pkt + 1] = p]]
      BY <2>1, SetIs
    <3> QED
      BY <2>2, <2>3, <3>1 DEF StreamType
  <2>5. Making(s)' = p
    BY <2>3, <2>4 DEF Making
  <2>6. AsSet(s)
    BY <1>6, <2>2 DEF PacketsHold, TxSegment
  <2> DEFINE lens == Making(s).lens
             k    == Len(lens)
  <2>7. \A i \in 1 .. Len(p.lens) : p.lens[i] = tx_pkt_seg_lengths[i]
    <3>1. \A i \in 1 .. k : lens[i] = tx_pkt_seg_lengths[i]
      BY <2>6 DEF AsSet
    <3>2. tx_pkt_seg_lengths[k + 1] \in Nat
      <4>1. k + 1 \in 1 .. NumLengths
        BY <1>6, TxSegmentIs
      <4> QED
        BY <4>1 DEF TypeInv, SettingTypes
    <3>3. p.lens = Append(lens, tx_pkt_seg_lengths[k + 1]) /\ lens \in Seq(Nat) /\ k \in Nat
      BY <2>1, <2>3
    <3> HIDE DEF lens
    <3>4. /\ Len(p.lens) = k + 1 /\ p.lens[k + 1] = tx_pkt_seg_lengths[k + 1]
          /\ \A i \in 1 .. k : p.lens[i] = lens[i]
      BY <3>2, <3>3, AppendProperties
    <3> HIDE DEF k
    <3>5. \A i \in 1 .. k + 1 : i \in 1 .. k \/ i = k + 1
      BY <3>3
    <3> QED
      BY <3>1, <3>4, <3>5
  <2> QED
    BY <1>1, <2>2, <2>4, <2>5, <2>6, <2>7 DEF AsSet, segments
<1>7. CASE ~(TxPacket(s) \/ TxSplit(s) \/ TxSegment(s))
  <2>1. torn' = torn /\ UNCHANGED st
    BY <1>7, LeavesTx
  <2> QED
    BY <1>1, <2>1, AsSetStays DEF PacketsHold
<1> QED
  BY <1>4, <1>5, <1>6, <1>7

LEMMA PacketsNext ==
    ASSUME TypeInv, PacketsHold, [Next]_vars
    PROVE  PacketsHold'
<1>1. CASE UNCHANGED <<st, segments, torn>>
  BY <1>1, AsSetStays DEF PacketsHold
<1>2. ASSUME NEW s \in Stream, Lcore(s) PROVE PacketsHold'
  BY <1>2, PacketsLcore
<1>3. CASE TxDone
  BY <1>1, <1>3 DEF TxDone, settings, history
<1>4. CASE UNCHANGED vars
  BY <1>1, <1>4 DEF vars, settings, history
<1>5. CASE CommandThread
  <2>1. ASSUME NEW lens \in Range(TxPkts), SetTxPkts(lens) PROVE PacketsHold'
    <3>1. st' = st /\ torn' = torn \cup {s \in Stream : st[s].pc \in TxPcs}
      BY <2>1 DEF SetTxPkts, Command, CommandFrame, TxPcs
    <3> QED
      BY <3>1 DEF PacketsHold
  <2>2. ASSUME setting # <<>>, st' = st, torn' = torn PROVE PacketsHold'
    BY <2>2 DEF PacketsHold, AsSet
  <2>3. ASSUME SetTxPktLength \/ SetTxPktNumber PROVE PacketsHold'
    <3>1. /\ st' = st /\ torn' = torn
          /\ nb_set < Len(setting) \/ setting # <<>>
      BY <2>3 DEF SetTxPktLength, SetTxPktNumber, SettingFrame, CommandFrame
    <3>2. nb_set \in Nat /\ Len(<<>>) = 0
      BY LenProperties DEF TypeInv, SettingTypes
    <3> QED
      BY <2>2, <3>1, <3>2
  <2>4. ASSUME NEW n \in BurstSizes, SetBurst(n) PROVE PacketsHold'
    BY <1>1, <2>4 DEF SetBurst, Command, CommandFrame
  <2>5. ASSUME NEW split, SetTxSplit(split) PROVE PacketsHold'
    BY <1>1, <2>5 DEF SetTxSplit, Command, CommandFrame
  <2>6. ASSUME NEW cfg, SetCsumConfig(cfg) PROVE PacketsHold'
    BY <1>1, <2>6 DEF SetCsumConfig, Command, CommandFrame
  <2> QED
    BY <1>5, <2>1, <2>3, <2>4, <2>5, <2>6
       DEF CommandThread, SetCsum, SetParseTunnel, SetTso, SetTunnelTso
<1> QED
  BY <1>2, <1>3, <1>4, <1>5 DEF Next

(* A packet that is as set holds its headers. *)
LEMMA HeadersFit ==
    ASSUME TypeInv, SegsHold, NEW s \in Stream, AsSet(s), st[s].pc = "segments",
           st[s].split # "rnd", Len(Making(s).lens) = st[s].nb_segs
    PROVE  Bytes(Making(s).lens) >= HDR_LEN
<1> DEFINE seg  == tx_pkt_seg_lengths
           n    == tx_pkt_nb_segs
           t    == SubSeq(seg, 1, n)
           lens == Making(s).lens
<1>1. lens \in Seq(Nat) /\ Len(lens) = n /\ \A i \in 1 .. n : lens[i] = seg[i]
  BY MakingIs DEF AsSet, TxPcs
<1>2. seg \in Seq(Nat) /\ n \in 0 .. Len(seg)
  BY SegsIs, NumLengthsIs
<1>3. t \in Seq(Nat) /\ Len(t) = n /\ \A i \in 1 .. n : t[i] = seg[i]
  BY <1>2, CutIs
<1>4. Bytes(t) >= HDR_LEN
  BY DEF AsSet, SegsHold
<1> HIDE DEF lens, t
<1>5. lens = t
  BY <1>1, <1>3, SeqEqual
<1> QED
  BY <1>4, <1>5 DEF lens

LEMMA SurviveNext ==
    ASSUME TypeInv, SegsHold, PacketsHold, LcoresSurvive, [Next]_vars
    PROVE  LcoresSurvive'
<1>1. CASE "headers" \notin crashed'
  BY <1>1 DEF LcoresSurvive
<1>2. ASSUME NEW s \in Stream, Lcore(s) PROVE LcoresSurvive'
  <2>1. crashed = {}
    BY <1>2, LcoreFrame
  <2>2. CASE IcmpEcho(s)
    BY <1>1, <2>1, <2>2 DEF IcmpEcho
  <2>3. CASE TxHeaders(s)
    <3>1. CASE UNCHANGED crashed
      BY <1>1, <2>1, <3>1
    <3>2. CASE Bytes(Making(s).lens) < HDR_LEN
      <4>1. /\ st' = st /\ torn' = torn /\ st[s].pc = "segments"
            /\ Len(Making(s).lens) = st[s].nb_segs
        BY <2>3, <3>2 DEF TxHeaders, At
      <4>2. Making(s)' = Making(s)
        BY <4>1 DEF Making
      <4>3. ~(Bytes(Making(s).lens) >= HDR_LEN)
        <5>1. Bytes(Making(s).lens) \in Nat /\ HDR_LEN \in Nat
          BY <4>1, MakingIs, BytesIs, Constants DEF TxPcs
        <5> QED
          BY <3>2, <5>1
      <4>4. st[s].split = "rnd" \/ s \in torn
        BY <4>1, <4>3, HeadersFit DEF PacketsHold, TxPcs
      <4> QED
        BY <3>2, <4>1, <4>2, <4>4 DEF LcoresSurvive
    <3> QED
      BY <2>3, <3>1, <3>2 DEF TxHeaders
  <2> QED
    BY <1>1, <1>2, <2>2, <2>3, LcoreCrashes
<1>3. CASE TxDone
  BY <1>1, <1>3 DEF TxDone
<1>4. CASE CommandThread
  <2>1. crashed = {} /\ crashed' = crashed
    BY <1>4 DEF CommandThread, SetBurst, SetTxSplit, SetCsum, SetParseTunnel, SetTso, SetTunnelTso,
                SetCsumConfig, SetTxPkts, SetTxPktLength, SetTxPktNumber, SettingFrame, Command,
                CommandFrame
  <2> QED
    BY <1>1, <2>1
<1>5. CASE UNCHANGED vars
  BY <1>5 DEF vars, settings, history, LcoresSurvive, Making
<1> QED
  BY <1>2, <1>3, <1>4, <1>5 DEF Next

(***************************************************************************)
(* txonly's headers fit into the segments of a packet, for any lengths     *)
(* that a user may set, however the lcore's reads of them and the command  *)
(* thread's writes interleave, unless the segments were drawn at random or *)
(* the packet was begun before a set txpkts ended and went on after it was *)
(* accepted.                                                               *)
(***************************************************************************)
THEOREM Survive == Spec => []LcoresSurvive
<1>1. Init => TypeInv /\ SegsHold /\ PacketsHold /\ LcoresSurvive
  <2>1. Init => LcoresSurvive
    BY DEF Init, LcoresSurvive
  <2>2. Init => PacketsHold
    BY DEF Init, PacketsHold, Idle, FirstPc, TxPcs
  <2> QED
    BY <2>1, <2>2, TypeInit, SegsInit
<1>2. TypeInv /\ SegsHold /\ PacketsHold /\ LcoresSurvive /\ [Next]_vars
         => TypeInv' /\ SegsHold' /\ PacketsHold' /\ LcoresSurvive'
  BY TypeNext, SegsNext, PacketsNext, SurviveNext
<1> QED
  BY <1>1, <1>2, PTL DEF Spec

-----------------------------------------------------------------------------

(***************************************************************************)
(* Mbufs. Where a record r tells what an lcore does, AtOf gives the        *)
(* positions of its array with packets that are the lcore's, OwnOf the     *)
(* mbufs of these packets.                                                 *)
(***************************************************************************)
AtOf(r) == CASE r.pc \in {"send", "alloc", "count", "counted"} -> 1 .. r.nb_pkt
             [] r.pc \in {"retry", "backout", "backed", "add"} -> r.nb_tx + 1 .. r.nb_pkt
             [] OTHER -> DOMAIN r.burst
OwnOf(r) == UNION {Range(r.burst[j].mbufs) : j \in AtOf(r)}
SoleOf(r) == \A i, j \in AtOf(r) : /\ IsInjective(r.burst[i].mbufs)
                                   /\ Share(r.burst[i], r.burst[j]) => i = j
SolePackets(N) == \A p, q \in N : IsInjective(p.mbufs) /\ (Share(p, q) => p = q)

(* Each mbuf of engine e is in one place, of the pool P, the packets N of  *)
(* the NIC and the lcores S.                                               *)
Conserved(e, P, N, S) ==
    /\ Mbufs[e] = P \cup MbufsOf(N) \cup UNION {OwnOf(S[s]) : s \in Stream}
    /\ P \cap MbufsOf(N) = {}
    /\ SolePackets(N)
    /\ \A s \in Stream : /\ (P \cup MbufsOf(N)) \cap OwnOf(S[s]) = {}
                         /\ \A t \in Stream \ {s} : OwnOf(S[s]) \cap OwnOf(S[t]) = {}
                         /\ SoleOf(S[s])

LEMMA HeldIs ==
    ASSUME NEW s \in Stream
    PROVE  HeldAt(s) = AtOf(st[s]) /\ MbufsOf(Held(s)) = OwnOf(st[s])
<1>1. HeldAt(s) = AtOf(st[s])
  BY DEF HeldAt, AtOf
<1>2. Held(s) = {st[s].burst[j] : j \in AtOf(st[s])}
  BY <1>1 DEF Held
<1>3. UNION {Range(p.mbufs) : p \in {st[s].burst[j] : j \in AtOf(st[s])}} = OwnOf(st[s])
  BY DEF OwnOf
<1> QED
  BY <1>1, <1>2, <1>3 DEF MbufsOf

LEMMA ConservedIs ==
    (NoneLost /\ NoneTwice) <=> Conserved(engine, pool, nic, st)
<1>1. \A s \in Stream : HeldAt(s) = AtOf(st[s]) /\ MbufsOf(Held(s)) = OwnOf(st[s])
  BY HeldIs
<1>2. UNION {MbufsOf(Held(s)) : s \in Stream} = UNION {OwnOf(st[s]) : s \in Stream}
  BY <1>1
<1>3. NoneLost <=> Mbufs[engine] = pool \cup MbufsOf(nic) \cup UNION {OwnOf(st[s]) : s \in Stream}
  BY <1>2 DEF NoneLost, Mbuf
<1>4. NoneTwice <=>
         /\ pool \cap MbufsOf(nic) = {}
         /\ SolePackets(nic)
         /\ \A s \in Stream : /\ (pool \cup MbufsOf(nic)) \cap OwnOf(st[s]) = {}
                              /\ \A t \in Stream \ {s} : OwnOf(st[s]) \cap OwnOf(st[t]) = {}
                              /\ SoleOf(st[s])
  BY <1>1 DEF NoneTwice, SolePackets, SoleOf
<1> QED
  BY <1>3, <1>4 DEF Conserved

(***************************************************************************)
(* A step of one lcore that moves mbufs between the pool, the NIC and what  *)
(* the lcore has, none of them to two places, does so for all lcores.      *)
(***************************************************************************)
LEMMA OneLcore ==
    ASSUME NEW e, NEW P, NEW N, NEW S, NEW Q, NEW M, NEW T, NEW s \in Stream,
           Conserved(e, P, N, S),
           \A t \in Stream \ {s} : T[t] = S[t],
           Q \cup MbufsOf(M) \cup OwnOf(T[s]) = P \cup MbufsOf(N) \cup OwnOf(S[s]),
           Q \cap MbufsOf(M) = {}, (Q \cup MbufsOf(M)) \cap OwnOf(T[s]) = {},
           SolePackets(M), SoleOf(T[s])
    PROVE  Conserved(e, Q, M, T)
<1> DEFINE all == P \cup MbufsOf(N) \cup OwnOf(S[s])
<1>1. \A t \in Stream \ {s} : OwnOf(T[t]) = OwnOf(S[t]) /\ OwnOf(T[t]) \cap all = {} /\ SoleOf(T[t])
  BY DEF Conserved
<1>2. /\ Q \cup MbufsOf(M) \subseteq all /\ OwnOf(T[s]) \subseteq all
  OBVIOUS
<1>3. Mbufs[e] = Q \cup MbufsOf(M) \cup UNION {OwnOf(T[t]) : t \in Stream}
  <2>1. UNION {OwnOf(S[t]) : t \in Stream}
           = OwnOf(S[s]) \cup UNION {OwnOf(S[t]) : t \in Stream \ {s}}
    OBVIOUS
  <2>2. UNION {OwnOf(T[t]) : t \in Stream}
           = OwnOf(T[s]) \cup UNION {OwnOf(T[t]) : t \in Stream \ {s}}
    OBVIOUS
  <2>3. UNION {OwnOf(T[t]) : t \in Stream \ {s}} = UNION {OwnOf(S[t]) : t \in Stream \ {s}}
    BY <1>1
  <2> DEFINE others == UNION {OwnOf(S[t]) : t \in Stream \ {s}}
  <2>4. Mbufs[e] = all \cup others
    BY <2>1 DEF Conserved
  <2>5. Q \cup MbufsOf(M) \cup UNION {OwnOf(T[t]) : t \in Stream} = all \cup others
    BY <2>2, <2>3
  <2> QED
    BY <2>4, <2>5
<1>4. ASSUME NEW t \in Stream, NEW u \in Stream \ {t}
      PROVE  OwnOf(T[t]) \cap OwnOf(T[u]) = {}
  <2>1. CASE t = s
    BY <1>1, <1>2, <2>1
  <2>2. CASE u = s
    <3>1. OwnOf(T[t]) \cap all = {}
      BY <1>1, <2>2
    <3> QED
      BY <1>2, <2>2, <3>1
  <2>3. CASE t # s /\ u # s
    BY <1>1, <2>3 DEF Conserved
  <2> QED
    BY <2>1, <2>2, <2>3
<1>5. ASSUME NEW t \in Stream
      PROVE  (Q \cup MbufsOf(M)) \cap OwnOf(T[t]) = {} /\ SoleOf(T[t])
  <2>1. CASE t = s
    BY <2>1
  <2>2. CASE t # s
    BY <1>1, <1>2, <2>2
  <2> QED
    BY <2>1, <2>2
<1> QED
  BY <1>3, <1>4, <1>5 DEF Conserved

(* The same lemma about the variables *)
LEMMA OneStep ==
    ASSUME TypeInv, Conserved(engine, pool, nic, st), NEW s \in Stream, NEW r, Set(s, r),
           UNCHANGED fixed,
           pool' \cup MbufsOf(nic') \cup OwnOf(r) = pool \cup MbufsOf(nic) \cup OwnOf(st[s]),
           pool' \cap MbufsOf(nic') = {}, (pool' \cup MbufsOf(nic')) \cap OwnOf(r) = {},
           SolePackets(nic'), SoleOf(r)
    PROVE  Conserved(engine, pool, nic, st)'
<1>1. st'[s] = r /\ \A t \in Stream \ {s} : st'[t] = st[t]
  BY SetIs
<1>2. Conserved(engine, pool', nic', st')
  BY <1>1, OneLcore
<1>3. engine' = engine
  BY DEF fixed
<1> QED
  BY <1>2, <1>3

(* What an lcore has is its own. *)
LEMMA OwnIs ==
    ASSUME Conserved(engine, pool, nic, st), NEW s \in Stream
    PROVE  /\ pool \cap MbufsOf(nic) = {} /\ (pool \cup MbufsOf(nic)) \cap OwnOf(st[s]) = {}
           /\ SolePackets(nic) /\ SoleOf(st[s])
BY DEF Conserved

LEMMA IdleOwns ==
    ASSUME NEW pc
    PROVE  OwnOf(Idle(pc)) = {} /\ SoleOf(Idle(pc)) /\ AtOf(Idle(pc)) = {}
<1>1. Idle(pc).burst = <<>> /\ Idle(pc).nb_pkt = 0 /\ Idle(pc).nb_tx = 0
  BY DEF Idle
<1>2. 1 .. 0 = {} /\ 0 + 1 .. 0 = {} /\ DOMAIN <<>> = {}
  OBVIOUS
<1>3. AtOf(Idle(pc)) = {}
  BY <1>1, <1>2 DEF AtOf
<1> QED
  BY <1>3 DEF OwnOf, SoleOf

(* The burst of an lcore goes on with the same packets. *)
LEMMA SamePackets ==
    ASSUME NEW r, NEW q, AtOf(q) = AtOf(r),
           \A j \in AtOf(r) : q.burst[j].mbufs = r.burst[j].mbufs
    PROVE  OwnOf(q) = OwnOf(r) /\ (SoleOf(r) => SoleOf(q))
BY DEF OwnOf, SoleOf, Share

LEMMA NothingMoves ==
    ASSUME TypeInv, Conserved(engine, pool, nic, st), NEW s \in Stream, NEW r, Set(s, r),
           UNCHANGED <<fixed, pool, nic>>, OwnOf(r) = OwnOf(st[s]), SoleOf(r)
    PROVE  Conserved(engine, pool, nic, st)'
BY OneStep, OwnIs

(* The lcore goes on with the packets that it has. *)
LEMMA GoesOn ==
    ASSUME TypeInv, Conserved(engine, pool, nic, st), NEW s \in Stream, NEW r, Set(s, r),
           UNCHANGED <<fixed, pool, nic>>, r.burst = st[s].burst, AtOf(r) = AtOf(st[s])
    PROVE  Conserved(engine, pool, nic, st)'
<1>1. OwnOf(r) = OwnOf(st[s]) /\ SoleOf(r)
  BY SamePackets, OwnIs
<1> QED
  BY <1>1, NothingMoves

-----------------------------------------------------------------------------
(* Each step of an lcore *)

LEMMA ConserveRx ==
    ASSUME TypeInv, Conserved(engine, pool, nic, st), NEW s \in Stream, RxBurst(s)
    PROVE  Conserved(engine, pool, nic, st)'
<1>1. At(s, "receive") /\ UNCHANGED <<fixed, nic>>
  BY DEF RxBurst
<1>2. PICK n, pkts, S : Received(s, n, pkts, S)
  BY RxIs
<1>3. /\ n \in 0 .. MAX_PKT_BURST /\ pkts \in Seq(PacketType(engine)) /\ Len(pkts) = n
      /\ S \subseteq pool /\ UNION {Range(pkts[j].mbufs) : j \in 1 .. n} = S
      /\ \A j \in 1 .. n : IsInjective(pkts[j].mbufs)
      /\ \A i, j \in 1 .. n : Share(pkts[i], pkts[j]) => i = j
      /\ pool' = IF engine \in {"rxonly", "flowgen"} THEN pool ELSE pool \ S
      /\ IF engine = "rxonly"
         THEN Returns(s)
         ELSE /\ Set(s, IF engine = "flowgen"
                        THEN [st[s] EXCEPT !.pc = "alloc", !.burst = pkts, !.nb_rx = n,
                                           !.len = tx_pkt_length - 4]
                        ELSE [st[s] EXCEPT !.pc = engine, !.burst = pkts, !.nb_rx = n,
                                           !.nb_pkt = n])
              /\ UNCHANGED bursts
  BY <1>2 DEF Received
<1>4. st[s] = Idle("receive") /\ st[s] \in StreamType(engine) /\ engine # "txonly"
  BY <1>1, StreamIs DEF At, Place
<1>5. OwnOf(st[s]) = {}
  BY <1>4, IdleOwns
<1>6. CASE engine = "rxonly"
  <2>1. Set(s, Idle(FirstPc))
    BY <1>3, <1>6 DEF Returns
  <2>2. OwnOf(Idle(FirstPc)) = {} /\ SoleOf(Idle(FirstPc))
    BY IdleOwns
  <2> QED
    BY <1>1, <1>3, <1>5, <1>6, <2>1, <2>2, NothingMoves
<1>7. CASE engine = "flowgen"
  <2> DEFINE r == [st[s] EXCEPT !.pc = "alloc", !.burst = pkts, !.nb_rx = n,
                                !.len = tx_pkt_length - 4]
  <2>1. Set(s, r) /\ pool' = pool
    BY <1>3, <1>7
  <2>2. r.pc = "alloc" /\ r.nb_pkt = 0
    BY <1>4 DEF StreamType, Idle
  <2> HIDE DEF r
  <2>3. AtOf(r) = {}
    BY <2>2 DEF AtOf
  <2>4. OwnOf(r) = {} /\ SoleOf(r)
    BY <2>3 DEF OwnOf, SoleOf
  <2> QED
    BY <1>1, <1>5, <2>1, <2>4, NothingMoves
<1>8. CASE engine \notin {"rxonly", "flowgen"}
  <2> DEFINE r == [st[s] EXCEPT !.pc = engine, !.burst = pkts, !.nb_rx = n, !.nb_pkt = n]
  <2>1. Set(s, r) /\ pool' = pool \ S
    BY <1>3, <1>8
  <2>2. r.pc = engine /\ r.burst = pkts
    BY <1>4 DEF StreamType
  <2>3. engine \in {"io", "mac", "macswap", "csum", "icmpecho"}
    BY <1>4, <1>8, Constants
  <2> HIDE DEF r
  <2>4. AtOf(r) = 1 .. n
    BY <1>3, <2>2, <2>3, SeqTypes DEF AtOf
  <2>5. OwnOf(r) = S /\ SoleOf(r)
    BY <1>3, <2>2, <2>4 DEF OwnOf, SoleOf
  <2>6. pool \cap MbufsOf(nic) = {} /\ SolePackets(nic)
    BY OwnIs
  <2> QED
    BY <1>1, <1>3, <1>5, <2>1, <2>5, <2>6, OneStep
<1> QED
  BY <1>6, <1>7, <1>8

LEMMA ConserveRewrites ==
    ASSUME TypeInv, Conserved(engine, pool, nic, st), NEW s \in Stream, NEW addr \in Addrs,
           At(s, "io") \/ At(s, "mac") \/ At(s, "macswap"), Rewrites(s, addr)
    PROVE  Conserved(engine, pool, nic, st)'
<1> DEFINE b == Rewritten(s, addr)
           r == [st[s] EXCEPT !.burst = b, !.pc = "send"]
           n == Len(st[s].burst)
<1>1. Set(s, r) /\ UNCHANGED <<fixed, pool, nic>>
  BY DEF Rewrites
<1>2. /\ Len(b) = n /\ \A j \in 1 .. Len(b) : b[j].mbufs = st[s].burst[j].mbufs
  BY RewrittenIs
<1>3. /\ st[s] \in StreamType(engine) /\ DOMAIN st[s].burst = 1 .. n
      /\ st[s].nb_pkt = n /\ st[s].pc \in {"io", "mac", "macswap"}
  BY StreamIs DEF At, Place, Forwards
<1> HIDE DEF b
<1>4. r.pc = "send" /\ r.burst = b /\ r.nb_pkt = n
  BY <1>3 DEF StreamType
<1> HIDE DEF r
<1>5. AtOf(r) = 1 .. n /\ AtOf(st[s]) = 1 .. n
  BY <1>3, <1>4 DEF AtOf
<1>6. OwnOf(r) = OwnOf(st[s]) /\ SoleOf(r)
  BY <1>2, <1>4, <1>5, SamePackets, OwnIs
<1> QED
  BY <1>1, <1>6, NothingMoves

LEMMA ConserveReturns ==
    ASSUME TypeInv, Conserved(engine, pool, nic, st), NEW s \in Stream, NEW pc, Set(s, Idle(pc)),
           UNCHANGED <<fixed, nic>>, pool' = pool \cup OwnOf(st[s])
    PROVE  Conserved(engine, pool, nic, st)'
<1>1. OwnOf(Idle(pc)) = {} /\ SoleOf(Idle(pc))
  BY IdleOwns
<1>2. /\ pool \cap MbufsOf(nic) = {} /\ (pool \cup MbufsOf(nic)) \cap OwnOf(st[s]) = {}
      /\ SolePackets(nic)
  BY OwnIs
<1> DEFINE r == Idle(pc)
<1> HIDE DEF r
<1>3. Set(s, r) /\ OwnOf(r) = {} /\ SoleOf(r)
  BY <1>1 DEF r
<1> QED
  BY <1>2, <1>3, OneStep

(***************************************************************************)
(* An lcore goes on with some of its packets, f telling which, and gives   *)
(* the others up.                                                          *)
(***************************************************************************)
Keeps(q, r, f) ==
    /\ \A k \in AtOf(r) : f[k] \in AtOf(q) /\ r.burst[k].mbufs = q.burst[f[k]].mbufs
    /\ \A k, l \in AtOf(r) : f[k] = f[l] => k = l
GivenUp(q, r, f) == {q.burst[j] : j \in AtOf(q) \ {f[k] : k \in AtOf(r)}}

LEMMA KeptAre ==
    ASSUME NEW q, NEW r, NEW f, SoleOf(q), Keeps(q, r, f)
    PROVE  LET P == GivenUp(q, r, f)
           IN  /\ SoleOf(r) /\ OwnOf(q) = MbufsOf(P) \cup OwnOf(r)
               /\ MbufsOf(P) \cap OwnOf(r) = {} /\ SolePackets(P)
<1> DEFINE P    == GivenUp(q, r, f)
           kept == {f[k] : k \in AtOf(r)}
           M(j) == Range(q.burst[j].mbufs)
<1>1. kept \subseteq AtOf(q)
  BY DEF Keeps
<1>2. OwnOf(r) = UNION {M(j) : j \in kept}
  BY DEF Keeps, OwnOf
<1>3. MbufsOf(P) = UNION {M(j) : j \in AtOf(q) \ kept}
  BY DEF MbufsOf, GivenUp
<1>4. \A i, j \in AtOf(q) : M(i) \cap M(j) # {} => i = j
  BY DEF SoleOf, Share
<1>5. OwnOf(q) = MbufsOf(P) \cup OwnOf(r)
  <2>1. OwnOf(q) = UNION {M(j) : j \in AtOf(q)}
    BY DEF OwnOf
  <2> HIDE DEF kept, M
  <2> QED
    BY <1>1, <1>2, <1>3, <2>1
<1>6. MbufsOf(P) \cap OwnOf(r) = {}
  <2> HIDE DEF kept, M
  <2> QED
    BY <1>1, <1>2, <1>3, <1>4
<1>7. SolePackets(P)
  BY DEF SolePackets, SoleOf, GivenUp
<1>8. SoleOf(r)
  BY DEF SoleOf, Keeps, Share
<1> QED
  BY <1>5, <1>6, <1>7, <1>8

LEMMA ConcatSole ==
    ASSUME NEW S, NEW a \in Seq(S), NEW b \in Seq(S), IsInjective(a), IsInjective(b),
           Range(a) \cap Range(b) = {}
    PROVE  IsInjective(a \o b) /\ Range(a \o b) = Range(a) \cup Range(b)
<1> DEFINE c == a \o b
<1>1. /\ Len(a) \in Nat /\ Len(b) \in Nat /\ DOMAIN a = 1 .. Len(a) /\ DOMAIN b = 1 .. Len(b)
      /\ c \in Seq(S) /\ Len(c) = Len(a) + Len(b) /\ DOMAIN c = 1 .. Len(a) + Len(b)
  BY ConcatProperties, LenProperties
<1>2. /\ \A i \in 1 .. Len(a) : i \in DOMAIN c /\ c[i] = a[i]
      /\ \A i \in 1 .. Len(b) : Len(a) + i \in DOMAIN c /\ c[Len(a) + i] = b[i]
      /\ \A i \in DOMAIN c : i \in 1 .. Len(a) \/ (i - Len(a) \in 1 .. Len(b) /\ i \in Int)
  BY ConcatProperties, <1>1
<1> HIDE DEF c
<1>3. \A i \in DOMAIN c : \/ i \in DOMAIN a /\ c[i] = a[i]
                         \/ /\ i - Len(a) \in DOMAIN b /\ c[i] = b[i - Len(a)]
                            /\ i \in Int
  <2> TAKE i \in DOMAIN c
  <2>1. CASE i \in 1 .. Len(a)
    BY <1>1, <1>2, <2>1
  <2>2. CASE i - Len(a) \in 1 .. Len(b) /\ i \in Int
    <3>1. Len(a) + (i - Len(a)) = i
      BY <1>1, <2>2
    <3> QED
      BY <1>1, <1>2, <2>2, <3>1
  <2> QED
    BY <1>2, <2>1, <2>2
<1>4. Range(c) = Range(a) \cup Range(b)
  <2>1. Range(c) \subseteq Range(a) \cup Range(b)
    BY <1>3 DEF Range
  <2>2. Range(a) \subseteq Range(c)
    BY <1>1, <1>2 DEF Range
  <2>3. Range(b) \subseteq Range(c)
    BY <1>1, <1>2 DEF Range
  <2> QED
    BY <2>1, <2>2, <2>3
<1>5. ASSUME NEW i \in DOMAIN c, NEW j \in DOMAIN c, c[i] = c[j] PROVE i = j
  <2>1. CASE i \in DOMAIN a /\ c[i] = a[i] /\ j \in DOMAIN a /\ c[j] = a[j]
    BY <1>5, <2>1 DEF IsInjective
  <2>2. CASE i \in DOMAIN a /\ c[i] = a[i] /\ j - Len(a) \in DOMAIN b /\ c[j] = b[j - Len(a)]
    BY <1>5, <2>2 DEF Range
  <2>3. CASE j \in DOMAIN a /\ c[j] = a[j] /\ i - Len(a) \in DOMAIN b /\ c[i] = b[i - Len(a)]
    BY <1>5, <2>3 DEF Range
  <2>4. CASE /\ i - Len(a) \in DOMAIN b /\ c[i] = b[i - Len(a)] /\ i \in Int
             /\ j - Len(a) \in DOMAIN b /\ c[j] = b[j - Len(a)] /\ j \in Int
    <3>1. i - Len(a) = j - Len(a)
      BY <1>5, <2>4 DEF IsInjective
    <3> QED
      BY <1>1, <2>4, <3>1
  <2> QED
    BY <1>3, <2>1, <2>2, <2>3, <2>4
<1> QED
  BY <1>4, <1>5 DEF IsInjective, c

LEMMA SoleUnion ==
    ASSUME NEW N, NEW P, SolePackets(N), SolePackets(P), MbufsOf(N) \cap MbufsOf(P) = {}
    PROVE  SolePackets(N \cup P) /\ MbufsOf(N \cup P) = MbufsOf(N) \cup MbufsOf(P)
<1>1. MbufsOf(N \cup P) = MbufsOf(N) \cup MbufsOf(P)
  BY DEF MbufsOf
<1>2. ASSUME NEW p \in N, NEW q \in P PROVE ~ Share(p, q) /\ ~ Share(q, p)
  <2>1. Range(p.mbufs) \subseteq MbufsOf(N) /\ Range(q.mbufs) \subseteq MbufsOf(P)
    BY DEF MbufsOf
  <2> QED
    BY <2>1 DEF Share
<1>3. SolePackets(N \cup P)
  BY <1>2 DEF SolePackets
<1> QED
  BY <1>1, <1>3

LEMMA Gives ==
    ASSUME TypeInv, Conserved(engine, pool, nic, st), NEW s \in Stream, NEW r, Set(s, r),
           NEW f, Keeps(st[s], r, f), UNCHANGED fixed,
           \/ pool' = pool \cup MbufsOf(GivenUp(st[s], r, f)) /\ UNCHANGED nic
           \/ nic' = nic \cup GivenUp(st[s], r, f) /\ UNCHANGED pool
    PROVE  Conserved(engine, pool, nic, st)'
<1> DEFINE P == GivenUp(st[s], r, f)
<1>1. /\ pool \cap MbufsOf(nic) = {} /\ (pool \cup MbufsOf(nic)) \cap OwnOf(st[s]) = {}
      /\ SolePackets(nic) /\ SoleOf(st[s])
  BY OwnIs
<1>2. /\ SoleOf(r) /\ OwnOf(st[s]) = MbufsOf(P) \cup OwnOf(r)
      /\ MbufsOf(P) \cap OwnOf(r) = {} /\ SolePackets(P)
  BY <1>1, KeptAre
<1> HIDE DEF P
<1>3. SolePackets(nic \cup P) /\ MbufsOf(nic \cup P) = MbufsOf(nic) \cup MbufsOf(P)
  BY <1>1, <1>2, SoleUnion
<1>4. CASE pool' = pool \cup MbufsOf(P) /\ UNCHANGED nic
  BY <1>1, <1>2, <1>4, OneStep
<1>5. CASE nic' = nic \cup P /\ UNCHANGED pool
  BY <1>1, <1>2, <1>3, <1>5, OneStep
<1> QED
  BY <1>4, <1>5 DEF P

(* An lcore makes a packet at m of mbufs of the pool. *)
LEMMA Gets ==
    ASSUME TypeInv, Conserved(engine, pool, nic, st), NEW s \in Stream, NEW r, Set(s, r),
           UNCHANGED <<fixed, nic>>, NEW m, m \notin AtOf(st[s]), AtOf(r) = AtOf(st[s]) \cup {m},
           \A j \in AtOf(st[s]) : r.burst[j].mbufs = st[s].burst[j].mbufs,
           IsInjective(r.burst[m].mbufs), Range(r.burst[m].mbufs) \subseteq pool,
           pool' = pool \ Range(r.burst[m].mbufs)
    PROVE  Conserved(engine, pool, nic, st)'
<1> DEFINE M == Range(r.burst[m].mbufs)
<1>1. /\ pool \cap MbufsOf(nic) = {} /\ (pool \cup MbufsOf(nic)) \cap OwnOf(st[s]) = {}
      /\ SolePackets(nic) /\ SoleOf(st[s])
  BY OwnIs
<1>2. OwnOf(r) = OwnOf(st[s]) \cup M
  BY DEF OwnOf
<1>3. \A j \in AtOf(st[s]) : Range(r.burst[j].mbufs) \cap M = {}
  <2>1. \A j \in AtOf(st[s]) : Range(r.burst[j].mbufs) \subseteq OwnOf(st[s])
    BY DEF OwnOf
  <2> QED
    BY <1>1, <2>1
<1>4. SoleOf(r)
  BY <1>1, <1>3 DEF SoleOf, Share
<1> HIDE DEF M
<1>5. M \subseteq pool /\ pool' = pool \ M
  BY DEF M
<1> QED
  BY <1>1, <1>2, <1>4, <1>5, OneStep

(* It makes the packet at m longer by mbufs ms of the pool. *)
LEMMA Longer ==
    ASSUME TypeInv, Conserved(engine, pool, nic, st), NEW s \in Stream, NEW r, Set(s, r),
           UNCHANGED <<fixed, nic>>, NEW m \in AtOf(st[s]), AtOf(r) = AtOf(st[s]),
           \A j \in AtOf(st[s]) \ {m} : r.burst[j].mbufs = st[s].burst[j].mbufs,
           st[s].burst[m].mbufs \in Seq(Mbufs[engine]),
           NEW ms \in Seq(Mbufs[engine]), IsInjective(ms), Range(ms) \subseteq pool,
           r.burst[m].mbufs = st[s].burst[m].mbufs \o ms, pool' = pool \ Range(ms)
    PROVE  Conserved(engine, pool, nic, st)'
<1> DEFINE M      == Range(ms)
           old    == Range(st[s].burst[m].mbufs)
           others == UNION {Range(st[s].burst[j].mbufs) : j \in AtOf(st[s]) \ {m}}
<1>1. /\ pool \cap MbufsOf(nic) = {} /\ (pool \cup MbufsOf(nic)) \cap OwnOf(st[s]) = {}
      /\ SolePackets(nic) /\ SoleOf(st[s])
  BY OwnIs
<1>2. IsInjective(st[s].burst[m].mbufs) /\ old \cap M = {}
  <2>1. old \subseteq OwnOf(st[s])
    BY DEF OwnOf
  <2> QED
    BY <1>1, <2>1 DEF SoleOf
<1>3. Range(r.burst[m].mbufs) = old \cup M /\ IsInjective(r.burst[m].mbufs)
  BY <1>2, ConcatSole
<1>4. OwnOf(r) = others \cup old \cup M /\ OwnOf(st[s]) = others \cup old
  BY <1>3 DEF OwnOf
<1>5. others \cap old = {}
  <2>1. \A j \in AtOf(st[s]) \ {m} : Range(st[s].burst[j].mbufs) \cap old = {}
    BY <1>1 DEF SoleOf, Share
  <2> HIDE DEF old
  <2> QED
    BY <2>1
<1>6. \A j \in AtOf(st[s]) \ {m} : Range(r.burst[j].mbufs) \cap (old \cup M) = {}
  <2>1. \A j \in AtOf(st[s]) \ {m} : Range(r.burst[j].mbufs) \subseteq others
    OBVIOUS
  <2>2. M \subseteq pool /\ others \subseteq OwnOf(st[s])
    BY <1>4
  <2> HIDE DEF M, others, old
  <2> QED
    BY <1>1, <1>5, <2>1, <2>2
<1>7. SoleOf(r)
  <2> HIDE DEF M, others, old
  <2>1. \A i \in AtOf(r) : IsInjective(r.burst[i].mbufs)
    BY <1>1, <1>3 DEF SoleOf
  <2>2. ASSUME NEW i \in AtOf(r), NEW j \in AtOf(r), Share(r.burst[i], r.burst[j])
        PROVE  i = j
    <3>1. CASE i = m
      BY <1>3, <1>6, <2>2, <3>1 DEF Share
    <3>2. CASE j = m
      BY <1>3, <1>6, <2>2, <3>2 DEF Share
    <3>3. CASE i # m /\ j # m
      <4>1. Share(st[s].burst[i], st[s].burst[j])
        BY <2>2, <3>3 DEF Share
      <4> QED
        BY <1>1, <4>1 DEF SoleOf
    <3> QED
      BY <3>1, <3>2, <3>3
  <2> QED
    BY <2>1, <2>2 DEF SoleOf
<1>8. M \subseteq pool /\ pool' = pool \ M
  OBVIOUS
<1> HIDE DEF M, old, others
<1> QED
  BY <1>1, <1>4, <1>7, <1>8, OneStep

(* It puts a copy of a packet in other mbufs in its place. *)
LEMMA Copied ==
    ASSUME TypeInv, Conserved(engine, pool, nic, st), NEW s \in Stream, NEW r, Set(s, r),
           UNCHANGED <<fixed, nic>>, NEW m \in AtOf(st[s]), AtOf(r) = AtOf(st[s]),
           \A j \in AtOf(st[s]) \ {m} : r.burst[j].mbufs = st[s].burst[j].mbufs,
           IsInjective(r.burst[m].mbufs), Range(r.burst[m].mbufs) \subseteq pool,
           pool' = (pool \ Range(r.burst[m].mbufs)) \cup Range(st[s].burst[m].mbufs)
    PROVE  Conserved(engine, pool, nic, st)'
<1> DEFINE M == Range(r.burst[m].mbufs)
           old == Range(st[s].burst[m].mbufs)
           others == UNION {Range(st[s].burst[j].mbufs) : j \in AtOf(st[s]) \ {m}}
<1>1. /\ pool \cap MbufsOf(nic) = {} /\ (pool \cup MbufsOf(nic)) \cap OwnOf(st[s]) = {}
      /\ SolePackets(nic) /\ SoleOf(st[s])
  BY OwnIs
<1>2. OwnOf(r) = others \cup M /\ OwnOf(st[s]) = others \cup old
  BY DEF OwnOf
<1>3. others \cap old = {}
  BY <1>1 DEF SoleOf, Share
<1>4. \A j \in AtOf(st[s]) \ {m} : Range(r.burst[j].mbufs) \cap M = {}
  <2>1. \A j \in AtOf(st[s]) \ {m} : Range(r.burst[j].mbufs) \subseteq others
    OBVIOUS
  <2>2. M \subseteq pool /\ others \subseteq OwnOf(st[s])
    BY <1>2
  <2> HIDE DEF M, others
  <2> QED
    BY <1>1, <2>1, <2>2
<1>5. SoleOf(r)
  BY <1>1, <1>4 DEF SoleOf, Share
<1>6. M \subseteq pool /\ pool' = (pool \ M) \cup old
  OBVIOUS
<1> HIDE DEF M, old, others
<1> QED
  BY <1>1, <1>2, <1>3, <1>5, <1>6, OneStep

LEMMA ConserveEcho ==
    ASSUME TypeInv, Conserved(engine, pool, nic, st), NEW s \in Stream, IcmpEcho(s)
    PROVE  Conserved(engine, pool, nic, st)'
<1> DEFINE m == Cardinality(Echoed(s))
           R == Replies(s)
           n == Len(st[s].burst)
<1>1. /\ st[s] \in StreamType(engine) /\ st[s].pc = "icmpecho"
      /\ UNCHANGED <<fixed, nic>> /\ DOMAIN st[s].burst = 1 .. n
  BY StreamIs DEF IcmpEcho, At
<1>2. AtOf(st[s]) = 1 .. n
  BY <1>1 DEF AtOf
<1>3. CASE st[s].nb_rx >= UINT8
  <2>1. UNCHANGED <<engine, pool, nic, st>>
    BY <1>1, <1>3 DEF IcmpEcho, fixed
  <2> QED
    BY <2>1
<1>4. CASE ~(st[s].nb_rx >= UINT8)
  <2>1. /\ pool' = pool \cup MbufsOf({st[s].burst[j] : j \in Others(s)})
        /\ IF Echoed(s) = {}
           THEN Returns(s)
           ELSE Set(s, [st[s] EXCEPT !.burst = R, !.pc = "send", !.nb_pkt = m])
    BY <1>4 DEF IcmpEcho
  <2>2. /\ Echoed(s) \subseteq 1 .. n /\ Others(s) = (1 .. n) \ Echoed(s)
        /\ m \in Nat /\ (Echoed(s) = {} <=> m = 0) /\ \E f : Answers(s, f)
    BY RepliesAre, StreamIs
  <2>3. PICK f : Answers(s, f)
    BY <2>2
  <2>4. /\ f \in [1 .. m -> Echoed(s)] /\ IsInjective(f)
        /\ \A j \in Echoed(s) : \E k \in 1 .. m : f[k] = j
        /\ \A k \in 1 .. m : R[k].mbufs = st[s].burst[f[k]].mbufs
    BY <2>3 DEF Answers
  <2> DEFINE r == IF Echoed(s) = {} THEN Idle(FirstPc)
                  ELSE [st[s] EXCEPT !.burst = R, !.pc = "send", !.nb_pkt = m]
  <2>5. Set(s, r)
    BY <2>1 DEF Returns
  <2>6. AtOf(r) = 1 .. m /\ (m # 0 => r.burst = R)
    <3>1. CASE Echoed(s) = {}
      <4>1. AtOf(r) = {}
        BY <3>1, IdleOwns
      <4> HIDE DEF r, m, R
      <4>2. m = 0 /\ 1 .. 0 = {}
        BY <2>2, <3>1
      <4> QED
        BY <4>1, <4>2
    <3>2. CASE Echoed(s) # {}
      <4>1. r.pc = "send" /\ r.nb_pkt = m /\ r.burst = R
        BY <1>1, <3>2 DEF StreamType
      <4> HIDE DEF r
      <4> QED
        BY <4>1 DEF AtOf
    <3> QED
      BY <3>1, <3>2
  <2> HIDE DEF r, m, R, n
  <2>7. Keeps(st[s], r, f)
    <3>1. \A k \in AtOf(r) : f[k] \in AtOf(st[s]) /\ r.burst[k].mbufs = st[s].burst[f[k]].mbufs
      BY <1>2, <2>2, <2>4, <2>6
    <3>2. \A k, l \in AtOf(r) : f[k] = f[l] => k = l
      BY <2>4, <2>6 DEF IsInjective
    <3> QED
      BY <3>1, <3>2 DEF Keeps
  <2>8. GivenUp(st[s], r, f) = {st[s].burst[j] : j \in Others(s)}
    <3>1. {f[k] : k \in AtOf(r)} = Echoed(s)
      BY <2>4, <2>6
    <3> QED
      BY <1>2, <2>2, <3>1 DEF GivenUp
  <2> QED
    BY <1>1, <2>1, <2>5, <2>7, <2>8, Gives
<1> QED
  BY <1>3, <1>4

LEMMA ConserveCsum ==
    ASSUME TypeInv, Conserved(engine, pool, nic, st), NEW s \in Stream, CsumPacket(s)
    PROVE  Conserved(engine, pool, nic, st)'
<1> DEFINE i == st[s].i
           n == st[s].nb_pkt
<1>1. At(s, "csum") /\ UNCHANGED <<fixed, nic>>
  BY DEF CsumPacket
<1>2. /\ st[s] \in StreamType(engine) /\ i \in 1 .. n /\ DOMAIN st[s].burst = 1 .. n
      /\ st[s].pc = "csum"
  BY <1>1, StreamIs DEF At, Place, Forwards
<1>3. PICK new : /\ Summed(s, new)
                 /\ \E info \in InfoType :
                       Set(s, [st[s] EXCEPT !.i = @ + 1, !.info = info,
                                  !.pc = IF st[s].i = st[s].nb_rx THEN "send" ELSE "csum",
                                  !.burst = [@ EXCEPT ![st[s].i] = new]])
  BY CsumIs
<1>4. PICK info \in InfoType :
         Set(s, [st[s] EXCEPT !.i = @ + 1, !.info = info,
                    !.pc = IF st[s].i = st[s].nb_rx THEN "send" ELSE "csum",
                    !.burst = [@ EXCEPT ![st[s].i] = new]])
  BY <1>3
<1> DEFINE b  == [st[s].burst EXCEPT ![i] = new]
           pc == IF i = st[s].nb_rx THEN "send" ELSE "csum"
           r  == [st[s] EXCEPT !.i = @ + 1, !.info = info, !.pc = pc, !.burst = b]
<1>5. Set(s, r)
  BY <1>4
<1>6. DOMAIN b = 1 .. n /\ b[i] = new /\ \A j \in (1 .. n) \ {i} : b[j] = st[s].burst[j]
  BY <1>2
<1> HIDE DEF b
<1>7. r.burst = b /\ r.pc = pc /\ r.nb_pkt = n
  BY <1>2 DEF StreamType
<1> HIDE DEF r
<1>8. AtOf(r) = 1 .. n /\ AtOf(st[s]) = 1 .. n
  BY <1>2, <1>6, <1>7 DEF AtOf
<1> HIDE DEF i, n, pc
<1>9. CASE new.mbufs = st[s].burst[i].mbufs /\ UNCHANGED pool
  <2>1. \A j \in AtOf(st[s]) : r.burst[j].mbufs = st[s].burst[j].mbufs
    BY <1>6, <1>7, <1>8, <1>9
  <2>2. OwnOf(r) = OwnOf(st[s]) /\ SoleOf(r)
    BY <1>8, <2>1, SamePackets, OwnIs
  <2> QED
    BY <1>1, <1>5, <1>9, <2>2, NothingMoves
<1>10. CASE /\ IsInjective(new.mbufs) /\ Range(new.mbufs) \subseteq pool
            /\ pool' = (pool \ Range(new.mbufs)) \cup Range(st[s].burst[i].mbufs)
  <2>1. i \in AtOf(st[s]) /\ AtOf(r) = AtOf(st[s]) /\ r.burst[i] = new
        /\ \A j \in AtOf(st[s]) \ {i} : r.burst[j].mbufs = st[s].burst[j].mbufs
    BY <1>2, <1>6, <1>7, <1>8
  <2> QED
    BY <1>1, <1>5, <1>10, <2>1, Copied
<1> QED
  BY <1>3, <1>9, <1>10 DEF Summed, i

LEMMA ConserveFlow ==
    ASSUME TypeInv, Conserved(engine, pool, nic, st), NEW s \in Stream, FlowPacket(s)
    PROVE  Conserved(engine, pool, nic, st)'
<1>1. PICK p \in PacketType(engine) :
         /\ p.mbufs \in [1 .. 1 -> pool] /\ IsInjective(p.mbufs)
         /\ pool' = pool \ Range(p.mbufs)
         /\ Set(s, [st[s] EXCEPT !.pc = "count", !.nb_pkt = @ + 1, !.flow = next_flow,
                       !.burst = [j \in DOMAIN @ \cup {st[s].nb_pkt + 1} |->
                                     IF j = st[s].nb_pkt + 1 THEN p ELSE @[j]]])
  BY FlowPacketIs
<1> DEFINE n == st[s].nb_pkt
           b == st[s].burst
           c == [j \in DOMAIN b \cup {n + 1} |-> IF j = n + 1 THEN p ELSE b[j]]
           r == [st[s] EXCEPT !.pc = "count", !.nb_pkt = n + 1, !.flow = next_flow, !.burst = c]
<1>2. engine = "flowgen" /\ st[s].pc = "alloc" /\ UNCHANGED <<fixed, nic>>
  BY DEF FlowPacket, At, AllocFrame
<1>3. /\ st[s] \in StreamType(engine) /\ n \in Nat /\ n <= Len(b)
      /\ b \in Seq(PacketType(engine))
  BY <1>2, StreamIs DEF Place
<1>4. Set(s, r)
  BY <1>1
<1> HIDE DEF b, n
<1>5. c[n + 1] = p /\ \A j \in 1 .. n : c[j] = b[j]
  BY <1>3, MadeIs
<1> HIDE DEF c
<1>6. r.pc = "count" /\ r.nb_pkt = n + 1 /\ r.burst = c
  BY <1>3 DEF StreamType
<1> HIDE DEF r
<1>7. AtOf(st[s]) = 1 .. n /\ AtOf(r) = 1 .. n + 1
  BY <1>2, <1>6 DEF AtOf, n
<1>8. n + 1 \notin 1 .. n /\ 1 .. n + 1 = (1 .. n) \cup {n + 1}
  BY <1>3
<1>9. Range(p.mbufs) \subseteq pool
  BY <1>1 DEF Range
<1>10. \A j \in AtOf(st[s]) : r.burst[j].mbufs = st[s].burst[j].mbufs
  BY <1>5, <1>6, <1>7 DEF b
<1>11. r.burst[n + 1] = p
  BY <1>5, <1>6
<1>12. /\ n + 1 \notin AtOf(st[s]) /\ AtOf(r) = AtOf(st[s]) \cup {n + 1}
       /\ IsInjective(r.burst[n + 1].mbufs) /\ Range(r.burst[n + 1].mbufs) \subseteq pool
       /\ pool' = pool \ Range(r.burst[n + 1].mbufs)
  BY <1>1, <1>7, <1>8, <1>9, <1>11
<1> QED
  BY <1>2, <1>4, <1>10, <1>12, Gets

LEMMA ConserveCounted ==
    ASSUME TypeInv, Conserved(engine, pool, nic, st), NEW s \in Stream,
           CountFlow(s) \/ NextFlow(s)
    PROVE  Conserved(engine, pool, nic, st)'
<1> DEFINE Of(pc, f) == [st[s] EXCEPT !.pc = pc, !.flow = f]
<1>1. UNCHANGED <<fixed, nic, pool>> /\ st[s].pc \in {"count", "counted"}
  BY DEF CountFlow, NextFlow, AllocFrame, At
<1>6. PICK pc \in {"counted", "alloc"} : \E f : Set(s, Of(pc, f))
  <2>1. CASE CountFlow(s)
    BY <2>1 DEF CountFlow
  <2>2. CASE NextFlow(s)
    <3>1. [st[s] EXCEPT !.pc = "alloc"] = Of("alloc", st[s].flow)
      BY StreamIs DEF StreamType
    <3> QED
      BY <2>2, <3>1 DEF NextFlow
  <2> QED
    BY <2>1, <2>2
<1>2. PICK f : Set(s, Of(pc, f))
  BY <1>6
<1> DEFINE r == Of(pc, f)
<1>3. r.pc = pc /\ r.nb_pkt = st[s].nb_pkt /\ r.burst = st[s].burst
  BY StreamIs DEF StreamType
<1>4. Set(s, r)
  BY <1>2
<1> HIDE DEF r
<1>5. AtOf(r) = AtOf(st[s])
  BY <1>1, <1>3 DEF AtOf
<1> QED
  BY <1>1, <1>3, <1>4, <1>5, GoesOn

LEMMA ConserveTxPacket ==
    ASSUME TypeInv, Conserved(engine, pool, nic, st), NEW s \in Stream, TxPacket(s)
    PROVE  Conserved(engine, pool, nic, st)'
<1>1. PICK p \in PacketType(engine) :
         /\ p.mbufs \in [1 .. 1 -> pool] /\ IsInjective(p.mbufs)
         /\ pool' = pool \ Range(p.mbufs)
         /\ Set(s, [st[s] EXCEPT !.pc = "split", !.burst = Append(@, p)])
  BY TxPacketIs
<1> DEFINE n == st[s].nb_pkt
           b == st[s].burst
           c == Append(b, p)
           r == [st[s] EXCEPT !.pc = "split", !.burst = c]
<1>2. engine = "txonly" /\ st[s].pc = "alloc" /\ UNCHANGED <<fixed, nic>>
  BY DEF TxPacket, At, AllocFrame
<1>3. /\ st[s] \in StreamType(engine) /\ n \in Nat /\ n = Len(b)
      /\ b \in Seq(PacketType(engine))
  BY <1>2, StreamIs DEF Place, TxPcs
<1>4. Set(s, r)
  BY <1>1
<1> HIDE DEF b, n
<1>5. c[n + 1] = p /\ DOMAIN c = 1 .. n + 1 /\ \A j \in 1 .. n : c[j] = b[j]
  BY <1>3, AppendProperties, SeqTypes
<1> HIDE DEF c
<1>6. r.pc = "split" /\ r.burst = c
  BY <1>2, <1>3 DEF StreamType
<1> HIDE DEF r
<1>7. AtOf(st[s]) = 1 .. n /\ AtOf(r) = 1 .. n + 1
  BY <1>2, <1>5, <1>6 DEF AtOf, n
<1>8. n + 1 \notin 1 .. n /\ 1 .. n + 1 = (1 .. n) \cup {n + 1}
  BY <1>3
<1>9. Range(p.mbufs) \subseteq pool
  BY <1>1 DEF Range
<1>10. \A j \in AtOf(st[s]) : r.burst[j].mbufs = st[s].burst[j].mbufs
  BY <1>5, <1>6, <1>7 DEF b
<1>11. r.burst[n + 1] = p
  BY <1>5, <1>6
<1>12. /\ n + 1 \notin AtOf(st[s]) /\ AtOf(r) = AtOf(st[s]) \cup {n + 1}
       /\ IsInjective(r.burst[n + 1].mbufs) /\ Range(r.burst[n + 1].mbufs) \subseteq pool
       /\ pool' = pool \ Range(r.burst[n + 1].mbufs)
  BY <1>1, <1>7, <1>8, <1>9, <1>11
<1> QED
  BY <1>2, <1>4, <1>10, <1>12, Gets

LEMMA ConserveTxSplit ==
    ASSUME TypeInv, Conserved(engine, pool, nic, st), NEW s \in Stream, TxSplit(s)
    PROVE  Conserved(engine, pool, nic, st)'
<1>1. UNCHANGED <<fixed, nic, pool>> /\ st[s].pc = "split"
  BY DEF TxSplit, AllocFrame, At
<1>2. PICK k : Set(s, [st[s] EXCEPT !.pc = "segments", !.split = tx_pkt_split, !.nb_segs = k])
  BY DEF TxSplit
<1> DEFINE r == [st[s] EXCEPT !.pc = "segments", !.split = tx_pkt_split, !.nb_segs = k]
<1>3. r.pc = "segments" /\ r.burst = st[s].burst
  BY StreamIs DEF StreamType
<1>4. Set(s, r)
  BY <1>2
<1> HIDE DEF r
<1>5. AtOf(r) = AtOf(st[s])
  BY <1>1, <1>3 DEF AtOf
<1> QED
  BY <1>1, <1>3, <1>4, <1>5, GoesOn

LEMMA ConserveTxSegment ==
    ASSUME TypeInv, Conserved(engine, pool, nic, st), NEW s \in Stream, TxSegment(s)
    PROVE  Conserved(engine, pool, nic, st)'
<1>1. st[s].pc = "segments" /\ UNCHANGED <<fixed, nic>>
  BY DEF TxSegment, At, AllocFrame
<1>2. PICK ms \in [1 .. 1 -> pool], p \in PacketType(engine) :
         /\ IsInjective(ms) /\ pool' = pool \ Range(ms)
         /\ p.mbufs = Making(s).mbufs \o ms
         /\ Set(s, [st[s] EXCEPT !.burst = [@ EXCEPT ![st[s].nb_pkt + 1] = p]])
  BY TxSegmentIs
<1> DEFINE m == st[s].nb_pkt + 1
           b == [st[s].burst EXCEPT ![m] = p]
           r == [st[s] EXCEPT !.burst = b]
<1>3. /\ st[s] \in StreamType(engine) /\ m \in DOMAIN st[s].burst
      /\ Making(s) = st[s].burst[m] /\ Making(s).mbufs \in Seq(Mbufs[engine])
  BY <1>1, MakingIs, StreamIs DEF TxPcs
<1>4. ms \in Seq(Mbufs[engine]) /\ Range(ms) \subseteq pool
  <2>1. pool \subseteq Mbufs[engine] /\ 1 \in Nat
    BY DEF TypeInv, Mbuf
  <2>2. ms \in [1 .. 1 -> Mbufs[engine]]
    BY <2>1
  <2>3. ms \in Seq(Mbufs[engine]) /\ ms \in Seq(pool)
    BY <2>1, <2>2, SeqIs
  <2> QED
    BY <2>3, RangeIs
<1>5. Set(s, r)
  BY <1>2
<1>6. DOMAIN b = DOMAIN st[s].burst /\ b[m] = p /\ \A j \in DOMAIN b \ {m} : b[j] = st[s].burst[j]
  BY <1>3
<1> HIDE DEF b
<1>7. r.pc = "segments" /\ r.burst = b
  BY <1>1, <1>3 DEF StreamType
<1> HIDE DEF r, m
<1>8. AtOf(r) = DOMAIN st[s].burst /\ AtOf(st[s]) = DOMAIN st[s].burst
  BY <1>1, <1>6, <1>7 DEF AtOf
<1>9. /\ m \in AtOf(st[s]) /\ AtOf(r) = AtOf(st[s])
      /\ r.burst[m].mbufs = st[s].burst[m].mbufs \o ms
      /\ \A j \in AtOf(st[s]) \ {m} : r.burst[j].mbufs = st[s].burst[j].mbufs
  BY <1>2, <1>3, <1>6, <1>7, <1>8
<1> QED
  BY <1>1, <1>2, <1>3, <1>4, <1>5, <1>9, Longer

LEMMA ConserveTxHeaders ==
    ASSUME TypeInv, Conserved(engine, pool, nic, st), NEW s \in Stream, TxHeaders(s)
    PROVE  Conserved(engine, pool, nic, st)'
<1> DEFINE r == [st[s] EXCEPT !.pc = "alloc", !.nb_pkt = @ + 1]
<1>1. /\ UNCHANGED <<fixed, nic, pool>> /\ st[s].pc = "segments"
      /\ UNCHANGED st \/ Set(s, r)
  BY DEF TxHeaders, AllocFrame, At
<1>2. CASE UNCHANGED st
  <2>1. UNCHANGED <<engine, pool, nic, st>>
    BY <1>1, <1>2 DEF fixed
  <2> QED
    BY <2>1
<1>3. CASE Set(s, r)
  <2>1. r.pc = "alloc" /\ r.burst = st[s].burst /\ r.nb_pkt = st[s].nb_pkt + 1
    BY StreamIs DEF StreamType
  <2>2. DOMAIN st[s].burst = 1 .. st[s].nb_pkt + 1
    BY <1>1, MakingIs, StreamIs DEF TxPcs
  <2> HIDE DEF r
  <2>3. AtOf(r) = AtOf(st[s])
    BY <1>1, <2>1, <2>2 DEF AtOf
  <2> QED
    BY <1>1, <1>3, <2>1, <2>3, GoesOn
<1> QED
  BY <1>1, <1>2, <1>3

LEMMA ConserveTxFails ==
    ASSUME TypeInv, Conserved(engine, pool, nic, st), NEW s \in Stream, TxSegmentFails(s)
    PROVE  Conserved(engine, pool, nic, st)'
<1> DEFINE n == st[s].nb_pkt
           b == st[s].burst
           c == SubSeq(b, 1, n)
           q == [st[s] EXCEPT !.pc = "send", !.burst = c]
           r == IF n = 0 THEN Idle(FirstPc) ELSE q
<1>1. /\ UNCHANGED <<fixed, nic>> /\ st[s].pc = "segments" /\ pool = {}
      /\ pool' = Range(Making(s).mbufs) /\ Set(s, r)
  BY DEF TxSegmentFails, At, Returns
<1>2. /\ n \in Nat /\ b \in Seq(PacketType(engine)) /\ Len(b) = n + 1 /\ DOMAIN b = 1 .. n + 1
      /\ Making(s) = b[n + 1] /\ st[s] \in StreamType(engine)
  BY <1>1, MakingIs, StreamIs DEF TxPcs
<1>3. \A j \in 1 .. n : c[j] = b[j]
  <2>1. n \in 0 .. Len(b)
    BY <1>2
  <2> QED
    BY <1>2, <2>1, CutIs
<1>4. AtOf(st[s]) = 1 .. n + 1
  BY <1>1, <1>2 DEF AtOf
<1>5. AtOf(r) = 1 .. n /\ \A j \in 1 .. n : r.burst[j].mbufs = b[j].mbufs
  <2>1. CASE n = 0
    <3>1. AtOf(r) = {} /\ 1 .. 0 = {}
      BY <2>1, IdleOwns
    <3> QED
      BY <2>1, <3>1
  <2>2. CASE n # 0
    <3> HIDE DEF c
    <3>1. q.pc = "send" /\ q.burst = c /\ q.nb_pkt = n
      BY <1>2 DEF StreamType
    <3> HIDE DEF q
    <3> QED
      BY <1>3, <2>2, <3>1 DEF AtOf
  <2> QED
    BY <2>1, <2>2
<1> DEFINE f == [j \in 1 .. n |-> j]
<1> HIDE DEF r, c, q
<1>6. Keeps(st[s], r, f)
  BY <1>2, <1>4, <1>5 DEF Keeps
<1>7. MbufsOf(GivenUp(st[s], r, f)) = Range(b[n + 1].mbufs)
  <2>1. {f[k] : k \in AtOf(r)} = 1 .. n
    BY <1>5
  <2>2. (1 .. n + 1) \ (1 .. n) = {n + 1}
    BY <1>2
  <2>3. GivenUp(st[s], r, f) = {b[n + 1]}
    BY <1>4, <2>1, <2>2 DEF GivenUp
  <2> QED
    BY <2>3 DEF MbufsOf
<1>8. pool' = pool \cup MbufsOf(GivenUp(st[s], r, f))
  BY <1>1, <1>2, <1>7
<1> HIDE DEF f
<1> QED
  BY <1>1, <1>6, <1>8, Gives

LEMMA ConserveLast ==
    ASSUME TypeInv, Conserved(engine, pool, nic, st), NEW s \in Stream, LastPacket(s)
    PROVE  Conserved(engine, pool, nic, st)'
<1> DEFINE r == [st[s] EXCEPT !.pc = "send"]
<1>1. /\ UNCHANGED <<fixed, nic, pool>> /\ st[s].pc = "alloc"
      /\ (Returns(s) /\ st[s].nb_pkt = 0) \/ Set(s, r)
  BY DEF LastPacket, At
<1>2. CASE Returns(s) /\ st[s].nb_pkt = 0
  <2>1. AtOf(st[s]) = {}
    BY <1>1, <1>2 DEF AtOf
  <2>2. pool' = pool \cup OwnOf(st[s])
    BY <1>1, <2>1 DEF OwnOf
  <2> QED
    BY <1>1, <1>2, <2>2, ConserveReturns DEF Returns
<1>3. CASE Set(s, r)
  <2>1. r.pc = "send" /\ r.nb_pkt = st[s].nb_pkt /\ r.burst = st[s].burst
    BY StreamIs DEF StreamType
  <2> HIDE DEF r
  <2>2. AtOf(r) = AtOf(st[s])
    BY <1>1, <2>1 DEF AtOf
  <2> QED
    BY <1>1, <1>3, <2>1, <2>2, GoesOn
<1> QED
  BY <1>1, <1>2, <1>3

(* The NIC takes the next k packets that are the lcore's. *)
LEMMA ConserveTakes ==
    ASSUME TypeInv, Conserved(engine, pool, nic, st), NEW s \in Stream, NEW r, Set(s, r),
           UNCHANGED <<fixed, pool>>, NEW k \in Nat, Takes(s, k),
           AtOf(st[s]) = st[s].nb_tx + 1 .. st[s].nb_pkt, st[s].nb_tx + k <= st[s].nb_pkt,
           r.pc = "retry", r.nb_pkt = st[s].nb_pkt, r.nb_tx = st[s].nb_tx + k,
           r.burst = st[s].burst
    PROVE  Conserved(engine, pool, nic, st)'
<1> DEFINE a == st[s].nb_tx
           n == st[s].nb_pkt
           f == [j \in AtOf(r) |-> j]
<1>1. a \in Nat /\ n \in Nat /\ AtOf(r) = a + k + 1 .. n
  BY StreamIs DEF AtOf
<1>2. /\ AtOf(r) \subseteq AtOf(st[s])
      /\ AtOf(st[s]) \ AtOf(r) = a + 1 .. a + k
  BY <1>1
<1>3. Keeps(st[s], r, f)
  BY <1>2 DEF Keeps
<1>4. {f[j] : j \in AtOf(r)} = AtOf(r)
  OBVIOUS
<1>5. nic' = nic \cup GivenUp(st[s], r, f)
  BY <1>2, <1>4 DEF Takes, GivenUp
<1> HIDE DEF f
<1> QED
  BY <1>3, <1>5, Gives

LEMMA ConserveTxBurst ==
    ASSUME TypeInv, Conserved(engine, pool, nic, st), NEW s \in Stream, TxBurst(s)
    PROVE  Conserved(engine, pool, nic, st)'
<1>1. PICK k \in 0 .. st[s].nb_pkt :
         Takes(s, k) /\ Set(s, [st[s] EXCEPT !.nb_tx = k, !.pc = "retry"])
  BY DEF TxBurst
<1> DEFINE r == [st[s] EXCEPT !.nb_tx = k, !.pc = "retry"]
<1>2. /\ st[s].pc = "send" /\ UNCHANGED <<fixed, pool>> /\ st[s].nb_tx = 0 /\ k \in Nat
      /\ k <= st[s].nb_pkt /\ st[s].nb_pkt \in Nat
  BY StreamIs DEF TxBurst, At, Place, Unsending
<1>3. AtOf(st[s]) = st[s].nb_tx + 1 .. st[s].nb_pkt
  BY <1>2 DEF AtOf
<1>4. /\ r.pc = "retry" /\ r.nb_pkt = st[s].nb_pkt /\ r.nb_tx = st[s].nb_tx + k
      /\ r.burst = st[s].burst
  BY <1>2, StreamIs DEF StreamType
<1>5. Set(s, r)
  BY <1>1
<1> HIDE DEF r
<1> QED
  BY <1>1, <1>2, <1>3, <1>4, <1>5, ConserveTakes

LEMMA ConserveRetry ==
    ASSUME TypeInv, Conserved(engine, pool, nic, st), NEW s \in Stream, Retry(s), recycled' = {}
    PROVE  Conserved(engine, pool, nic, st)'
<1>1. PICK k \in 0 .. ToRetry(s) - st[s].nb_tx :
         Takes(s, k) /\ Set(s, [st[s] EXCEPT !.nb_tx = @ + k, !.retry = @ + 1])
  BY DEF Retry
<1> DEFINE r == [st[s] EXCEPT !.nb_tx = @ + k, !.retry = @ + 1]
<1>2. /\ st[s].pc = "retry" /\ UNCHANGED <<fixed, pool>> /\ st[s].nb_tx \in Nat
      /\ st[s].nb_pkt \in Nat /\ ToRetry(s) \in Nat /\ st[s].nb_tx < ToRetry(s) /\ k \in Nat
  BY StreamIs, ToRetryIs DEF Retry, At
<1>3. AtOf(st[s]) = st[s].nb_tx + 1 .. st[s].nb_pkt
  BY <1>2 DEF AtOf
<1>4. /\ r.pc = "retry" /\ r.nb_pkt = st[s].nb_pkt /\ r.nb_tx = st[s].nb_tx + k
      /\ r.burst = st[s].burst
  BY <1>2, StreamIs DEF StreamType
<1>5. Set(s, r)
  BY <1>1
<1> HIDE DEF r
<1>6. CASE st[s].nb_tx + k <= st[s].nb_pkt
  BY <1>1, <1>2, <1>3, <1>4, <1>5, <1>6, ConserveTakes
<1>7. CASE k = 0
  <2>1. AtOf(r) = AtOf(st[s]) /\ r.burst = st[s].burst
    BY <1>2, <1>3, <1>4, <1>7 DEF AtOf
  <2>2. OwnOf(r) = OwnOf(st[s]) /\ SoleOf(r)
    BY <2>1, SamePackets, OwnIs
  <2>3. UNCHANGED nic
    <3>1. st[s].nb_tx + 1 .. st[s].nb_tx + k = {}
      BY <1>2, <1>7
    <3> QED
      BY <1>1, <3>1 DEF Takes
  <2> QED
    BY <1>2, <1>5, <2>2, <2>3, NothingMoves
<1>8. CASE k # 0 /\ ~ (st[s].nb_tx + k <= st[s].nb_pkt)
  <2>1. {st[s].burst[j] : j \in st[s].nb_pkt + 1 .. st[s].nb_tx + k} = {}
    BY <1>1 DEF Takes
  <2>2. st[s].nb_pkt + 1 \in st[s].nb_pkt + 1 .. st[s].nb_tx + k
    BY <1>2, <1>8
  <2> QED
    BY <2>1, <2>2
<1> QED
  BY <1>6, <1>7, <1>8

(* The rest is what the lcore has. *)
LEMMA ConserveRest ==
    ASSUME TypeInv, Conserved(engine, pool, nic, st), NEW s \in Stream,
           st[s].pc \in {"retry", "backed"},
           pool' = pool \cup MbufsOf(Rest(s)), Returns(s), UNCHANGED <<fixed, nic>>
    PROVE  Conserved(engine, pool, nic, st)'
<1>1. AtOf(st[s]) = st[s].nb_tx + 1 .. st[s].nb_pkt
  BY DEF AtOf
<1>2. MbufsOf(Rest(s)) = OwnOf(st[s])
  BY <1>1 DEF MbufsOf, Rest, OwnOf
<1> QED
  BY <1>2, ConserveReturns DEF Returns

LEMMA ConserveUnsending ==
    ASSUME TypeInv, Conserved(engine, pool, nic, st), NEW s \in Stream,
           st[s].pc \in {"retry"} \cup Unsending, NEW pc \in Unsending, NEW f,
           Set(s, [st[s] EXCEPT !.pc = pc, !.flow = f]), UNCHANGED <<fixed, pool, nic>>
    PROVE  Conserved(engine, pool, nic, st)'
<1> DEFINE r == [st[s] EXCEPT !.pc = pc, !.flow = f]
<1>1. /\ r.pc = pc /\ r.burst = st[s].burst /\ r.nb_pkt = st[s].nb_pkt
      /\ r.nb_tx = st[s].nb_tx
  BY StreamIs DEF StreamType
<1>2. Set(s, r)
  OBVIOUS
<1> HIDE DEF r
<1>3. AtOf(r) = AtOf(st[s])
  BY <1>1 DEF AtOf, Unsending
<1> QED
  BY <1>1, <1>2, <1>3, GoesOn

LEMMA ConserveEnd ==
    ASSUME TypeInv, Conserved(engine, pool, nic, st), NEW s \in Stream, EndBurst(s)
    PROVE  Conserved(engine, pool, nic, st)'
<1>1. /\ st[s].pc = "retry" /\ UNCHANGED <<fixed, nic>>
      /\ IF engine = "flowgen" /\ Unsent(s) > 0
         THEN Set(s, Backs(s, Unsent(s))) /\ UNCHANGED <<pool, bursts>>
         ELSE pool' = pool \cup MbufsOf(Rest(s)) /\ Returns(s)
  BY EndIs DEF At
<1>2. CASE engine = "flowgen" /\ Unsent(s) > 0
  BY <1>1, <1>2, ConserveUnsending DEF Backs, Unsending
<1>3. CASE ~(engine = "flowgen" /\ Unsent(s) > 0)
  BY <1>1, <1>3, ConserveRest
<1> QED
  BY <1>2, <1>3

LEMMA ConserveBackOut ==
    ASSUME TypeInv, Conserved(engine, pool, nic, st), NEW s \in Stream,
           BackOut(s) \/ BackedOut(s) \/ AddFlows(s)
    PROVE  Conserved(engine, pool, nic, st)'
<1>1. st[s].pc \in Unsending /\ UNCHANGED <<fixed, nic>>
  BY DEF BackOut, BackedOut, AddFlows, At, Unsending
<1>2. CASE BackOut(s)
  <2>1. [st[s] EXCEPT !.pc = "backed"] = [st[s] EXCEPT !.pc = "backed", !.flow = st[s].flow]
    BY StreamIs DEF StreamType
  <2> QED
    BY <1>1, <1>2, <2>1, ConserveUnsending DEF BackOut, Unsending
<1>3. CASE BackedOut(s)
  <2>1. PICK now \in Reads(s) :
           IF now < 0
           THEN Set(s, [st[s] EXCEPT !.pc = "add", !.flow = now]) /\ UNCHANGED <<pool, bursts>>
           ELSE FreesRest(s)
    BY <1>3 DEF BackedOut
  <2>2. CASE now < 0
    BY <1>1, <2>1, <2>2, ConserveUnsending DEF Unsending
  <2>3. CASE ~(now < 0)
    BY <1>1, <1>3, <2>1, <2>3, ConserveRest DEF FreesRest, BackedOut, At
  <2> QED
    BY <2>2, <2>3
<1>4. CASE AddFlows(s)
  BY <1>1, <1>4, ConserveUnsending DEF AddFlows, Unsending
<1> QED
  BY <1>2, <1>3, <1>4

LEMMA ConserveTxDone ==
    ASSUME TypeInv, Conserved(engine, pool, nic, st), TxDone
    PROVE  Conserved(engine, pool, nic, st)'
<1>1. engine' = engine /\ st' = st /\ pool' = pool \cup MbufsOf(nic) /\ nic' = {}
  BY DEF TxDone, fixed
<1>2. MbufsOf({}) = {} /\ SolePackets({})
  BY DEF MbufsOf, SolePackets
<1>3. Conserved(engine, pool \cup MbufsOf(nic), {}, st)
  BY <1>2 DEF Conserved
<1> QED
  BY <1>1, <1>3

-----------------------------------------------------------------------------
(* Packets of freed mbufs are sent by the retries of flowgen only. *)

LEMMA TxBurstSends ==
    ASSUME TypeInv, NEW s \in Stream, TxBurst(s)
    PROVE  recycled' = recycled
<1>1. PICK k \in 0 .. st[s].nb_pkt : Takes(s, k)
  BY DEF TxBurst
<1>2. st[s].nb_tx = 0 /\ st[s].nb_pkt \in Nat
  BY StreamIs DEF TxBurst, At, Place, Unsending
<1>3. st[s].nb_pkt + 1 .. st[s].nb_tx + k = {}
  BY <1>2
<1> QED
  BY <1>1, <1>3 DEF Takes

LEMMA RetrySends ==
    ASSUME TypeInv, NEW s \in Stream, Retry(s)
    PROVE  /\ recycled \subseteq recycled'
           /\ recycled' = recycled \/ (engine = "flowgen" /\ burst_tx_retry_num > 0)
<1>1. PICK k \in 0 .. ToRetry(s) - st[s].nb_tx : Takes(s, k)
  BY DEF Retry
<1>2. /\ st[s].retry < burst_tx_retry_num /\ st[s].retry \in Nat /\ burst_tx_retry_num \in Nat
      /\ st[s].nb_tx \in Nat /\ st[s].nb_pkt \in Nat /\ ToRetry(s) \in Nat
      /\ ToRetry(s) = IF engine = "flowgen" THEN st[s].nb_rx ELSE st[s].nb_pkt
      /\ st[s].nb_tx < ToRetry(s)
  BY StreamIs, ToRetryIs, Constants DEF Retry
<1>3. CASE engine # "flowgen"
  <2>1. st[s].nb_pkt + 1 .. st[s].nb_tx + k = {}
    BY <1>2, <1>3
  <2> QED
    BY <1>1, <2>1 DEF Takes
<1>4. CASE engine = "flowgen"
  BY <1>1, <1>2, <1>4 DEF Takes
<1> QED
  BY <1>3, <1>4

Conserve ==
    /\ recycled = {} => Conserved(engine, pool, nic, st)
    /\ recycled # {} => engine = "flowgen" /\ burst_tx_retry_num > 0

LEMMA ConserveInit == Init => Conserve
<1> SUFFICES ASSUME Init PROVE Conserve
  OBVIOUS
<1>1. /\ pool = Mbuf /\ nic = {} /\ st = [s \in Stream |-> Idle(FirstPc)] /\ recycled = {}
  BY DEF Init
<1>2. \A s \in Stream : OwnOf(st[s]) = {} /\ SoleOf(st[s])
  BY <1>1, IdleOwns
<1>3. MbufsOf({}) = {} /\ SolePackets({})
  BY DEF MbufsOf, SolePackets
<1> QED
  BY <1>1, <1>2, <1>3 DEF Conserve, Conserved, Mbuf

LEMMA ConserveLcore ==
    ASSUME TypeInv, Conserve, NEW s \in Stream, Lcore(s)
    PROVE  Conserve'
<1>1. engine' = engine /\ burst_tx_retry_num' = burst_tx_retry_num
  BY LcoreFrame DEF fixed
<1>2. CASE Retry(s)
  <2>1. /\ recycled \subseteq recycled'
        /\ recycled' = recycled \/ (engine = "flowgen" /\ burst_tx_retry_num > 0)
    BY <1>2, RetrySends
  <2>2. recycled' = {} => Conserved(engine, pool, nic, st)'
    BY <1>2, <2>1, ConserveRetry DEF Conserve
  <2> QED
    BY <1>1, <2>1, <2>2 DEF Conserve
<1>3. CASE ~ Retry(s)
  <2>1. recycled' = recycled
    <3>1. CASE TxBurst(s)
      BY <3>1, TxBurstSends
    <3>2. CASE RxBurst(s) \/ IoForward(s) \/ MacForward(s) \/ MacSwap(s) \/ IcmpEcho(s)
               \/ CsumPacket(s) \/ LastPacket(s)
      BY <3>2 DEF RxBurst, IoForward, MacForward, MacSwap, Rewrites, IcmpEcho, CsumPacket,
                  LastPacket, history
    <3>3. CASE FlowPacket(s) \/ CountFlow(s) \/ NextFlow(s)
      BY <3>3 DEF FlowPacket, CountFlow, NextFlow, AllocFrame
    <3>5. CASE TxPacket(s) \/ TxSplit(s) \/ TxSegment(s) \/ TxHeaders(s) \/ TxSegmentFails(s)
      BY <3>5 DEF TxPacket, TxSplit, TxSegment, TxHeaders, TxSegmentFails, AllocFrame, history
    <3>4. CASE EndBurst(s) \/ BackOut(s) \/ BackedOut(s) \/ AddFlows(s)
      BY <3>4 DEF EndBurst, BackOut, BackedOut, AddFlows, history
    <3> QED
      BY <1>3, <3>1, <3>2, <3>3, <3>4, <3>5 DEF Lcore
  <2>2. ASSUME Conserved(engine, pool, nic, st) PROVE Conserved(engine, pool, nic, st)'
    <3>1. CASE RxBurst(s)
      BY <2>2, <3>1, ConserveRx
    <3>2. CASE IoForward(s) \/ MacForward(s) \/ MacSwap(s)
      <4>1. {"received", "peer", "swapped"} \subseteq Addrs
        BY DEF Addrs
      <4> QED
        BY <2>2, <3>2, <4>1, ConserveRewrites DEF IoForward, MacForward, MacSwap
    <3>3. CASE IcmpEcho(s)
      BY <2>2, <3>3, ConserveEcho
    <3>4. CASE CsumPacket(s)
      BY <2>2, <3>4, ConserveCsum
    <3>5. CASE FlowPacket(s)
      BY <2>2, <3>5, ConserveFlow
    <3>6. CASE CountFlow(s) \/ NextFlow(s)
      BY <2>2, <3>6, ConserveCounted
    <3>7. CASE TxPacket(s) \/ TxSplit(s) \/ TxSegment(s) \/ TxHeaders(s) \/ TxSegmentFails(s)
      BY <2>2, <3>7, ConserveTxPacket, ConserveTxSplit, ConserveTxSegment, ConserveTxHeaders,
         ConserveTxFails
    <3>8. CASE LastPacket(s)
      BY <2>2, <3>8, ConserveLast
    <3>9. CASE TxBurst(s)
      BY <2>2, <3>9, ConserveTxBurst
    <3>10. CASE EndBurst(s)
      BY <2>2, <3>10, ConserveEnd
    <3>11. CASE BackOut(s) \/ BackedOut(s) \/ AddFlows(s)
      BY <2>2, <3>11, ConserveBackOut
    <3> QED
      BY <1>3, <3>1, <3>2, <3>3, <3>4, <3>5, <3>6, <3>7, <3>8, <3>9, <3>10, <3>11 DEF Lcore
  <2> QED
    BY <1>1, <2>1, <2>2 DEF Conserve
<1> QED
  BY <1>2, <1>3

(* What the command thread leaves alone, whatever it does *)
LEMMA ThreadFrame == CommandThread => CommandFrame
BY DEF CommandThread, SetBurst, SetTxSplit, SetCsum, SetParseTunnel, SetTso, SetTunnelTso,
       SetCsumConfig, SetTxPkts, SetTxPktLength, SetTxPktNumber, SettingFrame, Command

LEMMA ConserveNext == TypeInv /\ Conserve /\ [Next]_vars => Conserve'
<1> SUFFICES ASSUME TypeInv, Conserve, [Next]_vars PROVE Conserve'
  OBVIOUS
<1>1. CASE UNCHANGED <<fixed, pool, nic, st, recycled>>
  BY <1>1 DEF Conserve, fixed
<1>2. CASE \E s \in Stream : Lcore(s)
  BY <1>2, ConserveLcore
<1>3. CASE TxDone
  <2>1. UNCHANGED <<fixed, recycled>>
    BY <1>3 DEF TxDone, history
  <2> QED
    BY <1>3, <2>1, ConserveTxDone DEF Conserve, fixed
<1>4. CASE CommandThread
  BY <1>1, <1>4, ThreadFrame DEF CommandFrame
<1>5. CASE UNCHANGED vars
  BY <1>1, <1>5 DEF vars, history
<1> QED
  BY <1>2, <1>3, <1>4, <1>5 DEF Next

-----------------------------------------------------------------------------
LEMMA TypeIs == TypeInv => TypeOK
<1> SUFFICES ASSUME TypeInv PROVE TypeOK
  OBVIOUS
<1>1. tx_pkt_nb_segs \in 1 .. Len(tx_pkt_seg_lengths)
  BY SegsIs
<1>2. MbufsOf(nic) \subseteq Mbuf
  BY MbufsType DEF TypeInv
<1>3. ASSUME NEW s \in Stream
      PROVE  bursts[s] \in 0 .. MaxBursts[engine][s] /\ MbufsOf(Held(s)) \subseteq Mbuf
  <2>1. bursts[s] \in 0 .. MaxBursts[engine][s]
    <3>1. MaxBursts[engine][s] \in Nat /\ bursts[s] \in Nat /\ bursts[s] <= MaxBursts[engine][s]
      BY EnginesAssumption DEF TypeInv, LcoreTypes
    <3> QED
      BY <3>1
  <2>2. HeldAt(s) \subseteq 1 .. Len(st[s].burst)
    <3>1. /\ Len(st[s].burst) \in Nat /\ st[s].nb_pkt \in Nat /\ st[s].nb_tx \in Nat
          /\ st[s].nb_pkt <= Len(st[s].burst) /\ DOMAIN st[s].burst = 1 .. Len(st[s].burst)
      BY StreamIs, ToRetryIs
    <3>2. /\ 1 .. st[s].nb_pkt \subseteq 1 .. Len(st[s].burst)
          /\ st[s].nb_tx + 1 .. st[s].nb_pkt \subseteq 1 .. Len(st[s].burst)
      BY <3>1
    <3> QED
      BY <3>1, <3>2 DEF HeldAt
  <2>3. Held(s) \subseteq PacketType(engine)
    BY <2>2, StreamIs DEF Held
  <2> QED
    BY <2>1, <2>3, MbufsType
<1> QED
  BY <1>1, <1>2, <1>3 DEF TypeInv, SettingTypes, TypeOK

(***************************************************************************)
(* No mbuf is lost or given out twice, except by flowgen's retries: for    *)
(* any number of lcores that share the pool, packets of any segments,      *)
(* bursts changed under way, and a NIC that takes any part of what it is   *)
(* offered (the engines of test-pmd: iofwd.c, macfwd.c, macswap.c,         *)
(* rxonly.c, txonly.c, flowgen.c, csumonly.c, icmpecho.c).                 *)
(***************************************************************************)
THEOREM Conservation == Spec => []MbufConservation
<1>1. Init => TypeInv /\ Conserve
  BY TypeInit, ConserveInit
<1>2. TypeInv /\ Conserve /\ [Next]_vars => TypeInv' /\ Conserve'
  BY TypeNext, ConserveNext
<1>3. TypeInv /\ Conserve => MbufConservation
  BY TypeIs, ConservedIs DEF Conserve, MbufConservation
<1> QED
  BY <1>1, <1>2, <1>3, PTL DEF Spec

-----------------------------------------------------------------------------

(***************************************************************************)
(* Counters. While a burst is under way, what came in is what went out and *)
(* what the burst still has; what txonly makes is counted when it is sent. *)
(***************************************************************************)
Balance(e, r, c) ==
    c.rx_packets + c.extra = c.tx_packets + c.fwd_dropped + (IF e = "txonly" THEN 0 ELSE r.nb_pkt)

Balanced ==
    engine \notin {"flowgen", "rxonly"} =>
        \A s \in Stream : crashed = {} \/ st[s].pc # "icmpecho" => Balance(engine, st[s], fs[s])

LEMMA BalanceInit == Init => Balanced
<1> SUFFICES ASSUME Init, NEW s \in Stream PROVE Balance(engine, st[s], fs[s])
  BY DEF Balanced
<1>1. st[s] = Idle(FirstPc) /\ fs[s] = [rx_packets |-> 0, tx_packets |-> 0, fwd_dropped |-> 0,
                                        extra |-> 0]
  BY DEF Init
<1>2. Idle(FirstPc).nb_pkt = 0
  BY DEF Idle
<1> QED
  BY <1>1, <1>2 DEF Balance

(* A step of one lcore *)
LEMMA BalanceStep ==
    ASSUME TypeInv, Balanced, NEW s \in Stream, NEW r, Set(s, r), UNCHANGED fixed, crashed = {},
           NEW c, fs' = [fs EXCEPT ![s] = c],
           engine \notin {"flowgen", "rxonly"} => Balance(engine, r, c)
    PROVE  Balanced'
<1>1. st'[s] = r /\ \A t \in Stream \ {s} : st'[t] = st[t]
  BY SetIs
<1>2. fs'[s] = c /\ \A t \in Stream \ {s} : fs'[t] = fs[t]
  BY DEF TypeInv, LcoreTypes
<1>3. engine' = engine
  BY DEF fixed
<1>4. ASSUME engine \notin {"flowgen", "rxonly"}, NEW t \in Stream
      PROVE  Balance(engine, st'[t], fs'[t])
  <2>1. CASE t = s
    BY <1>1, <1>2, <1>4, <2>1
  <2>2. CASE t # s
    BY <1>1, <1>2, <1>4, <2>2 DEF Balanced
  <2> QED
    BY <2>1, <2>2
<1> QED
  BY <1>3, <1>4 DEF Balanced

LEMMA BalanceSame ==
    ASSUME TypeInv, Balanced, NEW s \in Stream, NEW r, Set(s, r), UNCHANGED <<fixed, fs>>,
           crashed = {}, engine = "txonly" \/ r.nb_pkt = st[s].nb_pkt
    PROVE  Balanced'
<1>1. fs' = [fs EXCEPT ![s] = fs[s]]
  BY DEF TypeInv, LcoreTypes
<1>2. engine \notin {"flowgen", "rxonly"} => Balance(engine, r, fs[s])
  BY DEF Balanced, Balance
<1> QED
  BY <1>1, <1>2, BalanceStep

(* An engine that does not tell what it drops *)
LEMMA NotTold ==
    ASSUME engine \in {"flowgen", "rxonly"}, UNCHANGED fixed
    PROVE  Balanced'
BY DEF Balanced, fixed

LEMMA BalanceRx ==
    ASSUME TypeInv, Balanced, NEW s \in Stream, RxBurst(s)
    PROVE  Balanced'
<1>1. At(s, "receive") /\ UNCHANGED fixed /\ crashed = {}
  BY DEF RxBurst, At
<1>2. PICK n, pkts, S : Received(s, n, pkts, S)
  BY RxIs
<1>3. CASE engine \in {"flowgen", "rxonly"}
  BY <1>1, <1>3, NotTold
<1>4. CASE engine \notin {"flowgen", "rxonly"}
  <2> DEFINE r == [st[s] EXCEPT !.pc = engine, !.burst = pkts, !.nb_rx = n, !.nb_pkt = n]
             c == [fs[s] EXCEPT !.rx_packets = @ + n]
  <2>1. Set(s, r) /\ n \in Nat /\ fs' = [fs EXCEPT ![s].rx_packets = @ + n]
    BY <1>2, <1>4, Constants DEF Received
  <2>2. st[s] = Idle("receive") /\ st[s] \in StreamType(engine) /\ fs[s] \in CounterType
        /\ engine # "txonly"
    BY <1>1, StreamIs DEF At, Place
  <2>3. st[s].nb_pkt = 0
    BY <2>2 DEF Idle
  <2>4. r.nb_pkt = n
    BY <2>2 DEF StreamType
  <2>5. fs' = [fs EXCEPT ![s] = c]
    BY <2>1
  <2>6. c.rx_packets = fs[s].rx_packets + n /\ c.tx_packets = fs[s].tx_packets
        /\ c.fwd_dropped = fs[s].fwd_dropped /\ c.extra = fs[s].extra
    BY <2>2 DEF CounterType
  <2>7. Balance(engine, st[s], fs[s])
    BY <1>1, <1>4 DEF Balanced
  <2>8. fs[s].rx_packets \in Nat /\ fs[s].tx_packets \in Nat /\ fs[s].fwd_dropped \in Nat
        /\ fs[s].extra \in Int
    BY <2>2 DEF CounterType
  <2> HIDE DEF r, c
  <2>9. Balance(engine, r, c)
    BY <2>1, <2>2, <2>3, <2>4, <2>6, <2>7, <2>8 DEF Balance
  <2> QED
    BY <1>1, <2>1, <2>5, <2>9, BalanceStep
<1> QED
  BY <1>3, <1>4

LEMMA BalanceEcho ==
    ASSUME TypeInv, Balanced, NEW s \in Stream, IcmpEcho(s)
    PROVE  Balanced'
<1> DEFINE m == Cardinality(Echoed(s))
           o == Cardinality(Others(s))
           c == [fs[s] EXCEPT !.extra = @ - o]
<1>1. /\ crashed = {} /\ st[s].pc = "icmpecho" /\ UNCHANGED fixed
      /\ fs' = [fs EXCEPT ![s].extra = @ - o]
  BY DEF IcmpEcho, At
<1>2. st[s] \in StreamType(engine) /\ engine = "icmpecho" /\ Len(st[s].burst) = st[s].nb_pkt
      /\ fs[s] \in CounterType /\ st[s].nb_pkt \in Nat
  BY <1>1, StreamIs DEF Place, Forwards
<1>3. fs' = [fs EXCEPT ![s] = c]
  BY <1>1
<1>4. o = st[s].nb_pkt - m /\ m \in Nat /\ (Echoed(s) = {} <=> m = 0)
  BY <1>2, RepliesAre
<1> HIDE DEF o, m
<1>5. CASE st[s].nb_rx >= UINT8
  <2>1. UNCHANGED st /\ crashed' = {"index"} /\ engine' = engine
    BY <1>1, <1>5 DEF IcmpEcho, fixed
  <2>2. \A t \in Stream \ {s} : fs'[t] = fs[t]
    BY <1>3 DEF TypeInv, LcoreTypes
  <2>3. \A t \in Stream : st'[t].pc # "icmpecho" => t # s /\ Balance(engine, st[t], fs[t])
    BY <1>1, <1>2, <2>1 DEF Balanced
  <2> QED
    BY <1>2, <2>1, <2>2, <2>3 DEF Balanced
<1>6. CASE ~(st[s].nb_rx >= UINT8)
  <2> DEFINE r == IF Echoed(s) = {} THEN Idle(FirstPc)
                  ELSE [st[s] EXCEPT !.burst = Replies(s), !.pc = "send", !.nb_pkt = m]
  <2>1. Set(s, r)
    BY <1>6 DEF IcmpEcho, Returns, m
  <2>2. r.nb_pkt = m
    <3>1. CASE Echoed(s) = {}
      <4>1. Idle(FirstPc).nb_pkt = 0
        BY DEF Idle
      <4> QED
        BY <1>4, <3>1, <4>1
    <3>2. CASE Echoed(s) # {}
      BY <1>2, <3>2 DEF StreamType
    <3> QED
      BY <3>1, <3>2
  <2>3. Balance(engine, st[s], fs[s])
    BY <1>1, <1>2 DEF Balanced
  <2>4. c.rx_packets = fs[s].rx_packets /\ c.tx_packets = fs[s].tx_packets
        /\ c.fwd_dropped = fs[s].fwd_dropped /\ c.extra = fs[s].extra - o
    BY <1>2 DEF CounterType
  <2>5. fs[s].rx_packets \in Nat /\ fs[s].tx_packets \in Nat /\ fs[s].fwd_dropped \in Nat
        /\ fs[s].extra \in Int
    BY <1>2 DEF CounterType
  <2> HIDE DEF r, c
  <2>6. fs[s].rx_packets + fs[s].extra = fs[s].tx_packets + fs[s].fwd_dropped + st[s].nb_pkt
    BY <1>2, <2>3 DEF Balance
  <2>7. c.rx_packets + c.extra = c.tx_packets + c.fwd_dropped + r.nb_pkt
    <3>1. o \in Int /\ m \in Nat /\ st[s].nb_pkt \in Nat /\ st[s].nb_pkt = o + m
      BY <1>2, <1>4
    <3>2. fs[s].rx_packets + (fs[s].extra - o) = fs[s].tx_packets + fs[s].fwd_dropped + m
      <4> DEFINE rx == fs[s].rx_packets
                 ex == fs[s].extra
                 tx == fs[s].tx_packets
                 fd == fs[s].fwd_dropped
                 nb == st[s].nb_pkt
      <4>1. rx \in Int /\ ex \in Int /\ tx \in Int /\ fd \in Int /\ nb \in Int
            /\ o \in Int /\ m \in Int
        BY <2>5, <3>1
      <4>2. rx + ex = tx + fd + nb /\ nb = o + m
        BY <2>6, <3>1
      <4> HIDE DEF rx, ex, tx, fd, nb
      <4>3. rx + (ex - o) = tx + fd + m
        BY <4>1, <4>2
      <4> QED
        BY <4>3 DEF rx, ex, tx, fd
    <3> QED
      BY <2>2, <2>4, <3>2
  <2>8. Balance(engine, r, c)
    BY <1>2, <2>7 DEF Balance
  <2> QED
    BY <1>1, <1>3, <2>1, <2>8, BalanceStep
<1> QED
  BY <1>5, <1>6

LEMMA BalanceEnd ==
    ASSUME TypeInv, Balanced, NEW s \in Stream, EndBurst(s)
    PROVE  Balanced'
<1>1. /\ crashed = {} /\ st[s].pc = "retry" /\ UNCHANGED fixed
      /\ fs' = [fs EXCEPT ![s] =
                  [fs[s] EXCEPT !.tx_packets = @ + st[s].nb_tx,
                     !.fwd_dropped = IF engine = "flowgen" THEN @ ELSE @ + Unsent(s),
                     !.extra = IF engine = "txonly" THEN @ + st[s].nb_pkt ELSE @]]
      /\ IF engine = "flowgen" /\ Unsent(s) > 0
         THEN Set(s, Backs(s, Unsent(s)))
         ELSE Set(s, Idle(FirstPc))
  BY EndIs DEF At, Returns
<1>2. CASE engine \in {"flowgen", "rxonly"}
  BY <1>1, <1>2, NotTold
<1>3. CASE engine \notin {"flowgen", "rxonly"}
  <2> DEFINE c == [fs[s] EXCEPT !.tx_packets = @ + st[s].nb_tx,
                     !.fwd_dropped = IF engine = "flowgen" THEN @ ELSE @ + Unsent(s),
                     !.extra = IF engine = "txonly" THEN @ + st[s].nb_pkt ELSE @]
             r == Idle(FirstPc)
  <2>1. Set(s, r) /\ fs' = [fs EXCEPT ![s] = c]
    BY <1>1, <1>3
  <2>2. r.nb_pkt = 0
    BY DEF Idle
  <2>3. fs[s] \in CounterType /\ st[s].nb_pkt \in Nat /\ st[s].nb_tx \in Nat
        /\ st[s].nb_tx <= st[s].nb_pkt
    BY <1>3, StreamIs DEF Place
  <2>4. Unsent(s) = st[s].nb_pkt - st[s].nb_tx
    BY <2>3 DEF Unsent
  <2>5. /\ c.rx_packets = fs[s].rx_packets /\ c.tx_packets = fs[s].tx_packets + st[s].nb_tx
        /\ c.fwd_dropped = fs[s].fwd_dropped + Unsent(s)
        /\ c.extra = IF engine = "txonly" THEN fs[s].extra + st[s].nb_pkt ELSE fs[s].extra
    BY <1>3, <2>3 DEF CounterType
  <2>6. fs[s].rx_packets \in Nat /\ fs[s].tx_packets \in Nat /\ fs[s].fwd_dropped \in Nat
        /\ fs[s].extra \in Int
    BY <2>3 DEF CounterType
  <2>7. Balance(engine, st[s], fs[s])
    BY <1>1, <1>3 DEF Balanced
  <2> HIDE DEF c, r
  <2>8. Balance(engine, r, c)
    BY <2>2, <2>3, <2>4, <2>5, <2>6, <2>7 DEF Balance
  <2> QED
    BY <1>1, <2>1, <2>8, BalanceStep
<1> QED
  BY <1>2, <1>3

LEMMA BalanceLcore ==
    ASSUME TypeInv, Balanced, NEW s \in Stream, Lcore(s)
    PROVE  Balanced'
<1>1. UNCHANGED fixed /\ crashed = {} /\ st[s] \in StreamType(engine)
  BY LcoreFrame, StreamIs
<1>2. CASE RxBurst(s)
  BY <1>2, BalanceRx
<1>3. CASE IcmpEcho(s)
  BY <1>3, BalanceEcho
<1>4. CASE EndBurst(s)
  BY <1>4, BalanceEnd
<1>5. CASE \/ FlowPacket(s) \/ CountFlow(s) \/ NextFlow(s)
           \/ BackOut(s) \/ BackedOut(s) \/ AddFlows(s)
  <2>1. engine = "flowgen" \/ st[s].pc \in FlowPcs
    BY <1>5 DEF FlowPacket, CountFlow, NextFlow, BackOut, BackedOut, AddFlows, At, FlowPcs
  <2>2. engine = "flowgen"
    BY <2>1, StreamIs DEF Place
  <2> QED
    BY <1>1, <2>2, NotTold
<1>6. CASE CsumPacket(s)
  <2>1. PICK new, info :
           Set(s, [st[s] EXCEPT !.i = @ + 1, !.info = info,
                      !.pc = IF st[s].i = st[s].nb_rx THEN "send" ELSE "csum",
                      !.burst = [@ EXCEPT ![st[s].i] = new]])
    BY <1>6, CsumIs
  <2> DEFINE r == [st[s] EXCEPT !.i = @ + 1, !.info = info,
                      !.pc = IF st[s].i = st[s].nb_rx THEN "send" ELSE "csum",
                      !.burst = [@ EXCEPT ![st[s].i] = new]]
  <2>2. r.nb_pkt = st[s].nb_pkt /\ Set(s, r)
    BY <1>1, <2>1 DEF StreamType
  <2> HIDE DEF r
  <2> QED
    BY <1>1, <1>6, <2>2, BalanceSame DEF CsumPacket
<1>7. CASE IoForward(s) \/ MacForward(s) \/ MacSwap(s)
  <2>1. PICK addr \in {"received", "peer", "swapped"} : Rewrites(s, addr)
    BY <1>7 DEF IoForward, MacForward, MacSwap
  <2> DEFINE r == [st[s] EXCEPT !.burst = Rewritten(s, addr), !.pc = "send"]
  <2>2. r.nb_pkt = st[s].nb_pkt /\ Set(s, r) /\ UNCHANGED fs
    BY <1>1, <2>1 DEF StreamType, Rewrites
  <2> HIDE DEF r
  <2> QED
    BY <1>1, <2>2, BalanceSame
<1>8. CASE TxPacket(s) \/ TxSplit(s) \/ TxSegment(s) \/ TxHeaders(s) \/ TxSegmentFails(s)
  <2>1. engine = "txonly" \/ st[s].pc \in TxPcs
    BY <1>8 DEF TxPacket, TxSplit, TxSegment, TxHeaders, TxSegmentFails, At, TxPcs
  <2>2. engine = "txonly"
    BY <2>1, StreamIs DEF Place
  <2>3. UNCHANGED fs
    BY <1>8 DEF TxPacket, TxSplit, TxSegment, TxHeaders, TxSegmentFails, AllocFrame
  <2>4. UNCHANGED st => Set(s, st[s])
    BY DEF Set, TypeInv, LcoreTypes
  <2> QED
    BY <1>1, <2>2, <2>3, <2>4, LcoreSets, BalanceSame
<1>9. CASE LastPacket(s)
  <2>1. CASE engine = "txonly"
    <3>1. \E r : Set(s, r)
      BY <1>9 DEF LastPacket, Returns
    <3> QED
      BY <1>1, <1>9, <2>1, <3>1, BalanceSame DEF LastPacket
  <2>2. CASE engine # "txonly"
    <3>1. engine = "flowgen"
      BY <1>9, <2>2, StreamIs DEF LastPacket, At, Place
    <3> QED
      BY <1>1, <3>1, NotTold
  <2> QED
    BY <2>1, <2>2
<1>10. CASE TxBurst(s)
  <2>1. PICK k : Set(s, [st[s] EXCEPT !.nb_tx = k, !.pc = "retry"])
    BY <1>10 DEF TxBurst
  <2> DEFINE r == [st[s] EXCEPT !.nb_tx = k, !.pc = "retry"]
  <2>2. r.nb_pkt = st[s].nb_pkt /\ Set(s, r) /\ UNCHANGED fs
    BY <1>1, <1>10, <2>1 DEF StreamType, TxBurst
  <2> HIDE DEF r
  <2> QED
    BY <1>1, <2>2, BalanceSame
<1>11. CASE Retry(s)
  <2>1. PICK k : Set(s, [st[s] EXCEPT !.nb_tx = @ + k, !.retry = @ + 1])
    BY <1>11 DEF Retry
  <2> DEFINE r == [st[s] EXCEPT !.nb_tx = @ + k, !.retry = @ + 1]
  <2>2. r.nb_pkt = st[s].nb_pkt /\ Set(s, r) /\ UNCHANGED fs
    BY <1>1, <1>11, <2>1 DEF StreamType, Retry
  <2> HIDE DEF r
  <2> QED
    BY <1>1, <2>2, BalanceSame
<1> QED
  BY <1>2, <1>3, <1>4, <1>5, <1>6, <1>7, <1>8, <1>9, <1>10, <1>11 DEF Lcore

LEMMA BalanceNext == TypeInv /\ Balanced /\ [Next]_vars => Balanced'
<1> SUFFICES ASSUME TypeInv, Balanced, [Next]_vars PROVE Balanced'
  OBVIOUS
<1>1. CASE UNCHANGED <<fixed, st, fs, crashed>>
  BY <1>1 DEF Balanced, fixed
<1>2. CASE \E s \in Stream : Lcore(s)
  BY <1>2, BalanceLcore
<1>3. CASE TxDone
  BY <1>1, <1>3 DEF TxDone
<1>4. CASE CommandThread
  BY <1>1, <1>4, ThreadFrame DEF CommandFrame
<1>5. CASE UNCHANGED vars
  BY <1>1, <1>5 DEF vars
<1> QED
  BY <1>2, <1>3, <1>4, <1>5 DEF Next

-----------------------------------------------------------------------------

(* Numbers that the table of flows does not tell apart *)

SameFlow(a, b) == \E q \in Int : a = b + q * cfg_n_flows

LEMMA FlowsAre == cfg_n_flows \in Nat /\ cfg_n_flows > 0
BY EnginesAssumption

LEMMA SameFlowShift ==
    ASSUME NEW a \in Int, NEW b \in Int, NEW c \in Int, SameFlow(a, b)
    PROVE  SameFlow(a + c, b + c)
<1>1. PICK q \in Int : a = b + q * cfg_n_flows
  BY DEF SameFlow
<1> DEFINE x == q * cfg_n_flows
<1>2. x \in Int /\ a = b + x
  BY <1>1, FlowsAre
<1> HIDE DEF x
<1>3. a + c = (b + c) + x
  BY <1>2
<1> QED
  BY <1>3 DEF SameFlow, x

LEMMA SameFlowBack ==
    ASSUME NEW a \in Int, NEW b \in Int, SameFlow(a, b)
    PROVE  SameFlow(a + cfg_n_flows, b)
<1>1. PICK q \in Int : a = b + q * cfg_n_flows
  BY DEF SameFlow
<1>2. q + 1 \in Int /\ cfg_n_flows \in Int /\ q * cfg_n_flows \in Int
  BY FlowsAre
<1>3. (q + 1) * cfg_n_flows = q * cfg_n_flows + cfg_n_flows
  BY <1>2
<1>4. a + cfg_n_flows = b + (q + 1) * cfg_n_flows
  BY <1>1, <1>2, <1>3
<1> QED
  BY <1>2, <1>4 DEF SameFlow

LEMMA SameFlowNext ==
    ASSUME NEW a \in Int, NEW b \in Int, SameFlow(a, b)
    PROVE  SameFlow(a % cfg_n_flows, b) /\ a % cfg_n_flows \in 0 .. cfg_n_flows - 1
<1> DEFINE n == cfg_n_flows
           d == a \div n
           m == a % n
<1>1. n \in Nat /\ n > 0
  BY FlowsAre
<1>2. PICK q \in Int : a = b + q * n
  BY DEF SameFlow
<1> HIDE DEF n
<1>3. d \in Int /\ m \in 0 .. n - 1 /\ a = n * d + m
  BY <1>1, SMT
<1> HIDE DEF d, m
<1>4. (q - d) * n = q * n - n * d /\ q - d \in Int /\ q * n \in Int /\ n * d \in Int
  BY <1>1, <1>3
<1>5. m = b + (q - d) * n
  BY <1>1, <1>2, <1>3, <1>4
<1> QED
  BY <1>3, <1>4, <1>5 DEF SameFlow, n, m

LEMMA SameFlowIs ==
    ASSUME NEW a \in 0 .. cfg_n_flows - 1, NEW b \in Nat, SameFlow(a, b)
    PROVE  a = b % cfg_n_flows
<1> DEFINE n == cfg_n_flows
           d == b \div n
           m == b % n
<1>1. n \in Nat /\ n > 0
  BY FlowsAre
<1>2. PICK q \in Int : a = b + q * n
  BY DEF SameFlow
<1>3. a \in 0 .. n - 1
  OBVIOUS
<1> HIDE DEF n
<1>4. d \in Int /\ m \in 0 .. n - 1 /\ b = n * d + m
  BY <1>1, SMT
<1> HIDE DEF d, m
<1> DEFINE e == q + d
<1>5. e * n = q * n + n * d /\ e \in Int /\ q * n \in Int /\ n * d \in Int
  BY <1>1, <1>4
<1>6. a = e * n + m
  BY <1>1, <1>2, <1>3, <1>4, <1>5
<1> HIDE DEF e
<1>7. e = 0
  <2>1. CASE e >= 1
    <3>1. e * n >= n
      BY <1>1, <1>5, <2>1
    <3>2. e * n \in Int
      BY <1>1, <1>5
    <3> QED
      BY <1>1, <1>3, <1>4, <1>6, <3>1, <3>2
  <2>2. CASE e <= -1
    <3>1. e * n <= -n
      BY <1>1, <1>5, <2>2
    <3>2. e * n \in Int
      BY <1>1, <1>5
    <3> QED
      BY <1>1, <1>3, <1>4, <1>6, <3>1, <3>2
  <2> QED
    BY <1>5, <2>1, <2>2
<1>8. a = m
  BY <1>1, <1>4, <1>6, <1>7
<1> QED
  BY <1>8 DEF m, n

-----------------------------------------------------------------------------
(***************************************************************************)
(* flowgen while one lcore runs alone: what next_flow is, or is to become  *)
(* where the lcore holds it, counts what was sent and what the burst made. *)
(* It is of the table, but that it may be negative while flows are taken   *)
(* back. Begun(s): s began a burst.                                        *)
(***************************************************************************)
Begun(s) == Busy(s) \/ bursts[s] > 0
Only(s) == \A t \in Stream \ {s} : ~ Begun(t)
Counted(r, c) == c.tx_packets + (IF r.pc \in Unsending THEN 0
                                 ELSE IF r.pc = "count" THEN r.nb_pkt - 1 ELSE r.nb_pkt)
Current(f, r) == IF r.pc \in {"counted", "backout"} THEN r.flow ELSE f
Follows(f, r, c, clean) ==
    /\ clean => SameFlow(Current(f, r), Counted(r, c))
    /\ Current(f, r) < cfg_n_flows
    /\ r.pc \notin Unsending => Current(f, r) >= 0
    /\ r.pc \in {"count", "backed", "add"} => r.flow = f
    /\ r.pc = "add" => f < 0

FlowsFollow ==
    engine = "flowgen" => \A s \in Stream :
        /\ recycled = {} => st[s].nb_tx <= st[s].nb_pkt
        /\ Only(s) => Follows(next_flow, st[s], fs[s], recycled = {})

(* A step of an lcore of flowgen *)
LEMMA FlowSteps ==
    ASSUME TypeInv, NEW s \in Stream, Lcore(s), engine = "flowgen"
    PROVE  \/ RxBurst(s) \/ FlowPacket(s) \/ CountFlow(s) \/ NextFlow(s) \/ LastPacket(s)
           \/ TxBurst(s) \/ Retry(s) \/ EndBurst(s) \/ BackOut(s) \/ BackedOut(s) \/ AddFlows(s)
<1>1. st[s].pc \notin Forwards \cup TxPcs
  BY StreamIs DEF Place, Forwards
<1>2. ~ IoForward(s) /\ ~ MacForward(s) /\ ~ MacSwap(s) /\ ~ IcmpEcho(s) /\ ~ CsumPacket(s)
  BY <1>1 DEF IoForward, MacForward, MacSwap, IcmpEcho, CsumPacket, At, Forwards
<1>3. ~ TxPacket(s) /\ ~ TxSplit(s) /\ ~ TxSegment(s) /\ ~ TxHeaders(s) /\ ~ TxSegmentFails(s)
  BY <1>1 DEF TxPacket, TxSplit, TxSegment, TxHeaders, TxSegmentFails, At, TxPcs
<1> QED
  BY <1>2, <1>3 DEF Lcore

(***************************************************************************)
(* A burst of flowgen goes on: r and c are what it has then, f the next    *)
(* flow. It is none of what was received that it sends.                    *)
(***************************************************************************)
Goes(s, r, c, f, clean) ==
    /\ Set(s, r) /\ next_flow' = f
    /\ fs' = [fs EXCEPT ![s] = c]
    /\ clean => r.nb_tx <= r.nb_pkt
    /\ Follows(next_flow, st[s], fs[s], clean) => Follows(f, r, c, clean)

(* What is followed may be read twice. *)
LEMMA ReadOnce ==
    ASSUME NEW s \in Stream, NEW clean, NEW now \in Reads(s),
           st[s].pc \in {"count", "backed", "add"},
           Follows(next_flow, st[s], fs[s], clean)
    PROVE  now = next_flow
BY DEF Reads, Follows

LEMMA FlowIs ==
    ASSUME TypeInv, NEW s \in Stream, engine = "flowgen"
    PROVE  /\ st[s] \in StreamType(engine) /\ fs[s] \in CounterType /\ Place(engine, st[s])
           /\ st[s].nb_pkt \in Nat /\ st[s].nb_tx \in Nat /\ st[s].flow \in Int
           /\ fs[s].tx_packets \in Nat /\ next_flow \in Int /\ cfg_n_flows \in Nat
           /\ st[s].pc \notin {"retry"} \cup Unsending => st[s].nb_tx = 0
           /\ fs = [fs EXCEPT ![s] = fs[s]]
<1>1. st[s] \in StreamType(engine) /\ fs[s] \in CounterType /\ Place(engine, st[s])
  BY StreamIs
<1>2. /\ st[s].nb_pkt \in Nat /\ st[s].nb_tx \in Nat /\ st[s].flow \in Int
      /\ fs[s].tx_packets \in Nat /\ next_flow \in Int /\ cfg_n_flows \in Nat
  BY <1>1, StreamIs, FlowsAre DEF StreamType, CounterType, TypeInv
<1>3. st[s].pc \notin {"retry"} \cup Unsending => st[s].nb_tx = 0
  BY <1>1 DEF Place
<1>4. fs = [fs EXCEPT ![s] = fs[s]]
  BY DEF TypeInv, LcoreTypes
<1> QED
  BY <1>1, <1>2, <1>3, <1>4

LEMMA FlowGoesFirst ==
    ASSUME TypeInv, NEW s \in Stream, NEW clean \in BOOLEAN, engine = "flowgen",
           RxBurst(s) \/ FlowPacket(s) \/ CountFlow(s) \/ NextFlow(s) \/ LastPacket(s)
    PROVE  \E r, c, f : Goes(s, r, c, f, clean)
<1>1. /\ st[s] \in StreamType(engine) /\ fs[s] \in CounterType
      /\ st[s].nb_pkt \in Nat /\ st[s].nb_tx \in Nat /\ st[s].flow \in Int
      /\ fs[s].tx_packets \in Nat /\ next_flow \in Int
      /\ st[s].pc \notin {"retry"} \cup Unsending => st[s].nb_tx = 0
      /\ fs = [fs EXCEPT ![s] = fs[s]]
  BY FlowIs
<1>2. CASE RxBurst(s)
  <2>1. PICK n, pkts, S : Received(s, n, pkts, S)
    BY <1>2, RxIs
  <2> DEFINE r == [st[s] EXCEPT !.pc = "alloc", !.burst = pkts, !.nb_rx = n,
                                !.len = tx_pkt_length - 4]
             c == [fs[s] EXCEPT !.rx_packets = @ + n]
  <2>2. /\ Set(s, r) /\ next_flow' = next_flow /\ st[s].pc = "receive"
        /\ fs' = [fs EXCEPT ![s] = c]
    BY <1>2, <2>1 DEF RxBurst, Received, At
  <2>3. r.pc = "alloc" /\ r.nb_pkt = st[s].nb_pkt /\ r.nb_tx = st[s].nb_tx
        /\ c.tx_packets = fs[s].tx_packets
    BY <1>1 DEF StreamType, CounterType
  <2>4. st[s].nb_tx = 0
    BY <1>1, <2>2 DEF Unsending
  <2> HIDE DEF r, c
  <2>5. Follows(next_flow, st[s], fs[s], clean) => Follows(next_flow, r, c, clean)
    BY <2>2, <2>3 DEF Follows, Counted, Current, Unsending
  <2>6. Goes(s, r, c, next_flow, clean)
    BY <1>1, <2>2, <2>3, <2>4, <2>5 DEF Goes
  <2> QED
    BY <2>6
<1>3. CASE FlowPacket(s)
  <2>1. PICK p \in PacketType(engine) :
           Set(s, [st[s] EXCEPT !.pc = "count", !.nb_pkt = @ + 1, !.flow = next_flow,
                       !.burst = [j \in DOMAIN @ \cup {st[s].nb_pkt + 1} |->
                                     IF j = st[s].nb_pkt + 1 THEN p ELSE @[j]]])
    BY <1>3, FlowPacketIs
  <2> DEFINE b == [j \in DOMAIN st[s].burst \cup {st[s].nb_pkt + 1} |->
                     IF j = st[s].nb_pkt + 1 THEN p ELSE st[s].burst[j]]
             r == [st[s] EXCEPT !.pc = "count", !.nb_pkt = @ + 1, !.flow = next_flow, !.burst = b]
  <2>2. /\ Set(s, r) /\ UNCHANGED fs /\ next_flow' = next_flow /\ st[s].pc = "alloc"
    BY <1>3, <2>1 DEF FlowPacket, At, AllocFrame
  <2> HIDE DEF b
  <2>3. r.pc = "count" /\ r.nb_pkt = st[s].nb_pkt + 1 /\ r.nb_tx = st[s].nb_tx
        /\ r.flow = next_flow
    BY <1>1 DEF StreamType
  <2>4. st[s].nb_tx = 0
    BY <1>1, <2>2 DEF Unsending
  <2> HIDE DEF r
  <2>5. Counted(r, fs[s]) = Counted(st[s], fs[s])
    BY <1>1, <2>2, <2>3 DEF Counted, Unsending
  <2>6. Follows(next_flow, st[s], fs[s], clean) => Follows(next_flow, r, fs[s], clean)
    BY <2>2, <2>3, <2>5 DEF Follows, Current, Unsending
  <2>7. Goes(s, r, fs[s], next_flow, clean)
    BY <1>1, <2>2, <2>3, <2>4, <2>6 DEF Goes
  <2> QED
    BY <2>7
<1>4. CASE CountFlow(s)
  <2>1. PICK now \in Reads(s) :
           Set(s, [st[s] EXCEPT !.pc = "counted", !.flow = (now + 1) % cfg_n_flows])
    BY <1>4 DEF CountFlow
  <2> DEFINE m == (now + 1) % cfg_n_flows
             r == [st[s] EXCEPT !.pc = "counted", !.flow = m]
  <2>2. /\ Set(s, r) /\ UNCHANGED fs /\ next_flow' = next_flow /\ st[s].pc = "count"
    BY <1>4, <2>1 DEF CountFlow, At, AllocFrame
  <2>3. r.pc = "counted" /\ r.nb_pkt = st[s].nb_pkt /\ r.nb_tx = st[s].nb_tx /\ r.flow = m
    BY <1>1 DEF StreamType
  <2>4. st[s].nb_tx = 0
    BY <1>1, <2>2 DEF Unsending
  <2> HIDE DEF r
  <2>5. ASSUME Follows(next_flow, st[s], fs[s], clean) PROVE Follows(next_flow, r, fs[s], clean)
    <3>1. now = next_flow
      BY <2>2, <2>5, ReadOnce
    <3>2. /\ clean => SameFlow(next_flow, Counted(st[s], fs[s]))
          /\ Counted(st[s], fs[s]) \in Int /\ Counted(r, fs[s]) = Counted(st[s], fs[s]) + 1
      BY <1>1, <2>2, <2>3, <2>5 DEF Follows, Counted, Current, Unsending
    <3>3. clean => SameFlow(next_flow + 1, Counted(r, fs[s]))
      BY <1>1, <3>2, SameFlowShift
    <3>4. /\ clean => SameFlow(m, Counted(r, fs[s]))
          /\ m \in 0 .. cfg_n_flows - 1
      <4>1. next_flow + 1 \in Int /\ Counted(r, fs[s]) \in Int
        BY <1>1, <3>2
      <4>2. SameFlow(next_flow + 1, next_flow + 1)
        <5>1. 0 \in Int /\ next_flow + 1 = (next_flow + 1) + 0 * cfg_n_flows
          BY <4>1, FlowsAre
        <5> QED
          BY <5>1 DEF SameFlow
      <4>3. m \in 0 .. cfg_n_flows - 1
        BY <3>1, <4>1, <4>2, SameFlowNext
      <4> QED
        BY <3>1, <3>3, <4>1, <4>3, SameFlowNext
    <3> HIDE DEF m
    <3>5. Current(next_flow, r) = m /\ m < cfg_n_flows /\ m >= 0
      BY <2>3, <3>4, FlowsAre DEF Current
    <3> QED
      BY <2>3, <3>4, <3>5 DEF Follows
  <2> HIDE DEF m
  <2>6. Goes(s, r, fs[s], next_flow, clean)
    BY <1>1, <2>2, <2>3, <2>4, <2>5 DEF Goes
  <2> QED
    BY <2>6
<1>5. CASE NextFlow(s)
  <2> DEFINE r == [st[s] EXCEPT !.pc = "alloc"]
  <2>1. /\ Set(s, r) /\ UNCHANGED fs /\ next_flow' = st[s].flow /\ st[s].pc = "counted"
    BY <1>5 DEF NextFlow, At, AllocFrame
  <2>2. r.pc = "alloc" /\ r.nb_pkt = st[s].nb_pkt /\ r.nb_tx = st[s].nb_tx
    BY <1>1 DEF StreamType
  <2>3. st[s].nb_tx = 0
    BY <1>1, <2>1 DEF Unsending
  <2> HIDE DEF r
  <2>4. Follows(next_flow, st[s], fs[s], clean) => Follows(st[s].flow, r, fs[s], clean)
    BY <2>1, <2>2 DEF Follows, Counted, Current, Unsending
  <2>5. Goes(s, r, fs[s], st[s].flow, clean)
    BY <1>1, <2>1, <2>2, <2>3, <2>4 DEF Goes
  <2> QED
    BY <2>5
<1>6. CASE LastPacket(s)
  <2> DEFINE r == [st[s] EXCEPT !.pc = "send"]
  <2>1. /\ Set(s, r) /\ UNCHANGED fs /\ next_flow' = next_flow /\ st[s].pc = "alloc"
    BY <1>6 DEF LastPacket, At
  <2>2. r.pc = "send" /\ r.nb_pkt = st[s].nb_pkt /\ r.nb_tx = st[s].nb_tx
    BY <1>1 DEF StreamType
  <2>3. st[s].nb_tx = 0
    BY <1>1, <2>1 DEF Unsending
  <2> HIDE DEF r
  <2>4. Follows(next_flow, st[s], fs[s], clean) => Follows(next_flow, r, fs[s], clean)
    BY <2>1, <2>2 DEF Follows, Counted, Current, Unsending
  <2>5. Goes(s, r, fs[s], next_flow, clean)
    BY <1>1, <2>1, <2>2, <2>3, <2>4 DEF Goes
  <2> QED
    BY <2>5
<1> QED
  BY <1>2, <1>3, <1>4, <1>5, <1>6

(* The burst ends: what is followed is that of the packets sent. *)
LEMMA FlowEnds ==
    ASSUME TypeInv, NEW s \in Stream, NEW clean \in BOOLEAN, engine = "flowgen",
           Returns(s), next_flow' = next_flow,
           NEW c, fs' = [fs EXCEPT ![s] = c],
           Follows(next_flow, st[s], fs[s], clean) =>
               /\ clean => SameFlow(next_flow, c.tx_packets)
               /\ c.tx_packets \in Nat
               /\ next_flow \in 0 .. cfg_n_flows - 1
    PROVE  \E r, d, f : Goes(s, r, d, f, clean)
<1> DEFINE r == Idle("receive")
<1>1. Set(s, r)
  BY DEF Returns, FirstPc
<1>2. r.pc = "receive" /\ r.nb_pkt = 0 /\ r.nb_tx = 0
  BY DEF Idle
<1> HIDE DEF r
<1>3. ASSUME Follows(next_flow, st[s], fs[s], clean) PROVE Follows(next_flow, r, c, clean)
  <2>1. Counted(r, c) = c.tx_packets /\ Current(next_flow, r) = next_flow
    BY <1>2, <1>3 DEF Counted, Current, Unsending
  <2>2. next_flow < cfg_n_flows /\ next_flow >= 0
    BY <1>3, FlowsAre
  <2> QED
    BY <1>2, <1>3, <2>1, <2>2 DEF Follows
<1>4. Goes(s, r, c, next_flow, clean)
  BY <1>1, <1>2, <1>3 DEF Goes
<1> QED
  BY <1>4

LEMMA FlowGoesOn ==
    ASSUME TypeInv, NEW s \in Stream, NEW clean \in BOOLEAN, engine = "flowgen",
           clean => recycled' = {} /\ st[s].nb_tx <= st[s].nb_pkt,
           TxBurst(s) \/ Retry(s) \/ EndBurst(s)
    PROVE  \E r, c, f : Goes(s, r, c, f, clean)
<1>1. /\ st[s] \in StreamType(engine) /\ fs[s] \in CounterType
      /\ st[s].nb_pkt \in Nat /\ st[s].nb_tx \in Nat
      /\ fs[s].tx_packets \in Nat /\ next_flow \in Int /\ cfg_n_flows \in Nat
      /\ fs = [fs EXCEPT ![s] = fs[s]]
  BY FlowIs
<1>2. CASE TxBurst(s)
  <2>1. PICK k \in 0 .. st[s].nb_pkt : Set(s, [st[s] EXCEPT !.nb_tx = k, !.pc = "retry"])
    BY <1>2 DEF TxBurst
  <2> DEFINE r == [st[s] EXCEPT !.nb_tx = k, !.pc = "retry"]
  <2>2. Set(s, r) /\ UNCHANGED fs /\ next_flow' = next_flow /\ st[s].pc = "send"
    BY <1>2, <2>1 DEF TxBurst, At
  <2>3. r.pc = "retry" /\ r.nb_pkt = st[s].nb_pkt /\ r.nb_tx = k /\ k <= st[s].nb_pkt
    BY <1>1 DEF StreamType
  <2> HIDE DEF r
  <2>4. Follows(next_flow, st[s], fs[s], clean) => Follows(next_flow, r, fs[s], clean)
    BY <2>2, <2>3 DEF Follows, Counted, Current, Unsending
  <2>5. Goes(s, r, fs[s], next_flow, clean)
    BY <1>1, <2>2, <2>3, <2>4 DEF Goes
  <2> QED
    BY <2>5
<1>3. CASE Retry(s)
  <2>1. PICK k \in 0 .. ToRetry(s) - st[s].nb_tx :
           Takes(s, k) /\ Set(s, [st[s] EXCEPT !.nb_tx = @ + k, !.retry = @ + 1])
    BY <1>3 DEF Retry
  <2> DEFINE r == [st[s] EXCEPT !.nb_tx = @ + k, !.retry = @ + 1]
  <2>2. Set(s, r) /\ UNCHANGED fs /\ next_flow' = next_flow /\ st[s].pc = "retry"
    BY <1>3, <2>1 DEF Retry, At
  <2>3. r.pc = "retry" /\ r.nb_pkt = st[s].nb_pkt /\ r.nb_tx = st[s].nb_tx + k
    BY <1>1, <2>2 DEF StreamType
  <2>4. ASSUME clean PROVE k \in Nat /\ st[s].nb_tx + k <= st[s].nb_pkt
    <3>1. k \in Nat
      BY <1>1, <2>1, ToRetryIs
    <3>2. {st[s].burst[j] : j \in st[s].nb_pkt + 1 .. st[s].nb_tx + k} = {}
      BY <2>1, <2>4 DEF Takes
    <3>3. st[s].nb_pkt + 1 \notin st[s].nb_pkt + 1 .. st[s].nb_tx + k
      BY <3>2
    <3> QED
      BY <1>1, <3>1, <3>3
  <2> HIDE DEF r
  <2>5. Follows(next_flow, st[s], fs[s], clean) => Follows(next_flow, r, fs[s], clean)
    BY <2>2, <2>3 DEF Follows, Counted, Current, Unsending
  <2>6. Goes(s, r, fs[s], next_flow, clean)
    BY <1>1, <2>2, <2>3, <2>4, <2>5 DEF Goes
  <2> QED
    BY <2>6
<1>4. CASE EndBurst(s)
  <2> DEFINE c == [fs[s] EXCEPT !.tx_packets = @ + st[s].nb_tx,
                      !.fwd_dropped = IF engine = "flowgen" THEN @ ELSE @ + Unsent(s),
                      !.extra = IF engine = "txonly" THEN @ + st[s].nb_pkt ELSE @]
             u == st[s].nb_pkt - st[s].nb_tx
  <2>1. /\ st[s].pc = "retry" /\ fs' = [fs EXCEPT ![s] = c] /\ next_flow' = next_flow
        /\ IF Unsent(s) > 0 THEN Set(s, Backs(s, Unsent(s))) ELSE Returns(s)
    BY <1>4, EndIs DEF At
  <2>2. /\ clean => u \in Nat
        /\ u \in Int /\ Unsent(s) = IF u > 0 THEN u ELSE 0
    BY <1>1 DEF Unsent
  <2>3. c.tx_packets = fs[s].tx_packets + st[s].nb_tx
    BY <1>1 DEF CounterType
  <2> HIDE DEF c
  <2>4. ASSUME Follows(next_flow, st[s], fs[s], clean)
        PROVE  /\ clean => SameFlow(next_flow, fs[s].tx_packets + st[s].nb_pkt)
               /\ next_flow \in 0 .. cfg_n_flows - 1
    <3>1. /\ Counted(st[s], fs[s]) = fs[s].tx_packets + st[s].nb_pkt
          /\ Current(next_flow, st[s]) = next_flow
      BY <1>1, <2>1 DEF Counted, Current, Unsending
    <3> QED
      BY <1>1, <2>1, <2>4, <3>1 DEF Follows, Unsending
  <2>5. CASE u > 0
    <3> DEFINE r == Backs(s, Unsent(s))
    <3>1. Set(s, r)
      BY <2>1, <2>2, <2>5
    <3>2. /\ r.pc = "backout" /\ r.flow = next_flow - u /\ r.nb_pkt = st[s].nb_pkt
          /\ r.nb_tx = st[s].nb_tx
      BY <1>1, <2>2, <2>5 DEF StreamType, Backs, TakenBack
    <3> HIDE DEF r
    <3>3. ASSUME Follows(next_flow, st[s], fs[s], clean) PROVE Follows(next_flow, r, c, clean)
      <4>1. /\ -u \in Int /\ next_flow + (-u) = next_flow - u
            /\ fs[s].tx_packets + st[s].nb_pkt \in Int
            /\ (fs[s].tx_packets + st[s].nb_pkt) + (-u) = fs[s].tx_packets + st[s].nb_tx
        BY <1>1
      <4>2. next_flow - u < cfg_n_flows
        BY <1>1, <2>4, <2>5, <3>3
      <4> HIDE DEF u
      <4>3. clean => SameFlow(next_flow + (-u), (fs[s].tx_packets + st[s].nb_pkt) + (-u))
        BY <1>1, <2>4, <3>3, <4>1, SameFlowShift
      <4>4. clean => SameFlow(next_flow - u, c.tx_packets)
        BY <2>3, <4>1, <4>3
      <4>5. Counted(r, c) = c.tx_packets /\ Current(next_flow, r) = next_flow - u
        BY <1>1, <2>3, <3>2 DEF Counted, Current, Unsending
      <4> QED
        BY <3>2, <4>2, <4>4, <4>5 DEF Follows, Unsending
    <3>4. Goes(s, r, c, next_flow, clean)
      BY <1>1, <2>1, <2>5, <3>1, <3>2, <3>3 DEF Goes
    <3> QED
      BY <3>4
  <2>6. CASE ~(u > 0)
    <3>1. Returns(s)
      BY <2>1, <2>2, <2>6
    <3>2. clean => st[s].nb_pkt = st[s].nb_tx
      BY <1>1, <2>2, <2>6
    <3>3. /\ clean => c.tx_packets = fs[s].tx_packets + st[s].nb_pkt
          /\ c.tx_packets \in Nat
      BY <1>1, <2>3, <3>2
    <3> QED
      BY <2>1, <2>4, <3>1, <3>3, FlowEnds
  <2> QED
    BY <2>5, <2>6
<1> QED
  BY <1>2, <1>3, <1>4

(* The flows of unsent packets are taken back. *)
LEMMA FlowGoesBack ==
    ASSUME TypeInv, NEW s \in Stream, NEW clean \in BOOLEAN, engine = "flowgen",
           BackOut(s) \/ BackedOut(s) \/ AddFlows(s)
    PROVE  \E r, c, f : Goes(s, r, c, f, clean)
<1>1. /\ st[s] \in StreamType(engine) /\ fs[s] \in CounterType /\ Place(engine, st[s])
      /\ st[s].nb_pkt \in Nat /\ st[s].nb_tx \in Nat /\ st[s].flow \in Int
      /\ fs[s].tx_packets \in Nat /\ next_flow \in Int /\ cfg_n_flows \in Nat
      /\ fs = [fs EXCEPT ![s] = fs[s]]
  BY FlowIs
<1>2. st[s].pc \in Unsending /\ UNCHANGED fs
  BY DEF BackOut, BackedOut, AddFlows, At, Unsending
<1>3. st[s].nb_tx <= st[s].nb_pkt
  BY <1>1, <1>2 DEF Place
<1>4. Counted(st[s], fs[s]) = fs[s].tx_packets
  BY <1>1, <1>2 DEF Counted
<1>5. CASE BackOut(s)
  <2> DEFINE r == [st[s] EXCEPT !.pc = "backed"]
  <2>1. Set(s, r) /\ next_flow' = st[s].flow /\ st[s].pc = "backout"
    BY <1>5 DEF BackOut, At
  <2>2. r.pc = "backed" /\ r.nb_pkt = st[s].nb_pkt /\ r.nb_tx = st[s].nb_tx
        /\ r.flow = st[s].flow
    BY <1>1 DEF StreamType
  <2> HIDE DEF r
  <2>3. Follows(next_flow, st[s], fs[s], clean) => Follows(st[s].flow, r, fs[s], clean)
    BY <2>1, <2>2 DEF Follows, Counted, Current, Unsending
  <2>4. Goes(s, r, fs[s], st[s].flow, clean)
    BY <1>1, <1>2, <1>3, <2>1, <2>2, <2>3 DEF Goes
  <2> QED
    BY <2>4
<1>6. CASE BackedOut(s)
  <2>1. PICK now \in Reads(s) :
           IF now < 0
           THEN Set(s, [st[s] EXCEPT !.pc = "add", !.flow = now])
           ELSE FreesRest(s)
    BY <1>6 DEF BackedOut
  <2>2. st[s].pc = "backed" /\ next_flow' = next_flow
    BY <1>6 DEF BackedOut, At
  <2>3. CASE now < 0
    <3> DEFINE r == [st[s] EXCEPT !.pc = "add", !.flow = now]
    <3>1. Set(s, r)
      BY <2>1, <2>3
    <3>2. r.pc = "add" /\ r.nb_pkt = st[s].nb_pkt /\ r.nb_tx = st[s].nb_tx /\ r.flow = now
      BY <1>1 DEF StreamType
    <3> HIDE DEF r
    <3>3. ASSUME Follows(next_flow, st[s], fs[s], clean) PROVE Follows(next_flow, r, fs[s], clean)
      <4>1. now = next_flow
        BY <2>2, <3>3, ReadOnce
      <4> QED
        BY <2>2, <2>3, <3>2, <3>3, <4>1 DEF Follows, Counted, Current, Unsending
    <3>4. Goes(s, r, fs[s], next_flow, clean)
      BY <1>1, <1>2, <1>3, <2>2, <3>1, <3>2, <3>3 DEF Goes
    <3> QED
      BY <3>4
  <2>4. CASE ~(now < 0)
    <3>1. ASSUME Follows(next_flow, st[s], fs[s], clean)
          PROVE  /\ clean => SameFlow(next_flow, fs[s].tx_packets)
                 /\ next_flow \in 0 .. cfg_n_flows - 1
      <4>1. now = next_flow /\ Current(next_flow, st[s]) = next_flow
        BY <2>2, <3>1, ReadOnce DEF Current
      <4> QED
        BY <1>1, <1>4, <2>4, <3>1, <4>1 DEF Follows
    <3> QED
      BY <1>1, <1>2, <2>1, <2>2, <2>4, <3>1, FlowEnds DEF FreesRest
  <2> QED
    BY <2>3, <2>4
<1>7. CASE AddFlows(s)
  <2>1. PICK now \in Reads(s) : Set(s, [st[s] EXCEPT !.pc = "backout", !.flow = now + cfg_n_flows])
    BY <1>7 DEF AddFlows
  <2> DEFINE r == [st[s] EXCEPT !.pc = "backout", !.flow = now + cfg_n_flows]
  <2>2. Set(s, r) /\ st[s].pc = "add" /\ next_flow' = next_flow
    BY <1>7, <2>1 DEF AddFlows, At
  <2>3. r.pc = "backout" /\ r.nb_pkt = st[s].nb_pkt /\ r.nb_tx = st[s].nb_tx
        /\ r.flow = now + cfg_n_flows
    BY <1>1 DEF StreamType
  <2> HIDE DEF r
  <2>4. ASSUME Follows(next_flow, st[s], fs[s], clean) PROVE Follows(next_flow, r, fs[s], clean)
    <3>1. now = next_flow /\ Current(next_flow, st[s]) = next_flow
      BY <2>2, <2>4, ReadOnce DEF Current
    <3>2. next_flow < 0 /\ (clean => SameFlow(next_flow, fs[s].tx_packets))
      BY <1>4, <2>2, <2>4, <3>1 DEF Follows
    <3>3. clean => SameFlow(next_flow + cfg_n_flows, fs[s].tx_packets)
      BY <1>1, <3>2, SameFlowBack
    <3>4. /\ Counted(r, fs[s]) = fs[s].tx_packets
          /\ Current(next_flow, r) = next_flow + cfg_n_flows
          /\ next_flow + cfg_n_flows < cfg_n_flows
      BY <1>1, <2>3, <3>1, <3>2 DEF Counted, Current, Unsending
    <3> QED
      BY <2>3, <3>3, <3>4 DEF Follows, Unsending
  <2>5. Goes(s, r, fs[s], next_flow, clean)
    BY <1>1, <1>2, <1>3, <2>2, <2>3, <2>4 DEF Goes
  <2> QED
    BY <2>5
<1> QED
  BY <1>5, <1>6, <1>7

LEMMA BusyIs ==
    ASSUME TypeInv, NEW s \in Stream, engine = "flowgen"
    PROVE  Busy(s) <=> st[s] # Idle("receive")
BY DEF Busy, FirstPc

(* Whose step it is has begun, ... *)
LEMMA FlowBegins ==
    ASSUME TypeInv, NEW s \in Stream, Lcore(s), engine = "flowgen"
    PROVE  \/ UNCHANGED bursts /\ st'[s].pc # "receive"
           \/ bursts' = [bursts EXCEPT ![s] = @ + 1]
<1> DEFINE On(r) == Set(s, r) /\ r.pc # "receive"
<1>1. st[s] \in StreamType(engine) /\ Place(engine, st[s])
  BY StreamIs
<1>2. \A r : On(r) => st'[s].pc # "receive"
  BY SetIs
<1>3. Returns(s) => bursts' = [bursts EXCEPT ![s] = @ + 1]
  BY DEF Returns
<1>4. CASE RxBurst(s)
  <2>1. PICK n, pkts, S : Received(s, n, pkts, S)
    BY <1>4, RxIs
  <2> DEFINE r == [st[s] EXCEPT !.pc = "alloc", !.burst = pkts, !.nb_rx = n,
                                !.len = tx_pkt_length - 4]
  <2>2. r.pc = "alloc"
    BY <1>1 DEF StreamType
  <2>3. Set(s, r) /\ UNCHANGED bursts
    BY <2>1 DEF Received
  <2> HIDE DEF r
  <2>4. On(r)
    BY <2>2, <2>3
  <2> QED
    BY <1>2, <2>3, <2>4
<1>5. CASE FlowPacket(s)
  <2>1. PICK p \in PacketType(engine) :
           Set(s, [st[s] EXCEPT !.pc = "count", !.nb_pkt = @ + 1, !.flow = next_flow,
                       !.burst = [j \in DOMAIN @ \cup {st[s].nb_pkt + 1} |->
                                     IF j = st[s].nb_pkt + 1 THEN p ELSE @[j]]])
    BY <1>5, FlowPacketIs
  <2> DEFINE b == [j \in DOMAIN st[s].burst \cup {st[s].nb_pkt + 1} |->
                     IF j = st[s].nb_pkt + 1 THEN p ELSE st[s].burst[j]]
             r == [st[s] EXCEPT !.pc = "count", !.nb_pkt = @ + 1, !.flow = next_flow, !.burst = b]
  <2>2. Set(s, r)
    BY <2>1
  <2> HIDE DEF b
  <2>3. r.pc = "count"
    BY <1>1 DEF StreamType
  <2> HIDE DEF r
  <2>4. On(r)
    BY <2>2, <2>3
  <2> QED
    BY <1>2, <1>5, <2>4 DEF FlowPacket, AllocFrame
<1>6. CASE CountFlow(s) \/ NextFlow(s) \/ LastPacket(s)
  <2>2. /\ \A f : [st[s] EXCEPT !.pc = "counted", !.flow = f].pc = "counted"
        /\ [st[s] EXCEPT !.pc = "alloc"].pc = "alloc"
        /\ [st[s] EXCEPT !.pc = "send"].pc = "send"
    BY <1>1 DEF StreamType
  <2>1. \E r : On(r)
    BY <1>6, <2>2 DEF CountFlow, NextFlow, LastPacket
  <2> QED
    BY <1>2, <1>6, <2>1 DEF CountFlow, NextFlow, LastPacket, AllocFrame
<1>7. CASE TxBurst(s)
  <2>1. \A k : [st[s] EXCEPT !.nb_tx = k, !.pc = "retry"].pc = "retry"
    BY <1>1 DEF StreamType
  <2>2. \E r : On(r)
    BY <1>7, <2>1 DEF TxBurst
  <2> QED
    BY <1>2, <1>7, <2>2 DEF TxBurst
<1>10. CASE Retry(s)
  <2>1. PICK k : Set(s, [st[s] EXCEPT !.nb_tx = @ + k, !.retry = @ + 1])
    BY <1>10 DEF Retry
  <2>2. [st[s] EXCEPT !.nb_tx = @ + k, !.retry = @ + 1].pc = "retry"
    BY <1>1, <1>10 DEF Retry, At, StreamType
  <2>3. \E r : On(r)
    BY <2>1, <2>2
  <2> QED
    BY <1>2, <1>10, <2>3 DEF Retry
<1>8. CASE EndBurst(s)
  <2>1. \/ Set(s, Backs(s, Unsent(s))) /\ UNCHANGED bursts
        \/ Returns(s)
    BY <1>8, EndIs
  <2>2. Backs(s, Unsent(s)).pc = "backout"
    BY <1>1 DEF Backs, StreamType
  <2> QED
    BY <1>2, <1>3, <2>1, <2>2
<1>9. CASE BackOut(s) \/ BackedOut(s) \/ AddFlows(s)
  <2>2. /\ [st[s] EXCEPT !.pc = "backed"].pc = "backed"
        /\ \A f : [st[s] EXCEPT !.pc = "add", !.flow = f].pc = "add"
        /\ \A f : [st[s] EXCEPT !.pc = "backout", !.flow = f].pc = "backout"
    BY <1>1 DEF StreamType
  <2>1. Returns(s) \/ (UNCHANGED bursts /\ \E r : On(r))
    BY <1>9, <2>2 DEF BackOut, BackedOut, AddFlows, FreesRest
  <2> QED
    BY <1>2, <1>3, <2>1
<1> QED
  BY <1>4, <1>5, <1>6, <1>7, <1>8, <1>9, <1>10, FlowSteps

(* ... and who has begun stays so. *)
LEMMA BegunStays ==
    ASSUME TypeInv, NEW s \in Stream, Lcore(s), engine = "flowgen"
    PROVE  Begun(s)' /\ \A t \in Stream : Begun(t) => Begun(t)'
<1>1. /\ engine' = engine /\ bursts \in [Stream -> Nat]
      /\ \A t \in Stream \ {s} : st'[t] = st[t]
  BY LcoreFrame, LcoreOwn DEF fixed, TypeInv, LcoreTypes
<1>2. Idle("receive").pc = "receive" /\ FirstPc = "receive" /\ FirstPc' = "receive"
  BY <1>1 DEF Idle, FirstPc
<1>3. Begun(s)'
  <2>1. CASE UNCHANGED bursts /\ st'[s].pc # "receive"
    BY <1>2, <2>1 DEF Begun, Busy
  <2>2. CASE bursts' = [bursts EXCEPT ![s] = @ + 1]
    BY <1>1, <2>2 DEF Begun
  <2> QED
    BY <2>1, <2>2, FlowBegins
<1>4. ASSUME NEW t \in Stream \ {s}, Begun(t) PROVE Begun(t)'
  <2>1. st'[t] = st[t] /\ bursts'[t] = bursts[t]
    BY <1>1, FlowBegins
  <2> QED
    BY <1>2, <1>4, <2>1 DEF Begun, Busy
<1> QED
  BY <1>3, <1>4

LEMMA FollowInit == Init => FlowsFollow
<1> SUFFICES ASSUME Init, NEW s \in Stream
             PROVE  st[s].nb_tx <= st[s].nb_pkt /\ Follows(next_flow, st[s], fs[s], recycled = {})
  BY DEF FlowsFollow
<1>1. st[s] = Idle(FirstPc) /\ next_flow = 0 /\ fs[s].tx_packets = 0
  BY DEF Init
<1>2. st[s].pc = FirstPc /\ st[s].nb_pkt = 0 /\ st[s].nb_tx = 0
  BY <1>1 DEF Idle
<1>3. st[s].pc \notin {"count", "counted"} \cup Unsending
  BY <1>2 DEF FirstPc, Unsending
<1>4. Counted(st[s], fs[s]) = 0 /\ Current(next_flow, st[s]) = 0
  BY <1>1, <1>2, <1>3 DEF Counted, Current, Unsending
<1>5. 0 \in Int /\ 0 = 0 + 0 * cfg_n_flows /\ 0 < cfg_n_flows
  BY FlowsAre
<1>6. SameFlow(0, 0)
  BY <1>5 DEF SameFlow
<1> QED
  BY <1>2, <1>3, <1>4, <1>5, <1>6 DEF Follows, Unsending

LEMMA RecycledGrows ==
    ASSUME TypeInv, NEW s \in Stream, Lcore(s)
    PROVE  recycled \subseteq recycled'
<1>1. CASE Retry(s)
  BY <1>1, RetrySends
<1>2. CASE TxBurst(s)
  BY <1>2, TxBurstSends
<1>3. CASE RxBurst(s) \/ IoForward(s) \/ MacForward(s) \/ MacSwap(s) \/ IcmpEcho(s)
           \/ CsumPacket(s) \/ LastPacket(s)
  BY <1>3 DEF RxBurst, IoForward, MacForward, MacSwap, Rewrites, IcmpEcho, CsumPacket,
              LastPacket, history
<1>4. CASE FlowPacket(s) \/ CountFlow(s) \/ NextFlow(s)
  BY <1>4 DEF FlowPacket, CountFlow, NextFlow, AllocFrame
<1>5. CASE TxPacket(s) \/ TxSplit(s) \/ TxSegment(s) \/ TxHeaders(s) \/ TxSegmentFails(s)
  BY <1>5 DEF TxPacket, TxSplit, TxSegment, TxHeaders, TxSegmentFails, AllocFrame, history
<1>6. CASE EndBurst(s) \/ BackOut(s) \/ BackedOut(s) \/ AddFlows(s)
  BY <1>6 DEF EndBurst, BackOut, BackedOut, AddFlows, history
<1> QED
  BY <1>1, <1>2, <1>3, <1>4, <1>5, <1>6 DEF Lcore

LEMMA FollowLcore ==
    ASSUME TypeInv, TypeInv', FlowsFollow, NEW s \in Stream, Lcore(s)
    PROVE  FlowsFollow'
<1> DEFINE clean == recycled' = {}
<1>1. engine' = engine
  BY LcoreFrame DEF fixed
<1> SUFFICES ASSUME engine = "flowgen", NEW t \in Stream
             PROVE  /\ clean => st'[t].nb_tx <= st'[t].nb_pkt
                    /\ Only(t)' => Follows(next_flow', st'[t], fs'[t], clean)
  BY <1>1 DEF FlowsFollow
<1>2. clean \in BOOLEAN /\ (clean => recycled' = {}) /\ (clean => recycled = {})
  BY RecycledGrows
<1>3. \A u \in Stream : /\ clean => st[u].nb_tx <= st[u].nb_pkt
                        /\ Only(u) => Follows(next_flow, st[u], fs[u], clean)
  BY <1>2 DEF FlowsFollow, Follows
<1> HIDE DEF clean
<1>4. PICK r, c, f : Goes(s, r, c, f, clean)
  BY <1>2, <1>3, FlowSteps, FlowGoesFirst, FlowGoesOn, FlowGoesBack
<1>5. /\ Set(s, r) /\ next_flow' = f /\ fs' = [fs EXCEPT ![s] = c]
      /\ clean => r.nb_tx <= r.nb_pkt
      /\ Follows(next_flow, st[s], fs[s], clean) => Follows(f, r, c, clean)
  BY <1>4 DEF Goes
<1>6. st'[s] = r /\ \A u \in Stream \ {s} : st'[u] = st[u]
  BY <1>5, SetIs
<1>7. Begun(s)' /\ \A u \in Stream : Begun(u) => Begun(u)'
  BY BegunStays
<1>8. fs'[s] = c
  BY <1>5 DEF TypeInv, LcoreTypes
<1>9. CASE t = s
  <2>1. Only(s)' => Only(s)
    BY <1>7 DEF Only
  <2> QED
    BY <1>3, <1>5, <1>6, <1>8, <1>9, <2>1
<1>10. CASE t # s
  <2>1. ~ Only(t)'
    BY <1>7, <1>10 DEF Only
  <2> QED
    BY <1>3, <1>6, <1>10, <2>1
<1> QED
  BY <1>9, <1>10

LEMMA FollowNext == TypeInv /\ FlowsFollow /\ [Next]_vars => FlowsFollow'
<1> SUFFICES ASSUME TypeInv, FlowsFollow, [Next]_vars PROVE FlowsFollow'
  OBVIOUS
<1>1. CASE UNCHANGED <<fixed, next_flow, st, fs, bursts, recycled>>
  <2>1. \A s \in Stream : Only(s)' <=> Only(s)
    BY <1>1 DEF Only, Begun, Busy, FirstPc, fixed
  <2> QED
    BY <1>1, <2>1 DEF FlowsFollow, fixed
<1>2. CASE \E s \in Stream : Lcore(s)
  BY <1>2, TypeNext, FollowLcore
<1>3. CASE TxDone
  BY <1>1, <1>3 DEF TxDone, history
<1>4. CASE CommandThread
  BY <1>1, <1>4, ThreadFrame DEF CommandFrame
<1>5. CASE UNCHANGED vars
  BY <1>1, <1>5 DEF vars, history
<1> QED
  BY <1>2, <1>3, <1>4, <1>5 DEF Next

(* While one lcore runs alone, no other has begun. *)
LEMMA AloneIs ==
    ASSUME Alone, NEW s \in Stream, Begun(s)
    PROVE  Only(s)
<1> DEFINE B == {t \in Stream : Busy(t) \/ bursts[t] > 0}
<1>1. IsFiniteSet(B) /\ Cardinality(B) \in Nat /\ Cardinality(B) < 2 /\ s \in B
  <2>1. IsFiniteSet(B)
    BY EnginesAssumption, FS_Subset
  <2> QED
    BY <2>1, FS_CardinalityType DEF Alone, Begun
<1> SUFFICES ASSUME NEW t \in Stream \ {s}, t \in B PROVE FALSE
  BY DEF Only, Begun
<1>2. {s, t} \subseteq B /\ Cardinality({s, t}) = 2
  <2>1. Cardinality({s}) = 1 /\ IsFiniteSet({s})
    BY FS_Singleton
  <2>2. {s, t} = {s} \cup {t} /\ t \notin {s}
    OBVIOUS
  <2>3. Cardinality({s} \cup {t}) = 2
    BY <2>1, <2>2, FS_AddElement
  <2> QED
    BY <1>1, <2>2, <2>3
<1>3. Cardinality({s, t}) <= Cardinality(B)
  BY <1>1, <1>2, FS_Subset
<1> QED
  BY <1>1, <1>2, <1>3

LEMMA AgreeIs == TypeInv /\ Balanced /\ FlowsFollow => CountersAgree
<1> SUFFICES ASSUME TypeInv, Balanced, FlowsFollow, NEW s \in Stream,
                    ~ Busy(s), recycled = {}
             PROVE  IF engine = "flowgen"
                    THEN Alone /\ bursts[s] > 0 => next_flow = fs[s].tx_packets % cfg_n_flows
                    ELSE engine # "rxonly" =>
                         fs[s].rx_packets + fs[s].extra = fs[s].tx_packets + fs[s].fwd_dropped
  BY DEF CountersAgree
<1>1. st[s] = Idle(FirstPc) /\ fs[s] \in CounterType
  BY StreamIs DEF Busy
<1>2. st[s].pc = FirstPc /\ st[s].nb_pkt = 0 /\ FirstPc \in {"alloc", "receive"}
  BY <1>1 DEF Idle, FirstPc
<1>3. CASE engine = "flowgen"
  <2> SUFFICES ASSUME Alone, bursts[s] > 0 PROVE next_flow = fs[s].tx_packets % cfg_n_flows
    BY <1>3
  <2>1. Only(s)
    BY AloneIs DEF Begun
  <2>2. Follows(next_flow, st[s], fs[s], recycled = {})
    BY <1>3, <2>1 DEF FlowsFollow
  <2>3. fs[s].tx_packets \in Nat /\ next_flow \in Int
    BY <1>1 DEF CounterType, TypeInv
  <2>4. Counted(st[s], fs[s]) = fs[s].tx_packets /\ Current(next_flow, st[s]) = next_flow
    BY <1>2, <2>3 DEF Counted, Current, Unsending
  <2>5. SameFlow(next_flow, fs[s].tx_packets) /\ next_flow \in 0 .. cfg_n_flows - 1
    BY <1>2, <2>2, <2>3, <2>4, FlowsAre DEF Follows, Unsending
  <2> QED
    BY <2>3, <2>5, SameFlowIs
<1>4. CASE engine \notin {"flowgen", "rxonly"}
  <2>1. Balance(engine, st[s], fs[s])
    BY <1>2, <1>4 DEF Balanced
  <2>2. fs[s].rx_packets \in Nat /\ fs[s].tx_packets \in Nat /\ fs[s].fwd_dropped \in Nat
        /\ fs[s].extra \in Int
    BY <1>1 DEF CounterType
  <2>3. fs[s].rx_packets + fs[s].extra = fs[s].tx_packets + fs[s].fwd_dropped + 0
    BY <1>2, <2>1 DEF Balance
  <2> QED
    BY <1>4, <2>2, <2>3
<1> QED
  BY <1>3, <1>4

(***************************************************************************)
(* Between bursts the counters of a stream tell what became of every       *)
(* packet, whatever the NIC took and however often it was asked; and while *)
(* one lcore of flowgen runs alone, the next flow is that of the number of *)
(* packets it sent (fs->tx_packets, fs->fwd_dropped and next_flow in       *)
(* flowgen.c and the other engines).                                       *)
(***************************************************************************)
THEOREM Agreement == Spec => []CountersAgree
<1>1. Init => TypeInv /\ Balanced /\ FlowsFollow
  BY TypeInit, BalanceInit, FollowInit
<1>2. TypeInv /\ Balanced /\ FlowsFollow /\ [Next]_vars => TypeInv' /\ Balanced' /\ FlowsFollow'
  BY TypeNext, BalanceNext, FollowNext
<1> QED
  BY <1>1, <1>2, AgreeIs, PTL DEF Spec

-----------------------------------------------------------------------------

(***************************************************************************)
(* What is sent. Sendable is what SentAsMade says of a packet p of engine  *)
(* e, after c commands, a telling whether one lcore runs alone. ReadyAt(r)  *)
(* are the positions with packets the engine has done with.                *)
(***************************************************************************)
Sendable(e, a, c, p) ==
    CASE e = "mac"      -> p.out.addr = "peer"
      [] e = "macswap"  -> p.out.addr = "swapped"
      [] e = "icmpecho" -> p.out.addr = "replied" /\ p.kind.name = "request"
      [] e = "csum"     -> p.out.addr = "peer" /\ CsumRight(p)
      [] e = "flowgen"  -> a => p.out.flow \in 0 .. cfg_n_flows - 1
      [] e = "txonly"   -> c = 0 => Bytes(p.lens) = p.out.total
      [] OTHER          -> TRUE

Made == {"alloc", "count", "counted", "split", "segments", "send", "retry"} \cup Unsending
ReadyAt(r) == CASE r.pc \in Made -> 1 .. r.nb_pkt
                [] r.pc = "csum" -> 1 .. r.i - 1
                [] OTHER -> {}
Raw(r) == r.pc = "csum" =>
            \A j \in r.i .. r.nb_pkt : /\ r.burst[j].lens = r.burst[j].kind.lens
                                       /\ r.burst[j].kind \in Kinds["csum"]

(* Before the first command the segments are those of the start, ... *)
Unset ==
    changes = 0 => /\ setting = <<>> /\ tx_pkt_split = "off" /\ tx_pkt_nb_segs = 1
                   /\ tx_pkt_seg_lengths = TxPkts[1] /\ pkt_ip_hdr = TxPkts[1][1]

(* ... and so is the one of the packet that txonly makes. *)
Draft(s) ==
    changes = 0 /\ st[s].pc \in TxPcs =>
        /\ Making(s).lens = <<pkt_ip_hdr>> /\ Making(s).out.total = pkt_ip_hdr
        /\ st[s].pc = "segments" => st[s].nb_segs = 1
Drafts == \A s \in Stream : Draft(s)

Ready ==
    /\ \A p \in nic \ recycled : Sendable(engine, Alone, changes, p)
    /\ \A s \in Stream : /\ \A j \in ReadyAt(st[s]) :
                               Sendable(engine, Alone, changes, st[s].burst[j])
                         /\ Raw(st[s])

LEMMA StillSendable ==
    ASSUME NEW e, NEW a \in BOOLEAN, NEW b \in BOOLEAN, NEW c, NEW d, NEW p,
           e = "flowgen" => (b => a), d = 0 => c = 0, Sendable(e, a, c, p)
    PROVE  Sendable(e, b, d, p)
<1>1. CASE e = "flowgen"
  BY <1>1 DEF Sendable
<1>2. CASE e # "flowgen"
  BY <1>2 DEF Sendable
<1> QED
  BY <1>1, <1>2

LEMMA IdleReady ==
    ASSUME NEW pc, pc # "csum"
    PROVE  ReadyAt(Idle(pc)) = {} /\ Raw(Idle(pc))
<1>1. Idle(pc).pc = pc /\ Idle(pc).nb_pkt = 0
  BY DEF Idle
<1>2. 1 .. 0 = {}
  OBVIOUS
<1> QED
  BY <1>1, <1>2 DEF ReadyAt, Raw, Made, Unsending

-----------------------------------------------------------------------------
(* What was set *)

LEMMA UnsetInit == Init => Unset
BY DEF Init, Unset

LEMMA UnsetNext == TypeInv /\ Unset /\ [Next]_vars => Unset'
<1> SUFFICES ASSUME TypeInv, Unset, [Next]_vars PROVE Unset'
  OBVIOUS
<1>1. CASE UNCHANGED <<settings, fixed, changes>>
  BY <1>1 DEF Unset, settings, segments, fixed
<1>2. CASE \E s \in Stream : Lcore(s)
  BY <1>1, <1>2, LcoreFrame
<1>3. CASE TxDone
  BY <1>1, <1>3 DEF TxDone
<1>4. CASE CommandThread
  <2>1. changes \in Nat
    BY EnginesAssumption DEF TypeInv
  <2>2. CASE changes' = changes + 1
    BY <2>1, <2>2 DEF Unset
  <2>3. ASSUME SetTxPktNumber \/ SetTxPktLength PROVE changes # 0 /\ changes' = changes
    <3>1. CASE SetTxPktNumber
      BY <3>1 DEF SetTxPktNumber, SettingFrame, Unset
    <3>2. CASE SetTxPktLength
      <4>1. /\ nb_set < Len(setting) /\ nb_set \in 0 .. Len(setting) /\ setting \in Seq(Nat)
            /\ changes' = changes
        BY <3>2 DEF SetTxPktLength, SettingFrame, TypeInv, SettingTypes
      <4>2. Len(setting) \in Nat
        BY <4>1, LenProperties
      <4>3. setting # <<>>
        BY <4>1, <4>2
      <4> QED
        BY <4>1, <4>3 DEF Unset
    <3> QED
      BY <2>3, <3>1, <3>2
  <2> QED
    BY <1>4, <2>2, <2>3
       DEF Unset, CommandThread, SetBurst, SetTxSplit, SetCsum, SetParseTunnel, SetTso,
           SetTunnelTso, SetCsumConfig, SetTxPkts, Command
<1>5. CASE UNCHANGED vars
  BY <1>1, <1>5 DEF vars
<1> QED
  BY <1>2, <1>3, <1>4, <1>5 DEF Next

(* The segments of a packet that txonly makes then *)
LEMMA OneSegment ==
    ASSUME TypeInv, Unset, changes = 0
    PROVE  tx_pkt_seg_lengths[1] = pkt_ip_hdr /\ NumsOfSegs = {1}
BY DEF Unset, NumsOfSegs

LEMMA BytesOfOne ==
    ASSUME NEW b \in Nat
    PROVE  Bytes(<<b>>) = b
<1> DEFINE t == <<b>>
<1>1. t \in Seq(Nat) /\ t # <<>> /\ Head(t) = b /\ Tail(t) = <<>>
  OBVIOUS
<1> HIDE DEF t
<1>2. Bytes(t) = b + Bytes(<<>>)
  BY <1>1, BytesTail
<1> QED
  BY <1>2, NoBytes DEF t

LEMMA DraftsInit == Init => Drafts
<1> SUFFICES ASSUME Init, NEW s \in Stream PROVE st[s].pc \notin TxPcs
  BY DEF Drafts, Draft
<1>1. st[s] = Idle(FirstPc) /\ FirstPc \in {"alloc", "receive"}
  BY DEF Init, FirstPc
<1> QED
  BY <1>1 DEF Idle, TxPcs

LEMMA DraftsLcore ==
    ASSUME TypeInv, Unset, Drafts, NEW s \in Stream, Lcore(s)
    PROVE  Drafts'
<1>1. changes' = changes /\ pkt_ip_hdr' = pkt_ip_hdr
  BY LcoreFrame DEF fixed
<1>2. ASSUME NEW t \in Stream, st'[t] = st[t] PROVE Draft(t)'
  BY <1>1, <1>2 DEF Drafts, Draft, Making
<1>3. ASSUME NEW t \in Stream \ {s} PROVE Draft(t)'
  BY <1>2, LcoreOwn
<1> SUFFICES ASSUME changes = 0, st'[s].pc \in TxPcs PROVE Draft(s)'
  BY <1>1, <1>3 DEF Drafts, Draft
<1>4. CASE TxPacket(s)
  <2>1. PICK p \in PacketType(engine) :
           /\ p.lens = <<tx_pkt_seg_lengths[1]>> /\ p.out = [total |-> pkt_ip_hdr]
           /\ Set(s, [st[s] EXCEPT !.pc = "split", !.burst = Append(@, p)])
    BY <1>4, TxPacketIs
  <2>2. /\ st[s] \in StreamType(engine) /\ st[s].burst \in Seq(PacketType(engine))
        /\ Len(st[s].burst) = st[s].nb_pkt /\ st[s].nb_pkt \in Nat
    BY <1>4, StreamIs DEF Place, TxPacket, At, TxPcs
  <2>3. /\ st'[s].pc = "split" /\ st'[s].nb_pkt = st[s].nb_pkt
        /\ st'[s].burst = Append(st[s].burst, p)
    <3>1. st'[s] = [st[s] EXCEPT !.pc = "split", !.burst = Append(@, p)]
      BY <2>1, SetIs
    <3> QED
      BY <2>2, <3>1 DEF StreamType
  <2>4. Making(s)' = p
    BY <2>2, <2>3, AppendProperties DEF Making
  <2> QED
    BY <1>1, <2>1, <2>3, <2>4, OneSegment DEF Draft
<1>5. CASE TxSplit(s)
  <2>1. PICK n \in NumsOfSegs :
           Set(s, [st[s] EXCEPT !.pc = "segments", !.split = tx_pkt_split, !.nb_segs = n])
    BY <1>5 DEF TxSplit
  <2>2. /\ st'[s].pc = "segments" /\ st'[s].nb_pkt = st[s].nb_pkt /\ st'[s].burst = st[s].burst
        /\ st'[s].nb_segs = n
    <3>1. st'[s] = [st[s] EXCEPT !.pc = "segments", !.split = tx_pkt_split, !.nb_segs = n]
      BY <2>1, SetIs
    <3>2. st[s] \in StreamType(engine)
      BY StreamIs
    <3> QED
      BY <3>1, <3>2 DEF StreamType
  <2>3. Draft(s) /\ st[s].pc \in TxPcs /\ n = 1
    BY <1>5, OneSegment DEF Drafts, TxSplit, At, TxPcs
  <2>4. Making(s)' = Making(s)
    BY <2>2 DEF Making
  <2> QED
    BY <1>1, <2>2, <2>3, <2>4 DEF Draft
<1>6. CASE TxSegment(s)
  <2>1. /\ st[s].pc = "segments" /\ st[s].pc \in TxPcs
        /\ Len(Making(s).lens) < st[s].nb_segs
    BY <1>6 DEF TxSegment, At, TxPcs
  <2>2. Making(s).lens = <<pkt_ip_hdr>> /\ st[s].nb_segs = 1
    BY <2>1 DEF Drafts, Draft
  <2> QED
    BY <2>1, <2>2
<1>7. CASE ~(TxPacket(s) \/ TxSplit(s) \/ TxSegment(s))
  BY <1>2, <1>7, LeavesTx
<1> QED
  BY <1>4, <1>5, <1>6, <1>7

LEMMA ChangesGrow ==
    ASSUME TypeInv, CommandThread
    PROVE  changes \in Nat /\ (changes' = changes \/ changes' = changes + 1)
<1>1. changes \in Nat
  BY DEF TypeInv
<1>2. changes' = changes \/ changes' = changes + 1
  BY DEF CommandThread, SetBurst, SetTxSplit, SetCsum, SetParseTunnel, SetTso, SetTunnelTso,
         SetCsumConfig, SetTxPkts, SetTxPktLength, SetTxPktNumber, SettingFrame, Command
<1> QED
  BY <1>1, <1>2

LEMMA DraftsNext == TypeInv /\ Unset /\ Drafts /\ [Next]_vars => Drafts'
<1> SUFFICES ASSUME TypeInv, Unset, Drafts, [Next]_vars PROVE Drafts'
  OBVIOUS
<1>1. ASSUME UNCHANGED <<fixed, st>>, changes' = 0 => changes = 0 PROVE Drafts'
  BY <1>1 DEF Drafts, Draft, Making, fixed
<1>2. CASE \E s \in Stream : Lcore(s)
  BY <1>2, DraftsLcore
<1>3. CASE TxDone
  BY <1>1, <1>3 DEF TxDone
<1>4. CASE CommandThread
  <2>1. changes' = 0 => changes = 0
    BY <1>4, ChangesGrow
  <2> QED
    BY <1>1, <1>4, <2>1, ThreadFrame DEF CommandFrame
<1>5. CASE UNCHANGED vars
  BY <1>1, <1>5 DEF vars
<1> QED
  BY <1>2, <1>3, <1>4, <1>5 DEF Next

-----------------------------------------------------------------------------
(* Who runs alone *)

(* The lcore whose step it is has begun; it was alone if it is. *)
LEMMA AloneStays ==
    ASSUME TypeInv, TypeInv', NEW s \in Stream, Lcore(s), engine = "flowgen"
    PROVE  Alone' => Alone /\ Only(s)
<1>4. Begun(s)' /\ \A t \in Stream : Begun(t) => Begun(t)'
  BY BegunStays
<1> DEFINE B == {t \in Stream : Busy(t) \/ bursts[t] > 0}
           n == Cardinality(B)
           m == Cardinality(B')
<1>5. B \subseteq B' /\ B' \subseteq Stream /\ s \in B'
  BY <1>4 DEF Begun
<1>6. IsFiniteSet(B')
  BY <1>5, EnginesAssumption, FS_Subset
<1>7. IsFiniteSet(B) /\ n <= m
  BY <1>5, <1>6, FS_Subset
<1>8. n \in Nat /\ m \in Nat
  BY <1>6, <1>7, FS_CardinalityType
<1>9. Alone' => Alone
  <2>1. (Alone' <=> m < 2) /\ (Alone <=> n < 2)
    BY DEF Alone
  <2> HIDE DEF n, m
  <2> QED
    BY <1>7, <1>8, <2>1 DEF n, m
<1>10. ASSUME Alone', NEW t \in Stream \ {s}, t \in B PROVE FALSE
  <2>1. {s, t} \subseteq B' /\ {s, t} = {s} \cup {t} /\ t \notin {s}
    BY <1>5, <1>10
  <2>2. Cardinality({s}) = 1 /\ IsFiniteSet({s})
    BY FS_Singleton
  <2>3. Cardinality({s, t}) = 2
    BY <2>1, <2>2, FS_AddElement
  <2>4. 2 <= m
    BY <1>6, <2>1, <2>3, FS_Subset
  <2>5. m < 2
    BY <1>10 DEF Alone
  <2> HIDE DEF m
  <2> QED
    BY <1>8, <2>4, <2>5 DEF m
<1> QED
  BY <1>9, <1>10 DEF Only, Begun

-----------------------------------------------------------------------------

(* Each step of an lcore leaves the packets that are ready as they are. *)

(* Sendable for what follows the step *)
Sends(p) == Sendable(engine, Alone', changes, p)

LEMMA ReadyStep ==
    ASSUME TypeInv, TypeInv', Ready, NEW s \in Stream, Lcore(s), NEW r, Set(s, r),
           \A j \in ReadyAt(r) : Sends(r.burst[j]), Raw(r),
           \A p \in nic' \ recycled' : p \in nic \ recycled \/ Sends(p)
    PROVE  Ready'
<1>1. engine' = engine /\ changes' = changes
  BY LcoreFrame DEF fixed
<1>2. Alone \in BOOLEAN /\ Alone' \in BOOLEAN /\ (engine = "flowgen" => (Alone' => Alone))
  BY AloneStays DEF Alone
<1>3. \A p : Sendable(engine, Alone, changes, p) => Sends(p)
  BY <1>2, StillSendable DEF Sends
<1>4. st'[s] = r /\ \A t \in Stream \ {s} : st'[t] = st[t]
  BY SetIs
<1>5. \A p \in nic' \ recycled' : Sends(p)
  BY <1>3 DEF Ready
<1>6. ASSUME NEW t \in Stream
      PROVE  (\A j \in ReadyAt(st'[t]) : Sends(st'[t].burst[j])) /\ Raw(st'[t])
  <2>1. CASE t = s
    BY <1>4, <2>1
  <2>2. CASE t # s
    BY <1>3, <1>4, <2>2 DEF Ready
  <2> QED
    BY <2>1, <2>2
<1> QED
  BY <1>1, <1>5, <1>6 DEF Ready, Sends

(* The NIC is given nothing. *)
LEMMA ReadyQuiet ==
    ASSUME TypeInv, TypeInv', Ready, NEW s \in Stream, Lcore(s), NEW r, Set(s, r),
           UNCHANGED nic,
           \A j \in ReadyAt(r) : Sends(r.burst[j]), Raw(r)
    PROVE  Ready'
BY RecycledGrows, ReadyStep

LEMMA ReadyIdle ==
    ASSUME TypeInv, TypeInv', Ready, NEW s \in Stream, Lcore(s), NEW pc \in Pc, pc # "csum",
           Set(s, Idle(pc)), UNCHANGED nic
    PROVE  Ready'
<1> DEFINE r == Idle(pc)
<1>1. Set(s, r) /\ ReadyAt(r) = {} /\ Raw(r)
  BY IdleReady
<1> HIDE DEF r
<1> QED
  BY <1>1, ReadyQuiet

(* Packets that were ready are so still. *)
LEMMA WereReady ==
    ASSUME TypeInv, TypeInv', Ready, NEW s \in Stream, Lcore(s)
    PROVE  \A j \in ReadyAt(st[s]) : Sends(st[s].burst[j])
<1>1. Alone \in BOOLEAN /\ Alone' \in BOOLEAN /\ (engine = "flowgen" => (Alone' => Alone))
  BY AloneStays DEF Alone
<1> QED
  BY <1>1, StillSendable DEF Sends, Ready

LEMMA ReadyRx ==
    ASSUME TypeInv, TypeInv', Ready, NEW s \in Stream, Lcore(s), RxBurst(s)
    PROVE  Ready'
<1>1. /\ st[s] = Idle("receive") /\ st[s] \in StreamType(engine) /\ engine # "txonly"
      /\ UNCHANGED nic
  BY StreamIs DEF RxBurst, At, Place
<1>2. PICK n, pkts, S : Received(s, n, pkts, S)
  BY RxIs
<1>3. st[s].i = 1 /\ st[s].nb_pkt = 0
  BY <1>1 DEF Idle
<1>4. CASE engine = "rxonly"
  <2>1. Set(s, Idle(FirstPc)) /\ FirstPc \in Pc /\ FirstPc # "csum"
    BY <1>2, <1>4, FirstIs DEF Received, Returns
  <2> QED
    BY <1>1, <2>1, ReadyIdle
<1>5. CASE engine = "flowgen"
  <2> DEFINE r == [st[s] EXCEPT !.pc = "alloc", !.burst = pkts, !.nb_rx = n,
                                !.len = tx_pkt_length - 4]
  <2>1. Set(s, r)
    BY <1>2, <1>5 DEF Received
  <2>2. r.pc = "alloc" /\ r.nb_pkt = 0
    BY <1>1, <1>3 DEF StreamType
  <2> HIDE DEF r
  <2>3. ReadyAt(r) = {} /\ Raw(r)
    BY <2>2 DEF ReadyAt, Raw, Made, Unsending
  <2> QED
    BY <1>1, <2>1, <2>3, ReadyQuiet
<1>6. CASE engine \notin {"rxonly", "flowgen"}
  <2> DEFINE r == [st[s] EXCEPT !.pc = engine, !.burst = pkts, !.nb_rx = n, !.nb_pkt = n]
  <2>1. Set(s, r)
    BY <1>2, <1>6 DEF Received
  <2>2. r.pc = engine /\ r.burst = pkts /\ r.i = 1 /\ r.nb_pkt = n
    BY <1>1, <1>3 DEF StreamType
  <2>3. engine \in {"io", "mac", "macswap", "csum", "icmpecho"}
    BY <1>1, <1>6, Constants
  <2> HIDE DEF r
  <2>4. ReadyAt(r) = {}
    <3>1. 1 .. 1 - 1 = {}
      OBVIOUS
    <3> QED
      BY <2>2, <2>3, <3>1 DEF ReadyAt, Made, Unsending
  <2>5. Raw(r)
    BY <1>2, <2>2 DEF Raw, Received
  <2> QED
    BY <1>1, <2>1, <2>4, <2>5, ReadyQuiet
<1> QED
  BY <1>4, <1>5, <1>6

LEMMA ReadyRewrites ==
    ASSUME TypeInv, TypeInv', Ready, NEW s \in Stream, Lcore(s),
           IoForward(s) \/ MacForward(s) \/ MacSwap(s)
    PROVE  Ready'
<1>1. PICK addr \in {"received", "peer", "swapped"} :
         /\ Rewrites(s, addr)
         /\ \/ st[s].pc = "io" /\ addr = "received"
            \/ st[s].pc = "mac" /\ addr = "peer"
            \/ st[s].pc = "macswap" /\ addr = "swapped"
  BY DEF IoForward, MacForward, MacSwap, At
<1> DEFINE b == Rewritten(s, addr)
           r == [st[s] EXCEPT !.burst = b, !.pc = "send"]
<1>2. Set(s, r) /\ UNCHANGED nic
  BY <1>1 DEF Rewrites
<1>3. /\ st[s] \in StreamType(engine) /\ Len(st[s].burst) = st[s].nb_pkt
      /\ \/ engine = "io"
         \/ engine = "mac" /\ addr = "peer"
         \/ engine = "macswap" /\ addr = "swapped"
  BY <1>1, StreamIs DEF Place, Forwards
<1>4. Len(b) = st[s].nb_pkt /\ \A j \in 1 .. Len(b) : b[j].out = [addr |-> addr]
  <2>1. addr \in Addrs
    BY DEF Addrs
  <2> QED
    BY <1>3, <2>1, RewrittenIs
<1> HIDE DEF b
<1>5. r.pc = "send" /\ r.burst = b /\ r.nb_pkt = st[s].nb_pkt
  BY <1>3 DEF StreamType
<1> HIDE DEF r
<1>6. ReadyAt(r) = 1 .. st[s].nb_pkt /\ Raw(r)
  BY <1>5 DEF ReadyAt, Raw, Made, Unsending
<1>7. \A j \in ReadyAt(r) : r.burst[j].out.addr = addr
  BY <1>4, <1>5, <1>6
<1>8. \A j \in ReadyAt(r) : Sends(r.burst[j])
  BY <1>3, <1>7 DEF Sends, Sendable
<1> QED
  BY <1>2, <1>6, <1>8, ReadyQuiet

LEMMA ReadyEcho ==
    ASSUME TypeInv, TypeInv', Ready, NEW s \in Stream, Lcore(s), IcmpEcho(s)
    PROVE  Ready'
<1>1. /\ UNCHANGED nic /\ engine = "icmpecho" /\ st[s].pc = "icmpecho"
      /\ st[s] \in StreamType(engine)
  BY StreamIs DEF IcmpEcho, At, Place, Forwards
<1>2. CASE st[s].nb_rx >= UINT8
  <2>1. Set(s, st[s])
    BY <1>2 DEF IcmpEcho, Set, TypeInv, LcoreTypes
  <2>2. Raw(st[s])
    BY <1>1 DEF Raw
  <2> QED
    BY <1>1, <2>1, <2>2, WereReady, ReadyQuiet
<1>3. CASE ~(st[s].nb_rx >= UINT8)
  <2>1. CASE Echoed(s) = {}
    <3>1. Set(s, Idle(FirstPc)) /\ FirstPc \in Pc /\ FirstPc # "csum"
      BY <1>3, <2>1, FirstIs DEF IcmpEcho, Returns
    <3> QED
      BY <1>1, <3>1, ReadyIdle
  <2>2. CASE Echoed(s) # {}
    <3> DEFINE m == Cardinality(Echoed(s))
               R == Replies(s)
               r == [st[s] EXCEPT !.burst = R, !.pc = "send", !.nb_pkt = m]
    <3>1. Set(s, r)
      BY <1>3, <2>2 DEF IcmpEcho
    <3>2. PICK f : Answers(s, f)
      BY RepliesAre
    <3>3. \A k \in 1 .. m : R[k].out = [addr |-> "replied"] /\ R[k].kind.name = "request"
      <4>1. \A j \in Echoed(s) : st[s].burst[j].kind.name = "request"
        BY DEF Echoed
      <4> QED
        BY <3>2, <4>1 DEF Answers
    <3> HIDE DEF m, R
    <3>4. r.pc = "send" /\ r.burst = R /\ r.nb_pkt = m
      BY <1>1 DEF StreamType
    <3> HIDE DEF r
    <3>5. ReadyAt(r) = 1 .. m /\ Raw(r)
      BY <3>4 DEF ReadyAt, Raw, Made, Unsending
    <3>6. \A j \in ReadyAt(r) : r.burst[j].out.addr = "replied" /\ r.burst[j].kind.name = "request"
      BY <3>3, <3>4, <3>5
    <3>7. \A j \in ReadyAt(r) : Sends(r.burst[j])
      BY <1>1, <3>6 DEF Sends, Sendable
    <3> QED
      BY <1>1, <3>1, <3>5, <3>7, ReadyQuiet
  <2> QED
    BY <2>1, <2>2
<1> QED
  BY <1>2, <1>3

LEMMA ReadyCsum ==
    ASSUME TypeInv, TypeInv', Ready, NEW s \in Stream, Lcore(s), CsumPacket(s)
    PROVE  Ready'
<1> DEFINE i == st[s].i
           n == st[s].nb_pkt
<1>1. /\ UNCHANGED nic /\ engine = "csum" /\ st[s].pc = "csum" /\ st[s] \in StreamType(engine)
      /\ i \in 1 .. n /\ st[s].nb_rx = n /\ Len(st[s].burst) = n /\ n \in Nat
      /\ DOMAIN st[s].burst = 1 .. n
  BY StreamIs DEF CsumPacket, At, Place, Forwards
<1>2. PICK new : /\ Summed(s, new)
                 /\ \E info \in InfoType :
                       Set(s, [st[s] EXCEPT !.i = @ + 1, !.info = info,
                                  !.pc = IF st[s].i = st[s].nb_rx THEN "send" ELSE "csum",
                                  !.burst = [@ EXCEPT ![st[s].i] = new]])
  BY CsumIs
<1>3. PICK info \in InfoType :
         Set(s, [st[s] EXCEPT !.i = @ + 1, !.info = info,
                    !.pc = IF st[s].i = st[s].nb_rx THEN "send" ELSE "csum",
                    !.burst = [@ EXCEPT ![st[s].i] = new]])
  BY <1>2
<1> DEFINE b  == [st[s].burst EXCEPT ![i] = new]
           pc == IF i = st[s].nb_rx THEN "send" ELSE "csum"
           r  == [st[s] EXCEPT !.i = @ + 1, !.info = info, !.pc = pc, !.burst = b]
           old == st[s].burst[i]
<1>4. Set(s, r)
  BY <1>3
<1>5. b[i] = new /\ \A j \in (1 .. n) \ {i} : b[j] = st[s].burst[j]
  BY <1>1
<1> HIDE DEF b
<1>6. r.pc = pc /\ r.burst = b /\ r.nb_pkt = n /\ r.i = i + 1
  BY <1>1 DEF StreamType
<1> HIDE DEF r
<1>7. \A j \in i .. n : /\ st[s].burst[j].lens = st[s].burst[j].kind.lens
                        /\ st[s].burst[j].kind \in Kinds["csum"]
  BY <1>1 DEF Ready, Raw
<1>8. Sends(new)
  <2>1. old.lens = old.kind.lens /\ old.kind \in Kinds["csum"]
    BY <1>1, <1>7
  <2>2. /\ new.kind = old.kind /\ new.out.addr = "peer"
        /\ Right(new.kind.hdr, new.out.info, new.out.cfg, new.out.sums)
        /\ Bytes(new.lens) = Bytes(old.lens)
        /\ Fits(old.lens) => Fits(new.lens)
    BY <1>2 DEF Summed
  <2>3. Fits(old.lens)
    <3>1. "csum" \in Engine
      BY <1>1, Constants
    <3> QED
      BY <2>1, <3>1, EnginesAssumption DEF Fits
  <2> HIDE DEF old
  <2>4. CsumRight(new)
    BY <2>1, <2>2, <2>3 DEF CsumRight, Fits
  <2> QED
    BY <1>1, <2>2, <2>4 DEF Sends, Sendable
<1>9. \A j \in 1 .. i - 1 : Sends(st[s].burst[j])
  <2>1. ReadyAt(st[s]) = 1 .. i - 1
    BY <1>1 DEF ReadyAt, Made, Unsending
  <2> QED
    BY <2>1, WereReady
<1>10. ReadyAt(r) = 1 .. i
  <2>1. CASE i = n
    BY <1>1, <1>6, <2>1 DEF ReadyAt, Made, Unsending
  <2>2. CASE i # n
    <3>1. r.pc = "csum" /\ (i + 1) - 1 = i
      BY <1>1, <1>6, <2>2
    <3> QED
      BY <1>6, <3>1 DEF ReadyAt, Made, Unsending
  <2> QED
    BY <2>1, <2>2
<1>11. \A j \in ReadyAt(r) : Sends(r.burst[j])
  <2>1. \A j \in 1 .. i : j = i \/ (j \in 1 .. i - 1 /\ j \in (1 .. n) \ {i})
    BY <1>1
  <2> HIDE DEF i, n
  <2> QED
    BY <1>5, <1>6, <1>8, <1>9, <1>10, <2>1
<1>12. Raw(r)
  <2>1. \A j \in i + 1 .. n : j \in i .. n /\ j \in (1 .. n) \ {i}
    BY <1>1
  <2> HIDE DEF i, n, pc
  <2> QED
    BY <1>5, <1>6, <1>7, <2>1 DEF Raw
<1> QED
  BY <1>1, <1>4, <1>11, <1>12, ReadyQuiet

(* An lcore adds p, which may be sent, to its packets. *)
LEMMA ReadyMore ==
    ASSUME TypeInv, TypeInv', Ready, NEW s \in Stream, Lcore(s), NEW r, Set(s, r),
           UNCHANGED nic, NEW p, Sends(p),
           st[s].pc \in Made, r.pc \in Made, r.nb_pkt = st[s].nb_pkt + 1,
           r.burst[st[s].nb_pkt + 1] = p,
           \A j \in 1 .. st[s].nb_pkt : r.burst[j] = st[s].burst[j]
    PROVE  Ready'
<1> DEFINE n == st[s].nb_pkt
<1>1. n \in Nat
  BY StreamIs
<1>2. ReadyAt(st[s]) = 1 .. n /\ ReadyAt(r) = 1 .. n + 1 /\ Raw(r)
  BY DEF ReadyAt, Raw, Made, Unsending
<1>3. \A j \in 1 .. n + 1 : j = n + 1 \/ j \in 1 .. n
  BY <1>1
<1>4. \A j \in 1 .. n : Sends(st[s].burst[j])
  BY <1>2, WereReady
<1>5. \A j \in ReadyAt(r) : Sends(r.burst[j])
  BY <1>2, <1>3, <1>4
<1> QED
  BY <1>2, <1>5, ReadyQuiet

LEMMA ReadyFlow ==
    ASSUME TypeInv, TypeInv', FlowsFollow, Ready, NEW s \in Stream, Lcore(s), FlowPacket(s)
    PROVE  Ready'
<1>1. PICK p \in PacketType(engine) :
         /\ p.out = [flow |-> next_flow]
         /\ Set(s, [st[s] EXCEPT !.pc = "count", !.nb_pkt = @ + 1, !.flow = next_flow,
                       !.burst = [j \in DOMAIN @ \cup {st[s].nb_pkt + 1} |->
                                     IF j = st[s].nb_pkt + 1 THEN p ELSE @[j]]])
  BY FlowPacketIs
<1> DEFINE n == st[s].nb_pkt
           b == st[s].burst
           c == [j \in DOMAIN b \cup {n + 1} |-> IF j = n + 1 THEN p ELSE b[j]]
           r == [st[s] EXCEPT !.pc = "count", !.nb_pkt = n + 1, !.flow = next_flow, !.burst = c]
<1>2. engine = "flowgen" /\ st[s].pc = "alloc" /\ UNCHANGED nic
  BY DEF FlowPacket, At, AllocFrame
<1>3. /\ st[s] \in StreamType(engine) /\ n \in Nat /\ n <= Len(b)
      /\ b \in Seq(PacketType(engine))
  BY <1>2, StreamIs DEF Place
<1>4. Set(s, r)
  BY <1>1
<1>5. Sends(p)
  <2>1. Alone' => next_flow \in 0 .. cfg_n_flows - 1
    <3> SUFFICES ASSUME Alone' PROVE next_flow \in 0 .. cfg_n_flows - 1
      OBVIOUS
    <3>1. Follows(next_flow, st[s], fs[s], recycled = {})
      BY <1>2, AloneStays DEF FlowsFollow
    <3>2. next_flow \in Int /\ cfg_n_flows \in Nat
      BY FlowIs, <1>2
    <3>3. next_flow < cfg_n_flows /\ next_flow >= 0
      BY <1>2, <3>1 DEF Follows, Current, Unsending
    <3> QED
      BY <3>2, <3>3
  <2> QED
    BY <1>1, <1>2, <2>1 DEF Sends, Sendable
<1> HIDE DEF b, n
<1>6. c[n + 1] = p /\ \A j \in 1 .. n : c[j] = b[j]
  BY <1>3, MadeIs
<1> HIDE DEF c
<1>7. r.pc = "count" /\ r.nb_pkt = n + 1 /\ r.burst = c
  BY <1>3 DEF StreamType
<1> HIDE DEF r
<1> QED
  BY <1>2, <1>4, <1>5, <1>6, <1>7, ReadyMore DEF b, n, Made

(* The burst goes on as it is. *)
LEMMA ReadyOn ==
    ASSUME TypeInv, TypeInv', Ready, NEW s \in Stream, Lcore(s), NEW r, Set(s, r),
           st[s].pc \in Made, r.pc \in Made, r.nb_pkt = st[s].nb_pkt,
           \A j \in 1 .. st[s].nb_pkt : r.burst[j] = st[s].burst[j],
           UNCHANGED nic \/ \E k \in Nat : Takes(s, k)
    PROVE  Ready'
<1>1. ReadyAt(r) = 1 .. st[s].nb_pkt /\ ReadyAt(st[s]) = 1 .. st[s].nb_pkt /\ Raw(r)
  BY DEF ReadyAt, Raw, Made, Unsending
<1>2. \A j \in 1 .. st[s].nb_pkt : Sends(st[s].burst[j])
  BY <1>1, WereReady
<1>3. \A j \in ReadyAt(r) : Sends(r.burst[j])
  BY <1>1, <1>2
<1>4. CASE UNCHANGED nic
  BY <1>1, <1>3, <1>4, ReadyQuiet
<1>5. CASE \E k \in Nat : Takes(s, k)
  <2>1. PICK k \in Nat : Takes(s, k)
    BY <1>5
  <2>2. ASSUME NEW p \in nic' \ recycled', p \notin nic \ recycled PROVE Sends(p)
    <3>1. /\ p \in {st[s].burst[j] : j \in st[s].nb_tx + 1 .. st[s].nb_tx + k}
          /\ p \notin {st[s].burst[j] : j \in st[s].nb_pkt + 1 .. st[s].nb_tx + k}
      BY <2>1, <2>2 DEF Takes
    <3>2. PICK j \in st[s].nb_tx + 1 .. st[s].nb_tx + k : p = st[s].burst[j]
      BY <3>1
    <3>3. j \notin st[s].nb_pkt + 1 .. st[s].nb_tx + k
      BY <3>1, <3>2
    <3>4. st[s].nb_tx \in Nat /\ st[s].nb_pkt \in Nat
      BY StreamIs
    <3>5. j \in 1 .. st[s].nb_pkt
      BY <3>3, <3>4
    <3> QED
      BY <1>2, <3>2, <3>5
  <2> QED
    BY <1>1, <1>3, <2>2, ReadyStep
<1> QED
  BY <1>4, <1>5

(* txonly makes a packet: those before it stay as they are. *)
LEMMA ReadyTx ==
    ASSUME TypeInv, TypeInv', Drafts, Ready, NEW s \in Stream, Lcore(s),
           TxPacket(s) \/ TxSplit(s) \/ TxSegment(s) \/ TxHeaders(s) \/ TxSegmentFails(s)
    PROVE  Ready'
<1> DEFINE n == st[s].nb_pkt
           b == st[s].burst
<1>1. /\ UNCHANGED nic /\ st[s].pc \in {"alloc", "split", "segments"} /\ st[s].pc \in Made
      /\ st[s] \in StreamType(engine) /\ n \in Nat /\ b \in Seq(PacketType(engine))
      /\ ~ TxPacket(s) => st[s].pc \in TxPcs
  BY StreamIs DEF TxPacket, TxSplit, TxSegment, TxHeaders, TxSegmentFails, AllocFrame, At, Made,
                  TxPcs
<1>2. st[s].pc \in TxPcs => Len(b) = n + 1 /\ engine = "txonly"
  BY MakingIs
<1>3. CASE TxPacket(s)
  <2>1. PICK p \in PacketType(engine) :
            Set(s, [st[s] EXCEPT !.pc = "split", !.burst = Append(@, p)])
    BY <1>3, TxPacketIs
  <2> DEFINE c == Append(b, p)
             r == [st[s] EXCEPT !.pc = "split", !.burst = c]
  <2>2. Len(b) = n
    BY <1>3, StreamIs DEF Place, TxPacket, At, TxPcs
  <2> HIDE DEF b, n
  <2>3. \A j \in 1 .. n : c[j] = b[j]
    BY <1>1, <2>2, AppendProperties
  <2>4. Set(s, r)
    BY <2>1 DEF b
  <2> HIDE DEF c
  <2>5. r.pc = "split" /\ r.nb_pkt = st[s].nb_pkt /\ r.burst = c
    BY <1>1 DEF StreamType
  <2> HIDE DEF r
  <2> QED
    BY <1>1, <2>3, <2>4, <2>5, ReadyOn DEF Made, b, n
<1>4. CASE TxSplit(s)
  <2>1. PICK k : Set(s, [st[s] EXCEPT !.pc = "segments", !.split = tx_pkt_split, !.nb_segs = k])
    BY <1>4 DEF TxSplit
  <2> DEFINE r == [st[s] EXCEPT !.pc = "segments", !.split = tx_pkt_split, !.nb_segs = k]
  <2>2. Set(s, r) /\ r.pc = "segments" /\ r.nb_pkt = st[s].nb_pkt /\ r.burst = st[s].burst
    BY <1>1, <2>1 DEF StreamType
  <2> HIDE DEF r
  <2> QED
    BY <1>1, <2>2, ReadyOn DEF Made
<1>5. CASE TxSegment(s)
  <2>1. PICK p \in PacketType(engine) : Set(s, [st[s] EXCEPT !.burst = [@ EXCEPT ![n + 1] = p]])
    BY <1>5, TxSegmentIs
  <2> DEFINE c == [b EXCEPT ![n + 1] = p]
             r == [st[s] EXCEPT !.burst = c]
  <2>2. Len(b) = n + 1 /\ st[s].pc = "segments"
    BY <1>1, <1>2, <1>5 DEF TxSegment, At, TxPcs
  <2> HIDE DEF b, n
  <2>3. \A j \in 1 .. n : c[j] = b[j]
    BY <1>1, <2>2
  <2>4. Set(s, r)
    BY <2>1 DEF b
  <2> HIDE DEF c
  <2>5. r.pc = "segments" /\ r.nb_pkt = st[s].nb_pkt /\ r.burst = c
    BY <1>1, <2>2 DEF StreamType
  <2> HIDE DEF r
  <2> QED
    BY <1>1, <2>3, <2>4, <2>5, ReadyOn DEF Made, b, n
<1>6. CASE TxHeaders(s)
  <2>1. CASE Bytes(Making(s).lens) < HDR_LEN
    <3>1. Set(s, st[s])
      BY <1>6, <2>1 DEF TxHeaders, Set, TypeInv, LcoreTypes
    <3> QED
      BY <1>1, <3>1, ReadyOn
  <2>2. CASE ~(Bytes(Making(s).lens) < HDR_LEN)
    <3> DEFINE r == [st[s] EXCEPT !.pc = "alloc", !.nb_pkt = @ + 1]
    <3>1. Set(s, r)
      BY <1>6, <2>2 DEF TxHeaders
    <3>2. r.pc = "alloc" /\ r.nb_pkt = n + 1 /\ r.burst = b
      BY <1>1 DEF StreamType
    <3>3. Sends(Making(s))
      <4>1. changes = 0 => Bytes(Making(s).lens) = Making(s).out.total
        <5>1. pkt_ip_hdr \in Nat
          BY DEF TypeInv, SettingTypes
        <5>2. st[s].pc \in TxPcs
          BY <1>6 DEF TxHeaders, At, TxPcs
        <5> QED
          BY <5>1, <5>2, BytesOfOne DEF Drafts, Draft
      <4>2. engine = "txonly"
        BY <1>2, <1>6 DEF TxHeaders, At, TxPcs
      <4> QED
        BY <4>1, <4>2 DEF Sends, Sendable
    <3> HIDE DEF r
    <3> QED
      BY <1>1, <3>1, <3>2, <3>3, ReadyMore DEF Made, Making
  <2> QED
    BY <2>1, <2>2
<1>7. CASE TxSegmentFails(s)
  <2>1. CASE n = 0
    <3>1. Set(s, Idle(FirstPc)) /\ FirstPc \in Pc /\ FirstPc # "csum"
      BY <1>7, <2>1, FirstIs DEF TxSegmentFails, Returns
    <3> QED
      BY <1>1, <3>1, ReadyIdle
  <2>2. CASE n # 0
    <3> DEFINE c == SubSeq(b, 1, n)
               r == [st[s] EXCEPT !.pc = "send", !.burst = c]
    <3>1. Set(s, r)
      BY <1>7, <2>2 DEF TxSegmentFails
    <3>2. Len(b) = n + 1
      BY <1>2, <1>7 DEF TxSegmentFails, At, TxPcs
    <3> HIDE DEF b, n
    <3>3. n \in 0 .. Len(b)
      BY <1>1, <3>2
    <3>4. \A j \in 1 .. n : c[j] = b[j]
      BY <1>1, <3>3, CutIs
    <3> HIDE DEF c
    <3>5. r.pc = "send" /\ r.nb_pkt = st[s].nb_pkt /\ r.burst = c
      BY <1>1 DEF StreamType
    <3> HIDE DEF r
    <3> QED
      BY <1>1, <3>1, <3>4, <3>5, ReadyOn DEF Made, b, n
  <2> QED
    BY <2>1, <2>2
<1> QED
  BY <1>3, <1>4, <1>5, <1>6, <1>7

(* flowgen counts flows, and takes them back. *)
LEMMA ReadyFlows ==
    ASSUME TypeInv, TypeInv', Ready, NEW s \in Stream, Lcore(s),
           \/ CountFlow(s) \/ NextFlow(s)
           \/ EndBurst(s) \/ BackOut(s) \/ BackedOut(s) \/ AddFlows(s)
    PROVE  Ready'
<1> DEFINE On(pc, f) == [st[s] EXCEPT !.pc = pc, !.flow = f]
<1>1. st[s] \in StreamType(engine) /\ FirstPc \in Pc /\ FirstPc # "csum"
  BY StreamIs, FirstIs
<1>2. UNCHANGED nic /\ st[s].pc \in Made
  BY DEF CountFlow, NextFlow, EndBurst, BackOut, BackedOut, AddFlows, AllocFrame, At, Made,
         Unsending
<1>3. ASSUME NEW pc \in Made, NEW f, Set(s, On(pc, f)) PROVE Ready'
  <2> DEFINE r == On(pc, f)
  <2>1. Set(s, r) /\ r.pc = pc /\ r.nb_pkt = st[s].nb_pkt /\ r.burst = st[s].burst
    BY <1>1, <1>3 DEF StreamType
  <2> HIDE DEF r
  <2> QED
    BY <1>2, <2>1, ReadyOn
<1>4. \A pc : [st[s] EXCEPT !.pc = pc] = On(pc, st[s].flow)
  BY <1>1 DEF StreamType
<1>5. Returns(s) => Ready'
  BY <1>1, <1>2, ReadyIdle DEF Returns
<1>6. Returns(s) \/ \E pc \in Made : \E f : Set(s, On(pc, f))
  <2>1. CASE CountFlow(s)
    BY <2>1 DEF CountFlow, Made
  <2>2. CASE NextFlow(s)
    BY <1>4, <2>2 DEF NextFlow, Made
  <2>3. CASE EndBurst(s)
    BY <2>3, EndIs DEF Backs, Made, Unsending
  <2>4. CASE BackOut(s)
    BY <1>4, <2>4 DEF BackOut, Made, Unsending
  <2>5. CASE BackedOut(s)
    BY <2>5 DEF BackedOut, FreesRest, Made, Unsending
  <2>6. CASE AddFlows(s)
    BY <2>6 DEF AddFlows, Made, Unsending
  <2> QED
    BY <2>1, <2>2, <2>3, <2>4, <2>5, <2>6
<1> HIDE DEF On
<1> QED
  BY <1>3, <1>5, <1>6

LEMMA ReadyLcore ==
    ASSUME TypeInv, TypeInv', FlowsFollow, Drafts, Ready, NEW s \in Stream, Lcore(s)
    PROVE  Ready'
<1>1. st[s] \in StreamType(engine) /\ FirstPc \in Pc /\ FirstPc # "csum"
  BY StreamIs, FirstIs
<1>2. CASE RxBurst(s)
  BY <1>2, ReadyRx
<1>3. CASE IoForward(s) \/ MacForward(s) \/ MacSwap(s)
  BY <1>3, ReadyRewrites
<1>4. CASE IcmpEcho(s)
  BY <1>4, ReadyEcho
<1>5. CASE CsumPacket(s)
  BY <1>5, ReadyCsum
<1>6. CASE FlowPacket(s)
  BY <1>6, ReadyFlow
<1>7. CASE TxPacket(s) \/ TxSplit(s) \/ TxSegment(s) \/ TxHeaders(s) \/ TxSegmentFails(s)
  BY <1>7, ReadyTx
<1>8. CASE \/ CountFlow(s) \/ NextFlow(s)
           \/ EndBurst(s) \/ BackOut(s) \/ BackedOut(s) \/ AddFlows(s)
  BY <1>8, ReadyFlows
<1>9. CASE LastPacket(s)
  <2> DEFINE r == [st[s] EXCEPT !.pc = "send"]
  <2>1. UNCHANGED nic /\ st[s].pc = "alloc" /\ (Set(s, Idle(FirstPc)) \/ Set(s, r))
    BY <1>9 DEF LastPacket, At, Returns
  <2>2. r.pc = "send" /\ r.nb_pkt = st[s].nb_pkt /\ r.burst = st[s].burst
    BY <1>1 DEF StreamType
  <2> HIDE DEF r
  <2> QED
    BY <1>1, <2>1, <2>2, ReadyIdle, ReadyOn DEF Made
<1>10. CASE TxBurst(s)
  <2>1. PICK k \in 0 .. st[s].nb_pkt :
           Takes(s, k) /\ Set(s, [st[s] EXCEPT !.nb_tx = k, !.pc = "retry"])
    BY <1>10 DEF TxBurst
  <2> DEFINE r == [st[s] EXCEPT !.nb_tx = k, !.pc = "retry"]
  <2>2. /\ Set(s, r) /\ st[s].pc = "send" /\ k \in Nat
        /\ r.pc = "retry" /\ r.nb_pkt = st[s].nb_pkt /\ r.burst = st[s].burst
    BY <1>1, <1>10, <2>1 DEF TxBurst, At, StreamType
  <2> HIDE DEF r
  <2> QED
    BY <2>1, <2>2, ReadyOn DEF Made
<1>11. CASE Retry(s)
  <2>1. PICK k \in 0 .. ToRetry(s) - st[s].nb_tx :
           Takes(s, k) /\ Set(s, [st[s] EXCEPT !.nb_tx = @ + k, !.retry = @ + 1])
    BY <1>11 DEF Retry
  <2> DEFINE r == [st[s] EXCEPT !.nb_tx = @ + k, !.retry = @ + 1]
  <2>2. /\ Set(s, r) /\ st[s].pc = "retry" /\ k \in Nat
        /\ r.pc = "retry" /\ r.nb_pkt = st[s].nb_pkt /\ r.burst = st[s].burst
    BY <1>1, <1>11, <2>1 DEF Retry, At, StreamType
  <2> HIDE DEF r
  <2> QED
    BY <2>1, <2>2, ReadyOn DEF Made
<1> QED
  BY <1>2, <1>3, <1>4, <1>5, <1>6, <1>7, <1>8, <1>9, <1>10, <1>11 DEF Lcore

LEMMA ReadyInit == Init => Ready
<1> SUFFICES ASSUME Init PROVE Ready
  OBVIOUS
<1>1. nic = {} /\ st = [s \in Stream |-> Idle(FirstPc)]
  BY DEF Init
<1>2. FirstPc # "csum"
  BY DEF FirstPc
<1>3. ReadyAt(Idle(FirstPc)) = {} /\ Raw(Idle(FirstPc))
  BY <1>2, IdleReady
<1> QED
  BY <1>1, <1>3 DEF Ready

LEMMA ReadyNext ==
    TypeInv /\ FlowsFollow /\ Drafts /\ Ready /\ [Next]_vars => Ready'
<1> SUFFICES ASSUME TypeInv, FlowsFollow, Drafts, Ready, [Next]_vars PROVE Ready'
  OBVIOUS
<1>1. ASSUME UNCHANGED <<fixed, st, bursts, recycled>>, nic' \subseteq nic,
             changes' = changes \/ changes' # 0
      PROVE  Ready'
  <2>1. engine' = engine /\ (Alone' <=> Alone)
    BY <1>1 DEF Alone, Busy, FirstPc, fixed
  <2>2. Alone \in BOOLEAN /\ Alone' \in BOOLEAN
    BY DEF Alone
  <2>3. \A p : Sendable(engine, Alone, changes, p) => Sendable(engine, Alone', changes', p)
    BY <1>1, <2>1, <2>2, StillSendable
  <2> QED
    BY <1>1, <2>1, <2>3 DEF Ready
<1>2. CASE \E s \in Stream : Lcore(s)
  BY <1>2, TypeNext, ReadyLcore
<1>3. CASE TxDone
  BY <1>1, <1>3 DEF TxDone, history
<1>4. CASE CommandThread
  BY <1>1, <1>4, ChangesGrow, ThreadFrame DEF CommandFrame
<1>5. CASE UNCHANGED vars
  BY <1>1, <1>5 DEF vars, history
<1> QED
  BY <1>2, <1>3, <1>4, <1>5 DEF Next

(***************************************************************************)
(* What the NIC is given is what the engine says, for any packets that     *)
(* arrive, any settings of csum and any lengths of segments, and however   *)
(* lcores and commands interleave (the loops of macfwd.c, macswap.c,       *)
(* icmpecho.c, csumonly.c, flowgen.c and txonly.c). Of flowgen's flows it  *)
(* speaks while one lcore runs alone, of txonly's lengths until a command  *)
(* changes them, of checksums but for the exceptions of Right.             *)
(***************************************************************************)
THEOREM Sent == Spec => []SentAsMade
<1>1. Init => TypeInv /\ FlowsFollow /\ Unset /\ Drafts /\ Ready
  BY TypeInit, FollowInit, UnsetInit, DraftsInit, ReadyInit
<1>2. TypeInv /\ FlowsFollow /\ Unset /\ Drafts /\ Ready /\ [Next]_vars
         => TypeInv' /\ FlowsFollow' /\ Unset' /\ Drafts' /\ Ready'
  BY TypeNext, FollowNext, UnsetNext, DraftsNext, ReadyNext
<1>3. Ready => SentAsMade
  BY DEF Ready, Sendable, SentAsMade
<1> QED
  BY <1>1, <1>2, <1>3, PTL DEF Spec
=============================================================================
