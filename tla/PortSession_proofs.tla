------------------------- MODULE PortSession_proofs -------------------------
(***************************************************************************)
(* Proofs about FwdConfig: how setup_fwd_config_of_each_lcore divides      *)
(* streams over lcores, and that no two streams have one queue; and about  *)
(* PortSession, for any number of ports, queues and lcores, any topology   *)
(* and engine, and any sequence of commands and failures.                  *)
(***************************************************************************)
EXTENDS PortSession, DataTheorems

-----------------------------------------------------------------------------
(* FwdConfig: the shares of the lcores *)

(* The streams are a share for each lcore and one more for the last ones. *)
LEMMA PerAndExtra ==
    ASSUME NEW nb_fs \in Nat, NEW nb_fc \in Nat \ {0}, nb_fc <= nb_fs
    PROVE  /\ PerLcore(nb_fs, nb_fc) \in Nat \ {0}
           /\ Extra(nb_fs, nb_fc) \in 0 .. nb_fc - 1
           /\ nb_fs = nb_fc * PerLcore(nb_fs, nb_fc) + Extra(nb_fs, nb_fc)
<1>1. CASE nb_fs <= nb_fc
  BY <1>1, SMT DEF PerLcore, Extra
<1>2. CASE ~(nb_fs <= nb_fc)
  <2> DEFINE q == nb_fs \div nb_fc
  <2>1. q \in Nat /\ nb_fs % nb_fc \in 0 .. nb_fc - 1 /\ nb_fs = nb_fc * q + (nb_fs % nb_fc)
    BY Division
  <2>2. PerLcore(nb_fs, nb_fc) = q /\ Extra(nb_fs, nb_fc) = nb_fs % nb_fc
    BY <1>2 DEF PerLcore, Extra
  <2> HIDE DEF q
  <2>3. q # 0
    <3>1. ASSUME q = 0 PROVE nb_fc * q = 0
      BY <3>1, SMT
    <3> QED
      BY <2>1, <3>1, SMT
  <2> QED
    BY <2>1, <2>2, <2>3
<1> QED
  BY <1>1, <1>2

(* With per and extra named, where a share begins and how many it has. *)
First(l, nb_lc, per) == IF l < nb_lc THEN l * per ELSE nb_lc * per + (l - nb_lc) * (per + 1)
Count(l, nb_lc, per) == IF l < nb_lc THEN per ELSE per + 1

LEMMA ShareOf ==
    ASSUME NEW nb_fs \in Nat, NEW nb_fc \in Nat \ {0}, NEW l \in 0 .. nb_fc - 1
    PROVE  LET per   == PerLcore(nb_fs, nb_fc)
               nb_lc == nb_fc - Extra(nb_fs, nb_fc)
           IN  /\ EachLcore(nb_fs, nb_fc)[l].stream_idx = First(l, nb_lc, per)
               /\ EachLcore(nb_fs, nb_fc)[l].stream_nb = Count(l, nb_lc, per)
BY DEF EachLcore, Share, First, Count

(* A share ends where the shares of later lcores begin, or before. *)
LEMMA Ordered ==
    ASSUME NEW nb_lc \in Nat, NEW per \in Nat \ {0}, NEW l \in Nat, NEW m \in Nat, l < m
    PROVE  /\ First(l, nb_lc, per) \in Nat
           /\ First(m, nb_lc, per) \in Nat
           /\ Count(l, nb_lc, per) \in Nat
           /\ First(l, nb_lc, per) + Count(l, nb_lc, per) <= First(m, nb_lc, per)
<1>1. per + 1 \in Nat
  OBVIOUS
<1>2. CASE m < nb_lc
  <2>1. l * per \in Nat /\ m * per \in Nat /\ l * per + per <= m * per
    BY Products
  <2> QED
    BY <1>2, <2>1, SMT DEF First, Count
<1>3. CASE l < nb_lc /\ ~(m < nb_lc)
  <2>1. PICK e \in Nat : e = m - nb_lc
    BY <1>3, SMT
  <2>2. l * per \in Nat /\ nb_lc * per \in Nat /\ l * per + per <= nb_lc * per
    BY <1>3, Products
  <2>3. e * (per + 1) \in Nat
    BY <1>1, Products
  <2>4. First(m, nb_lc, per) = nb_lc * per + e * (per + 1)
    BY <1>3, <2>1 DEF First
  <2>5. First(l, nb_lc, per) = l * per /\ Count(l, nb_lc, per) = per
    BY <1>3 DEF First, Count
  <2> QED
    BY <2>2, <2>3, <2>4, <2>5, SMT
<1>4. CASE ~(l < nb_lc)
  <2>1. PICK d \in Nat : d = l - nb_lc
    BY <1>4, SMT
  <2>2. PICK e \in Nat : e = m - nb_lc
    BY <1>4, SMT
  <2>3. d < e /\ ~(m < nb_lc)
    BY <1>4, <2>1, <2>2, SMT
  <2>4. d * (per + 1) \in Nat /\ e * (per + 1) \in Nat
        /\ d * (per + 1) + (per + 1) <= e * (per + 1)
    BY <1>1, <2>3, Products
  <2>5. nb_lc * per \in Nat
    BY Products
  <2>6. /\ First(l, nb_lc, per) = nb_lc * per + d * (per + 1)
        /\ First(m, nb_lc, per) = nb_lc * per + e * (per + 1)
        /\ Count(l, nb_lc, per) = per + 1
    BY <1>4, <2>1, <2>2, <2>3 DEF First, Count
  <2> QED
    BY <2>4, <2>5, <2>6, SMT
<1> QED
  BY <1>2, <1>3, <1>4

(* The streams are those of the lcores before nb_lc and those of the others. *)
LEMMA Total ==
    ASSUME NEW k \in Nat, NEW r \in Nat, NEW q \in Nat
    PROVE  /\ (k + r) * q + r = k * q + r * (q + 1)
           /\ First(k + r, k, q) = (k + r) * q + r
<1>1. (k + r) * q = k * q + r * q
  BY Products
<1>2. r * (q + 1) = r * q + r
  BY Products
<1>3. r * q \in Nat /\ k * q \in Nat
  BY Products
<1>4. ~(k + r < k) /\ (k + r) - k = r
  BY SMT
<1> QED
  BY <1>1, <1>2, <1>3, <1>4, SMT DEF First

(* Each lcore up to nb_fc gets a share. *)
LEMMA SharesAre ==
    ASSUME NEW nb_fs \in Nat, NEW nb_fc \in Nat, nb_fc <= nb_fs
    PROVE  EachLcore(nb_fs, nb_fc) \in [0 .. nb_fc - 1 -> [stream_idx : Nat, stream_nb : Nat]]
<1> DEFINE per   == PerLcore(nb_fs, nb_fc)
           nb_lc == nb_fc - Extra(nb_fs, nb_fc)
<1>1. ASSUME NEW l \in 0 .. nb_fc - 1
      PROVE  EachLcore(nb_fs, nb_fc)[l] \in [stream_idx : Nat, stream_nb : Nat]
  <2>1. nb_fc \in Nat \ {0} /\ l \in Nat /\ l + 1 \in Nat /\ l < l + 1
    OBVIOUS
  <2>2. per \in Nat \ {0} /\ nb_lc \in Nat
    BY <2>1, PerAndExtra, SMT
  <2>3. /\ EachLcore(nb_fs, nb_fc)[l] = [stream_idx |-> EachLcore(nb_fs, nb_fc)[l].stream_idx,
                                        stream_nb |-> EachLcore(nb_fs, nb_fc)[l].stream_nb]
        /\ EachLcore(nb_fs, nb_fc)[l].stream_idx = First(l, nb_lc, per)
        /\ EachLcore(nb_fs, nb_fc)[l].stream_nb = Count(l, nb_lc, per)
    BY <2>1, ShareOf DEF EachLcore, Share
  <2> HIDE DEF per, nb_lc
  <2>4. First(l, nb_lc, per) \in Nat /\ Count(l, nb_lc, per) \in Nat
    BY <2>1, <2>2, Ordered
  <2> QED
    BY <2>3, <2>4
<1>2. /\ DOMAIN EachLcore(nb_fs, nb_fc) = 0 .. nb_fc - 1
      /\ EachLcore(nb_fs, nb_fc) = [l \in 0 .. nb_fc - 1 |-> EachLcore(nb_fs, nb_fc)[l]]
  BY DEF EachLcore
<1> QED
  BY <1>1, <1>2

(***************************************************************************)
(* setup_fwd_config_of_each_lcore gives no stream to two lcores.           *)
(***************************************************************************)
THEOREM NoStreamTwice ==
    ASSUME NEW nb_fs \in Nat, NEW nb_fc \in Nat \ {0}, nb_fc <= nb_fs,
           NEW l \in 0 .. nb_fc - 1, NEW m \in 0 .. nb_fc - 1, l # m,
           NEW s \in Nat, InShare(s, EachLcore(nb_fs, nb_fc)[l])
    PROVE  ~InShare(s, EachLcore(nb_fs, nb_fc)[m])
<1> DEFINE per   == PerLcore(nb_fs, nb_fc)
           nb_lc == nb_fc - Extra(nb_fs, nb_fc)
<1>1. per \in Nat \ {0} /\ nb_lc \in Nat
  BY PerAndExtra, SMT
<1>2. /\ EachLcore(nb_fs, nb_fc)[l].stream_idx = First(l, nb_lc, per)
      /\ EachLcore(nb_fs, nb_fc)[l].stream_nb = Count(l, nb_lc, per)
      /\ EachLcore(nb_fs, nb_fc)[m].stream_idx = First(m, nb_lc, per)
      /\ EachLcore(nb_fs, nb_fc)[m].stream_nb = Count(m, nb_lc, per)
  BY ShareOf
<1> HIDE DEF per, nb_lc
<1>3. l \in Nat /\ m \in Nat /\ (l < m \/ m < l)
  BY SMT
<1>4. CASE l < m
  <2>1. /\ First(l, nb_lc, per) + Count(l, nb_lc, per) <= First(m, nb_lc, per)
        /\ First(l, nb_lc, per) \in Nat /\ Count(l, nb_lc, per) \in Nat
        /\ First(m, nb_lc, per) \in Nat
    BY <1>1, <1>3, <1>4, Ordered
  <2>2. s < First(m, nb_lc, per)
    BY <1>2, <2>1, SMT DEF InShare
  <2> QED
    BY <1>2, <2>1, <2>2, SMT DEF InShare
<1>5. CASE m < l
  <2>1. /\ First(m, nb_lc, per) + Count(m, nb_lc, per) <= First(l, nb_lc, per)
        /\ First(m, nb_lc, per) \in Nat /\ Count(m, nb_lc, per) \in Nat
        /\ First(l, nb_lc, per) \in Nat
    BY <1>1, <1>3, <1>5, Ordered
  <2>2. First(l, nb_lc, per) <= s
    BY <1>2, <2>1, SMT DEF InShare
  <2> QED
    BY <1>2, <2>1, <2>2, SMT DEF InShare
<1> QED
  BY <1>3, <1>4, <1>5

(***************************************************************************)
(* It gives no lcore a stream that is not there.                           *)
(***************************************************************************)
THEOREM SharesThere ==
    ASSUME NEW nb_fs \in Nat, NEW nb_fc \in Nat \ {0}, nb_fc <= nb_fs,
           NEW l \in 0 .. nb_fc - 1
    PROVE  EachLcore(nb_fs, nb_fc)[l].stream_idx + EachLcore(nb_fs, nb_fc)[l].stream_nb
               <= nb_fs
<1> DEFINE per   == PerLcore(nb_fs, nb_fc)
           extra == Extra(nb_fs, nb_fc)
           nb_lc == nb_fc - extra
<1>1. per \in Nat \ {0} /\ extra \in Nat /\ nb_lc \in Nat /\ nb_lc + extra = nb_fc
  BY PerAndExtra, SMT
<1>2. nb_fs = nb_fc * per + extra
  BY PerAndExtra
<1>3. /\ EachLcore(nb_fs, nb_fc)[l].stream_idx = First(l, nb_lc, per)
      /\ EachLcore(nb_fs, nb_fc)[l].stream_nb = Count(l, nb_lc, per)
  BY ShareOf
<1> HIDE DEF per, extra, nb_lc
<1>4. First(nb_fc, nb_lc, per) = nb_fs
  <2>1. \A k, r, q \in Nat : First(k + r, k, q) = (k + r) * q + r
    BY ONLY Total
  <2>2. nb_lc \in Nat /\ extra \in Nat /\ per \in Nat
    BY <1>1
  <2>3. First(nb_lc + extra, nb_lc, per) = (nb_lc + extra) * per + extra
    BY <2>1, <2>2
  <2> QED
    BY <1>1, <1>2, <2>3
<1>5. l \in Nat /\ l < nb_fc
  BY SMT
<1>6. First(l, nb_lc, per) + Count(l, nb_lc, per) <= First(nb_fc, nb_lc, per)
  BY <1>1, <1>5, Ordered
<1> QED
  BY <1>3, <1>4, <1>6

(***************************************************************************)
(* It leaves no stream out.                                                *)
(***************************************************************************)
THEOREM EveryStreamHasLcore ==
    ASSUME NEW nb_fs \in Nat, NEW nb_fc \in Nat \ {0}, nb_fc <= nb_fs,
           NEW s \in 0 .. nb_fs - 1
    PROVE  \E l \in 0 .. nb_fc - 1 : InShare(s, EachLcore(nb_fs, nb_fc)[l])
<1> DEFINE per   == PerLcore(nb_fs, nb_fc)
           extra == Extra(nb_fs, nb_fc)
           nb_lc == nb_fc - extra
<1>1. per \in Nat \ {0} /\ extra \in Nat /\ nb_lc \in Nat /\ nb_lc + extra = nb_fc
  BY PerAndExtra, SMT
<1>2. nb_fs = nb_fc * per + extra
  BY PerAndExtra
<1>3. \A l \in 0 .. nb_fc - 1 :
         /\ EachLcore(nb_fs, nb_fc)[l].stream_idx = First(l, nb_lc, per)
         /\ EachLcore(nb_fs, nb_fc)[l].stream_nb = Count(l, nb_lc, per)
  BY ShareOf
<1> HIDE DEF per, extra, nb_lc
<1>4. nb_fs = nb_lc * per + extra * (per + 1)
  BY <1>1, <1>2, Total
<1>5. nb_lc * per \in Nat /\ extra * (per + 1) \in Nat /\ per + 1 \in Nat \ {0}
  <2>1. per + 1 \in Nat \ {0}
    BY <1>1
  <2> QED
    BY <1>1, <2>1, Products
<1>6. CASE s < nb_lc * per
  <2> DEFINE l == s \div per
  <2>1. l \in 0 .. nb_lc - 1
    BY <1>1, <1>6, Quotient
  <2>2. s % per \in 0 .. per - 1 /\ s = per * l + (s % per)
    BY <1>1, Division
  <2> HIDE DEF l
  <2>3. l \in 0 .. nb_fc - 1 /\ l < nb_lc
    BY <1>1, <2>1, SMT
  <2>4. First(l, nb_lc, per) = l * per /\ Count(l, nb_lc, per) = per
    BY <2>3 DEF First, Count
  <2>5. per * l = l * per /\ l * per \in Nat
    BY <1>1, <2>1, SMT
  <2>6. s \in l * per .. l * per + per - 1
    BY <1>1, <2>2, <2>5, SMT
  <2>7. InShare(s, EachLcore(nb_fs, nb_fc)[l])
    BY <1>3, <2>3, <2>4, <2>6 DEF InShare
  <2> QED
    BY <2>3, <2>7
<1>7. CASE ~(s < nb_lc * per)
  <2> DEFINE t == s - nb_lc * per
             e == t \div (per + 1)
             l == nb_lc + e
  <2>1. t \in Nat /\ t < extra * (per + 1) /\ s = nb_lc * per + t
    BY <1>4, <1>5, <1>7, SMT
  <2> HIDE DEF t
  <2>2. e \in 0 .. extra - 1
    BY <1>1, <1>5, <2>1, Quotient
  <2>3. t % (per + 1) \in 0 .. per /\ t = (per + 1) * e + (t % (per + 1))
    <3>1. t % (per + 1) \in 0 .. (per + 1) - 1 /\ t = (per + 1) * e + (t % (per + 1))
      BY <1>5, <2>1, Division
    <3>2. (per + 1) - 1 = per
      BY <1>1
    <3> QED
      BY <3>1, <3>2
  <2> HIDE DEF e
  <2>4. l \in 0 .. nb_fc - 1 /\ ~(l < nb_lc) /\ l - nb_lc = e
    BY <1>1, <2>2, SMT
  <2> HIDE DEF l
  <2>5. First(l, nb_lc, per) = nb_lc * per + e * (per + 1) /\ Count(l, nb_lc, per) = per + 1
    BY <2>4 DEF First, Count
  <2>6. (per + 1) * e = e * (per + 1) /\ e * (per + 1) \in Nat
    BY <1>1, <2>2, SMT
  <2>7. s \in First(l, nb_lc, per) .. First(l, nb_lc, per) + Count(l, nb_lc, per) - 1
    <3> DEFINE a == nb_lc * per
               b == e * (per + 1)
               r == t % (per + 1)
    <3>1. a \in Nat /\ b \in Nat /\ r \in 0 .. per /\ s = a + (b + r)
      BY <1>5, <2>1, <2>3, <2>6, SMT
    <3>2. First(l, nb_lc, per) = a + b /\ Count(l, nb_lc, per) = per + 1
      BY <2>5
    <3> HIDE DEF a, b, r
    <3> QED
      BY <1>1, <3>1, <3>2, SMT
  <2>8. InShare(s, EachLcore(nb_fs, nb_fc)[l])
    BY <1>3, <2>4, <2>7 DEF InShare
  <2> QED
    BY <2>4, <2>8
<1> QED
  BY <1>6, <1>7

-----------------------------------------------------------------------------
(* What the configurations ask for *)

LEMMA LesserIs ==
    ASSUME NEW a \in Nat, NEW b \in Nat
    PROVE  Lesser(a, b) \in 0 .. a /\ Lesser(a, b) \in 0 .. b
BY DEF Lesser

(* No more lcores than there are, nor than there are streams. *)
LEMMA ConfigIs ==
    ASSUME NEW eng, NEW n \in Nat, NEW lc \in Nat, NEW rx \in Nat, NEW tx \in Nat
    PROVE  LET c == ConfigOf(eng, n, lc, rx, tx)
           IN  /\ c \in [nb_fwd_lcores : 0 .. lc, nb_fwd_ports : Nat, nb_fwd_streams : Nat]
               /\ c.nb_fwd_ports = n
               /\ c.nb_fwd_lcores <= c.nb_fwd_streams
<1>1. CASE eng = "icmpecho"
  <2>1. rx * n \in Nat /\ tx * n \in Nat
    BY Products
  <2>2. Lesser(lc, tx * n) \in 0 .. lc /\ Lesser(lc, tx * n) \in Nat
    BY <2>1, LesserIs
  <2>3. /\ Lesser(Lesser(lc, tx * n), rx * n) \in 0 .. Lesser(lc, tx * n)
        /\ Lesser(Lesser(lc, tx * n), rx * n) \in 0 .. rx * n
    BY <2>1, <2>2, LesserIs
  <2>4. Lesser(Lesser(lc, tx * n), rx * n) \in 0 .. lc
    BY <2>2, <2>3
  <2>5. ConfigOf(eng, n, lc, rx, tx) = Config(Lesser(Lesser(lc, tx * n), rx * n), n, rx * n)
    BY <1>1 DEF ConfigOf, IcmpConfig
  <2> QED
    BY <2>1, <2>3, <2>4, <2>5 DEF Config
<1>2. CASE eng # "icmpecho" /\ Multi(rx, tx)
  <2> DEFINE q == Lesser(rx, tx)
  <2>1. q \in Nat
    BY LesserIs
  <2>2. ConfigOf(eng, n, lc, rx, tx) = Config(Lesser(lc, q * n), n, q * n)
    BY <1>2 DEF ConfigOf, RssConfig
  <2> HIDE DEF q
  <2>3. q * n \in Nat
    BY <2>1, Products
  <2>4. Lesser(lc, q * n) \in 0 .. lc /\ Lesser(lc, q * n) \in 0 .. q * n
    BY <2>3, LesserIs
  <2> QED
    BY <2>2, <2>3, <2>4 DEF Config
<1>3. CASE eng # "icmpecho" /\ ~Multi(rx, tx)
  <2>1. ConfigOf(eng, n, lc, rx, tx) = Config(Lesser(lc, n), n, n)
    BY <1>3 DEF ConfigOf, SimpleConfig
  <2>2. Lesser(lc, n) \in 0 .. lc /\ Lesser(lc, n) \in 0 .. n
    BY LesserIs
  <2> QED
    BY <2>1, <2>2 DEF Config
<1> QED
  BY <1>1, <1>2, <1>3

LEMMA PeerFor ==
    ASSUME NEW n \in Nat, NEW i \in 0 .. n - 1
    PROVE  /\ SimplePeer("loop", i, n) = i
           /\ TopologyTxPort("loop", i, n) = i
           /\ SimplePeer("chained", i, n) = (i + 1) % n
           /\ TopologyTxPort("chained", i, n) = (i + 1) % n
           /\ SimplePeer("paired", i, n) = IF i = 0 /\ n % 2 = 1 THEN n - 1
                                           ELSE IF i % 2 = 0 THEN (i + 1) % n ELSE i - 1
           /\ TopologyTxPort("paired", i, n) = IF i % 2 = 1 THEN i - 1
                                               ELSE IF i + 1 < n THEN i + 1 ELSE i
<1>1. SimplePeer("loop", i, n) = i
  BY DEF SimplePeer
<1>2. TopologyTxPort("loop", i, n) = i
  BY DEF TopologyTxPort
<1>3. SimplePeer("chained", i, n) = (i + 1) % n
  BY DEF SimplePeer
<1>4. TopologyTxPort("chained", i, n) = (i + 1) % n
  BY DEF TopologyTxPort
<1>5. SimplePeer("paired", i, n) = IF i = 0 /\ n % 2 = 1 THEN n - 1
                                   ELSE IF i % 2 = 0 THEN (i + 1) % n ELSE i - 1
  BY DEF SimplePeer
<1>6. TopologyTxPort("paired", i, n) = IF i % 2 = 1 THEN i - 1
                                       ELSE IF i + 1 < n THEN i + 1 ELSE i
  BY DEF TopologyTxPort
<1> QED
  BY <1>1, <1>2, <1>3, <1>4, <1>5, <1>6

LEMMA PeerIs ==
    ASSUME NEW topology \in {"paired", "chained", "loop"}, NEW n \in Nat, NEW i \in 0 .. n - 1
    PROVE  /\ SimplePeer(topology, i, n) \in 0 .. n - 1
           /\ TopologyTxPort(topology, i, n) \in 0 .. n - 1
<1>1. (i + 1) % n \in 0 .. n - 1
  BY ModNext
<1>2. i % 2 # 0 => i - 1 \in 0 .. n - 1
  BY SMT
<1>3. i % 2 = 1 => i - 1 \in 0 .. n - 1
  BY SMT
<1>4. n - 1 \in 0 .. n - 1 /\ (i + 1 < n => i + 1 \in 0 .. n - 1)
  OBVIOUS
<1>5. i \in 0 .. n - 1
  OBVIOUS
<1>6. CASE topology = "loop"
  BY <1>5, <1>6, PeerFor
<1>7. CASE topology = "chained"
  BY <1>1, <1>7, PeerFor
<1>8. CASE topology = "paired"
  <2>1. SimplePeer("paired", i, n) = IF i = 0 /\ n % 2 = 1 THEN n - 1
                                     ELSE IF i % 2 = 0 THEN (i + 1) % n ELSE i - 1
    BY PeerFor
  <2>2. TopologyTxPort("paired", i, n) = IF i % 2 = 1 THEN i - 1
                                         ELSE IF i + 1 < n THEN i + 1 ELSE i
    BY PeerFor
  <2>3. SimplePeer("paired", i, n) \in 0 .. n - 1
    BY <1>1, <1>2, <1>4, <2>1
  <2>4. TopologyTxPort("paired", i, n) \in 0 .. n - 1
    BY <1>3, <1>4, <1>5, <2>2
  <2> QED
    BY <1>8, <2>3, <2>4
<1> QED
  BY <1>6, <1>7, <1>8

(* Two positions do not send to one, but for an odd number of paired ports *)
(* in the simple configuration.                                            *)
LEMMA PeersDiffer ==
    ASSUME NEW topology \in {"paired", "chained", "loop"}, NEW n \in Nat,
           NEW i \in 0 .. n - 1, NEW j \in 0 .. n - 1, i # j
    PROVE  /\ \/ topology = "paired" /\ n % 2 = 1
              \/ SimplePeer(topology, i, n) # SimplePeer(topology, j, n)
           /\ TopologyTxPort(topology, i, n) # TopologyTxPort(topology, j, n)
<1>1. /\ (i + 1) % n = IF i + 1 < n THEN i + 1 ELSE 0
      /\ (j + 1) % n = IF j + 1 < n THEN j + 1 ELSE 0
  BY ModNext
<1>2. CASE topology = "loop"
  BY <1>2 DEF SimplePeer, TopologyTxPort
<1>3. CASE topology = "chained"
  <2>1. (i + 1) % n # (j + 1) % n
    BY <1>1
  <2> QED
    BY <1>3, <2>1 DEF SimplePeer, TopologyTxPort
<1>4. CASE topology = "paired"
  <2>1. /\ TopologyTxPort(topology, i, n) = IF i % 2 = 1 THEN i - 1
                                            ELSE IF i + 1 < n THEN i + 1 ELSE i
        /\ TopologyTxPort(topology, j, n) = IF j % 2 = 1 THEN j - 1
                                            ELSE IF j + 1 < n THEN j + 1 ELSE j
    BY <1>4 DEF TopologyTxPort
  <2>2. TopologyTxPort(topology, i, n) # TopologyTxPort(topology, j, n)
    BY <2>1, SMT
  <2>3. ASSUME n % 2 # 1 PROVE SimplePeer(topology, i, n) # SimplePeer(topology, j, n)
    <3>1. /\ SimplePeer(topology, i, n) = IF i % 2 = 0 THEN (i + 1) % n ELSE i - 1
          /\ SimplePeer(topology, j, n) = IF j % 2 = 0 THEN (j + 1) % n ELSE j - 1
      BY <1>4, <2>3 DEF SimplePeer
    <3>2. n % 2 = 0
      BY <2>3, SMT
    <3>3. /\ i % 2 = 0 => i + 1 < n
          /\ j % 2 = 0 => j + 1 < n
      BY <3>2, SMT
    <3>4. /\ SimplePeer(topology, i, n) = IF i % 2 = 0 THEN i + 1 ELSE i - 1
          /\ SimplePeer(topology, j, n) = IF j % 2 = 0 THEN j + 1 ELSE j - 1
      BY <1>1, <3>1, <3>3
    <3> QED
      BY <3>4, SMT
  <2> QED
    BY <1>4, <2>2, <2>3
<1> QED
  BY <1>2, <1>3, <1>4

-----------------------------------------------------------------------------
(* The streams *)

Topology == {"paired", "chained", "loop"}

(* Each of the configurations has its own. *)
LEMMA EachConfig ==
    ASSUME NEW eng, NEW topology, NEW ids, NEW n, NEW lc, NEW rx, NEW tx
    PROVE  /\ eng = "icmpecho" =>
                 /\ ConfigOf(eng, n, lc, rx, tx) = IcmpConfig(n, lc, rx, tx)
                 /\ StreamsOf(eng, topology, ids, n, rx, tx) = IcmpStreams(ids, n, rx)
           /\ eng # "icmpecho" /\ Multi(rx, tx) =>
                 /\ ConfigOf(eng, n, lc, rx, tx) = RssConfig(n, lc, Lesser(rx, tx))
                 /\ StreamsOf(eng, topology, ids, n, rx, tx)
                        = RssStreams(topology, ids, n, Lesser(rx, tx))
           /\ eng # "icmpecho" /\ ~Multi(rx, tx) =>
                 /\ ConfigOf(eng, n, lc, rx, tx) = SimpleConfig(n, lc)
                 /\ StreamsOf(eng, topology, ids, n, rx, tx) = SimpleStreams(topology, ids, n)
<1>1. ASSUME eng = "icmpecho"
      PROVE  /\ ConfigOf(eng, n, lc, rx, tx) = IcmpConfig(n, lc, rx, tx)
             /\ StreamsOf(eng, topology, ids, n, rx, tx) = IcmpStreams(ids, n, rx)
  BY <1>1 DEF ConfigOf, StreamsOf
<1>2. ASSUME eng # "icmpecho", Multi(rx, tx)
      PROVE  /\ ConfigOf(eng, n, lc, rx, tx) = RssConfig(n, lc, Lesser(rx, tx))
             /\ StreamsOf(eng, topology, ids, n, rx, tx)
                    = RssStreams(topology, ids, n, Lesser(rx, tx))
  BY <1>2 DEF ConfigOf, StreamsOf
<1>3. ASSUME eng # "icmpecho", ~Multi(rx, tx)
      PROVE  /\ ConfigOf(eng, n, lc, rx, tx) = SimpleConfig(n, lc)
             /\ StreamsOf(eng, topology, ids, n, rx, tx) = SimpleStreams(topology, ids, n)
  BY <1>3 DEF ConfigOf, StreamsOf
<1> QED
  BY <1>1, <1>2, <1>3

(* A stream s of queues q for each of n positions. *)
LEMMA QueueOf ==
    ASSUME NEW n \in Nat, NEW q \in Nat, NEW s \in 0 .. q * n - 1
    PROVE  /\ q \in Nat \ {0}
           /\ s \div q \in 0 .. n - 1 /\ s % q \in 0 .. q - 1
           /\ s = q * (s \div q) + (s % q)
<1>1. q * n \in Nat /\ q * n = n * q
  BY SMT
<1>2. s \in Nat /\ s < n * q
  BY <1>1
<1>3. q # 0
  <2>1. ASSUME q = 0 PROVE n * q = 0
    BY <2>1, SMT
  <2> QED
    BY <1>2, <2>1
<1>4. s \div q \in 0 .. n - 1
  BY <1>2, <1>3, Quotient
<1>5. s % q \in 0 .. q - 1 /\ s = q * (s \div q) + (s % q)
  BY <1>2, <1>3, Division
<1> QED
  BY <1>3, <1>4, <1>5

(* The ports at the first n positions *)
Listed(ids, n) == {ids[i] : i \in 0 .. n - 1}

(* Streams are as many as the configuration says, between the ports listed. *)
LEMMA StreamsAre ==
    ASSUME NEW eng, NEW topology \in Topology, NEW ids, NEW n \in Nat, NEW lc \in Nat,
           NEW rx \in Nat, NEW tx \in Nat
    PROVE  /\ StreamsOf(eng, topology, ids, n, rx, tx)
                 \in [0 .. ConfigOf(eng, n, lc, rx, tx).nb_fwd_streams - 1 ->
                        [rx_port : Listed(ids, n), rx_queue : Nat,
                         tx_port : Listed(ids, n), tx_queue : Nat]]
           /\ \A s \in 0 .. ConfigOf(eng, n, lc, rx, tx).nb_fwd_streams - 1 :
                 /\ rx > 0 => StreamsOf(eng, topology, ids, n, rx, tx)[s].rx_queue < rx
                 /\ eng = "icmpecho"
                       => StreamsOf(eng, topology, ids, n, rx, tx)[s].tx_queue < rx
                 /\ eng # "icmpecho" /\ tx > 0
                       => StreamsOf(eng, topology, ids, n, rx, tx)[s].tx_queue < tx
<1> DEFINE listed == Listed(ids, n)
<1>1. CASE eng = "icmpecho"
  <2>1. ConfigOf(eng, n, lc, rx, tx).nb_fwd_streams = rx * n
    <3>1. ConfigOf(eng, n, lc, rx, tx) = IcmpConfig(n, lc, rx, tx)
      BY <1>1, EachConfig
    <3> QED
      BY <3>1 DEF IcmpConfig, Config
  <2>2. StreamsOf(eng, topology, ids, n, rx, tx) = IcmpStreams(ids, n, rx)
    BY <1>1, EachConfig
  <2>3. \A s \in 0 .. rx * n - 1 :
           /\ s \div rx \in 0 .. n - 1 /\ s % rx \in Nat /\ s % rx < rx
           /\ ids[s \div rx] \in listed
    <3> USE DEF Listed
    <3>1. TAKE s \in 0 .. rx * n - 1
    <3>2. rx \in Nat \ {0} /\ s \div rx \in 0 .. n - 1 /\ s % rx \in 0 .. rx - 1
      BY QueueOf
    <3> QED
      BY <3>2
  <2> HIDE DEF listed
  <2>4. IcmpStreams(ids, n, rx) \in [0 .. rx * n - 1 -> [rx_port : listed, rx_queue : Nat,
                                                        tx_port : listed, tx_queue : Nat]]
    BY <2>3 DEF IcmpStreams, Stream
  <2>5. \A s \in 0 .. rx * n - 1 : /\ IcmpStreams(ids, n, rx)[s].rx_queue = s % rx
                                   /\ IcmpStreams(ids, n, rx)[s].tx_queue = s % rx
    BY DEF IcmpStreams, Stream
  <2> QED
    BY <1>1, <2>1, <2>2, <2>3, <2>4, <2>5 DEF listed
<1>2. CASE eng # "icmpecho" /\ Multi(rx, tx)
  <2> DEFINE q == Lesser(rx, tx)
  <2>1. ConfigOf(eng, n, lc, rx, tx).nb_fwd_streams = q * n
    BY <1>2, EachConfig DEF RssConfig, Config
  <2>2. StreamsOf(eng, topology, ids, n, rx, tx) = RssStreams(topology, ids, n, q)
    BY <1>2, EachConfig
  <2>3. q \in Nat /\ q <= rx /\ q <= tx
    BY DEF Lesser
  <2> HIDE DEF q
  <2>4. \A s \in 0 .. q * n - 1 : s \div q \in 0 .. n - 1 /\ s % q \in Nat /\ s % q < q
    <3>1. TAKE s \in 0 .. q * n - 1
    <3>2. q \in Nat \ {0} /\ s \div q \in 0 .. n - 1 /\ s % q \in 0 .. q - 1
      BY <2>3, QueueOf
    <3> QED
      BY <3>2
  <2>5. \A s \in 0 .. q * n - 1 : TopologyTxPort(topology, s \div q, n) \in 0 .. n - 1
    BY <2>4, PeerIs DEF Topology
  <2>6. \A s \in 0 .. q * n - 1 : /\ ids[s \div q] \in listed
                                  /\ ids[TopologyTxPort(topology, s \div q, n)] \in listed
    BY <2>4, <2>5 DEF Listed
  <2> HIDE DEF listed
  <2>7. RssStreams(topology, ids, n, q) \in [0 .. q * n - 1 ->
            [rx_port : listed, rx_queue : Nat, tx_port : listed, tx_queue : Nat]]
    BY <2>4, <2>6 DEF RssStreams, Stream
  <2>8. \A s \in 0 .. q * n - 1 : /\ RssStreams(topology, ids, n, q)[s].rx_queue = s % q
                                  /\ RssStreams(topology, ids, n, q)[s].tx_queue = s % q
    BY DEF RssStreams, Stream
  <2>9. \A s \in 0 .. q * n - 1 : s % q < rx /\ s % q < tx
    BY <2>3, <2>4
  <2> QED
    BY <1>2, <2>1, <2>2, <2>7, <2>8, <2>9 DEF listed
<1>3. CASE eng # "icmpecho" /\ ~Multi(rx, tx)
  <2>1. ConfigOf(eng, n, lc, rx, tx).nb_fwd_streams = n
    <3>1. ConfigOf(eng, n, lc, rx, tx) = SimpleConfig(n, lc)
      BY <1>3, EachConfig
    <3> QED
      BY <3>1 DEF SimpleConfig, Config
  <2>2. StreamsOf(eng, topology, ids, n, rx, tx) = SimpleStreams(topology, ids, n)
    BY <1>3, EachConfig
  <2>3. \A s \in 0 .. n - 1 : /\ ids[s] \in listed
                              /\ ids[SimplePeer(topology, s, n)] \in listed
    BY PeerIs DEF Topology, Listed
  <2> HIDE DEF listed
  <2>4. SimpleStreams(topology, ids, n) \in [0 .. n - 1 ->
            [rx_port : listed, rx_queue : Nat, tx_port : listed, tx_queue : Nat]]
    BY <2>3 DEF SimpleStreams, Stream
  <2>5. \A s \in 0 .. n - 1 : /\ SimpleStreams(topology, ids, n)[s].rx_queue = 0
                              /\ SimpleStreams(topology, ids, n)[s].tx_queue = 0
    BY DEF SimpleStreams, Stream
  <2> QED
    BY <1>3, <2>1, <2>2, <2>4, <2>5 DEF listed
<1> QED
  BY <1>1, <1>2, <1>3

(* Two streams with one queue number are of two positions. *)
LEMMA QueuesDiffer ==
    ASSUME NEW n \in Nat, NEW q \in Nat, NEW s \in 0 .. q * n - 1, NEW t \in 0 .. q * n - 1,
           s # t, s % q = t % q
    PROVE  s \div q # t \div q
<1>1. s = q * (s \div q) + (s % q) /\ t = q * (t \div q) + (t % q)
  BY QueueOf
<1> QED
  BY <1>1

(* The first n ports listed are distinct. *)
Apart(ids, n) == \A i, j \in 0 .. n - 1 : ids[i] = ids[j] => i = j

(* Streams s and t of f receive from two queues, and send to two; but for  *)
(* an odd number n of paired ports.                                        *)
TwoQueues(f, topology, n, nb_fwd_streams, s, t) ==
    /\ <<f[s].rx_port, f[s].rx_queue>> # <<f[t].rx_port, f[t].rx_queue>>
    /\ \/ topology = "paired" /\ n % 2 = 1 /\ nb_fwd_streams = n
       \/ <<f[s].tx_port, f[s].tx_queue>> # <<f[t].tx_port, f[t].tx_queue>>

(***************************************************************************)
(* fwd_config_setup has no two streams receive from one queue of a port;   *)
(* nor send to one, but for an odd number of paired ports. The ports       *)
(* listed are distinct.                                                    *)
(***************************************************************************)
THEOREM OneStreamForEachQueue ==
    ASSUME NEW eng, NEW topology \in Topology, NEW ids, NEW n \in Nat, NEW lc \in Nat,
           NEW rx \in Nat, NEW tx \in Nat, Apart(ids, n),
           NEW s \in 0 .. ConfigOf(eng, n, lc, rx, tx).nb_fwd_streams - 1,
           NEW t \in 0 .. ConfigOf(eng, n, lc, rx, tx).nb_fwd_streams - 1, s # t
    PROVE  TwoQueues(StreamsOf(eng, topology, ids, n, rx, tx), topology, n,
                     ConfigOf(eng, n, lc, rx, tx).nb_fwd_streams, s, t)
<1> DEFINE f == StreamsOf(eng, topology, ids, n, rx, tx)
<1> SUFFICES /\ <<f[s].rx_port, f[s].rx_queue>> # <<f[t].rx_port, f[t].rx_queue>>
             /\ \/ /\ topology = "paired" /\ n % 2 = 1
                   /\ ConfigOf(eng, n, lc, rx, tx).nb_fwd_streams = n
                \/ <<f[s].tx_port, f[s].tx_queue>> # <<f[t].tx_port, f[t].tx_queue>>
  BY DEF TwoQueues
<1>1. CASE eng = "icmpecho"
  <2>1. ConfigOf(eng, n, lc, rx, tx) = IcmpConfig(n, lc, rx, tx)
    BY <1>1, EachConfig
  <2>2. s \in 0 .. rx * n - 1 /\ t \in 0 .. rx * n - 1
    BY <2>1 DEF IcmpConfig, Config
  <2>3. f = IcmpStreams(ids, n, rx)
    BY <1>1, EachConfig
  <2>4. /\ f[s] = Stream(ids[s \div rx], s % rx, ids[s \div rx], s % rx)
        /\ f[t] = Stream(ids[t \div rx], t % rx, ids[t \div rx], t % rx)
    BY <2>2, <2>3 DEF IcmpStreams
  <2>5. ASSUME s % rx = t % rx PROVE ids[s \div rx] # ids[t \div rx]
    <3>1. s \div rx # t \div rx
      BY <2>2, <2>5, QueuesDiffer
    <3>2. s \div rx \in 0 .. n - 1 /\ t \div rx \in 0 .. n - 1
      BY <2>2, QueueOf
    <3> QED
      BY <3>1, <3>2 DEF Apart
  <2> QED
    BY <2>4, <2>5 DEF Stream
<1>2. CASE eng # "icmpecho" /\ Multi(rx, tx)
  <2> DEFINE q == Lesser(rx, tx)
  <2>1. ConfigOf(eng, n, lc, rx, tx) = RssConfig(n, lc, q)
    BY <1>2, EachConfig
  <2>2. s \in 0 .. q * n - 1 /\ t \in 0 .. q * n - 1
    BY <2>1 DEF RssConfig, Config
  <2>3. f = RssStreams(topology, ids, n, q)
    BY <1>2, EachConfig
  <2>4. q \in Nat
    BY DEF Lesser
  <2> HIDE DEF q
  <2>5. \A r \in 0 .. q * n - 1 :
           f[r] = Stream(ids[r \div q], r % q, ids[TopologyTxPort(topology, r \div q, n)], r % q)
    BY <2>3 DEF RssStreams
  <2>6. ASSUME s % q = t % q
        PROVE  /\ ids[s \div q] # ids[t \div q]
               /\ ids[TopologyTxPort(topology, s \div q, n)]
                      # ids[TopologyTxPort(topology, t \div q, n)]
    <3> DEFINE i == s \div q
               j == t \div q
    <3>1. i # j
      BY <2>2, <2>4, <2>6, QueuesDiffer
    <3>2. i \in 0 .. n - 1 /\ j \in 0 .. n - 1
      BY <2>2, <2>4, QueueOf
    <3> HIDE DEF i, j
    <3>3. /\ TopologyTxPort(topology, i, n) # TopologyTxPort(topology, j, n)
          /\ TopologyTxPort(topology, i, n) \in 0 .. n - 1
          /\ TopologyTxPort(topology, j, n) \in 0 .. n - 1
      BY <3>1, <3>2, PeerIs, PeersDiffer DEF Topology
    <3> QED
      BY <3>1, <3>2, <3>3 DEF Apart, i, j
  <2>7. /\ f[s] = Stream(ids[s \div q], s % q, ids[TopologyTxPort(topology, s \div q, n)], s % q)
        /\ f[t] = Stream(ids[t \div q], t % q, ids[TopologyTxPort(topology, t \div q, n)], t % q)
    BY <2>2, <2>5
  <2> QED
    BY <2>6, <2>7 DEF Stream
<1>3. CASE eng # "icmpecho" /\ ~Multi(rx, tx)
  <2>1. ConfigOf(eng, n, lc, rx, tx) = SimpleConfig(n, lc)
    BY <1>3, EachConfig
  <2>2. ConfigOf(eng, n, lc, rx, tx).nb_fwd_streams = n
    BY <2>1 DEF SimpleConfig, Config
  <2>3. f = SimpleStreams(topology, ids, n)
    BY <1>3, EachConfig
  <2>4. s \in 0 .. n - 1 /\ t \in 0 .. n - 1
    BY <2>2
  <2>5. /\ f[s] = Stream(ids[s], 0, ids[SimplePeer(topology, s, n)], 0)
        /\ f[t] = Stream(ids[t], 0, ids[SimplePeer(topology, t, n)], 0)
    BY <2>3, <2>4 DEF SimpleStreams
  <2>6. ids[s] # ids[t]
    BY <2>4 DEF Apart
  <2>7. ASSUME ~(topology = "paired" /\ n % 2 = 1)
        PROVE  ids[SimplePeer(topology, s, n)] # ids[SimplePeer(topology, t, n)]
    <3>1. /\ SimplePeer(topology, s, n) # SimplePeer(topology, t, n)
          /\ SimplePeer(topology, s, n) \in 0 .. n - 1
          /\ SimplePeer(topology, t, n) \in 0 .. n - 1
      BY <2>4, <2>7, PeerIs, PeersDiffer DEF Topology
    <3> QED
      BY <3>1 DEF Apart
  <2> QED
    BY <2>2, <2>5, <2>6, <2>7 DEF Stream
<1> QED
  BY <1>1, <1>2, <1>3

-----------------------------------------------------------------------------
(* Types *)

StreamType == [rx_port : Port, rx_queue : Nat, tx_port : Port, tx_queue : Nat]
ConfigType == [nb_fwd_lcores : 0 .. nb_lcores, nb_fwd_ports : Nat, nb_fwd_streams : Nat]

PortTypes ==
    /\ enabled \in SUBSET Port
    /\ need_reconfig \in SUBSET Port /\ need_reconfig_queues \in SUBSET Port
    /\ port_status \in [Port -> {"stopped", "started", "closed", "handling"}]
    /\ queues \in [Port -> [rx : Nat, tx : Nat]]

SocketTypes == socket_id \in [Port -> Sockets \cup {0}]

ListTypes ==
    /\ fwd_ports_ids \in [Port -> Port]
    /\ nb_cfg_ports \in 0 .. Cardinality(Port) /\ nb_fwd_ports \in 0 .. Cardinality(Port)

NumTypes ==
    /\ nb_cfg_lcores \in 0 .. nb_lcores /\ nb_fwd_lcores \in 0 .. nb_lcores
    /\ nb_rxq \in Nat /\ nb_txq \in Nat
    /\ cur_fwd_eng \in Engines
    /\ port_topology \in Topologies

(* The array of streams begins at 0. *)
CfgTypes ==
    /\ cur_fwd_config \in ConfigType
    /\ fwd_eng \in Engines
    /\ ArraySize \in Nat
    /\ fwd_streams \in [0 .. ArraySize - 1 -> StreamType]
    /\ fwd_lcores \in [Lcore -> ShareType]

LcoreTypes ==
    /\ view \in [Lcore -> ShareType]
    /\ stopped \in SUBSET Lcore /\ running \in SUBSET Lcore
    /\ freed \in SUBSET Lcore

(* Ports wait to be started only inside start_port. *)
CmdTypes ==
    /\ test_done \in {0, 1}
    /\ cmd \in {"prompt", "start", "first", "stop", "exit"}
    /\ todo \in SUBSET enabled
    /\ cmd # "start" => todo = {}
    /\ resized \in BOOLEAN /\ gap \in BOOLEAN /\ changes \in 0 .. MaxChanges
    /\ process \in {"run", "crashed", "rte_exit", "exited"}

TypeInv == /\ PortTypes /\ SocketTypes /\ ListTypes /\ NumTypes
           /\ CfgTypes /\ LcoreTypes /\ CmdTypes

LEMMA TypeInvIs == TypeInv => TypeOK
<1> SUFFICES ASSUME TypeInv PROVE TypeOK
  OBVIOUS
<1>1. \A s \in DOMAIN fwd_streams :
          fwd_streams[s] \in [rx_port : Port, rx_queue : Nat, tx_port : Port, tx_queue : Nat]
  BY DEF TypeInv, CfgTypes, StreamType
<1>2. /\ {nb_cfg_ports, nb_fwd_ports} \subseteq 0 .. Cardinality(Port)
      /\ {nb_cfg_lcores, nb_fwd_lcores} \subseteq 0 .. nb_lcores
      /\ {nb_rxq, nb_txq} \subseteq Nat
      /\ {cur_fwd_eng, fwd_eng} \subseteq Engines
  BY DEF TypeInv, ListTypes, NumTypes, CfgTypes
<1> QED
  BY <1>1, <1>2 DEF TypeInv, PortTypes, SocketTypes, ListTypes, NumTypes, CfgTypes, LcoreTypes,
                    CmdTypes, TypeOK, ConfigType

-----------------------------------------------------------------------------
(* Facts about the constants and the lists *)

LEMMA Constants ==
    /\ Cardinality(Port) \in Nat \ {0} /\ Port = 0 .. Cardinality(Port) - 1
    /\ IsFiniteSet(Port) /\ 0 \in Port
    /\ nb_lcores \in Nat \ {0} /\ 0 \in Lcore /\ MaxQueues \in Nat \ {0} /\ MaxChanges \in Nat
    /\ "io" \in Engines /\ Topologies \subseteq Topology
    /\ QueueNums \subseteq Nat
<1>1. IsFiniteSet(Port) /\ Port # {} /\ Port = 0 .. Cardinality(Port) - 1
  BY SessionAssumption
<1>2. Cardinality(Port) \in Nat /\ Cardinality(Port) # 0
  BY <1>1, FS_CardinalityType, FS_EmptySet
<1>3. 0 \in Port
  BY <1>1, <1>2
<1> QED
  BY <1>1, <1>2, <1>3, SessionAssumption DEF Topology, Lcore

(* There are no more of some ports than of all. *)
LEMMA PortsIn ==
    ASSUME NEW P \in SUBSET Port
    PROVE  IsFiniteSet(P) /\ Cardinality(P) \in 0 .. Cardinality(Port)
           /\ (Cardinality(P) = Cardinality(Port) => P = Port)
<1>1. IsFiniteSet(P) /\ Cardinality(P) <= Cardinality(Port)
      /\ (Cardinality(Port) = Cardinality(P) => Port = P)
  BY Constants, FS_Subset
<1>2. Cardinality(P) \in Nat
  BY <1>1, FS_CardinalityType
<1> QED
  BY <1>1, <1>2, Constants

(* A position in a list of ports is a port id itself. *)
LEMMA ListedPorts ==
    ASSUME NEW ids \in [Port -> Port], NEW n \in 0 .. Cardinality(Port)
    PROVE  Listed(ids, n) \subseteq Port
<1>1. 0 .. n - 1 \subseteq Port
  BY Constants
<1> QED
  BY <1>1 DEF Listed

(* A list of distinct ports has no more of them than there are. *)
LEMMA ApartFits ==
    ASSUME NEW S \in SUBSET Port, NEW n \in Nat, NEW ids,
           \A i \in 0 .. n - 1 : ids[i] \in S,
           Apart(ids, n)
    PROVE  n <= Cardinality(S)
<1> DEFINE f == [i \in 0 .. n - 1 |-> ids[i]]
<1>1. f \in [0 .. n - 1 -> S]
  OBVIOUS
<1>2. \A i, j \in 0 .. n - 1 : f[i] = f[j] => i = j
  BY DEF Apart
<1>3. f \in Injection(0 .. n - 1, S)
  <2> HIDE DEF f
  <2> QED
    BY <1>1, <1>2, Fun_IsInj
<1>4. IsFiniteSet(S)
  BY PortsIn
<1>5. Cardinality(0 .. n - 1) <= Cardinality(S)
  <2> HIDE DEF f
  <2> QED
    BY <1>3, <1>4, FS_Injection
<1> QED
  BY <1>5, SizeIs

LEMMA ListFits ==
    ASSUME NEW list \in PortLists
    PROVE  /\ list \in Seq(Port) /\ Len(list) \in 0 .. Cardinality(Port)
           /\ \A i, j \in 1 .. Len(list) : list[i] = list[j] => i = j
<1>1. list \in Seq(Port) /\ \A i, j \in 1 .. Len(list) : list[i] = list[j] => i = j
  BY SessionAssumption
<1>2. Len(list) \in Nat
  BY <1>1
<1> DEFINE ids == [i \in 0 .. Len(list) - 1 |-> list[i + 1]]
<1>3. \A i \in 0 .. Len(list) - 1 : i + 1 \in 1 .. Len(list)
  BY <1>2
<1>4. \A i \in 0 .. Len(list) - 1 : ids[i] \in Port
  BY <1>1, <1>3
<1>5. Apart(ids, Len(list))
  <2> SUFFICES ASSUME NEW i \in 0 .. Len(list) - 1, NEW j \in 0 .. Len(list) - 1,
                      list[i + 1] = list[j + 1]
               PROVE  i = j
    BY DEF Apart
  <2>1. i + 1 = j + 1
    BY <1>1, <1>3
  <2> QED
    BY <1>2, <2>1
<1> HIDE DEF ids
<1>6. Len(list) <= Cardinality(Port)
  BY <1>2, <1>4, <1>5, ApartFits
<1> QED
  BY <1>1, <1>2, <1>6, Constants

LEMMA TypeInit == Init => TypeInv
<1> SUFFICES ASSUME Init PROVE TypeInv
  OBVIOUS
<1> DEFINE n == Cardinality(enabled)
<1>1. enabled \in SUBSET Port
  BY SessionAssumption DEF Init
<1>2. n \in 0 .. Cardinality(Port) /\ n \in Nat
  BY <1>1, PortsIn, Constants
<1>3. PortTypes
  BY <1>1 DEF Init, PortTypes, NoQueues
<1>4. SocketTypes
  BY DEF Init, SocketTypes
<1> HIDE DEF n
<1>5. fwd_ports_ids \in [Port -> Port]
  BY Constants DEF Init
<1>6. ListTypes
  BY <1>2, <1>5 DEF Init, ListTypes, n
<1>7. NumTypes
  BY Constants DEF Init, NumTypes
<1>8. CfgTypes
  <2> DEFINE c == ConfigOf("io", n, 1, 1, 1)
             listed == Listed(fwd_ports_ids, n)
  <2>1. cur_fwd_config = c /\ fwd_eng = "io"
        /\ fwd_streams = StreamsOf("io", port_topology, fwd_ports_ids, n, 1, 1)
        /\ port_topology \in Topology
    BY Constants DEF Init, n
  <2>2. /\ c \in [nb_fwd_lcores : 0 .. 1, nb_fwd_ports : Nat, nb_fwd_streams : Nat]
    BY <1>2, ConfigIs
  <2>3. fwd_streams \in [0 .. c.nb_fwd_streams - 1 -> [rx_port : listed, rx_queue : Nat,
                                                       tx_port : listed, tx_queue : Nat]]
    <3>1. 1 \in Nat
      OBVIOUS
    <3>2. StreamsOf("io", port_topology, fwd_ports_ids, n, 1, 1)
             \in [0 .. ConfigOf("io", n, 1, 1, 1).nb_fwd_streams - 1 ->
                    [rx_port : Listed(fwd_ports_ids, n), rx_queue : Nat,
                     tx_port : Listed(fwd_ports_ids, n), tx_queue : Nat]]
      BY <1>2, <2>1, <3>1, StreamsAre
    <3> QED
      BY <2>1, <3>2
  <2>4. listed \subseteq Port
    BY <1>2, <1>5, ListedPorts
  <2>5. fwd_lcores \in [Lcore -> ShareType]
    BY <1>2, Constants DEF Init, Share, ShareType, n
  <2> HIDE DEF c, listed
  <2>6. cur_fwd_config \in ConfigType
    BY <2>1, <2>2, Constants DEF ConfigType
  <2>7. fwd_streams \in [0 .. c.nb_fwd_streams - 1 -> StreamType]
    BY <2>3, <2>4 DEF StreamType
  <2>8. ArraySize = c.nb_fwd_streams /\ c.nb_fwd_streams \in Nat
    <3>1. c.nb_fwd_streams \in Nat
      BY <2>2
    <3>2. DOMAIN fwd_streams = 0 .. c.nb_fwd_streams - 1
      BY <2>3
    <3> QED
      BY <3>1, <3>2, SizeIs DEF ArraySize
  <2> QED
    BY <2>1, <2>5, <2>6, <2>7, <2>8, Constants DEF CfgTypes
<1>9. LcoreTypes
  BY DEF Init, LcoreTypes, Share, ShareType
<1>10. CmdTypes
  <2>1. resized \in BOOLEAN /\ gap \in BOOLEAN
    BY Zenon DEF Init
  <2>2. test_done = 1 /\ cmd = "prompt" /\ todo = {} /\ changes = 0 /\ process = "run"
    BY Zenon DEF Init
  <2> QED
    BY <2>1, <2>2, Constants DEF CmdTypes
<1> QED
  BY <1>3, <1>4, <1>6, <1>7, <1>8, <1>9, <1>10 DEF TypeInv

-----------------------------------------------------------------------------
(* What fwd_config_setup leaves, from settings of the right kind *)

LEMMA SetupIs ==
    ASSUME TypeInv, ListTypes', NumTypes', port_topology' = port_topology, FwdConfigSetup
    PROVE  /\ CfgTypes' /\ SocketTypes' /\ freed' \in SUBSET Lcore
           /\ \/ /\ process' = "crashed"
                 /\ UNCHANGED <<cfgVars, socket_id, freed>>
              \/ /\ process' = process
                 /\ freed' = freed \/ freed' = running
                 /\ cur_fwd_config' = NewConfig
                 /\ fwd_eng' = cur_fwd_eng'
                 /\ NewConfig.nb_fwd_streams <= ArraySize'
                 /\ NewConfig.nb_fwd_lcores = 0 => NewConfig.nb_fwd_streams = 0
                 /\ \A s \in 0 .. NewConfig.nb_fwd_streams - 1 : fwd_streams'[s] = NewStreams[s]
                 /\ \A l \in 0 .. NewConfig.nb_fwd_lcores - 1 :
                       fwd_lcores'[l] = EachLcore(NewConfig.nb_fwd_streams,
                                                  NewConfig.nb_fwd_lcores)[l]
<1> DEFINE c == NewConfig
           listed == Listed(fwd_ports_ids', nb_fwd_ports')
<1>1. /\ nb_fwd_ports' \in 0 .. Cardinality(Port) /\ nb_fwd_ports' \in Nat
      /\ nb_fwd_lcores' \in 0 .. nb_lcores /\ nb_fwd_lcores' \in Nat
      /\ nb_rxq' \in Nat /\ nb_txq' \in Nat
      /\ fwd_ports_ids' \in [Port -> Port]
      /\ port_topology \in Topology
      /\ cur_fwd_eng' \in Engines
  BY Constants DEF ListTypes, NumTypes, TypeInv
<1>2. /\ c \in [nb_fwd_lcores : 0 .. nb_fwd_lcores', nb_fwd_ports : Nat, nb_fwd_streams : Nat]
      /\ c.nb_fwd_lcores <= c.nb_fwd_streams
  BY <1>1, ConfigIs DEF NewConfig
<1>3. NewStreams \in [0 .. c.nb_fwd_streams - 1 -> [rx_port : listed, rx_queue : Nat,
                                                    tx_port : listed, tx_queue : Nat]]
  <2>1. StreamsOf(cur_fwd_eng', port_topology, fwd_ports_ids', nb_fwd_ports', nb_rxq', nb_txq')
           \in [0 .. ConfigOf(cur_fwd_eng', nb_fwd_ports', nb_fwd_lcores', nb_rxq',
                              nb_txq').nb_fwd_streams - 1 ->
                  [rx_port : Listed(fwd_ports_ids', nb_fwd_ports'), rx_queue : Nat,
                   tx_port : Listed(fwd_ports_ids', nb_fwd_ports'), tx_queue : Nat]]
    BY <1>1, StreamsAre
  <2> QED
    BY <2>1 DEF NewConfig, NewStreams
<1>4. listed \subseteq Port
  BY <1>1, ListedPorts
<1>5. /\ ArraySize \in Nat /\ fwd_streams \in [0 .. ArraySize - 1 -> StreamType]
      /\ fwd_lcores \in [Lcore -> ShareType] /\ freed \in SUBSET Lcore
      /\ running \in SUBSET Lcore /\ enabled \in SUBSET Port
      /\ socket_id \in [Port -> Sockets \cup {0}]
  BY DEF TypeInv, CfgTypes, LcoreTypes, PortTypes, SocketTypes
<1>6. NewSize \in Nat
  <2>1. Cardinality(enabled) \in Nat /\ Greater(nb_rxq', nb_txq') \in Nat
    BY <1>1, <1>5, PortsIn, Constants DEF Greater
  <2>2. Cardinality(enabled) * Greater(nb_rxq', nb_txq') \in Nat
    BY <2>1, Products
  <2> QED
    BY <1>5, <2>2 DEF NewSize
<1> HIDE DEF c, listed
<1>7. NewStreams \in [0 .. c.nb_fwd_streams - 1 -> StreamType]
  BY <1>3, <1>4 DEF StreamType
<1>8. NewArray \in [0 .. NewSize - 1 -> StreamType]
  <2>1. ZeroStream \in StreamType
    BY Constants DEF ZeroStream, Stream, StreamType
  <2> QED
    BY <1>5, <2>1 DEF NewArray
<1>9. CASE SetupFaults
  <2>1. process' = "crashed" /\ UNCHANGED <<cfgVars, socket_id, freed>>
    BY <1>9 DEF FwdConfigSetup
  <2>2. CfgTypes'
    BY <2>1 DEF TypeInv, CfgTypes, cfgVars, ArraySize
  <2>3. SocketTypes' /\ freed' \in SUBSET Lcore
    BY <1>5, <2>1 DEF SocketTypes
  <2> QED
    BY <2>1, <2>2, <2>3
<1>10. CASE ~SetupFaults
  <2>1. /\ cur_fwd_config' = c /\ fwd_eng' = cur_fwd_eng'
        /\ fwd_streams' = [s \in DOMAIN NewArray |->
               IF s \in DOMAIN NewStreams THEN NewStreams[s] ELSE NewArray[s]]
        /\ process' = process
        /\ freed' = freed \/ freed' = running
        /\ fwd_lcores' = [l \in Lcore |->
               IF l \in DOMAIN EachLcore(c.nb_fwd_streams, c.nb_fwd_lcores)
               THEN EachLcore(c.nb_fwd_streams, c.nb_fwd_lcores)[l] ELSE fwd_lcores[l]]
        /\ socket_id' = IF TooManyQueues THEN socket_id
                        ELSE [p \in Port |-> IF p \in enabled THEN 0 ELSE socket_id[p]]
    BY <1>10 DEF FwdConfigSetup, c
  <2>2. c.nb_fwd_streams <= NewSize /\ (c.nb_fwd_lcores = 0 => c.nb_fwd_streams = 0)
    BY <1>2, <1>6, <1>10 DEF SetupFaults, DividesByZero, c
  <2>3. fwd_streams' \in [0 .. NewSize - 1 -> StreamType]
    BY <1>7, <1>8, <2>1
  <2>4. ArraySize' = NewSize
    <3>1. DOMAIN (fwd_streams') = 0 .. NewSize - 1
      BY <2>3
    <3>2. ArraySize' = Cardinality(DOMAIN (fwd_streams'))
      BY DEF ArraySize
    <3> QED
      BY <1>6, <3>1, <3>2, SizeIs
  <2>5. \A s \in 0 .. c.nb_fwd_streams - 1 : fwd_streams'[s] = NewStreams[s]
    <3>1. TAKE s \in 0 .. c.nb_fwd_streams - 1
    <3>2. s \in DOMAIN NewArray /\ s \in DOMAIN NewStreams
      BY <1>2, <1>6, <1>7, <1>8, <2>2
    <3> QED
      BY <2>1, <3>2
  <2>6. EachLcore(c.nb_fwd_streams, c.nb_fwd_lcores) \in [0 .. c.nb_fwd_lcores - 1 -> ShareType]
    <3>1. c.nb_fwd_streams \in Nat /\ c.nb_fwd_lcores \in Nat
          /\ c.nb_fwd_lcores <= c.nb_fwd_streams
      BY <1>1, <1>2
    <3> QED
      BY <3>1, SharesAre DEF ShareType
  <2>7. \A l \in 0 .. c.nb_fwd_lcores - 1 :
           fwd_lcores'[l] = EachLcore(c.nb_fwd_streams, c.nb_fwd_lcores)[l]
    <3>1. 0 .. c.nb_fwd_lcores - 1 \subseteq Lcore
      BY <1>1, <1>2, Constants DEF Lcore
    <3> HIDE DEF Lcore
    <3> QED
      BY <2>1, <2>6, <3>1
  <2>8. fwd_lcores' \in [Lcore -> ShareType]
    BY <1>5, <2>1, <2>6
  <2>9. cur_fwd_config' \in ConfigType
    BY <1>1, <1>2, <2>1, Constants DEF ConfigType
  <2>10. CfgTypes'
    BY <1>1, <1>6, <2>1, <2>3, <2>4, <2>8, <2>9 DEF CfgTypes
  <2>11. SocketTypes' /\ freed' \in SUBSET Lcore
    BY <1>5, <2>1 DEF SocketTypes
  <2> QED
    BY <2>1, <2>2, <2>4, <2>5, <2>7, <2>10, <2>11 DEF c
<1> QED
  BY <1>9, <1>10

-----------------------------------------------------------------------------
(* update_fwd_ports: where the ports that stay go *)

LEMMA PortRanks ==
    ASSUME NEW K \in SUBSET Port
    PROVE  /\ \A i \in K : Rank(K, i) \in 0 .. Cardinality(K) - 1
           /\ \A k \in 0 .. Cardinality(K) - 1 : \E i \in K : Rank(K, i) = k
           /\ \A i, j \in K : Rank(K, i) = Rank(K, j) => i = j
<1>1. IsFiniteSet(K) /\ K \subseteq Int
  BY PortsIn, Constants
<1> QED
  BY <1>1, Ranks

(* No more positions are kept than are in use. *)
LEMMA KeptIs ==
    ASSUME nb_fwd_ports \in 0 .. Cardinality(Port)
    PROVE  /\ Kept \in SUBSET Port /\ Kept \subseteq 0 .. nb_fwd_ports - 1
           /\ Cardinality(Kept) \in 0 .. nb_fwd_ports
<1>1. Kept \in SUBSET Port /\ Kept \subseteq 0 .. nb_fwd_ports - 1
  BY Constants DEF Kept
<1>2. Cardinality(Kept) \in Nat
  BY <1>1, PortsIn, Constants
<1>3. IsFiniteSet(0 .. nb_fwd_ports - 1) /\ Cardinality(0 .. nb_fwd_ports - 1) = nb_fwd_ports
  BY SizeIs, Constants
<1>4. Cardinality(Kept) <= nb_fwd_ports
  BY <1>1, <1>3, FS_Subset
<1> QED
  BY <1>1, <1>2, <1>4, Constants

(* The ports kept close up in their order, and the new one comes last. *)
LEMMA UpdateIs ==
    ASSUME fwd_ports_ids \in [Port -> Port], nb_fwd_ports \in 0 .. Cardinality(Port),
           NEW new \in SUBSET Port, UpdateFwdPorts(new)
    PROVE  /\ Cardinality(Kept) \in 0 .. nb_fwd_ports
           /\ nb_fwd_ports' = Cardinality(Kept) + Cardinality(new)
           /\ nb_cfg_ports' = Cardinality(Kept) + Cardinality(new)
           /\ fwd_ports_ids' \in [Port -> Port]
           /\ \E at \in [0 .. Cardinality(Kept) - 1 -> Kept] :
                 /\ \A i \in 0 .. Cardinality(Kept) - 1 :
                       fwd_ports_ids'[i] = fwd_ports_ids[at[i]] /\ Rank(Kept, at[i]) = i
           /\ \A p \in new : new = {p} /\ Cardinality(Kept) \in Port
                                => fwd_ports_ids'[Cardinality(Kept)] = p
<1> DEFINE nb == Cardinality(Kept)
           at == [k \in 0 .. nb - 1 |-> KeptAt(k)]
<1>1. Kept \in SUBSET Port
  BY KeptIs
<1>2. nb \in Nat /\ nb \in 0 .. Cardinality(Port)
  BY <1>1, PortsIn, Constants
<1>3. nb \in 0 .. nb_fwd_ports
  BY KeptIs
<1>4. \A k \in 0 .. nb - 1 : \E i \in Kept : Rank(Kept, i) = k
  BY <1>1, PortRanks
<1>5. \A k \in 0 .. nb - 1 : KeptAt(k) \in Kept /\ Rank(Kept, KeptAt(k)) = k
  BY <1>4 DEF KeptAt, Rank
<1>6. /\ fwd_ports_ids' = [i \in Port |->
             IF i < nb THEN fwd_ports_ids[KeptAt(i)]
             ELSE IF i = nb /\ new # {} THEN CHOOSE p \in new : TRUE
             ELSE fwd_ports_ids[i]]
      /\ nb_fwd_ports' = nb + Cardinality(new)
      /\ nb_cfg_ports' = nb + Cardinality(new)
  BY DEF UpdateFwdPorts
<1> HIDE DEF nb
<1>7. \A i \in 0 .. nb - 1 : i \in Port /\ fwd_ports_ids'[i] = fwd_ports_ids[KeptAt(i)]
  BY <1>2, <1>6, Constants
<1>8. /\ at \in [0 .. nb - 1 -> Kept]
      /\ \A i \in 0 .. nb - 1 :
            fwd_ports_ids'[i] = fwd_ports_ids[at[i]] /\ Rank(Kept, at[i]) = i
  BY <1>5, <1>7
<1>9. ASSUME NEW i \in Port PROVE fwd_ports_ids'[i] \in Port
  <2>1. CASE i < nb
    <3>1. i \in 0 .. nb - 1
      BY <1>2, <2>1, Constants
    <3>2. KeptAt(i) \in Port
      BY <1>1, <1>5, <3>1
    <3> QED
      BY <1>7, <3>1, <3>2
  <2>2. CASE ~(i < nb)
    <3>1. fwd_ports_ids'[i] = IF i = nb /\ new # {} THEN CHOOSE p \in new : TRUE
                              ELSE fwd_ports_ids[i]
      BY <1>6, <2>2
    <3>2. new # {} => (CHOOSE p \in new : TRUE) \in new
      OBVIOUS
    <3> QED
      BY <3>1, <3>2
  <2> QED
    BY <2>1, <2>2
<1>10. fwd_ports_ids' \in [Port -> Port]
  BY <1>6, <1>9
<1>11. ASSUME NEW p \in new, new = {p}, nb \in Port PROVE fwd_ports_ids'[nb] = p
  <2>1. fwd_ports_ids'[nb] = CHOOSE q \in new : TRUE
    BY <1>2, <1>6, <1>11
  <2> QED
    BY <1>11, <2>1
<1>12. \E a \in [0 .. nb - 1 -> Kept] :
          \A i \in 0 .. nb - 1 :
             fwd_ports_ids'[i] = fwd_ports_ids[a[i]] /\ Rank(Kept, a[i]) = i
  BY <1>8
<1> QED
  BY <1>3, <1>6, <1>10, <1>11, <1>12 DEF nb

LEMMA Least ==
    ASSUME NEW K \in SUBSET Port, K # {}
    PROVE  \E i \in K : \A j \in K : i <= j
<1>1. IsFiniteSet(K) /\ Cardinality(K) \in Nat
  BY PortsIn, Constants
<1>2. Cardinality(K) # 0
  BY <1>1, FS_EmptySet
<1>3. PICK i \in K : Rank(K, i) = 0
  BY <1>1, <1>2, PortRanks
<1>4. {j \in K : j < i} = {}
  <2> DEFINE L == {j \in K : j < i}
  <2>1. L \in SUBSET K
    OBVIOUS
  <2>2. IsFiniteSet(L)
    BY <1>1, <2>1, FS_Subset
  <2> QED
    BY <1>3, <2>2, FS_EmptySet DEF Rank
<1>5. K \subseteq Nat
  BY Constants
<1> QED
  BY <1>4, <1>5

LEMMA NextPortIs ==
    ASSUME TypeInv, todo # {}
    PROVE  NextPort \in todo /\ NextPort \in enabled /\ NextPort \in Port
<1>1. todo \in SUBSET Port /\ todo \in SUBSET enabled /\ enabled \in SUBSET Port
  BY DEF TypeInv, CmdTypes, PortTypes
<1>2. NextPort \in todo
  BY <1>1, Least DEF NextPort
<1> QED
  BY <1>1, <1>2

-----------------------------------------------------------------------------
(* Each step keeps the types. *)

(* A step that leaves the settings *)
LEMMA SettingsSame ==
    ASSUME TypeInv, UNCHANGED settingVars
    PROVE  ListTypes' /\ NumTypes' /\ CfgTypes'
BY DEF TypeInv, settingVars, listVars, numVars, queueVars, cfgVars, ListTypes, NumTypes,
       CfgTypes, ArraySize

(* The settings that are followed by fwd_config_setup *)
LEMMA TypeSetUpAgain ==
    ASSUME TypeInv, ListTypes', NumTypes', changes' \in 0 .. MaxChanges, gap' \in BOOLEAN,
           need_reconfig' \in SUBSET Port, need_reconfig_queues' \in SUBSET Port, SetUpAgain
    PROVE  TypeInv'
<1>1. /\ FwdConfigSetup /\ resized' = (resized \/ test_done = 0)
      /\ UNCHANGED <<enabled, port_status, queues, port_topology, lcoreVars, test_done,
                     cmd, todo>>
  BY DEF SetUpAgain
<1>2. /\ CfgTypes' /\ SocketTypes' /\ freed' \in SUBSET Lcore
      /\ process' = "crashed" \/ process' = process
  BY <1>1, SetupIs
<1>3. PortTypes'
  BY <1>1 DEF TypeInv, PortTypes
<1>4. LcoreTypes'
  BY <1>1, <1>2 DEF TypeInv, LcoreTypes, lcoreVars
<1>5. CmdTypes'
  <2>1. resized' \in BOOLEAN
    BY <1>1 DEF TypeInv, CmdTypes
  <2> QED
    BY <1>1, <1>2, <2>1 DEF TypeInv, CmdTypes
<1> QED
  BY <1>2, <1>3, <1>4, <1>5 DEF TypeInv

LEMMA TypeSettings ==
    ASSUME TypeInv
    PROVE  /\ \A list \in PortLists : SetFwdPortsList(list) => TypeInv'
           /\ \A n \in 1 .. nb_lcores : SetFwdLcoresList(n) => TypeInv'
           /\ \A n \in 0 .. Cardinality(Port) : SetFwdPortsNumber(n) => TypeInv'
           /\ \A n \in 0 .. nb_lcores : SetFwdLcoresNumber(n) => TypeInv'
           /\ \A rx, tx \in Nat : ConfigQueues(rx, tx) => TypeInv'
<1>1. ASSUME Change PROVE changes' \in 0 .. MaxChanges
  BY <1>1, Constants DEF Change, TypeInv, CmdTypes
<1>2. /\ enabled \in SUBSET Port /\ gap \in BOOLEAN
      /\ need_reconfig \in SUBSET Port /\ need_reconfig_queues \in SUBSET Port
  BY DEF TypeInv, PortTypes, CmdTypes
<1>3. ASSUME NEW list \in PortLists, SetFwdPortsList(list) PROVE TypeInv'
  <2>1. /\ Change /\ SetUpAgain /\ Len(list) > 0
        /\ UNCHANGED <<need_reconfig, need_reconfig_queues, numVars, queueVars, cur_fwd_eng>>
        /\ \/ /\ fwd_ports_ids' = [i \in Port |-> IF i < Len(list) THEN list[i + 1]
                                                  ELSE fwd_ports_ids[i]]
              /\ nb_cfg_ports' = Len(list) /\ nb_fwd_ports' = Len(list) /\ gap' = FALSE
           \/ UNCHANGED <<listVars, gap>>
    BY <1>3 DEF SetFwdPortsList
  <2>2. list \in Seq(Port) /\ Len(list) \in 0 .. Cardinality(Port)
    BY ListFits
  <2>3. ListTypes'
    <3>1. CASE UNCHANGED <<listVars, gap>>
      BY <3>1 DEF TypeInv, ListTypes, listVars
    <3>2. CASE /\ fwd_ports_ids' = [i \in Port |-> IF i < Len(list) THEN list[i + 1]
                                                   ELSE fwd_ports_ids[i]]
               /\ nb_cfg_ports' = Len(list) /\ nb_fwd_ports' = Len(list)
      <4>1. \A i \in Port : i < Len(list) => list[i + 1] \in Port
        <5>1. TAKE i \in Port
        <5>2. i \in Nat /\ Len(list) \in Nat
          BY <2>2, Constants
        <5>3. i < Len(list) => i + 1 \in 1 .. Len(list)
          BY <5>2
        <5> QED
          BY <2>2, <5>3
      <4> QED
        BY <2>2, <3>2, <4>1 DEF TypeInv, ListTypes
    <3> QED
      BY <2>1, <3>1, <3>2
  <2>4. NumTypes'
    BY <2>1 DEF TypeInv, NumTypes, numVars, queueVars, SetUpAgain
  <2>5. gap' \in BOOLEAN
    BY <1>2, <2>1
  <2> QED
    BY <1>1, <1>2, <2>1, <2>3, <2>4, <2>5, TypeSetUpAgain
<1>4. ASSUME NEW n \in 1 .. nb_lcores, SetFwdLcoresList(n) PROVE TypeInv'
  <2>1. /\ Change /\ SetUpAgain /\ nb_cfg_lcores' = n /\ nb_fwd_lcores' = n
        /\ UNCHANGED <<gap, need_reconfig, need_reconfig_queues, listVars, queueVars,
                       cur_fwd_eng, port_topology>>
    BY <1>4 DEF SetFwdLcoresList, SetUpAgain
  <2>2. ListTypes'
    BY <2>1 DEF TypeInv, ListTypes, listVars
  <2>3. n \in 0 .. nb_lcores
    BY Constants
  <2>4. NumTypes'
    BY <2>1, <2>3 DEF TypeInv, NumTypes, queueVars
  <2> QED
    BY <1>1, <1>2, <2>1, <2>2, <2>4, TypeSetUpAgain
<1>5. ASSUME NEW n \in 0 .. Cardinality(Port), SetFwdPortsNumber(n) PROVE TypeInv'
  <2>1. /\ Change /\ SetUpAgain /\ (nb_fwd_ports' = nb_fwd_ports \/ nb_fwd_ports' = n)
        /\ UNCHANGED <<gap, need_reconfig, need_reconfig_queues, fwd_ports_ids, nb_cfg_ports,
                       numVars, queueVars, cur_fwd_eng, port_topology>>
    BY <1>5 DEF SetFwdPortsNumber, SetUpAgain
  <2>2. ListTypes'
    BY <2>1 DEF TypeInv, ListTypes
  <2>3. NumTypes'
    BY <2>1 DEF TypeInv, NumTypes, numVars, queueVars
  <2> QED
    BY <1>1, <1>2, <2>1, <2>2, <2>3, TypeSetUpAgain
<1>6. ASSUME NEW n \in 0 .. nb_lcores, SetFwdLcoresNumber(n) PROVE TypeInv'
  <2>1. /\ Change /\ SetUpAgain /\ (nb_fwd_lcores' = nb_fwd_lcores \/ nb_fwd_lcores' = n)
        /\ UNCHANGED <<gap, need_reconfig, need_reconfig_queues, listVars, nb_cfg_lcores,
                       queueVars, cur_fwd_eng, port_topology>>
    BY <1>6 DEF SetFwdLcoresNumber, SetUpAgain
  <2>2. ListTypes'
    BY <2>1 DEF TypeInv, ListTypes, listVars
  <2>3. NumTypes'
    BY <2>1 DEF TypeInv, NumTypes, queueVars
  <2> QED
    BY <1>1, <1>2, <2>1, <2>2, <2>3, TypeSetUpAgain
<1>7. ASSUME NEW rx \in Nat, NEW tx \in Nat, ConfigQueues(rx, tx) PROVE TypeInv'
  <2>1. /\ Change /\ SetUpAgain /\ nb_rxq' = rx /\ nb_txq' = tx
        /\ need_reconfig' = need_reconfig \cup enabled
        /\ need_reconfig_queues' = need_reconfig_queues \cup enabled
        /\ UNCHANGED <<gap, listVars, numVars, cur_fwd_eng, port_topology>>
    BY <1>7 DEF ConfigQueues, SetUpAgain
  <2>2. ListTypes'
    BY <2>1 DEF TypeInv, ListTypes, listVars
  <2>3. NumTypes'
    BY <2>1 DEF TypeInv, NumTypes, numVars
  <2>4. need_reconfig' \in SUBSET Port /\ need_reconfig_queues' \in SUBSET Port
    BY <1>2, <2>1
  <2> QED
    BY <1>1, <1>2, <2>1, <2>2, <2>3, <2>4, TypeSetUpAgain
<1> QED
  BY <1>3, <1>4, <1>5, <1>6, <1>7

(* The commands that only set *)
LEMMA TypeSet ==
    ASSUME TypeInv
    PROVE  /\ SetDefault => TypeInv'
           /\ \A eng \in Engines : SetFwdMode(eng) => TypeInv'
           /\ \A pids \in OneOrAll : ReconfigDevice(pids) => TypeInv'
<1>1. ASSUME Change PROVE changes' \in 0 .. MaxChanges
  BY <1>1, Constants DEF Change, TypeInv, CmdTypes
<1>2. enabled \in SUBSET Port
  BY DEF TypeInv, PortTypes
<1>3. ASSUME SetDefault PROVE TypeInv'
  <2> DEFINE nb == Cardinality(enabled)
  <2>1. /\ Change /\ nb_cfg_lcores' = nb_lcores /\ nb_fwd_lcores' = 1
        /\ fwd_ports_ids' = [i \in Port |-> IF i < nb THEN i ELSE fwd_ports_ids[i]]
        /\ nb_cfg_ports' = nb /\ nb_fwd_ports' = nb
        /\ gap' = (gap \/ enabled # 0 .. nb - 1)
        /\ UNCHANGED <<enabled, portVars, socket_id, queueVars, cur_fwd_eng, port_topology,
                       cfgVars, lcoreVars, freed, test_done, cmd, todo, resized, process>>
    BY <1>3 DEF SetDefault
  <2>2. nb \in 0 .. Cardinality(Port)
    BY <1>2, PortsIn
  <2> HIDE DEF nb
  <2>3. ListTypes'
    BY <2>1, <2>2 DEF TypeInv, ListTypes
  <2>4. NumTypes'
    BY <2>1, Constants DEF TypeInv, NumTypes, queueVars
  <2>5. CfgTypes'
    BY <2>1 DEF TypeInv, CfgTypes, ArraySize, cfgVars
  <2>6. PortTypes' /\ SocketTypes' /\ LcoreTypes'
    BY <2>1 DEF TypeInv, PortTypes, SocketTypes, LcoreTypes, portVars, lcoreVars
  <2>7. gap' \in BOOLEAN
    BY <2>1 DEF TypeInv, CmdTypes
  <2>8. CmdTypes'
    BY <1>1, <2>1, <2>7 DEF TypeInv, CmdTypes
  <2> QED
    BY <2>3, <2>4, <2>5, <2>6, <2>8 DEF TypeInv
<1>4. ASSUME NEW eng \in Engines, SetFwdMode(eng) PROVE TypeInv'
  <2>1. /\ Change /\ cur_fwd_eng' = eng
        /\ UNCHANGED <<gap, enabled, portVars, socket_id, listVars, numVars, queueVars,
                       port_topology, cfgVars, lcoreVars, freed, test_done, cmd, todo,
                       resized, process>>
    BY <1>4 DEF SetFwdMode
  <2>2. ListTypes' /\ NumTypes'
    BY <2>1 DEF TypeInv, ListTypes, NumTypes, listVars, numVars, queueVars
  <2>3. CfgTypes'
    BY <2>1 DEF TypeInv, CfgTypes, ArraySize, cfgVars
  <2>4. PortTypes' /\ SocketTypes' /\ LcoreTypes'
    BY <2>1 DEF TypeInv, PortTypes, SocketTypes, LcoreTypes, portVars, lcoreVars
  <2>5. CmdTypes'
    BY <1>1, <2>1 DEF TypeInv, CmdTypes
  <2> QED
    BY <2>2, <2>3, <2>4, <2>5 DEF TypeInv
<1>5. ASSUME NEW pids \in OneOrAll, ReconfigDevice(pids) PROVE TypeInv'
  <2>1. /\ Change
        /\ need_reconfig' = need_reconfig \cup There(pids)
        /\ need_reconfig_queues' = need_reconfig_queues \cup There(pids)
        /\ There(pids) \in SUBSET Port
        /\ UNCHANGED <<enabled, port_status, queues, socket_id, settingVars, lcoreVars, freed,
                       test_done, cmd, todo, resized, gap, process>>
    BY <1>2, <1>5 DEF ReconfigDevice, There
  <2>2. ListTypes' /\ NumTypes' /\ CfgTypes'
    BY <2>1, SettingsSame
  <2>3. PortTypes' /\ SocketTypes' /\ LcoreTypes'
    BY <2>1 DEF TypeInv, PortTypes, SocketTypes, LcoreTypes, lcoreVars
  <2>4. CmdTypes'
    BY <1>1, <2>1 DEF TypeInv, CmdTypes
  <2> QED
    BY <2>2, <2>3, <2>4 DEF TypeInv
<1> QED
  BY <1>3, <1>4, <1>5

(* A step of start_port: the port at hand is one there is. *)
LEMMA TypeDevStep ==
    ASSUME TypeInv, DevStep, PortTypes', todo' \in SUBSET todo,
           cmd' \in {cmd, "prompt"}, cmd' # "start" => todo' = {}
    PROVE  TypeInv'
<1>1. UNCHANGED <<changes, enabled, socket_id, settingVars, lcoreVars, freed, test_done,
                  resized, gap, process>>
  BY DEF DevStep, Keep
<1>2. ListTypes' /\ NumTypes' /\ CfgTypes'
  BY <1>1, SettingsSame
<1>3. SocketTypes' /\ LcoreTypes'
  BY <1>1 DEF TypeInv, SocketTypes, LcoreTypes, lcoreVars
<1>4. CmdTypes'
  BY <1>1 DEF TypeInv, CmdTypes
<1> QED
  BY <1>2, <1>3, <1>4 DEF TypeInv

LEMMA TypeStartPorts == TypeInv /\ StartPorts => TypeInv'
<1> SUFFICES ASSUME TypeInv, StartPorts PROVE TypeInv'
  OBVIOUS
<1>1. /\ need_reconfig \in SUBSET Port /\ need_reconfig_queues \in SUBSET Port
      /\ enabled \in SUBSET Port
      /\ port_status \in [Port -> {"stopped", "started", "closed", "handling"}]
      /\ queues \in [Port -> [rx : Nat, tx : Nat]]
      /\ nb_rxq \in Nat /\ nb_txq \in Nat
      /\ cmd # "start" => todo = {}
  BY DEF TypeInv, PortTypes, NumTypes, CmdTypes
<1>2. ASSUME Starting PROVE NextPort \in Port /\ cmd = "start"
  BY <1>2, NextPortIs DEF Starting
<1>3. ASSUME Starting PROVE Configured(NextPort) \in [rx : Nat, tx : Nat]
  BY <1>1, <1>2, <1>3 DEF Configured, NoQueues
<1>4. CASE PortNotStopped \/ ConfigureFails
  <2>1. /\ Starting /\ DevStep /\ UNCHANGED portVars /\ todo' \in SUBSET todo /\ cmd' = cmd
    BY <1>4 DEF PortNotStopped, ConfigureFails, GoOn, Abort
  <2>2. PortTypes'
    BY <2>1 DEF TypeInv, PortTypes, portVars, DevStep
  <2> QED
    BY <1>2, <2>1, <2>2, TypeDevStep
<1>5. CASE QueueSetupFails
  <2>1. /\ Starting /\ DevStep /\ todo' \in SUBSET todo /\ cmd' = cmd
        /\ need_reconfig' = need_reconfig \ {NextPort}
        /\ queues' = [queues EXCEPT ![NextPort] = Configured(NextPort)]
        /\ UNCHANGED <<port_status, need_reconfig_queues, enabled>>
    BY <1>5 DEF QueueSetupFails, Abort, DevStep
  <2>2. PortTypes'
    BY <1>1, <1>3, <2>1 DEF PortTypes
  <2> QED
    BY <1>2, <2>1, <2>2, TypeDevStep
<1>6. CASE NoMempool
  <2>1. /\ Starting /\ DevStep /\ todo' \in SUBSET todo /\ cmd' = cmd
        /\ need_reconfig' = need_reconfig \ {NextPort}
        /\ queues' = [queues EXCEPT ![NextPort] = [rx |-> 0, tx |-> nb_txq]]
        /\ port_status' = [port_status EXCEPT ![NextPort] = "handling"]
        /\ need_reconfig_queues' = need_reconfig_queues \ {NextPort}
        /\ UNCHANGED enabled
    BY <1>6 DEF NoMempool, Abort, DevStep
  <2>2. queues' \in [Port -> [rx : Nat, tx : Nat]]
    BY <1>1, <1>2, <2>1
  <2>3. PortTypes'
    BY <1>1, <2>1, <2>2 DEF PortTypes
  <2> QED
    BY <1>2, <2>1, <2>3, TypeDevStep
<1>7. ASSUME NEW status \in {"started", "stopped"}, StartDevice(status) PROVE TypeInv'
  <2>1. /\ Starting /\ DevStep /\ todo' \in SUBSET todo /\ cmd' = cmd
        /\ need_reconfig' = need_reconfig \ {NextPort}
        /\ need_reconfig_queues' = need_reconfig_queues \ {NextPort}
        /\ queues' = [queues EXCEPT ![NextPort] =
                         IF NextPort \in need_reconfig_queues
                         THEN [rx |-> nb_rxq, tx |-> nb_txq] ELSE Configured(NextPort)]
        /\ port_status' = [port_status EXCEPT ![NextPort] = status]
        /\ UNCHANGED enabled
    BY <1>7 DEF StartDevice, GoOn, DevStep
  <2>2. PortTypes'
    BY <1>1, <1>3, <2>1 DEF PortTypes
  <2> QED
    BY <1>2, <2>1, <2>2, TypeDevStep
<1>8. CASE StartDone
  <2>1. /\ DevStep /\ todo = {} /\ todo' = {} /\ cmd' = "prompt" /\ UNCHANGED portVars
    BY <1>8 DEF StartDone
  <2>2. PortTypes'
    BY <2>1 DEF TypeInv, PortTypes, portVars, DevStep
  <2> QED
    BY <2>1, <2>2, TypeDevStep
<1> QED
  BY <1>4, <1>5, <1>6, <1>7, <1>8 DEF StartPorts

(* Commands for ports *)
LEMMA TypePortCommands ==
    ASSUME TypeInv
    PROVE  /\ \A pids \in OneOrAll :
                 StartPort(pids) \/ StopPort(pids) \/ ClosePort(pids) => TypeInv'
           /\ \A s \in Sockets : AttachPort(s) => TypeInv'
           /\ \A p \in Port : DetachPort(p) => TypeInv'
<1>1. ASSUME Change PROVE changes' \in 0 .. MaxChanges
  BY <1>1, Constants DEF Change, TypeInv, CmdTypes
<1>2. /\ need_reconfig \in SUBSET Port /\ need_reconfig_queues \in SUBSET Port
      /\ enabled \in SUBSET Port
      /\ port_status \in [Port -> {"stopped", "started", "closed", "handling"}]
      /\ queues \in [Port -> [rx : Nat, tx : Nat]]
      /\ socket_id \in [Port -> Sockets \cup {0}]
      /\ fwd_ports_ids \in [Port -> Port]
      /\ nb_fwd_ports \in 0 .. Cardinality(Port)
  BY DEF TypeInv, PortTypes, SocketTypes, ListTypes
<1>3. NoQueues \in [rx : Nat, tx : Nat]
  BY DEF NoQueues
<1>4. ASSUME NEW pids \in OneOrAll, StartPort(pids) PROVE TypeInv'
  <2>1. /\ cmd' = "start" /\ todo' = There(pids)
        /\ UNCHANGED <<changes, enabled, portVars, socket_id, settingVars, lcoreVars, freed,
                       test_done, resized, gap, process>>
    BY <1>4 DEF StartPort, Keep
  <2>2. ListTypes' /\ NumTypes' /\ CfgTypes'
    BY <2>1, SettingsSame
  <2>3. PortTypes' /\ SocketTypes' /\ LcoreTypes'
    BY <2>1 DEF TypeInv, PortTypes, SocketTypes, LcoreTypes, portVars, lcoreVars
  <2>4. CmdTypes'
    BY <2>1 DEF TypeInv, CmdTypes, There
  <2> QED
    BY <2>2, <2>3, <2>4 DEF TypeInv
<1>5. ASSUME NEW pids \in OneOrAll, StopPort(pids) PROVE TypeInv'
  <2>1. /\ port_status' = [p \in Port |->
               IF p \in There(pids) \cap Unused /\ port_status[p] = "started" THEN "stopped"
               ELSE port_status[p]]
        /\ UNCHANGED <<changes, enabled, need_reconfig, need_reconfig_queues, queues,
                       socket_id, settingVars, lcoreVars, freed, test_done, cmd, todo,
                       resized, gap, process>>
    BY <1>5 DEF StopPort, Keep, PortCommand
  <2>2. ListTypes' /\ NumTypes' /\ CfgTypes'
    BY <2>1, SettingsSame
  <2>3. PortTypes' /\ SocketTypes' /\ LcoreTypes'
    BY <1>2, <2>1 DEF TypeInv, PortTypes, SocketTypes, LcoreTypes, lcoreVars
  <2>4. CmdTypes'
    BY <2>1 DEF TypeInv, CmdTypes
  <2> QED
    BY <2>2, <2>3, <2>4 DEF TypeInv
<1>6. ASSUME NEW pids \in OneOrAll, ClosePort(pids) PROVE TypeInv'
  <2> DEFINE closing == {p \in There(pids) \cap Unused : port_status[p] = "stopped"}
  <2>1. /\ port_status' = [p \in Port |-> IF p \in closing THEN "closed" ELSE port_status[p]]
        /\ queues' = [p \in Port |-> IF p \in closing THEN NoQueues ELSE queues[p]]
        /\ UNCHANGED <<changes, enabled, need_reconfig, need_reconfig_queues,
                       socket_id, settingVars, lcoreVars, freed, test_done, cmd, todo,
                       resized, gap, process>>
    BY <1>6 DEF ClosePort, Keep, PortCommand
  <2> HIDE DEF closing
  <2>2. ListTypes' /\ NumTypes' /\ CfgTypes'
    BY <2>1, SettingsSame
  <2>3. PortTypes' /\ SocketTypes' /\ LcoreTypes'
    BY <1>2, <1>3, <2>1 DEF TypeInv, PortTypes, SocketTypes, LcoreTypes, lcoreVars
  <2>4. CmdTypes'
    BY <2>1 DEF TypeInv, CmdTypes
  <2> QED
    BY <2>2, <2>3, <2>4 DEF TypeInv
<1>7. ASSUME NEW s \in Sockets, AttachPort(s) PROVE TypeInv'
  <2> DEFINE q == CHOOSE p \in Port \ enabled : \A o \in Port \ enabled : p <= o
  <2>1. /\ Change
        /\ enabled' = enabled \cup {q}
        /\ need_reconfig' = need_reconfig \cup {q}
        /\ need_reconfig_queues' = need_reconfig_queues \cup {q}
        /\ socket_id' = [socket_id EXCEPT ![q] = s]
        /\ port_status' = [port_status EXCEPT ![q] = "stopped"]
        /\ queues' = [queues EXCEPT ![q] = NoQueues]
        /\ \/ Cardinality(Kept) \in Port /\ UpdateFwdPorts({q}) /\ UNCHANGED process
           \/ process' = "crashed" /\ UNCHANGED listVars
        /\ UNCHANGED <<numVars, queueVars, cur_fwd_eng, port_topology, cfgVars, lcoreVars,
                       freed, test_done, cmd, todo, resized, gap>>
    BY <1>7 DEF AttachPort, listUpdate
  <2>2. q \in Port /\ q \notin enabled
    <3>1. Port \ enabled # {} /\ Port \ enabled \in SUBSET Port
      BY <1>7 DEF AttachPort
    <3>2. \E p \in Port \ enabled : \A o \in Port \ enabled : p <= o
      BY <3>1, Least
    <3> QED
      BY <3>2
  <2> HIDE DEF q
  <2>3. ListTypes'
    <3>1. CASE UNCHANGED listVars
      BY <3>1 DEF TypeInv, ListTypes, listVars
    <3>2. CASE Cardinality(Kept) \in Port /\ UpdateFwdPorts({q})
      <4>1. {q} \in SUBSET Port /\ Cardinality({q}) = 1
        BY <2>2, FS_Singleton
      <4>2. /\ nb_fwd_ports' = Cardinality(Kept) + 1 /\ nb_cfg_ports' = Cardinality(Kept) + 1
            /\ fwd_ports_ids' \in [Port -> Port]
        BY <1>2, <3>2, <4>1, UpdateIs
      <4>3. Cardinality(Kept) + 1 \in 0 .. Cardinality(Port)
        BY <3>2, Constants
      <4> QED
        BY <4>2, <4>3 DEF ListTypes
    <3> QED
      BY <2>1, <3>1, <3>2
  <2>4. NumTypes' /\ CfgTypes'
    BY <2>1 DEF TypeInv, NumTypes, CfgTypes, ArraySize, numVars, queueVars, cfgVars
  <2>5. PortTypes' /\ SocketTypes'
    BY <1>2, <1>3, <2>1, <2>2 DEF PortTypes, SocketTypes
  <2>6. LcoreTypes'
    BY <2>1 DEF TypeInv, LcoreTypes, lcoreVars
  <2>7. process' \in {"run", "crashed", "rte_exit", "exited"} /\ todo' \in SUBSET enabled'
    BY <2>1 DEF TypeInv, CmdTypes
  <2>8. CmdTypes'
    BY <1>1, <2>1, <2>7 DEF TypeInv, CmdTypes
  <2> QED
    BY <2>3, <2>4, <2>5, <2>6, <2>8 DEF TypeInv
<1>8. ASSUME NEW p \in Port, DetachPort(p) PROVE TypeInv'
  <2>1. /\ Change /\ cmd = "prompt"
        /\ enabled' = enabled \ {p}
        /\ UpdateFwdPorts({})
        /\ UNCHANGED <<portVars, socket_id, numVars, queueVars, cur_fwd_eng, port_topology,
                       cfgVars, lcoreVars, freed, test_done, cmd, todo, resized, gap, process>>
    BY <1>8 DEF DetachPort, listUpdate, PortCommand, Change, Command
  <2>2. ListTypes'
    <3>1. {} \in SUBSET Port /\ Cardinality({}) = 0
      BY FS_EmptySet
    <3>2. /\ nb_fwd_ports' = Cardinality(Kept) + 0 /\ nb_cfg_ports' = Cardinality(Kept) + 0
          /\ fwd_ports_ids' \in [Port -> Port] /\ Cardinality(Kept) \in 0 .. nb_fwd_ports
      BY <1>2, <2>1, <3>1, UpdateIs
    <3>3. Cardinality(Kept) + 0 \in 0 .. Cardinality(Port)
      BY <1>2, <3>2, Constants
    <3> QED
      BY <3>2, <3>3 DEF ListTypes
  <2>3. NumTypes' /\ CfgTypes'
    BY <2>1 DEF TypeInv, NumTypes, CfgTypes, ArraySize, numVars, queueVars, cfgVars
  <2>4. PortTypes' /\ SocketTypes' /\ LcoreTypes'
    BY <1>2, <2>1 DEF TypeInv, PortTypes, SocketTypes, LcoreTypes, portVars, lcoreVars
  <2>5. CmdTypes'
    BY <1>1, <2>1 DEF TypeInv, CmdTypes
  <2> QED
    BY <2>2, <2>3, <2>4, <2>5 DEF TypeInv
<1> QED
  BY <1>4, <1>5, <1>6, <1>7, <1>8

(* A step that changes neither ports nor settings *)
LEMMA TypeQuiet ==
    ASSUME TypeInv, UNCHANGED <<enabled, portVars, socket_id, settingVars>>,
           LcoreTypes', CmdTypes'
    PROVE  TypeInv'
<1>1. ListTypes' /\ NumTypes' /\ CfgTypes'
  BY SettingsSame
<1>2. PortTypes' /\ SocketTypes'
  BY DEF TypeInv, PortTypes, SocketTypes, portVars
<1> QED
  BY <1>1, <1>2 DEF TypeInv

(* The lcores launched, by a start or after its first burst *)
LEMMA TypeLaunch ==
    ASSUME TypeInv, CfgTypes', freed' \in SUBSET Lcore, Launch
    PROVE  LcoreTypes' /\ running' = 0 .. cur_fwd_config'.nb_fwd_lcores - 1
<1>1. /\ running' = 0 .. cur_fwd_config'.nb_fwd_lcores - 1
      /\ stopped' = stopped \ running'
      /\ view' = [l \in Lcore |-> IF l \in running' THEN fwd_lcores'[l] ELSE view[l]]
  BY DEF Launch
<1>2. /\ cur_fwd_config'.nb_fwd_lcores \in 0 .. nb_lcores
      /\ fwd_lcores' \in [Lcore -> ShareType] /\ view \in [Lcore -> ShareType]
      /\ stopped \in SUBSET Lcore
  BY DEF TypeInv, CfgTypes, LcoreTypes, ConfigType
<1>3. running' \in SUBSET Lcore
  BY <1>1, <1>2, Constants DEF Lcore
<1> HIDE DEF Lcore
<1>4. view' \in [Lcore -> ShareType]
  BY <1>1, <1>2
<1> QED
  BY <1>1, <1>2, <1>3, <1>4 DEF LcoreTypes

LEMMA TypeSession ==
    ASSUME TypeInv
    PROVE  /\ StartExits => TypeInv'
           /\ \A next \in {"prompt", "first"} : StartPacketForwarding(next) => TypeInv'
           /\ TxFirstDone => TypeInv'
           /\ \A next \in {"stop", "exit"} : TellLcoresToStop(next) => TypeInv'
           /\ ForwardingStopped => TypeInv'
           /\ ExitIdle => TypeInv'
           /\ ShutDown => TypeInv'
           /\ \A l \in Lcore : LcoreReturns(l) \/ UseOfFreed(l) => TypeInv'
           /\ Ended => TypeInv'
<1>1. /\ freed \in SUBSET Lcore /\ running \in SUBSET Lcore /\ stopped \in SUBSET Lcore
      /\ view \in [Lcore -> ShareType] /\ Share(0, 0) \in ShareType
      /\ cmd # "start" => todo = {}
  BY DEF TypeInv, LcoreTypes, CmdTypes, Share, ShareType
<1>2. ASSUME UNCHANGED <<enabled, todo, resized, gap, changes>>, test_done' \in {0, 1},
             cmd' \in {"prompt", "start", "first", "stop", "exit"}, cmd' # "start" => todo = {},
             process' \in {"run", "crashed", "rte_exit", "exited"}
      PROVE  CmdTypes'
  BY <1>2 DEF TypeInv, CmdTypes
<1>3. ASSUME StartExits PROVE TypeInv'
  <2>1. /\ UNCHANGED <<enabled, portVars, socket_id, settingVars, lcoreVars, freed,
                       test_done, cmd, todo, resized, gap, changes>>
        /\ process' = "rte_exit"
    BY <1>3 DEF StartExits, Keep
  <2>2. LcoreTypes' /\ CmdTypes'
    BY <2>1 DEF TypeInv, LcoreTypes, CmdTypes, lcoreVars
  <2> QED
    BY <2>1, <2>2, TypeQuiet
<1>4. ASSUME NEW next \in {"prompt", "first"}, StartPacketForwarding(next) PROVE TypeInv'
  <2>1. /\ FwdConfigSetup /\ test_done' = 0 /\ resized' = FALSE /\ cmd = "prompt"
        /\ UNCHANGED lcoreVars \/ Launch
        /\ cmd' = next
        /\ UNCHANGED <<gap, changes, listVars, numVars, queueVars, cur_fwd_eng, enabled,
                       portVars, port_topology, todo>>
    BY <1>4 DEF StartPacketForwarding, Keep, Command
  <2>2. ListTypes' /\ NumTypes'
    BY <2>1 DEF TypeInv, ListTypes, NumTypes, listVars, numVars, queueVars
  <2>3. /\ CfgTypes' /\ SocketTypes' /\ freed' \in SUBSET Lcore
        /\ process' = "crashed" \/ process' = process
    BY <2>1, <2>2, SetupIs
  <2>4. LcoreTypes'
    <3>1. CASE UNCHANGED lcoreVars
      BY <1>1, <2>3, <3>1 DEF LcoreTypes, lcoreVars
    <3>2. CASE Launch
      BY <2>3, <3>2, TypeLaunch
    <3> QED
      BY <2>1, <3>1, <3>2
  <2>5. PortTypes'
    BY <2>1 DEF TypeInv, PortTypes, portVars
  <2>6. CmdTypes'
    BY <1>1, <2>1, <2>3 DEF TypeInv, CmdTypes
  <2> QED
    BY <2>2, <2>3, <2>4, <2>5, <2>6 DEF TypeInv
<1>5. ASSUME TxFirstDone PROVE TypeInv'
  <2>1. /\ Launch /\ cmd = "first" /\ cmd' = "prompt"
        /\ UNCHANGED <<freed, test_done, process, changes, enabled, portVars, socket_id,
                       settingVars, todo, resized, gap>>
    BY <1>5 DEF TxFirstDone, Idle, Keep
  <2>2. CfgTypes'
    BY <2>1, SettingsSame
  <2>3. LcoreTypes'
    BY <1>1, <2>1, <2>2, TypeLaunch
  <2>4. CmdTypes'
    BY <1>1, <2>1 DEF TypeInv, CmdTypes
  <2> QED
    BY <2>1, <2>3, <2>4, TypeQuiet
<1>6. ASSUME NEW next \in {"stop", "exit"}, TellLcoresToStop(next) PROVE TypeInv'
  <2>1. /\ cmd = "prompt" /\ cmd' = next
        /\ stopped' = stopped \cup 0 .. cur_fwd_config.nb_fwd_lcores - 1
        /\ UNCHANGED <<enabled, portVars, socket_id, settingVars, running, view, freed,
                       test_done, todo, resized, gap, process, changes>>
    BY <1>6 DEF TellLcoresToStop, Command, Keep
  <2>2. 0 .. cur_fwd_config.nb_fwd_lcores - 1 \subseteq Lcore
    <3>1. cur_fwd_config.nb_fwd_lcores \in 0 .. nb_lcores
      BY DEF TypeInv, CfgTypes, ConfigType
    <3> QED
      BY <3>1, Constants DEF Lcore
  <2>3. LcoreTypes'
    BY <1>1, <2>1, <2>2 DEF LcoreTypes
  <2>4. CmdTypes'
    BY <1>1, <2>1 DEF TypeInv, CmdTypes
  <2> QED
    BY <2>1, <2>3, <2>4, TypeQuiet
<1>7. ASSUME ForwardingStopped PROVE TypeInv'
  <2>1. /\ cmd = "stop" /\ cmd' = "prompt" /\ test_done' = 1
        /\ UNCHANGED <<lcoreVars, freed, process, changes, enabled, portVars, socket_id,
                       settingVars, todo, resized, gap>>
    BY <1>7 DEF ForwardingStopped, Idle, Keep
  <2>2. LcoreTypes' /\ CmdTypes'
    BY <1>1, <2>1 DEF TypeInv, LcoreTypes, CmdTypes, lcoreVars
  <2> QED
    BY <2>1, <2>2, TypeQuiet
<1>8. ASSUME ExitIdle PROVE TypeInv'
  <2>1. /\ cmd = "prompt" /\ cmd' = "exit"
        /\ UNCHANGED <<enabled, portVars, socket_id, settingVars, lcoreVars, freed, test_done,
                       todo, resized, gap, process, changes>>
    BY <1>8 DEF ExitIdle, Command, Keep
  <2>2. LcoreTypes' /\ CmdTypes'
    BY <1>1, <2>1 DEF TypeInv, LcoreTypes, CmdTypes, lcoreVars
  <2> QED
    BY <2>1, <2>2, TypeQuiet
<1>9. ASSUME ShutDown PROVE TypeInv'
  <2>1. /\ test_done' = 1 /\ process' = "exited"
        /\ port_status' = [p \in Port |->
               IF p \in enabled /\ port_status[p] \in {"started", "stopped"}
               THEN "closed" ELSE port_status[p]]
        /\ UNCHANGED <<enabled, need_reconfig, need_reconfig_queues, queues, socket_id,
                       settingVars, lcoreVars, freed, cmd, todo, resized, gap, changes>>
    BY <1>9 DEF ShutDown, Keep
  <2>2. ListTypes' /\ NumTypes' /\ CfgTypes'
    BY <2>1, SettingsSame
  <2>3. PortTypes'
    BY <2>1 DEF TypeInv, PortTypes
  <2>4. SocketTypes' /\ LcoreTypes' /\ CmdTypes'
    BY <2>1 DEF TypeInv, SocketTypes, LcoreTypes, CmdTypes, lcoreVars
  <2> QED
    BY <2>2, <2>3, <2>4 DEF TypeInv
<1>10. ASSUME NEW l \in Lcore, LcoreReturns(l) PROVE TypeInv'
  <2>1. /\ running' = running \ {l} /\ freed' = freed \ {l}
        /\ view' = [view EXCEPT ![l] = Share(0, 0)]
        /\ UNCHANGED <<stopped, test_done, cmd, process, changes, enabled, portVars, socket_id,
                       settingVars, todo, resized, gap>>
    BY <1>10 DEF LcoreReturns, Idle, Keep
  <2>2. LcoreTypes' /\ CmdTypes'
    BY <1>1, <2>1 DEF TypeInv, LcoreTypes, CmdTypes
  <2> QED
    BY <2>1, <2>2, TypeQuiet
<1>11. ASSUME NEW l \in Lcore, UseOfFreed(l) PROVE TypeInv'
  <2>1. /\ process' = "crashed"
        /\ UNCHANGED <<lcoreVars, freed, test_done, cmd, changes, enabled, portVars, socket_id,
                       settingVars, todo, resized, gap>>
    BY <1>11 DEF UseOfFreed, Idle, Keep
  <2>2. LcoreTypes' /\ CmdTypes'
    BY <2>1 DEF TypeInv, LcoreTypes, CmdTypes, lcoreVars
  <2> QED
    BY <2>1, <2>2, TypeQuiet
<1>12. ASSUME UNCHANGED vars PROVE TypeInv'
  BY <1>12 DEF vars, portVars, listVars, numVars, queueVars, cfgVars, lcoreVars, TypeInv,
               PortTypes, SocketTypes, ListTypes, NumTypes, CfgTypes, LcoreTypes, CmdTypes,
               ArraySize
<1> QED
  BY <1>3, <1>4, <1>5, <1>6, <1>7, <1>8, <1>9, <1>10, <1>11, <1>12 DEF Ended

LEMMA TypeStep == TypeInv /\ [Next]_vars => TypeInv'
<1> SUFFICES ASSUME TypeInv, [Next]_vars PROVE TypeInv'
  OBVIOUS
<1>1. CASE Prompt
  <2>1. \A n \in QueueNums : ConfigQueues(n, nb_txq) \/ ConfigQueues(nb_rxq, n) => TypeInv'
    <3>1. nb_rxq \in Nat /\ nb_txq \in Nat /\ QueueNums \subseteq Nat
      BY Constants DEF TypeInv, NumTypes
    <3> QED
      BY <3>1, TypeSettings
  <2> QED
    BY <1>1, <2>1, TypeSettings, TypeSet, TypePortCommands, TypeSession DEF Prompt
<1>2. CASE CmdStep
  BY <1>2, TypeStartPorts, TypeSession DEF CmdStep
<1>3. CASE UNCHANGED vars
  BY <1>3 DEF vars, portVars, listVars, numVars, queueVars, cfgVars, lcoreVars, TypeInv,
              PortTypes, SocketTypes, ListTypes, NumTypes, CfgTypes, LcoreTypes, CmdTypes,
              ArraySize
<1> QED
  BY <1>1, <1>2, <1>3, TypeSession DEF Next

LEMMA TypeInvariant == Spec => []TypeInv
<1>1. Init => TypeInv
  BY TypeInit
<1>2. TypeInv /\ [Next]_vars => TypeInv'
  BY TypeStep
<1> QED
  BY <1>1, <1>2, PTL DEF Spec

-----------------------------------------------------------------------------
(* Ports are started with their queues set up                              *)

(* A device that will be configured again will have its queues set up again. *)
Pending == need_reconfig \subseteq need_reconfig_queues

(* A port that may be started has its queues, or will have them set up. *)
Prepared ==
    \A p \in enabled :
        port_status[p] \in {"started", "stopped"} /\ p \notin need_reconfig_queues
            => queues[p] = [rx |-> nb_rxq, tx |-> nb_txq]

(* Nothing is left to set up for a port that is started. *)
StartedSet == \A p \in enabled : port_status[p] = "started" => p \notin need_reconfig_queues

ReadyInv == Pending /\ Prepared /\ StartedSet

LEMMA ReadyInit == Init => ReadyInv
<1> SUFFICES ASSUME Init PROVE ReadyInv
  OBVIOUS
<1>1. need_reconfig = enabled /\ need_reconfig_queues = enabled
  BY DEF Init
<1>2. Pending
  BY <1>1 DEF Pending
<1>3. enabled \in SUBSET Port /\ port_status = [p \in Port |-> "stopped"]
  BY SessionAssumption DEF Init
<1>4. Prepared /\ StartedSet
  BY <1>1, <1>3 DEF Prepared, StartedSet
<1> QED
  BY <1>2, <1>4 DEF ReadyInv

LEMMA ReadySame ==
    ASSUME ReadyInv, UNCHANGED <<enabled, portVars, queueVars>>
    PROVE  ReadyInv'
BY DEF ReadyInv, Pending, Prepared, StartedSet, portVars, queueVars

LEMMA ReadyStartPorts == TypeInv /\ ReadyInv /\ StartPorts => ReadyInv'
<1> SUFFICES ASSUME TypeInv, ReadyInv, StartPorts PROVE ReadyInv'
  OBVIOUS
<1> DEFINE p == NextPort
<1>1. /\ enabled \in SUBSET Port
      /\ port_status \in [Port -> {"stopped", "started", "closed", "handling"}]
      /\ queues \in [Port -> [rx : Nat, tx : Nat]]
  BY DEF TypeInv, PortTypes
<1>2. ASSUME Starting PROVE p \in Port /\ p \in enabled
  BY <1>2, NextPortIs DEF Starting
<1> HIDE DEF p
<1>3. CASE PortNotStopped \/ ConfigureFails \/ StartDone
  BY <1>3, ReadySame DEF PortNotStopped, ConfigureFails, StartDone, DevStep, settingVars
<1>4. CASE QueueSetupFails
  <2>1. /\ Starting /\ p \in need_reconfig_queues
        /\ need_reconfig' = need_reconfig \ {p}
        /\ queues' = [queues EXCEPT ![p] = Configured(p)]
        /\ UNCHANGED <<port_status, need_reconfig_queues, enabled, queueVars>>
    BY <1>4 DEF QueueSetupFails, DevStep, settingVars, p
  <2> QED
    BY <1>1, <1>2, <2>1 DEF ReadyInv, Pending, Prepared, StartedSet, queueVars
<1>5. CASE NoMempool
  <2>1. /\ Starting
        /\ need_reconfig' = need_reconfig \ {p}
        /\ queues' = [queues EXCEPT ![p] = [rx |-> 0, tx |-> nb_txq]]
        /\ port_status' = [port_status EXCEPT ![p] = "handling"]
        /\ need_reconfig_queues' = need_reconfig_queues \ {p}
        /\ UNCHANGED <<enabled, queueVars>>
    BY <1>5 DEF NoMempool, DevStep, settingVars, p
  <2> QED
    BY <1>1, <1>2, <2>1 DEF ReadyInv, Pending, Prepared, StartedSet, queueVars
<1>6. ASSUME NEW status \in {"started", "stopped"}, StartDevice(status) PROVE ReadyInv'
  <2>1. /\ Starting /\ port_status[p] = "stopped"
        /\ need_reconfig' = need_reconfig \ {p}
        /\ need_reconfig_queues' = need_reconfig_queues \ {p}
        /\ queues' = [queues EXCEPT ![p] =
                         IF p \in need_reconfig_queues
                         THEN [rx |-> nb_rxq, tx |-> nb_txq] ELSE Configured(p)]
        /\ port_status' = [port_status EXCEPT ![p] = status]
        /\ UNCHANGED <<enabled, queueVars>>
    BY <1>6 DEF StartDevice, DevStep, settingVars, p
  <2>2. queues'[p] = [rx |-> nb_rxq, tx |-> nb_txq]
    <3>1. p \notin need_reconfig_queues => Configured(p) = [rx |-> nb_rxq, tx |-> nb_txq]
      BY <1>2, <2>1 DEF ReadyInv, Pending, Prepared, Configured
    <3> QED
      BY <1>1, <1>2, <2>1, <3>1
  <2> QED
    BY <1>1, <1>2, <2>1, <2>2 DEF ReadyInv, Pending, Prepared, StartedSet, queueVars
<1> QED
  BY <1>3, <1>4, <1>5, <1>6 DEF StartPorts

LEMMA ReadyCommands ==
    ASSUME TypeInv, ReadyInv
    PROVE  /\ \A rx, tx \in Nat : ConfigQueues(rx, tx) => ReadyInv'
           /\ \A pids \in OneOrAll :
                 ReconfigDevice(pids) \/ StopPort(pids) \/ ClosePort(pids) => ReadyInv'
           /\ \A s \in Sockets : AttachPort(s) => ReadyInv'
           /\ \A p \in Port : DetachPort(p) => ReadyInv'
           /\ ShutDown => ReadyInv'
<1>1. /\ enabled \in SUBSET Port
      /\ port_status \in [Port -> {"stopped", "started", "closed", "handling"}]
      /\ queues \in [Port -> [rx : Nat, tx : Nat]]
  BY DEF TypeInv, PortTypes
<1>2. ASSUME NEW rx \in Nat, NEW tx \in Nat, ConfigQueues(rx, tx) PROVE ReadyInv'
  <2>1. /\ AllPortsStopped
        /\ need_reconfig' = need_reconfig \cup enabled
        /\ need_reconfig_queues' = need_reconfig_queues \cup enabled
        /\ UNCHANGED <<enabled, port_status>>
    BY <1>2 DEF ConfigQueues, SetUpAgain
  <2> QED
    BY <2>1 DEF ReadyInv, Pending, Prepared, StartedSet, AllPortsStopped
<1>3. ASSUME NEW pids \in OneOrAll, ReconfigDevice(pids) PROVE ReadyInv'
  <2>1. /\ \A p \in There(pids) : port_status[p] = "stopped"
        /\ need_reconfig' = need_reconfig \cup There(pids)
        /\ need_reconfig_queues' = need_reconfig_queues \cup There(pids)
        /\ UNCHANGED <<enabled, port_status, queues, queueVars>>
    BY <1>3 DEF ReconfigDevice, settingVars
  <2> QED
    BY <2>1 DEF ReadyInv, Pending, Prepared, StartedSet, queueVars
<1>4. ASSUME NEW pids \in OneOrAll, StopPort(pids) PROVE ReadyInv'
  <2>1. /\ port_status' = [p \in Port |->
               IF p \in There(pids) \cap Unused /\ port_status[p] = "started" THEN "stopped"
               ELSE port_status[p]]
        /\ UNCHANGED <<enabled, need_reconfig, need_reconfig_queues, queues, queueVars>>
    BY <1>4 DEF StopPort, settingVars
  <2> QED
    BY <1>1, <2>1 DEF ReadyInv, Pending, Prepared, StartedSet, queueVars
<1>5. ASSUME NEW pids \in OneOrAll, ClosePort(pids) PROVE ReadyInv'
  <2> DEFINE closing == {p \in There(pids) \cap Unused : port_status[p] = "stopped"}
  <2>1. /\ port_status' = [p \in Port |-> IF p \in closing THEN "closed" ELSE port_status[p]]
        /\ queues' = [p \in Port |-> IF p \in closing THEN NoQueues ELSE queues[p]]
        /\ UNCHANGED <<enabled, need_reconfig, need_reconfig_queues, queueVars>>
    BY <1>5 DEF ClosePort, settingVars
  <2> HIDE DEF closing
  <2> QED
    BY <1>1, <2>1 DEF ReadyInv, Pending, Prepared, StartedSet, queueVars
<1>6. ASSUME NEW s \in Sockets, AttachPort(s) PROVE ReadyInv'
  <2>1. PICK q \in Port :
           /\ enabled' = enabled \cup {q}
           /\ need_reconfig' = need_reconfig \cup {q}
           /\ need_reconfig_queues' = need_reconfig_queues \cup {q}
           /\ port_status' = [port_status EXCEPT ![q] = "stopped"]
           /\ queues' = [queues EXCEPT ![q] = NoQueues]
           /\ UNCHANGED queueVars
    <3>1. Port \ enabled # {} /\ Port \ enabled \in SUBSET Port
      BY <1>6 DEF AttachPort
    <3>2. (CHOOSE p \in Port \ enabled : \A o \in Port \ enabled : p <= o) \in Port
      BY <3>1, Least
    <3> QED
      BY <1>6, <3>2 DEF AttachPort, listUpdate
  <2> QED
    BY <1>1, <2>1 DEF ReadyInv, Pending, Prepared, StartedSet, queueVars
<1>7. ASSUME NEW p \in Port, DetachPort(p) PROVE ReadyInv'
  <2>1. enabled' = enabled \ {p} /\ UNCHANGED <<portVars, queueVars>>
    BY <1>7 DEF DetachPort, listUpdate
  <2> QED
    BY <2>1 DEF ReadyInv, Pending, Prepared, StartedSet, portVars, queueVars
<1>8. ASSUME ShutDown PROVE ReadyInv'
  <2>1. /\ port_status' = [p \in Port |->
               IF p \in enabled /\ port_status[p] \in {"started", "stopped"}
               THEN "closed" ELSE port_status[p]]
        /\ UNCHANGED <<enabled, need_reconfig, need_reconfig_queues, queues, queueVars>>
    BY <1>8 DEF ShutDown, settingVars
  <2> QED
    BY <1>1, <2>1 DEF ReadyInv, Pending, Prepared, StartedSet, queueVars
<1> QED
  BY <1>2, <1>3, <1>4, <1>5, <1>6, <1>7, <1>8

LEMMA ReadyStep == TypeInv /\ ReadyInv /\ [Next]_vars => ReadyInv'
<1> SUFFICES ASSUME TypeInv, ReadyInv, [Next]_vars PROVE ReadyInv'
  OBVIOUS
<1>1. /\ \A list \in PortLists : SetFwdPortsList(list) => ReadyInv'
      /\ \A n \in 1 .. nb_lcores : SetFwdLcoresList(n) => ReadyInv'
      /\ \A n \in 0 .. Cardinality(Port) : SetFwdPortsNumber(n) => ReadyInv'
      /\ \A n \in 0 .. nb_lcores : SetFwdLcoresNumber(n) => ReadyInv'
  BY ReadySame DEF SetFwdPortsList, SetFwdLcoresList, SetFwdPortsNumber, SetFwdLcoresNumber,
                   SetUpAgain, portVars
<1>2. /\ \A eng \in Engines : SetFwdMode(eng) => ReadyInv'
      /\ SetDefault => ReadyInv'
      /\ \A pids \in OneOrAll : StartPort(pids) => ReadyInv'
  BY ReadySame DEF SetFwdMode, SetDefault, StartPort, settingVars
<1>3. /\ StartExits \/ ExitIdle => ReadyInv'
      /\ \A next \in {"prompt", "first"} : StartPacketForwarding(next) => ReadyInv'
      /\ \A next \in {"stop", "exit"} : TellLcoresToStop(next) => ReadyInv'
      /\ TxFirstDone \/ ForwardingStopped => ReadyInv'
      /\ \A l \in Lcore : LcoreReturns(l) \/ UseOfFreed(l) => ReadyInv'
  BY ReadySame DEF StartExits, ExitIdle, StartPacketForwarding, TellLcoresToStop, TxFirstDone,
                   ForwardingStopped, LcoreReturns, UseOfFreed, Idle, settingVars
<1>4. UNCHANGED vars => ReadyInv'
  BY ReadySame DEF vars
<1>5. CASE Prompt
  <2>1. \A n \in QueueNums : ConfigQueues(n, nb_txq) \/ ConfigQueues(nb_rxq, n) => ReadyInv'
    <3>1. nb_rxq \in Nat /\ nb_txq \in Nat /\ QueueNums \subseteq Nat
      BY Constants DEF TypeInv, NumTypes
    <3> QED
      BY <3>1, ReadyCommands
  <2> QED
    BY <1>1, <1>2, <1>3, <1>5, <2>1, ReadyCommands DEF Prompt
<1>6. CASE CmdStep
  BY <1>3, <1>6, ReadyStartPorts, ReadyCommands DEF CmdStep
<1> QED
  BY <1>3, <1>4, <1>5, <1>6 DEF Next, Ended

(***************************************************************************)
(* A port is started only with its queues set up, as many as are           *)
(* configured, whatever start_port failed at before and whatever was       *)
(* configured, attached and detached since.                                *)
(***************************************************************************)
THEOREM PortsStartReady == Spec => []StartedPortsReady
<1>1. Init => TypeInv /\ ReadyInv
  BY TypeInit, ReadyInit
<1>2. TypeInv /\ ReadyInv /\ [Next]_vars => (TypeInv /\ ReadyInv)'
  BY TypeStep, ReadyStep
<1>3. TypeInv /\ ReadyInv => StartedPortsReady
  BY DEF ReadyInv, Prepared, StartedSet, StartedPortsReady
<1> QED
  BY <1>1, <1>2, <1>3, PTL DEF Spec

-----------------------------------------------------------------------------
(* The lists stay within what there is                                     *)

Within == nb_fwd_lcores <= nb_cfg_lcores /\ nb_fwd_ports <= nb_cfg_ports

(* The ports listed are there, each once. *)
ListedOnce ==
    ~gap => /\ \A i \in 0 .. nb_cfg_ports - 1 : fwd_ports_ids[i] \in enabled
            /\ Apart(fwd_ports_ids, nb_cfg_ports)

ListInv == Within /\ ListedOnce

LEMMA ListSame ==
    ASSUME ListInv, UNCHANGED <<enabled, listVars, numVars, gap>>
    PROVE  ListInv'
<1>1. UNCHANGED <<enabled, fwd_ports_ids, nb_cfg_ports, nb_fwd_ports, nb_cfg_lcores,
                  nb_fwd_lcores, gap>>
  BY DEF listVars, numVars
<1> QED
  BY <1>1 DEF ListInv, Within, ListedOnce, Apart

(* No more ports are listed than there are. *)
LEMMA ListIs == TypeInv /\ ListInv => ConfiguredWithinProbed
<1> SUFFICES ASSUME TypeInv, ListInv PROVE ConfiguredWithinProbed
  OBVIOUS
<1>1. /\ nb_cfg_ports \in Nat /\ nb_cfg_lcores <= nb_lcores /\ enabled \in SUBSET Port
  BY Constants DEF TypeInv, PortTypes, ListTypes, NumTypes
<1>2. ~gap => nb_cfg_ports <= Cardinality(enabled)
  BY <1>1, ApartFits DEF ListInv, ListedOnce
<1> QED
  BY <1>1, <1>2, TypeInvIs DEF ListInv, Within, ListedOnce, Apart, ConfiguredWithinProbed

LEMMA ListInit == Init => ListInv
<1> SUFFICES ASSUME Init PROVE ListInv
  OBVIOUS
<1> DEFINE n == Cardinality(enabled)
<1>1. enabled \in SUBSET Port /\ enabled = 0 .. n - 1
  BY SessionAssumption DEF Init
<1>2. /\ nb_cfg_ports = n /\ nb_fwd_ports = n /\ nb_cfg_lcores = nb_lcores /\ nb_fwd_lcores = 1
      /\ fwd_ports_ids = [i \in Port |-> IF i \in enabled THEN i ELSE 0]
  BY DEF Init
<1>3. n \in Nat /\ n <= n /\ 1 <= nb_lcores
  BY <1>1, PortsIn, Constants
<1> HIDE DEF n
<1>4. \A i \in 0 .. n - 1 : fwd_ports_ids[i] = i
  BY <1>1, <1>2
<1> QED
  BY <1>1, <1>2, <1>3, <1>4 DEF ListInv, Within, ListedOnce, Apart

LEMMA ListSettings ==
    ASSUME TypeInv, ListInv
    PROVE  /\ \A list \in PortLists : SetFwdPortsList(list) => ListInv'
           /\ \A n \in 1 .. nb_lcores : SetFwdLcoresList(n) => ListInv'
           /\ \A n \in 0 .. Cardinality(Port) : SetFwdPortsNumber(n) => ListInv'
           /\ \A n \in 0 .. nb_lcores : SetFwdLcoresNumber(n) => ListInv'
           /\ SetDefault => ListInv'
<1>1. /\ nb_cfg_ports \in Nat /\ nb_fwd_ports \in Nat
      /\ nb_cfg_lcores \in Nat /\ nb_fwd_lcores \in Nat
      /\ enabled \in SUBSET Port
  BY Constants DEF TypeInv, ListTypes, NumTypes, PortTypes
<1>2. ASSUME NEW list \in PortLists, SetFwdPortsList(list) PROVE ListInv'
  <2>1. UNCHANGED <<enabled, numVars>>
    BY <1>2 DEF SetFwdPortsList, SetUpAgain
  <2>2. CASE UNCHANGED <<listVars, gap>>
    BY <2>1, <2>2, ListSame
  <2>3. CASE ~UNCHANGED <<listVars, gap>>
    <3>1. /\ \A i \in 1 .. Len(list) : list[i] \in enabled
          /\ fwd_ports_ids' = [i \in Port |-> IF i < Len(list) THEN list[i + 1]
                                              ELSE fwd_ports_ids[i]]
          /\ nb_cfg_ports' = Len(list) /\ nb_fwd_ports' = Len(list)
      BY <1>2, <2>3 DEF SetFwdPortsList
    <3>2. /\ Len(list) \in 0 .. Cardinality(Port) /\ Len(list) \in Nat
          /\ \A i, j \in 1 .. Len(list) : list[i] = list[j] => i = j
      BY ListFits
    <3>3. \A i \in 0 .. Len(list) - 1 : i + 1 \in 1 .. Len(list) /\ i \in Port /\ i < Len(list)
      BY <3>2, Constants
    <3>4. \A i \in 0 .. Len(list) - 1 : fwd_ports_ids'[i] = list[i + 1]
      BY <3>1, <3>3
    <3>5. \A i \in 0 .. Len(list) - 1 : fwd_ports_ids'[i] \in enabled
      BY <3>1, <3>3, <3>4
    <3>6. Apart(fwd_ports_ids', Len(list))
      <4> SUFFICES ASSUME NEW i \in 0 .. Len(list) - 1, NEW j \in 0 .. Len(list) - 1,
                          fwd_ports_ids'[i] = fwd_ports_ids'[j]
                   PROVE  i = j
        BY DEF Apart
      <4>1. i + 1 = j + 1
        BY <3>2, <3>3, <3>4
      <4> QED
        BY <3>2, <4>1
    <3>7. Within'
      BY <2>1, <3>1, <3>2 DEF ListInv, Within, numVars
    <3> QED
      BY <2>1, <3>1, <3>5, <3>6, <3>7 DEF ListInv, ListedOnce
  <2> QED
    BY <2>2, <2>3
<1>3. ASSUME NEW n \in 1 .. nb_lcores, SetFwdLcoresList(n) PROVE ListInv'
  <2>1. /\ nb_cfg_lcores' = n /\ nb_fwd_lcores' = n
        /\ UNCHANGED <<enabled, gap, fwd_ports_ids, nb_cfg_ports, nb_fwd_ports>>
    BY <1>3 DEF SetFwdLcoresList, SetUpAgain, listVars
  <2> QED
    BY <2>1, Constants DEF ListInv, Within, ListedOnce, Apart
<1>4. ASSUME NEW n \in 0 .. Cardinality(Port), SetFwdPortsNumber(n) PROVE ListInv'
  <2>1. /\ nb_fwd_ports' = IF n > nb_cfg_ports THEN nb_fwd_ports ELSE n
        /\ UNCHANGED <<enabled, gap, fwd_ports_ids, nb_cfg_ports, nb_cfg_lcores, nb_fwd_lcores>>
    BY <1>4 DEF SetFwdPortsNumber, SetUpAgain, numVars
  <2>2. Within'
    BY <1>1, <2>1, Constants DEF ListInv, Within
  <2>3. ListedOnce'
    BY <2>1 DEF ListInv, ListedOnce, Apart
  <2> QED
    BY <2>2, <2>3 DEF ListInv
<1>5. ASSUME NEW n \in 0 .. nb_lcores, SetFwdLcoresNumber(n) PROVE ListInv'
  <2>1. /\ nb_fwd_lcores' = IF n > nb_cfg_lcores THEN nb_fwd_lcores ELSE n
        /\ UNCHANGED <<enabled, gap, fwd_ports_ids, nb_cfg_ports, nb_fwd_ports, nb_cfg_lcores>>
    BY <1>5 DEF SetFwdLcoresNumber, SetUpAgain, listVars
  <2>2. Within'
    BY <1>1, <2>1, Constants DEF ListInv, Within
  <2>3. ListedOnce'
    BY <2>1 DEF ListInv, ListedOnce, Apart
  <2> QED
    BY <2>2, <2>3 DEF ListInv
<1>6. ASSUME SetDefault PROVE ListInv'
  <2> DEFINE nb == Cardinality(enabled)
  <2>1. /\ nb_cfg_lcores' = nb_lcores /\ nb_fwd_lcores' = 1
        /\ fwd_ports_ids' = [i \in Port |-> IF i < nb THEN i ELSE fwd_ports_ids[i]]
        /\ nb_cfg_ports' = nb /\ nb_fwd_ports' = nb
        /\ gap' = (gap \/ enabled # 0 .. nb - 1)
        /\ UNCHANGED enabled
    BY <1>6 DEF SetDefault
  <2>2. nb \in 0 .. Cardinality(Port) /\ nb \in Nat
    BY <1>1, PortsIn, Constants
  <2> HIDE DEF nb
  <2>3. \A i \in 0 .. nb - 1 : i \in Port /\ i < nb
    BY <2>2, Constants
  <2>4. \A i \in 0 .. nb - 1 : fwd_ports_ids'[i] = i
    BY <2>1, <2>3
  <2>5. Within'
    BY <2>1, <2>2, Constants DEF Within
  <2>6. ListedOnce'
    <3> SUFFICES ASSUME ~gap'
                 PROVE  /\ \A i \in 0 .. nb - 1 : fwd_ports_ids'[i] \in enabled
                        /\ Apart(fwd_ports_ids', nb)
      BY <2>1 DEF ListedOnce
    <3>1. enabled = 0 .. nb - 1
      BY <2>1
    <3> QED
      BY <2>4, <3>1 DEF Apart
  <2> QED
    BY <2>5, <2>6 DEF ListInv
<1> QED
  BY <1>2, <1>3, <1>4, <1>5, <1>6

(* Attaching and detaching keep the ports listed apart, and there. *)
LEMMA KeptListed ==
    ASSUME TypeInv, ListInv, ~gap, NEW new \in SUBSET Port, UpdateFwdPorts(new)
    PROVE  /\ \A i \in 0 .. Cardinality(Kept) - 1 :
                 fwd_ports_ids'[i] \in enabled /\ fwd_ports_ids'[i] \in enabled'
           /\ Apart(fwd_ports_ids', Cardinality(Kept))
<1>1. /\ fwd_ports_ids \in [Port -> Port] /\ nb_fwd_ports \in 0 .. Cardinality(Port)
      /\ nb_fwd_ports \in Nat /\ nb_cfg_ports \in Nat /\ nb_fwd_ports <= nb_cfg_ports
  BY Constants DEF TypeInv, ListTypes, ListInv, Within
<1> DEFINE nb == Cardinality(Kept)
<1>2. PICK at \in [0 .. nb - 1 -> Kept] :
         \A i \in 0 .. nb - 1 :
            fwd_ports_ids'[i] = fwd_ports_ids[at[i]] /\ Rank(Kept, at[i]) = i
  BY <1>1, UpdateIs
<1> HIDE DEF nb
<1>3. \A k \in Kept : /\ k \in 0 .. nb_cfg_ports - 1
                      /\ fwd_ports_ids[k] \in enabled'
  BY <1>1, Constants DEF Kept
<1>4. \A i \in 0 .. nb - 1 : at[i] \in 0 .. nb_cfg_ports - 1
                             /\ fwd_ports_ids'[i] \in enabled'
  BY <1>2, <1>3
<1>5. \A i \in 0 .. nb - 1 : fwd_ports_ids'[i] \in enabled
  BY <1>2, <1>4 DEF ListInv, ListedOnce
<1>6. Apart(fwd_ports_ids', nb)
  <2> SUFFICES ASSUME NEW i \in 0 .. nb - 1, NEW j \in 0 .. nb - 1,
                      fwd_ports_ids'[i] = fwd_ports_ids'[j]
               PROVE  i = j
    BY DEF Apart
  <2>1. at[i] = at[j]
    BY <1>2, <1>4 DEF ListInv, ListedOnce, Apart
  <2> QED
    BY <1>2, <2>1
<1> QED
  BY <1>4, <1>5, <1>6 DEF nb

LEMMA ListPorts ==
    ASSUME TypeInv, ListInv
    PROVE  /\ \A s \in Sockets : AttachPort(s) => ListInv'
           /\ \A p \in Port : DetachPort(p) => ListInv'
<1>1. /\ enabled \in SUBSET Port /\ fwd_ports_ids \in [Port -> Port]
      /\ nb_fwd_ports \in 0 .. Cardinality(Port)
  BY DEF TypeInv, PortTypes, ListTypes
<1> DEFINE nb == Cardinality(Kept)
<1>2. ASSUME NEW s \in Sockets, AttachPort(s) PROVE ListInv'
  <2>1. PICK q \in Port \ enabled :
           /\ enabled' = enabled \cup {q}
           /\ \/ nb \in Port /\ UpdateFwdPorts({q})
              \/ UNCHANGED listVars
           /\ UNCHANGED <<numVars, gap>>
    <3>1. Port \ enabled # {} /\ Port \ enabled \in SUBSET Port
      BY <1>2 DEF AttachPort
    <3>2. (CHOOSE p \in Port \ enabled : \A o \in Port \ enabled : p <= o) \in Port \ enabled
      BY <3>1, Least
    <3> QED
      BY <1>2, <3>2 DEF AttachPort, listUpdate
  <2>2. CASE UNCHANGED listVars
    <3>1. UNCHANGED <<fwd_ports_ids, nb_cfg_ports, nb_fwd_ports, nb_cfg_lcores, nb_fwd_lcores,
                      gap>>
      BY <2>1, <2>2 DEF listVars, numVars
    <3> QED
      BY <2>1, <3>1 DEF ListInv, Within, ListedOnce, Apart
  <2>3. CASE nb \in Port /\ UpdateFwdPorts({q})
    <3>1. {q} \in SUBSET Port /\ Cardinality({q}) = 1 /\ nb \in Nat
      <4>1. nb \in Nat
        BY <2>3, Constants
      <4> QED
        BY <4>1, FS_Singleton
    <3>2. /\ nb_fwd_ports' = nb + 1 /\ nb_cfg_ports' = nb + 1 /\ fwd_ports_ids'[nb] = q
      <4>1. /\ nb_fwd_ports' = nb + Cardinality({q}) /\ nb_cfg_ports' = nb + Cardinality({q})
            /\ \A p \in {q} : {q} = {p} /\ nb \in Port => fwd_ports_ids'[nb] = p
        BY <1>1, <2>3, <3>1, UpdateIs
      <4> QED
        BY <2>3, <3>1, <4>1
    <3>3. Within'
      BY <2>1, <3>1, <3>2 DEF ListInv, Within, numVars
    <3>4. ListedOnce'
      <4> SUFFICES ASSUME ~gap
                   PROVE  /\ \A i \in 0 .. nb : fwd_ports_ids'[i] \in enabled'
                          /\ Apart(fwd_ports_ids', nb + 1)
        <5>1. (nb + 1) - 1 = nb
          BY <3>1
        <5> QED
          BY <2>1, <3>2, <5>1 DEF ListedOnce
      <4>1. /\ \A i \in 0 .. nb - 1 : fwd_ports_ids'[i] \in enabled
            /\ Apart(fwd_ports_ids', nb)
        BY <2>3, <3>1, KeptListed
      <4> HIDE DEF nb
      <4>2. \A i \in 0 .. nb : i \in 0 .. nb - 1 \/ i = nb
        BY <3>1
      <4>3. \A i \in 0 .. nb : fwd_ports_ids'[i] \in enabled'
        BY <2>1, <3>2, <4>1, <4>2
      <4>4. \A i \in 0 .. nb - 1 : fwd_ports_ids'[i] # fwd_ports_ids'[nb]
        BY <2>1, <3>2, <4>1
      <4>5. \A i, j \in 0 .. nb : fwd_ports_ids'[i] = fwd_ports_ids'[j] => i = j
        BY <4>1, <4>2, <4>4 DEF Apart
      <4>6. (nb + 1) - 1 = nb
        BY <3>1
      <4> QED
        BY <4>3, <4>5, <4>6 DEF Apart
    <3> QED
      BY <3>3, <3>4 DEF ListInv
  <2> QED
    BY <2>1, <2>2, <2>3
<1>3. ASSUME NEW p \in Port, DetachPort(p) PROVE ListInv'
  <2>1. UpdateFwdPorts({}) /\ UNCHANGED <<numVars, gap>>
    BY <1>3 DEF DetachPort, listUpdate, PortCommand
  <2>2. {} \in SUBSET Port /\ Cardinality({}) = 0
    BY FS_EmptySet
  <2>3. nb \in 0 .. nb_fwd_ports /\ nb_fwd_ports' = nb + 0 /\ nb_cfg_ports' = nb + 0
    BY <1>1, <2>1, <2>2, UpdateIs
  <2>4. nb_fwd_ports' = nb /\ nb_cfg_ports' = nb /\ nb \in Nat
    BY <1>1, <2>3, Constants
  <2>5. Within'
    BY <2>1, <2>4 DEF ListInv, Within, numVars
  <2>6. ListedOnce'
    <3> SUFFICES ASSUME ~gap
                 PROVE  /\ \A i \in 0 .. nb - 1 : fwd_ports_ids'[i] \in enabled'
                        /\ Apart(fwd_ports_ids', nb)
      BY <2>1, <2>4 DEF ListedOnce
    <3> QED
      BY <2>1, <2>2, KeptListed
  <2> QED
    BY <2>5, <2>6 DEF ListInv
<1> QED
  BY <1>2, <1>3

LEMMA ListStep == TypeInv /\ ListInv /\ [Next]_vars => ListInv'
<1> SUFFICES ASSUME TypeInv, ListInv, [Next]_vars PROVE ListInv'
  OBVIOUS
<1>1. /\ \A rx, tx \in Nat : ConfigQueues(rx, tx) => ListInv'
      /\ \A eng \in Engines : SetFwdMode(eng) => ListInv'
      /\ \A pids \in OneOrAll :
            ReconfigDevice(pids) \/ StartPort(pids) \/ StopPort(pids) \/ ClosePort(pids)
                => ListInv'
  BY ListSame DEF ConfigQueues, SetUpAgain, SetFwdMode, ReconfigDevice, StartPort, StopPort,
                  ClosePort, PortCommand, settingVars
<1>2. /\ StartExits \/ ExitIdle \/ ShutDown => ListInv'
      /\ \A next \in {"prompt", "first"} : StartPacketForwarding(next) => ListInv'
      /\ \A next \in {"stop", "exit"} : TellLcoresToStop(next) => ListInv'
      /\ TxFirstDone \/ ForwardingStopped => ListInv'
      /\ \A l \in Lcore : LcoreReturns(l) \/ UseOfFreed(l) => ListInv'
  BY ListSame DEF StartExits, ExitIdle, ShutDown, StartPacketForwarding, TellLcoresToStop,
                  TxFirstDone, ForwardingStopped, LcoreReturns, UseOfFreed, Idle, settingVars
<1>3. StartPorts => ListInv'
  BY ListSame DEF StartPorts, PortNotStopped, ConfigureFails, QueueSetupFails, NoMempool,
                  StartDevice, StartDone, DevStep, settingVars
<1>4. UNCHANGED vars => ListInv'
  BY ListSame DEF vars
<1>5. CASE Prompt
  <2>1. \A n \in QueueNums : ConfigQueues(n, nb_txq) \/ ConfigQueues(nb_rxq, n) => ListInv'
    <3>1. nb_rxq \in Nat /\ nb_txq \in Nat /\ QueueNums \subseteq Nat
      BY Constants DEF TypeInv, NumTypes
    <3> QED
      BY <1>1, <3>1
  <2> QED
    BY <1>1, <1>2, <1>5, <2>1, ListSettings, ListPorts DEF Prompt
<1> QED
  BY <1>2, <1>3, <1>4, <1>5 DEF Next, CmdStep, Ended

(***************************************************************************)
(* No more lcores and ports are used than are configured, and no more      *)
(* configured than there are; the ports in the lists are there, and        *)
(* distinct, whatever is attached, detached and set, until the default is  *)
(* set with a port id missing.                                             *)
(***************************************************************************)
THEOREM ListsStayWithin == Spec => []ConfiguredWithinProbed
<1>1. Init => TypeInv /\ ListInv
  BY TypeInit, ListInit
<1>2. TypeInv /\ ListInv /\ [Next]_vars => (TypeInv /\ ListInv)'
  BY TypeStep, ListStep
<1> QED
  BY <1>1, <1>2, ListIs, PTL DEF Spec

-----------------------------------------------------------------------------
(* The streams of the configuration                                        *)

nb_streams == cur_fwd_config.nb_fwd_streams
nb_used == cur_fwd_config.nb_fwd_lcores

(* Each lcore of the configuration has its share of the streams. *)
Shared ==
    /\ nb_used <= nb_streams
    /\ nb_used = 0 => nb_streams = 0
    /\ \A l \in 0 .. nb_used - 1 : fwd_lcores[l] = EachLcore(nb_streams, nb_used)[l]

InArray == nb_streams <= ArraySize

CfgInv == Shared /\ InArray /\ OneStreamPerQueue

LEMMA CfgNat ==
    ASSUME TypeInv
    PROVE  nb_streams \in Nat /\ nb_used \in Nat /\ nb_used \in 0 .. nb_lcores
BY Constants DEF TypeInv, CfgTypes, ConfigType, nb_streams, nb_used

LEMMA CfgIs == TypeInv /\ CfgInv => StreamsDivided
<1> SUFFICES ASSUME TypeInv, CfgInv PROVE StreamsDivided
  OBVIOUS
<1>1. nb_streams \in Nat /\ nb_used \in Nat
  BY CfgNat
<1>2. ASSUME NEW s \in 0 .. nb_streams - 1
      PROVE  Cardinality({l \in 0 .. nb_used - 1 : Has(l, s)}) = 1
  <2> DEFINE has == {l \in 0 .. nb_used - 1 : Has(l, s)}
  <2>1. /\ nb_used \in Nat \ {0} /\ nb_used <= nb_streams /\ s \in Nat
        /\ \A l \in 0 .. nb_used - 1 : fwd_lcores[l] = EachLcore(nb_streams, nb_used)[l]
    BY <1>1 DEF CfgInv, Shared
  <2>2. PICK l \in 0 .. nb_used - 1 : InShare(s, EachLcore(nb_streams, nb_used)[l])
    BY <1>1, <2>1, EveryStreamHasLcore
  <2>3. \A m \in 0 .. nb_used - 1 : m # l => ~InShare(s, EachLcore(nb_streams, nb_used)[m])
    BY <1>1, <2>1, <2>2, NoStreamTwice
  <2>4. has = {l}
    BY <2>1, <2>2, <2>3 DEF Has
  <2> QED
    BY <2>4, FS_Singleton
<1>3. ASSUME NEW l \in 0 .. nb_used - 1
      PROVE  fwd_lcores[l].stream_idx + fwd_lcores[l].stream_nb <= nb_streams
  <2>1. /\ nb_used \in Nat \ {0} /\ nb_used <= nb_streams
        /\ fwd_lcores[l] = EachLcore(nb_streams, nb_used)[l]
    BY <1>1 DEF CfgInv, Shared
  <2> QED
    BY <1>1, <2>1, SharesThere
<1> QED
  BY <1>2, <1>3 DEF CfgInv, StreamsDivided, nb_streams, nb_used

LEMMA CfgSame ==
    ASSUME CfgInv, UNCHANGED <<cfgVars, port_topology>>,
           ~gap' /\ process' # "crashed" => ~gap /\ process # "crashed"
    PROVE  CfgInv'
<1>1. UNCHANGED <<cur_fwd_config, fwd_lcores, fwd_streams, port_topology>>
  BY DEF cfgVars
<1>2. Shared' /\ InArray'
  BY <1>1 DEF CfgInv, Shared, InArray, nb_streams, nb_used, ArraySize
<1>3. OneStreamPerQueue'
  BY <1>1 DEF CfgInv, OneStreamPerQueue, OddPairs
<1> QED
  BY <1>2, <1>3 DEF CfgInv

LEMMA QueuesAre ==
    OneStreamPerQueue <=>
        (~gap /\ process # "crashed" =>
            \A s, t \in 0 .. nb_streams - 1 :
                s # t => TwoQueues(fwd_streams, port_topology, cur_fwd_config.nb_fwd_ports,
                                   nb_streams, s, t))
BY DEF OneStreamPerQueue, OddPairs, TwoQueues, nb_streams

(* Of distinct ports, the first ones are distinct. *)
LEMMA ApartWithin ==
    ASSUME NEW ids, NEW n \in Nat, NEW m \in Nat, n <= m, Apart(ids, m)
    PROVE  Apart(ids, n)
<1>1. \A i \in 0 .. n - 1 : i \in 0 .. m - 1
  OBVIOUS
<1> QED
  BY <1>1 DEF Apart

LEMMA CfgSetUp ==
    ASSUME TypeInv, CfgInv, ListTypes', NumTypes', ListInv', port_topology' = port_topology,
           FwdConfigSetup
    PROVE  CfgInv'
<1> DEFINE c == NewConfig
<1>1. /\ nb_fwd_ports' \in Nat /\ nb_cfg_ports' \in Nat /\ nb_fwd_lcores' \in Nat
      /\ nb_rxq' \in Nat /\ nb_txq' \in Nat /\ port_topology \in Topology
  BY Constants DEF ListTypes, NumTypes, TypeInv
<1>4. ~gap' => Apart(fwd_ports_ids', nb_fwd_ports')
  <2>1. nb_fwd_ports' <= nb_cfg_ports'
    BY DEF ListInv, Within
  <2>2. nb_fwd_ports' \in Nat /\ nb_cfg_ports' \in Nat
    BY <1>1
  <2> QED
    BY <2>1, <2>2, ApartWithin DEF ListInv, ListedOnce
<1>2. CASE process' = "crashed" /\ UNCHANGED <<cfgVars, socket_id, freed>>
  BY <1>2, CfgSame
<1>3. CASE /\ cur_fwd_config' = c
           /\ c.nb_fwd_streams <= ArraySize'
           /\ c.nb_fwd_lcores = 0 => c.nb_fwd_streams = 0
           /\ \A s \in 0 .. c.nb_fwd_streams - 1 : fwd_streams'[s] = NewStreams[s]
           /\ \A l \in 0 .. c.nb_fwd_lcores - 1 :
                 fwd_lcores'[l] = EachLcore(c.nb_fwd_streams, c.nb_fwd_lcores)[l]
  <2>1. c.nb_fwd_lcores <= c.nb_fwd_streams /\ c.nb_fwd_ports = nb_fwd_ports'
    BY <1>1, ConfigIs DEF NewConfig
  <2>2. nb_streams' = c.nb_fwd_streams /\ nb_used' = c.nb_fwd_lcores
    BY <1>3 DEF nb_streams, nb_used
  <2>3. Shared' /\ InArray'
    BY <1>3, <2>1, <2>2 DEF Shared, InArray
  <2>4. OneStreamPerQueue'
    <3>0. OneStreamPerQueue' <=>
             (~gap' /\ process' # "crashed" =>
                 \A s, t \in 0 .. nb_streams' - 1 :
                     s # t => TwoQueues(fwd_streams', port_topology',
                                        cur_fwd_config'.nb_fwd_ports, nb_streams', s, t))
      BY DEF OneStreamPerQueue, OddPairs, TwoQueues, nb_streams
    <3> SUFFICES ASSUME ~gap', NEW s \in 0 .. c.nb_fwd_streams - 1,
                        NEW t \in 0 .. c.nb_fwd_streams - 1, s # t
                 PROVE  TwoQueues(fwd_streams', port_topology, nb_fwd_ports',
                                  c.nb_fwd_streams, s, t)
      BY <1>3, <2>1, <2>2, <3>0
    <3>2. s \in 0 .. ConfigOf(cur_fwd_eng', nb_fwd_ports', nb_fwd_lcores', nb_rxq',
                              nb_txq').nb_fwd_streams - 1
          /\ t \in 0 .. ConfigOf(cur_fwd_eng', nb_fwd_ports', nb_fwd_lcores', nb_rxq',
                                 nb_txq').nb_fwd_streams - 1
      BY DEF NewConfig
    <3>3. TwoQueues(NewStreams, port_topology, nb_fwd_ports', c.nb_fwd_streams, s, t)
      BY <1>1, <1>4, <3>2, OneStreamForEachQueue DEF NewStreams, NewConfig
    <3>4. fwd_streams'[s] = NewStreams[s] /\ fwd_streams'[t] = NewStreams[t]
      BY <1>3
    <3> QED
      BY <3>3, <3>4 DEF TwoQueues
  <2> QED
    BY <2>3, <2>4 DEF CfgInv
<1> QED
  BY <1>2, <1>3, SetupIs

LEMMA CfgInit == Init => CfgInv
<1> SUFFICES ASSUME Init PROVE CfgInv
  OBVIOUS
<1> DEFINE n == Cardinality(enabled)
<1>1. TypeInv /\ ListInv
  BY TypeInit, ListInit
<1>2. /\ nb_fwd_ports = n /\ n \in Nat /\ n \in 0 .. Cardinality(Port)
      /\ cur_fwd_config = ConfigOf("io", n, 1, 1, 1)
      /\ fwd_streams = StreamsOf("io", port_topology, fwd_ports_ids, n, 1, 1)
      /\ fwd_lcores = [l \in Lcore |-> IF l = 0 THEN Share(0, n) ELSE Share(0, 0)]
      /\ ~gap /\ nb_cfg_ports = n /\ port_topology \in Topology
  BY <1>1, Constants DEF Init, TypeInv, ListTypes, NumTypes
<1> HIDE DEF n
<1>3. ~Multi(1, 1)
  BY DEF Multi
<1>4. cur_fwd_config = SimpleConfig(n, 1)
  BY <1>2, <1>3, EachConfig
<1>5. nb_streams = n /\ nb_used = (IF n = 0 THEN 0 ELSE 1) /\ cur_fwd_config.nb_fwd_ports = n
  BY <1>2, <1>4 DEF SimpleConfig, Config, Lesser, nb_streams, nb_used
<1>6. Shared
  <2>1. \A l \in 0 .. nb_used - 1 : n > 0 /\ l = 0 /\ nb_used = 1
    BY <1>2, <1>5
  <2>2. ASSUME n > 0 PROVE fwd_lcores[0] = EachLcore(n, 1)[0]
    <3>1. fwd_lcores[0] = Share(0, n)
      BY <1>2, Constants
    <3>2. PerLcore(n, 1) = n /\ Extra(n, 1) = 0
      BY <1>2, <2>2 DEF PerLcore, Extra
    <3>3. EachLcore(n, 1)[0] = Share(0 * n, n)
      BY <3>2 DEF EachLcore
    <3>4. 0 * n = 0
      BY <1>2
    <3> QED
      BY <3>1, <3>3, <3>4
  <2> QED
    BY <1>2, <1>5, <2>1, <2>2 DEF Shared
<1>7. InArray
  <2>1. StreamsOf("io", port_topology, fwd_ports_ids, n, 1, 1)
           = SimpleStreams(port_topology, fwd_ports_ids, n)
    BY <1>3, EachConfig
  <2>2. DOMAIN fwd_streams = 0 .. n - 1
    BY <1>2, <2>1 DEF SimpleStreams
  <2> QED
    BY <1>2, <1>5, <2>2, SizeIs DEF InArray, ArraySize
<1>8. OneStreamPerQueue
  <2> SUFFICES ASSUME NEW s \in 0 .. n - 1, NEW t \in 0 .. n - 1, s # t
               PROVE  TwoQueues(fwd_streams, port_topology, n, n, s, t)
    BY <1>5, QueuesAre
  <2>1. Apart(fwd_ports_ids, n)
    BY <1>1, <1>2 DEF ListInv, ListedOnce
  <2>2. s \in 0 .. ConfigOf("io", n, 1, 1, 1).nb_fwd_streams - 1
        /\ t \in 0 .. ConfigOf("io", n, 1, 1, 1).nb_fwd_streams - 1
    BY <1>2, <1>5 DEF nb_streams
  <2>3. 1 \in Nat
    OBVIOUS
  <2>4. TwoQueues(StreamsOf("io", port_topology, fwd_ports_ids, n, 1, 1), port_topology, n,
                  ConfigOf("io", n, 1, 1, 1).nb_fwd_streams, s, t)
    BY <1>2, <2>1, <2>2, <2>3, OneStreamForEachQueue
  <2> QED
    BY <1>2, <1>5, <2>4 DEF nb_streams
<1> QED
  BY <1>6, <1>7, <1>8 DEF CfgInv

LEMMA CfgStep ==
    TypeInv /\ ListInv /\ CfgInv /\ TypeInv' /\ ListInv' /\ [Next]_vars => CfgInv'
<1> SUFFICES ASSUME TypeInv, CfgInv, TypeInv', ListInv', [Next]_vars PROVE CfgInv'
  OBVIOUS
<1>1. ListTypes' /\ NumTypes'
  BY DEF TypeInv
<1>2. ASSUME SetUpAgain PROVE CfgInv'
  BY <1>1, <1>2, CfgSetUp DEF SetUpAgain
<1>3. /\ \A list \in PortLists : SetFwdPortsList(list) => CfgInv'
      /\ \A n \in 1 .. nb_lcores : SetFwdLcoresList(n) => CfgInv'
      /\ \A n \in 0 .. Cardinality(Port) : SetFwdPortsNumber(n) => CfgInv'
      /\ \A n \in 0 .. nb_lcores : SetFwdLcoresNumber(n) => CfgInv'
      /\ \A rx, tx : ConfigQueues(rx, tx) => CfgInv'
  BY <1>2 DEF SetFwdPortsList, SetFwdLcoresList, SetFwdPortsNumber, SetFwdLcoresNumber,
              ConfigQueues
<1>4. \A next \in {"prompt", "first"} : StartPacketForwarding(next) => CfgInv'
  BY <1>1, CfgSetUp DEF StartPacketForwarding
<1>5. /\ \A eng \in Engines : SetFwdMode(eng) => CfgInv'
      /\ SetDefault => CfgInv'
      /\ \A pids \in OneOrAll :
            ReconfigDevice(pids) \/ StartPort(pids) \/ StopPort(pids) \/ ClosePort(pids)
                => CfgInv'
  BY CfgSame DEF SetFwdMode, SetDefault, ReconfigDevice, StartPort, StopPort, ClosePort,
                 PortCommand, settingVars
<1>6. /\ \A s \in Sockets : AttachPort(s) => CfgInv'
      /\ \A p \in Port : DetachPort(p) => CfgInv'
  <2>1. ASSUME NEW s \in Sockets, AttachPort(s) PROVE CfgInv'
    <3>1. UNCHANGED <<cfgVars, port_topology, gap>> /\ process' \in {process, "crashed"}
      BY <2>1 DEF AttachPort, listUpdate
    <3> QED
      BY <3>1, CfgSame
  <2>2. ASSUME NEW p \in Port, DetachPort(p) PROVE CfgInv'
    BY <2>2, CfgSame DEF DetachPort, listUpdate, PortCommand
  <2> QED
    BY <2>1, <2>2
<1>7. /\ StartExits \/ ExitIdle \/ ShutDown => CfgInv'
      /\ \A next \in {"stop", "exit"} : TellLcoresToStop(next) => CfgInv'
      /\ TxFirstDone \/ ForwardingStopped => CfgInv'
      /\ \A l \in Lcore : LcoreReturns(l) \/ UseOfFreed(l) => CfgInv'
  BY CfgSame DEF StartExits, ExitIdle, ShutDown, Command, Running, TellLcoresToStop,
                 TxFirstDone, ForwardingStopped, LcoreReturns, UseOfFreed, Idle, settingVars
<1>8. StartPorts => CfgInv'
  BY CfgSame DEF StartPorts, PortNotStopped, ConfigureFails, QueueSetupFails, NoMempool,
                 StartDevice, StartDone, DevStep, settingVars
<1>9. UNCHANGED vars => CfgInv'
  BY CfgSame DEF vars
<1>10. CASE Prompt
  BY <1>3, <1>4, <1>5, <1>6, <1>7, <1>10 DEF Prompt
<1> QED
  BY <1>7, <1>8, <1>9, <1>10 DEF Next, CmdStep, Ended

(***************************************************************************)
(* The configuration set up last leaves no stream out and gives none to    *)
(* two lcores, nor one that is not there; and while the ports listed are   *)
(* distinct, no queue is in two streams but that of odd paired ports.      *)
(***************************************************************************)
THEOREM StreamsAreDivided == Spec => []StreamsDivided
<1>1. Init => TypeInv /\ ListInv /\ CfgInv
  BY TypeInit, ListInit, CfgInit
<1>2. TypeInv /\ ListInv /\ CfgInv /\ [Next]_vars => (TypeInv /\ ListInv /\ CfgInv)'
  BY TypeStep, ListStep, CfgStep
<1> QED
  BY <1>1, <1>2, CfgIs, PTL DEF Spec

-----------------------------------------------------------------------------
(* The lcores of a session and what they run                               *)

(* Without a session no lcore runs, and no command waits for one. *)
Quiet == test_done = 1 => running = {} /\ cmd \notin {"first", "stop"}

(* Lcores run what the configuration gives them, until it is set up again. *)
Views ==
    /\ freed \subseteq running
    /\ ~resized => /\ freed = {}
                   /\ \A l \in running : l \in 0 .. nb_used - 1 /\ view[l] = fwd_lcores[l]

LcoreInv == Quiet /\ Views

LEMMA LcoreSame ==
    ASSUME LcoreInv, UNCHANGED <<lcoreVars, freed, test_done, resized, cfgVars>>,
           cmd' = cmd \/ cmd' \notin {"first", "stop"}
    PROVE  LcoreInv'
<1>1. UNCHANGED <<running, view, freed, test_done, resized, fwd_lcores, cur_fwd_config>>
  BY DEF lcoreVars, cfgVars
<1> QED
  BY <1>1 DEF LcoreInv, Quiet, Views, nb_used

LEMMA LcoreInit == Init => LcoreInv
<1> SUFFICES ASSUME Init PROVE LcoreInv
  OBVIOUS
<1>1. running = {} /\ freed = {} /\ cmd = "prompt"
  BY DEF Init
<1> QED
  BY <1>1 DEF LcoreInv, Quiet, Views

LEMMA LcoreSetUp ==
    ASSUME TypeInv, TypeInv', LcoreInv, SetUpAgain
    PROVE  LcoreInv'
<1>1. /\ freed' = freed \/ freed' = running
      /\ resized' = (resized \/ test_done = 0)
      /\ UNCHANGED <<running, view, test_done, cmd>>
  <2>1. FwdConfigSetup /\ ListTypes' /\ NumTypes' /\ port_topology' = port_topology
    BY DEF SetUpAgain, TypeInv
  <2>2. freed' = freed \/ freed' = running
    BY <2>1, SetupIs
  <2> QED
    BY <2>2 DEF SetUpAgain, lcoreVars
<1>2. test_done \in {0, 1}
  BY DEF TypeInv, CmdTypes
<1>3. Quiet'
  BY <1>1 DEF LcoreInv, Quiet
<1>4. freed' \subseteq running'
  BY <1>1 DEF LcoreInv, Views
<1>5. ~resized' => running' = {}
  BY <1>1, <1>2 DEF LcoreInv, Quiet
<1> QED
  BY <1>3, <1>4, <1>5 DEF LcoreInv, Views

LEMMA LcoreLaunch ==
    ASSUME TypeInv', freed' = {}, Launch, test_done' = 0
    PROVE  LcoreInv'
<1>1. /\ running' = 0 .. nb_used' - 1
      /\ view' = [l \in Lcore |-> IF l \in running' THEN fwd_lcores'[l] ELSE view[l]]
  BY DEF Launch, nb_used
<1>2. running' \in SUBSET Lcore
  BY DEF TypeInv, LcoreTypes
<1>3. \A l \in running' : view'[l] = fwd_lcores'[l]
  BY <1>1, <1>2
<1> QED
  BY <1>1, <1>3 DEF LcoreInv, Quiet, Views

LEMMA LcoreStart ==
    ASSUME TypeInv, TypeInv', LcoreInv,
           NEW next \in {"prompt", "first"}, StartPacketForwarding(next)
    PROVE  LcoreInv'
<1>1. /\ FwdConfigSetup /\ test_done = 1 /\ test_done' = 0
      /\ UNCHANGED lcoreVars \/ Launch
      /\ ListTypes' /\ NumTypes' /\ port_topology' = port_topology
  BY DEF StartPacketForwarding, TypeInv
<1>2. running = {} /\ freed = {}
  BY <1>1 DEF LcoreInv, Quiet, Views
<1>3. freed' = {}
  BY <1>1, <1>2, SetupIs
<1>4. CASE UNCHANGED lcoreVars
  BY <1>1, <1>2, <1>3, <1>4 DEF LcoreInv, Quiet, Views, lcoreVars
<1>5. CASE Launch
  BY <1>1, <1>3, <1>5, LcoreLaunch
<1> QED
  BY <1>1, <1>4, <1>5

LEMMA LcoreStep == TypeInv /\ TypeInv' /\ LcoreInv /\ [Next]_vars => LcoreInv'
<1> SUFFICES ASSUME TypeInv, TypeInv', LcoreInv, [Next]_vars PROVE LcoreInv'
  OBVIOUS
<1>1. test_done \in {0, 1}
  BY DEF TypeInv, CmdTypes
<1>2. /\ \A list \in PortLists : SetFwdPortsList(list) => LcoreInv'
      /\ \A n \in 1 .. nb_lcores : SetFwdLcoresList(n) => LcoreInv'
      /\ \A n \in 0 .. Cardinality(Port) : SetFwdPortsNumber(n) => LcoreInv'
      /\ \A n \in 0 .. nb_lcores : SetFwdLcoresNumber(n) => LcoreInv'
      /\ \A rx, tx : ConfigQueues(rx, tx) => LcoreInv'
  BY LcoreSetUp DEF SetFwdPortsList, SetFwdLcoresList, SetFwdPortsNumber, SetFwdLcoresNumber,
                    ConfigQueues
<1>3. /\ \A eng \in Engines : SetFwdMode(eng) => LcoreInv'
      /\ SetDefault => LcoreInv'
      /\ \A pids \in OneOrAll :
            ReconfigDevice(pids) \/ StartPort(pids) \/ StopPort(pids) \/ ClosePort(pids)
                => LcoreInv'
      /\ \A s \in Sockets : AttachPort(s) => LcoreInv'
      /\ \A p \in Port : DetachPort(p) => LcoreInv'
      /\ StartExits \/ ExitIdle => LcoreInv'
  BY LcoreSame DEF SetFwdMode, SetDefault, ReconfigDevice, StartPort, StopPort, ClosePort,
                   AttachPort, DetachPort, listUpdate, PortCommand, StartExits, ExitIdle,
                   settingVars
<1>4. \A next \in {"prompt", "first"} : StartPacketForwarding(next) => LcoreInv'
  BY LcoreStart
<1>5. ASSUME NEW next \in {"stop", "exit"}, TellLcoresToStop(next) PROVE LcoreInv'
  <2>1. test_done = 0 /\ UNCHANGED <<running, view, freed, test_done, resized, cfgVars>>
    BY <1>5 DEF TellLcoresToStop, settingVars
  <2> QED
    BY <2>1 DEF LcoreInv, Quiet, Views, nb_used, cfgVars
<1>6. StartPorts => LcoreInv'
  BY LcoreSame DEF StartPorts, PortNotStopped, ConfigureFails, QueueSetupFails, NoMempool,
                   StartDevice, StartDone, GoOn, Abort, DevStep, settingVars
<1>7. ASSUME TxFirstDone PROVE LcoreInv'
  <2>1. Launch /\ cmd = "first" /\ running = {} /\ UNCHANGED <<freed, test_done>>
    BY <1>7 DEF TxFirstDone
  <2>2. test_done' = 0 /\ freed' = {}
    BY <1>1, <2>1 DEF LcoreInv, Quiet, Views
  <2> QED
    BY <2>1, <2>2, LcoreLaunch
<1>8. ASSUME ForwardingStopped \/ ShutDown PROVE LcoreInv'
  <2>1. /\ running = {} /\ cmd' \in {"prompt", "exit"}
        /\ UNCHANGED <<running, freed>>
    BY <1>8 DEF ForwardingStopped, ShutDown, lcoreVars
  <2> QED
    BY <2>1 DEF LcoreInv, Quiet, Views
<1>9. ASSUME NEW l \in Lcore, LcoreReturns(l) PROVE LcoreInv'
  <2>1. /\ running' = running \ {l} /\ freed' = freed \ {l}
        /\ view' = [view EXCEPT ![l] = Share(0, 0)]
        /\ UNCHANGED <<test_done, cmd, resized, fwd_lcores, cur_fwd_config>>
    BY <1>9 DEF LcoreReturns, Idle, settingVars, cfgVars
  <2>2. \A m \in running' : view'[m] = view[m]
    BY <2>1 DEF TypeInv, LcoreTypes
  <2> QED
    BY <2>1, <2>2 DEF LcoreInv, Quiet, Views, nb_used
<1>10. \A l \in Lcore : UseOfFreed(l) => LcoreInv'
  BY LcoreSame DEF UseOfFreed, Idle, settingVars
<1>11. UNCHANGED vars => LcoreInv'
  BY LcoreSame DEF vars
<1>12. CASE Prompt
  BY <1>2, <1>3, <1>4, <1>5, <1>12 DEF Prompt
<1> QED
  BY <1>6, <1>7, <1>8, <1>9, <1>10, <1>11, <1>12 DEF Next, CmdStep, Ended

-----------------------------------------------------------------------------
(* What the streams of a session go between                                *)

(* The queues of a stream are among those configured, as far as used. *)
Fits(fs) ==
    /\ fwd_eng # "txonly" => fs.rx_queue < nb_rxq
    /\ fwd_eng = "icmpecho" => fs.tx_queue < nb_rxq
    /\ fwd_eng # "icmpecho" /\ nb_txq > 0 => fs.tx_queue < nb_txq
    /\ fwd_eng # "rxonly" => nb_txq > 0

(* Ports in use are in the list, so that they are not stopped or closed. *)
InSession(p) == p \in Forwarding /\ Ready(p)

Session ==
    test_done = 0 /\ process # "crashed" /\ ~resized /\ ~gap =>
        \A s \in 0 .. nb_streams - 1 :
            /\ InSession(fwd_streams[s].rx_port) /\ InSession(fwd_streams[s].tx_port)
            /\ Fits(fwd_streams[s])

(* A process that crashed had no lcore running, or one of the exceptions. *)
Crashed == process = "crashed" => running = {} \/ resized \/ gap

SessionInv == Session /\ Crashed

AllInv == TypeInv /\ ReadyInv /\ ListInv /\ CfgInv /\ LcoreInv /\ SessionInv

LEMMA SessionIs == AllInv => StreamsUsable
<1> SUFFICES ASSUME AllInv, ~resized, ~gap, AnswersFit
             PROVE  /\ freed = {} /\ InUse \subseteq DOMAIN fwd_streams
                    /\ \A s \in InUse :
                          /\ Ready(fwd_streams[s].rx_port) /\ Ready(fwd_streams[s].tx_port)
                          /\ Receives => fwd_streams[s].rx_queue
                                             < queues[fwd_streams[s].rx_port].rx
                          /\ Sends => fwd_streams[s].tx_queue
                                          < queues[fwd_streams[s].tx_port].tx
  BY DEF StreamsUsable
<1>1. TypeInv /\ nb_streams \in Nat /\ nb_used \in Nat
  BY CfgNat DEF AllInv
<1>2. freed = {}
  BY DEF AllInv, LcoreInv, Views
<1>3. \A s \in InUse : running # {} /\ s \in 0 .. nb_streams - 1
  <2> SUFFICES ASSUME NEW l \in running,
                      NEW s \in view[l].stream_idx
                                    .. view[l].stream_idx + view[l].stream_nb - 1
               PROVE  s \in 0 .. nb_streams - 1
    BY DEF InUse
  <2>1. l \in 0 .. nb_used - 1 /\ view[l] = fwd_lcores[l]
    BY DEF AllInv, LcoreInv, Views
  <2>2. fwd_lcores[l].stream_idx + fwd_lcores[l].stream_nb <= nb_streams
    BY <1>1, <2>1, CfgIs DEF AllInv, StreamsDivided, nb_used, nb_streams
  <2>3. view[l] \in ShareType
    BY <1>1 DEF TypeInv, LcoreTypes
  <2>4. view[l].stream_idx \in Nat /\ view[l].stream_nb \in Nat
    BY <2>3 DEF ShareType
  <2> QED
    BY <1>1, <2>1, <2>2, <2>4
<1>4. InUse \subseteq DOMAIN fwd_streams
  <2>1. ArraySize \in Nat /\ DOMAIN fwd_streams = 0 .. ArraySize - 1 /\ nb_streams <= ArraySize
    BY <1>1 DEF AllInv, TypeInv, CfgTypes, CfgInv, InArray
  <2>2. \A s \in 0 .. nb_streams - 1 : s \in 0 .. ArraySize - 1
    BY <1>1, <2>1
  <2> QED
    BY <1>3, <2>1, <2>2
<1>5. ASSUME NEW s \in InUse
      PROVE  /\ Ready(fwd_streams[s].rx_port) /\ Ready(fwd_streams[s].tx_port)
             /\ Receives => fwd_streams[s].rx_queue < queues[fwd_streams[s].rx_port].rx
             /\ Sends => fwd_streams[s].tx_queue < queues[fwd_streams[s].tx_port].tx
  <2> DEFINE fs == fwd_streams[s]
  <2>1. test_done = 0 /\ process # "crashed"
    BY <1>1, <1>3 DEF AllInv, LcoreInv, Quiet, SessionInv, Crashed, TypeInv, CmdTypes
  <2>2. Ready(fs.rx_port) /\ Ready(fs.tx_port) /\ Fits(fs)
    BY <1>3, <2>1 DEF AllInv, SessionInv, Session, InSession
  <2>3. fs \in StreamType
    BY <1>1, <1>4 DEF TypeInv, CfgTypes
  <2> HIDE DEF fs
  <2>4. \A p : Ready(p) => queues[p] = [rx |-> nb_rxq, tx |-> nb_txq]
    BY DEF AllInv, ReadyInv, Prepared, StartedSet, Ready
  <2>5. queues[fs.rx_port].rx = nb_rxq /\ queues[fs.tx_port].tx = nb_txq
    BY <2>2, <2>4
  <2>6. fs.rx_queue \in Nat /\ fs.tx_queue \in Nat /\ nb_rxq \in Nat /\ nb_txq \in Nat
    BY <1>1, <2>3 DEF StreamType, TypeInv, NumTypes
  <2>7. Receives => fs.rx_queue < nb_rxq
    BY <2>2 DEF Receives, Fits
  <2>8. Sends => fs.tx_queue < nb_txq
    BY <2>2, <2>6 DEF Sends, Fits, AnswersFit
  <2> QED
    BY <2>2, <2>5, <2>7, <2>8 DEF fs
<1> QED
  BY <1>2, <1>4, <1>5

LEMMA SessionInit == Init => SessionInv
<1> SUFFICES ASSUME Init PROVE SessionInv
  OBVIOUS
<1>1. test_done = 1 /\ process = "run"
  BY DEF Init
<1> QED
  BY <1>1 DEF SessionInv, Session, Crashed

(* A step that leaves the configuration, and the ports in use where they are *)
LEMMA SessionKept ==
    ASSUME SessionInv, UNCHANGED <<cfgVars, queueVars>>,
           process' # "crashed" => process # "crashed",
           ~resized' => ~resized, ~gap' => ~gap,
           test_done' = 0 => test_done = 0,
           test_done' = 0 /\ ~gap' => \A p \in Port : InSession(p) => InSession(p)',
           TypeInv
    PROVE  Session'
<1>1. UNCHANGED <<nb_streams, fwd_streams, fwd_eng, nb_rxq, nb_txq>>
  BY DEF cfgVars, queueVars, nb_streams
<1>2. ASSUME test_done' = 0, process' # "crashed", ~resized', ~gap',
             NEW s \in 0 .. nb_streams - 1
      PROVE  /\ InSession(fwd_streams[s].rx_port)' /\ InSession(fwd_streams[s].tx_port)'
             /\ Fits(fwd_streams[s])'
  <2>1. /\ InSession(fwd_streams[s].rx_port) /\ InSession(fwd_streams[s].tx_port)
        /\ Fits(fwd_streams[s])
    BY <1>2 DEF SessionInv, Session
  <2>2. fwd_streams[s].rx_port \in Port /\ fwd_streams[s].tx_port \in Port
    BY <2>1 DEF InSession, Ready, TypeInv, PortTypes
  <2>3. \A p \in Port : InSession(p) => InSession(p)'
    BY <1>2
  <2> QED
    BY <1>1, <1>2, <2>1, <2>2, <2>3 DEF InSession, Fits, Ready, Forwarding
<1> QED
  BY <1>1, <1>2 DEF Session
LEMMA SessionSame ==
    ASSUME TypeInv, SessionInv,
           UNCHANGED <<enabled, port_status, listVars, cfgVars, queueVars, test_done, gap>>,
           process' # "crashed" => process # "crashed", ~resized' => ~resized
    PROVE  Session'
<1>1. \A p \in Port : InSession(p) => InSession(p)'
  BY DEF InSession, Ready, Forwarding, listVars
<1> QED
  BY <1>1, SessionKept

(* start_port does not touch a port that is started. *)
LEMMA SessionDev ==
    ASSUME TypeInv, SessionInv, DevStep,
           \/ port_status' = port_status
           \/ \E p \in Port :
                 /\ port_status[p] = "stopped"
                 /\ \E status : port_status' = [port_status EXCEPT ![p] = status]
    PROVE  Session'
<1>1. UNCHANGED <<enabled, listVars, cfgVars, queueVars, test_done, gap, process, resized>>
  BY DEF DevStep, settingVars
<1>2. port_status \in [Port -> {"stopped", "started", "closed", "handling"}]
  BY DEF TypeInv, PortTypes
<1>3. \A p \in Port : port_status[p] = "started" => port_status'[p] = "started"
  BY <1>2
<1>4. \A p \in Port : InSession(p) => InSession(p)'
  BY <1>1, <1>3 DEF InSession, Ready, Forwarding, listVars
<1> QED
  BY <1>1, <1>4, SessionKept

LEMMA SessionStartPorts == TypeInv /\ SessionInv /\ StartPorts => SessionInv'
<1> SUFFICES ASSUME TypeInv, SessionInv, StartPorts PROVE SessionInv'
  OBVIOUS
<1>1. DevStep
  BY DEF StartPorts, PortNotStopped, ConfigureFails, QueueSetupFails, NoMempool, StartDevice,
         StartDone
<1>2. \/ port_status' = port_status
      \/ /\ todo # {} /\ port_status[NextPort] = "stopped"
         /\ \E status : port_status' = [port_status EXCEPT ![NextPort] = status]
  BY DEF StartPorts, PortNotStopped, ConfigureFails, QueueSetupFails, NoMempool, StartDevice,
         StartDone, Starting, portVars
<1>3. Session'
  BY <1>1, <1>2, NextPortIs, SessionDev
<1>4. Crashed'
  BY <1>1 DEF SessionInv, Crashed, DevStep, lcoreVars
<1> QED
  BY <1>3, <1>4 DEF SessionInv

LEMMA SessionSetUp ==
    ASSUME TypeInv, TypeInv', LcoreInv, SessionInv, SetUpAgain, Command
    PROVE  SessionInv'
<1>1. /\ resized' = (resized \/ test_done = 0) /\ running' = running
      /\ test_done' = test_done /\ process # "crashed"
  BY DEF SetUpAgain, lcoreVars, Command, Running
<1>2. test_done \in {0, 1}
  BY DEF TypeInv, CmdTypes
<1>3. running = {} \/ resized'
  BY <1>1, <1>2 DEF LcoreInv, Quiet
<1> QED
  BY <1>1, <1>3 DEF SessionInv, Session, Crashed

(* Commands for ports leave those in use started, and in the list. *)
LEMMA SessionStopClose ==
    ASSUME TypeInv, SessionInv, NEW pids \in OneOrAll, StopPort(pids) \/ ClosePort(pids)
    PROVE  SessionInv'
<1>1. /\ UNCHANGED <<enabled, listVars, cfgVars, queueVars, test_done, gap, process, resized,
                     running>>
      /\ process # "crashed"
  BY DEF StopPort, ClosePort, PortCommand, settingVars, lcoreVars, Command, Running
<1>2. ASSUME NEW p \in Port, test_done = 0, InSession(p) PROVE InSession(p)'
  <2>1. p \notin Unused /\ port_status[p] = "started"
    BY <1>2 DEF Unused, InSession, Ready
  <2>2. port_status'[p] = "started"
    BY <2>1 DEF StopPort, ClosePort
  <2> QED
    BY <1>1, <1>2, <2>2 DEF InSession, Ready, Forwarding, listVars
<1>3. Session'
  BY <1>1, <1>2, SessionKept
<1> QED
  BY <1>1, <1>3 DEF SessionInv, Crashed

LEMMA SessionDefault == TypeInv /\ SessionInv /\ SetDefault => SessionInv'
<1> SUFFICES ASSUME TypeInv, SessionInv, SetDefault PROVE SessionInv'
  OBVIOUS
<1> DEFINE nb == Cardinality(enabled)
<1>1. /\ fwd_ports_ids' = [i \in Port |-> IF i < nb THEN i ELSE fwd_ports_ids[i]]
      /\ nb_fwd_ports' = nb
      /\ gap' = (gap \/ enabled # 0 .. nb - 1)
      /\ UNCHANGED <<enabled, port_status, cfgVars, queueVars, test_done, resized, process,
                     running>>
      /\ process # "crashed"
  BY DEF SetDefault, portVars, lcoreVars, Change, Command, Running
<1>2. enabled \in SUBSET Port /\ nb \in Nat
  BY PortsIn, Constants DEF TypeInv, PortTypes
<1> HIDE DEF nb
<1>3. ASSUME ~gap', NEW p \in Port, InSession(p) PROVE InSession(p)'
  <2>1. p \in 0 .. nb - 1
    BY <1>1, <1>3 DEF InSession, Ready
  <2>2. fwd_ports_ids'[p] = p
    BY <1>1, <1>2, <2>1
  <2> QED
    BY <1>1, <1>3, <2>1, <2>2 DEF InSession, Ready, Forwarding
<1>4. Session'
  BY <1>1, <1>3, SessionKept
<1> QED
  BY <1>1, <1>4 DEF SessionInv, Crashed
(* update_fwd_ports keeps the ports that are still there. *)
LEMMA ForwardingKept ==
    ASSUME TypeInv, NEW new \in SUBSET Port, UpdateFwdPorts(new), IsFiniteSet(new),
           NEW p \in Forwarding, p \in enabled'
    PROVE  p \in Forwarding'
<1> DEFINE nb == Cardinality(Kept)
<1>1. /\ fwd_ports_ids \in [Port -> Port] /\ nb_fwd_ports \in 0 .. Cardinality(Port)
      /\ nb_fwd_ports \in Nat /\ Cardinality(new) \in Nat
  BY Constants, FS_CardinalityType DEF TypeInv, ListTypes
<1>2. /\ nb \in 0 .. nb_fwd_ports /\ nb_fwd_ports' = nb + Cardinality(new)
      /\ \E at \in [0 .. nb - 1 -> Kept] :
            \A i \in 0 .. nb - 1 :
               fwd_ports_ids'[i] = fwd_ports_ids[at[i]] /\ Rank(Kept, at[i]) = i
  BY <1>1, UpdateIs
<1>3. PICK at \in [0 .. nb - 1 -> Kept] :
         \A i \in 0 .. nb - 1 :
            fwd_ports_ids'[i] = fwd_ports_ids[at[i]] /\ Rank(Kept, at[i]) = i
  BY <1>2
<1>4. PICK i \in Kept : fwd_ports_ids[i] = p
  <2>1. PICK i \in 0 .. nb_fwd_ports - 1 : fwd_ports_ids[i] = p
    BY DEF Forwarding
  <2>2. i \in Kept
    BY <1>1, <2>1, Constants DEF Kept
  <2> QED
    BY <2>1, <2>2
<1>5. Kept \in SUBSET Port
  BY <1>1, KeptIs
<1>6. Rank(Kept, i) \in 0 .. nb - 1
  BY <1>4, <1>5, PortRanks
<1>7. at[Rank(Kept, i)] = i
  <2>1. at[Rank(Kept, i)] \in Kept /\ Rank(Kept, at[Rank(Kept, i)]) = Rank(Kept, i)
    BY <1>3, <1>6
  <2>2. \A j, k \in Kept : Rank(Kept, j) = Rank(Kept, k) => j = k
    BY <1>5, PortRanks
  <2> QED
    BY <1>4, <2>1, <2>2
<1>8. fwd_ports_ids'[Rank(Kept, i)] = p
  BY <1>3, <1>4, <1>6, <1>7
<1> HIDE DEF nb
<1>9. \A k \in 0 .. nb - 1 : k \in 0 .. nb_fwd_ports' - 1
  BY <1>1, <1>2
<1> QED
  BY <1>6, <1>8, <1>9 DEF Forwarding

LEMMA SessionPorts ==
    ASSUME TypeInv, ListInv, SessionInv
    PROVE  /\ \A s \in Sockets : AttachPort(s) => SessionInv'
           /\ \A p \in Port : DetachPort(p) => SessionInv'
<1>1. /\ enabled \in SUBSET Port
      /\ port_status \in [Port -> {"stopped", "started", "closed", "handling"}]
  BY DEF TypeInv, PortTypes
<1>2. ASSUME NEW s \in Sockets, AttachPort(s) PROVE SessionInv'
  <2>1. PICK q \in Port \ enabled :
           /\ enabled' = enabled \cup {q}
           /\ port_status' = [port_status EXCEPT ![q] = "stopped"]
           /\ IF Cardinality(Kept) \in Port
              THEN UpdateFwdPorts({q}) /\ UNCHANGED process
              ELSE process' = "crashed" /\ UNCHANGED listVars
           /\ UNCHANGED <<cfgVars, queueVars, test_done, resized, gap, running>>
           /\ process # "crashed"
    <3>1. Port \ enabled # {} /\ Port \ enabled \in SUBSET Port
      BY <1>2 DEF AttachPort
    <3>2. (CHOOSE p \in Port \ enabled : \A o \in Port \ enabled : p <= o) \in Port \ enabled
      BY <3>1, Least
    <3> QED
      BY <1>2, <3>2 DEF AttachPort, listUpdate, lcoreVars, Change, Command, Running
  <2>2. ~gap => Cardinality(Kept) \in Port
    <3>1. SUFFICES ASSUME ~gap PROVE Cardinality(Kept) \in Port
      OBVIOUS
    <3>2. nb_fwd_ports <= nb_cfg_ports /\ nb_cfg_ports <= Cardinality(enabled)
      BY <3>1, ListIs DEF ConfiguredWithinProbed
    <3>3. /\ Cardinality(enabled) \in 0 .. Cardinality(Port)
          /\ Cardinality(enabled) # Cardinality(Port)
      BY <1>1, <2>1, PortsIn
    <3>4. nb_fwd_ports \in 0 .. Cardinality(Port) /\ nb_cfg_ports \in 0 .. Cardinality(Port)
      BY DEF TypeInv, ListTypes
    <3>5. Cardinality(Kept) \in 0 .. nb_fwd_ports
      BY <3>4, KeptIs
    <3>6. Cardinality(Kept) \in 0 .. Cardinality(Port) - 1
      BY <3>2, <3>3, <3>4, <3>5, Constants
    <3> QED
      BY <3>6, Constants
  <2>3. ASSUME ~gap, NEW p \in Port, InSession(p) PROVE InSession(p)'
    <3>1. p \in enabled /\ p # q /\ port_status'[p] = "started" /\ p \in enabled'
      BY <1>1, <2>1, <2>3 DEF InSession, Ready
    <3>2. UpdateFwdPorts({q}) /\ {q} \in SUBSET Port /\ IsFiniteSet({q})
      <4>1. UpdateFwdPorts({q}) /\ {q} \in SUBSET Port
        BY <2>1, <2>2, <2>3
      <4> QED
        BY <4>1, FS_Singleton
    <3>3. p \in Forwarding'
      BY <2>3, <3>1, <3>2, ForwardingKept DEF InSession
    <3> QED
      BY <3>1, <3>3 DEF InSession, Ready
  <2>4. Session'
    BY <2>1, <2>3, SessionKept
  <2>5. Crashed'
    BY <2>1, <2>2 DEF Crashed
  <2> QED
    BY <2>4, <2>5 DEF SessionInv
<1>3. ASSUME NEW q \in Port, DetachPort(q) PROVE SessionInv'
  <2>1. /\ port_status[q] = "closed" /\ enabled' = enabled \ {q}
        /\ UpdateFwdPorts({})
        /\ UNCHANGED <<port_status, cfgVars, queueVars, test_done, resized, gap, running,
                       process>>
        /\ process # "crashed"
    BY <1>3 DEF DetachPort, listUpdate, PortCommand, portVars, lcoreVars, Change, Command,
                Running
  <2>2. ASSUME NEW p \in Port, InSession(p) PROVE InSession(p)'
    <3>1. p \in enabled' /\ port_status'[p] = "started"
      BY <2>1, <2>2 DEF InSession, Ready
    <3>2. p \in Forwarding'
      BY <2>1, <2>2, <3>1, FS_EmptySet, ForwardingKept DEF InSession
    <3> QED
      BY <3>1, <3>2 DEF InSession, Ready
  <2>3. Session'
    BY <2>1, <2>2, SessionKept
  <2> QED
    BY <2>1, <2>3 DEF SessionInv, Crashed
<1> QED
  BY <1>2, <1>3

(* start refuses an engine that lacks the queues it works on. *)
LEMMA RightEngine ==
    ASSUME ~WrongEngine, nb_rxq \in Nat, nb_txq \in Nat
    PROVE  /\ cur_fwd_eng # "txonly" => nb_rxq > 0
           /\ cur_fwd_eng # "rxonly" => nb_txq > 0
<1>1. CASE cur_fwd_eng = "rxonly"
  <2>1. WrongEngine <=> nb_rxq = 0
    BY <1>1 DEF WrongEngine
  <2> QED
    BY <1>1, <2>1
<1>2. CASE cur_fwd_eng = "txonly"
  <2>1. WrongEngine <=> nb_txq = 0
    BY <1>2 DEF WrongEngine
  <2> QED
    BY <1>2, <2>1
<1>3. CASE cur_fwd_eng # "rxonly" /\ cur_fwd_eng # "txonly"
  <2>1. WrongEngine <=> (nb_rxq = 0 \/ nb_txq = 0)
    BY <1>3 DEF WrongEngine
  <2> QED
    BY <1>3, <2>1
<1> QED
  BY <1>1, <1>2, <1>3

(* A session begins between the ports listed, which are all started. *)
LEMMA SessionStart ==
    ASSUME TypeInv, TypeInv', ListInv, LcoreInv, SessionInv,
           NEW next \in {"prompt", "first"}, StartPacketForwarding(next)
    PROVE  SessionInv'
<1>1. /\ ~WrongEngine /\ AllPortsStarted /\ test_done = 1 /\ FwdConfigSetup
      /\ test_done' = 0 /\ resized' = FALSE
      /\ SetupFaults => UNCHANGED lcoreVars
      /\ process # "crashed"
      /\ UNCHANGED <<gap, listVars, numVars, queueVars, cur_fwd_eng, enabled, portVars,
                     port_topology>>
  BY DEF StartPacketForwarding, Command, Running
<1>2. UNCHANGED <<fwd_ports_ids, nb_cfg_ports, nb_fwd_ports, nb_rxq, nb_txq, port_status>>
  BY <1>1 DEF listVars, queueVars, portVars
<1>3. ListTypes' /\ NumTypes'
  BY DEF TypeInv
<1>4. CASE SetupFaults
  <2>1. process' = "crashed" /\ running' = running
    BY <1>1, <1>4 DEF FwdConfigSetup, lcoreVars
  <2>2. running = {}
    BY <1>1 DEF LcoreInv, Quiet
  <2> QED
    BY <2>1, <2>2 DEF SessionInv, Session, Crashed
<1>5. CASE ~SetupFaults
  <2>1. process' = process
    BY <1>1, <1>5 DEF FwdConfigSetup
  <2>2. /\ cur_fwd_config' = NewConfig /\ fwd_eng' = cur_fwd_eng
        /\ \A s \in 0 .. NewConfig.nb_fwd_streams - 1 : fwd_streams'[s] = NewStreams[s]
    BY <1>1, <1>3, <2>1, SetupIs
  <2>3. /\ nb_fwd_ports \in Nat /\ nb_fwd_lcores' \in Nat /\ nb_cfg_ports \in Nat
        /\ nb_rxq \in Nat /\ nb_txq \in Nat
        /\ port_topology \in Topology
    BY Constants DEF ListTypes, NumTypes, TypeInv
  <2>4. NewStreams = StreamsOf(cur_fwd_eng, port_topology, fwd_ports_ids, nb_fwd_ports,
                               nb_rxq, nb_txq)
        /\ NewConfig = ConfigOf(cur_fwd_eng, nb_fwd_ports, nb_fwd_lcores', nb_rxq, nb_txq)
    BY <1>1, <1>2 DEF NewStreams, NewConfig
  <2>5. /\ NewStreams \in [0 .. NewConfig.nb_fwd_streams - 1 ->
                               [rx_port : Listed(fwd_ports_ids, nb_fwd_ports), rx_queue : Nat,
                                tx_port : Listed(fwd_ports_ids, nb_fwd_ports), tx_queue : Nat]]
        /\ \A s \in 0 .. NewConfig.nb_fwd_streams - 1 :
              /\ nb_rxq > 0 => NewStreams[s].rx_queue < nb_rxq
              /\ cur_fwd_eng = "icmpecho" => NewStreams[s].tx_queue < nb_rxq
              /\ cur_fwd_eng # "icmpecho" /\ nb_txq > 0 => NewStreams[s].tx_queue < nb_txq
    BY <2>3, <2>4, StreamsAre
  <2>6. ASSUME ~gap, NEW p \in Listed(fwd_ports_ids, nb_fwd_ports) PROVE InSession(p)'
    <3>1. PICK i \in 0 .. nb_fwd_ports - 1 : p = fwd_ports_ids[i]
      BY <2>6 DEF Listed
    <3>2. i \in 0 .. nb_cfg_ports - 1
      BY <2>3, <3>1 DEF ListInv, Within
    <3>3. p \in enabled /\ port_status[p] = "started"
      BY <1>1, <2>6, <3>1, <3>2 DEF ListInv, ListedOnce, AllPortsStarted
    <3> QED
      BY <1>1, <1>2, <3>1, <3>3 DEF InSession, Ready, Forwarding
  <2>7. Session'
    <3> SUFFICES ASSUME ~gap, NEW s \in 0 .. NewConfig.nb_fwd_streams - 1
                 PROVE  /\ InSession(fwd_streams[s].rx_port)'
                        /\ InSession(fwd_streams[s].tx_port)'
                        /\ Fits(fwd_streams[s])'
      BY <1>1, <2>2 DEF Session, nb_streams
    <3>1. fwd_streams'[s] = NewStreams[s]
      BY <2>2
    <3>2. /\ NewStreams[s].rx_port \in Listed(fwd_ports_ids, nb_fwd_ports)
          /\ NewStreams[s].tx_port \in Listed(fwd_ports_ids, nb_fwd_ports)
      BY <2>5
    <3>3. InSession(fwd_streams[s].rx_port)' /\ InSession(fwd_streams[s].tx_port)'
      BY <2>6, <3>1, <3>2
    <3>4. /\ cur_fwd_eng # "txonly" => nb_rxq > 0
          /\ cur_fwd_eng # "rxonly" => nb_txq > 0
      BY <1>1, <2>3, RightEngine
    <3>5. Fits(fwd_streams[s])'
      BY <1>2, <2>2, <2>5, <3>1, <3>4 DEF Fits
    <3> QED
      BY <3>3, <3>5
  <2>8. Crashed'
    BY <1>1, <2>1 DEF Crashed
  <2> QED
    BY <2>7, <2>8 DEF SessionInv
<1> QED
  BY <1>4, <1>5
LEMMA SessionStep ==
    TypeInv /\ TypeInv' /\ ListInv /\ LcoreInv /\ SessionInv /\ [Next]_vars => SessionInv'
<1> SUFFICES ASSUME TypeInv, TypeInv', ListInv, LcoreInv, SessionInv, [Next]_vars
             PROVE  SessionInv'
  OBVIOUS
<1>1. /\ \A list \in PortLists : SetFwdPortsList(list) => SessionInv'
      /\ \A n \in 1 .. nb_lcores : SetFwdLcoresList(n) => SessionInv'
      /\ \A n \in 0 .. Cardinality(Port) : SetFwdPortsNumber(n) => SessionInv'
      /\ \A n \in 0 .. nb_lcores : SetFwdLcoresNumber(n) => SessionInv'
      /\ \A rx, tx : ConfigQueues(rx, tx) => SessionInv'
  BY SessionSetUp DEF SetFwdPortsList, SetFwdLcoresList, SetFwdPortsNumber,
                      SetFwdLcoresNumber, ConfigQueues, Change
<1>2. ASSUME \/ \E eng \in Engines : SetFwdMode(eng)
             \/ \E pids \in OneOrAll : ReconfigDevice(pids) \/ StartPort(pids)
             \/ StartExits \/ ExitIdle
             \/ \E next \in {"stop", "exit"} : TellLcoresToStop(next)
      PROVE  SessionInv'
  <2>1. /\ UNCHANGED <<enabled, port_status, listVars, cfgVars, queueVars, test_done, gap,
                       resized, running>>
        /\ process # "crashed" /\ process' # "crashed"
    BY <1>2 DEF SetFwdMode, ReconfigDevice, StartPort, StartExits, ExitIdle, TellLcoresToStop,
                settingVars, portVars, lcoreVars, Change, Command, Running
  <2>2. Session'
    BY <2>1, SessionSame
  <2> QED
    BY <2>1, <2>2 DEF SessionInv, Crashed
<1>3. ASSUME NEW pids \in OneOrAll, StopPort(pids) \/ ClosePort(pids) PROVE SessionInv'
  BY <1>3, SessionStopClose
<1>4. ASSUME TxFirstDone \/ \E l \in Lcore : LcoreReturns(l) PROVE SessionInv'
  <2>1. /\ UNCHANGED <<enabled, port_status, listVars, cfgVars, queueVars, test_done, gap,
                       resized>>
        /\ process # "crashed" /\ process' # "crashed"
    BY <1>4 DEF TxFirstDone, LcoreReturns, Idle, settingVars, portVars, Running
  <2>2. Session'
    BY <2>1, SessionSame
  <2> QED
    BY <2>1, <2>2 DEF SessionInv, Crashed
<1>5. ASSUME ForwardingStopped \/ ShutDown PROVE SessionInv'
  <2>1. test_done' = 1 /\ process' # "crashed"
    BY <1>5 DEF ForwardingStopped, ShutDown, Running
  <2> QED
    BY <2>1 DEF SessionInv, Session, Crashed
(* An lcore whose streams were freed runs in a session set up again. *)
<1>6. ASSUME NEW l \in Lcore, UseOfFreed(l) PROVE SessionInv'
  <2>1. l \in freed /\ resized' = resized /\ process' = "crashed"
    BY <1>6 DEF UseOfFreed, Idle
  <2>2. resized
    BY <2>1 DEF LcoreInv, Views
  <2> QED
    BY <2>1, <2>2 DEF SessionInv, Session, Crashed
<1>7. ASSUME UNCHANGED vars PROVE SessionInv'
  <2>1. UNCHANGED <<enabled, port_status, listVars, cfgVars, queueVars, test_done, gap,
                    resized, process, running>>
    BY <1>7 DEF vars, portVars, lcoreVars
  <2>2. Session'
    BY <2>1, SessionSame
  <2> QED
    BY <2>1, <2>2 DEF SessionInv, Crashed
<1>8. CASE Prompt
  BY <1>1, <1>2, <1>3, <1>8, SessionDefault, SessionPorts, SessionStart DEF Prompt
<1>9. CASE CmdStep
  BY <1>4, <1>5, <1>9, SessionStartPorts DEF CmdStep
<1> QED
  BY <1>4, <1>6, <1>7, <1>8, <1>9 DEF Next, Ended

(***************************************************************************)
(* An lcore runs only streams that are there, between ports that are       *)
(* started and queues that are set up: whatever the user does to the ports *)
(* and the settings in the session, but for the cases that StreamsUsable   *)
(* names.                                                                  *)
(***************************************************************************)
THEOREM SessionsUseWhatIsThere == Spec => []StreamsUsable
<1>1. Init => AllInv
  BY TypeInit, ReadyInit, ListInit, CfgInit, LcoreInit, SessionInit DEF AllInv
<1>2. AllInv /\ [Next]_vars => AllInv'
  BY TypeStep, ReadyStep, ListStep, CfgStep, LcoreStep, SessionStep DEF AllInv
<1> QED
  BY <1>1, <1>2, SessionIs, PTL DEF Spec
=============================================================================
