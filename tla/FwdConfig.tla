----------------------------- MODULE FwdConfig ------------------------------
(***************************************************************************)
(* What fwd_config_setup makes of testpmd's settings: the streams of a     *)
(* forwarding session (from which port and queue to which), and the share  *)
(* of them that each forwarding lcore gets. DCB mode is left out.          *)
(*                                                                         *)
(* Ports are given by their positions in fwd_ports_ids; arrays start at 0. *)
(***************************************************************************)
EXTENDS Integers

Lesser(a, b)  == IF a < b THEN a ELSE b
Greater(a, b) == IF a < b THEN b ELSE a

(***************************************************************************)
(* setup_fwd_config_of_each_lcore: nb_fs streams over nb_fc lcores. Each   *)
(* gets the quotient, and the last ones one more. With streams and no      *)
(* lcore the code divides by zero (DividesByZero).                         *)
(***************************************************************************)
DividesByZero(nb_fs, nb_fc) == nb_fs > nb_fc /\ nb_fc = 0

PerLcore(nb_fs, nb_fc) == IF nb_fs <= nb_fc THEN 1 ELSE nb_fs \div nb_fc
Extra(nb_fs, nb_fc)    == IF nb_fs <= nb_fc THEN 0 ELSE nb_fs % nb_fc

Share(idx, nb) == [stream_idx |-> idx, stream_nb |-> nb]

(* Mutant: the extra streams go to the first lcores, as the others count. *)
ExtraFirst(nb_fs, nb_fc) ==
    LET per == PerLcore(nb_fs, nb_fc)
    IN  [l \in 0 .. nb_fc - 1 |->
            Share(l * per, IF l < Extra(nb_fs, nb_fc) THEN per + 1 ELSE per)]

EachLcore(nb_fs, nb_fc) ==
    LET per   == PerLcore(nb_fs, nb_fc)
        nb_lc == nb_fc - Extra(nb_fs, nb_fc)
    IN  [l \in 0 .. nb_fc - 1 |->
            IF l < nb_lc
            THEN Share(l * per, per)
            ELSE Share(nb_lc * per + (l - nb_lc) * (per + 1), per + 1)]

(* Stream s is one of a share. *)
InShare(s, share) == s \in share.stream_idx .. share.stream_idx + share.stream_nb - 1

-----------------------------------------------------------------------------
(* Topologies: the position that position i of n sends to *)

(* simple_fwd_config_setup: of an odd number of paired ports the last one  *)
(* pairs with the first, whose stream it overwrites.                       *)
SimplePeer(topology, i, n) ==
    CASE topology = "loop" -> i
      [] topology = "chained" -> (i + 1) % n
      [] OTHER -> IF i = 0 /\ n % 2 = 1 THEN n - 1
                  ELSE IF i % 2 = 0 THEN (i + 1) % n ELSE i - 1

(* fwd_topology_tx_port_get: here the last one pairs with itself. *)
TopologyTxPort(topology, i, n) ==
    CASE topology = "loop" -> i
      [] topology = "chained" -> (i + 1) % n
      [] OTHER -> IF i % 2 = 1 THEN i - 1
                  ELSE IF i + 1 < n THEN i + 1 ELSE i

-----------------------------------------------------------------------------
(* The three configurations. ids is fwd_ports_ids.                         *)

Stream(rxp, rxq, txp, txq) ==
    [rx_port |-> rxp, rx_queue |-> rxq, tx_port |-> txp, tx_queue |-> txq]

Config(lcores, ports, streams) ==
    [nb_fwd_lcores |-> lcores, nb_fwd_ports |-> ports, nb_fwd_streams |-> streams]

(* simple_fwd_config_setup: one stream for each port, on queue 0 *)
SimpleConfig(n, nb_fwd_lcores) == Config(Lesser(nb_fwd_lcores, n), n, n)
SimpleStreams(topology, ids, n) ==
    [s \in 0 .. n - 1 |-> Stream(ids[s], 0, ids[SimplePeer(topology, s, n)], 0)]

(* rss_fwd_config_setup: one stream for each queue of each port *)
RssConfig(n, nb_fwd_lcores, nb_q) == Config(Lesser(nb_fwd_lcores, nb_q * n), n, nb_q * n)

RssStreams(topology, ids, n, nb_q) ==
    [s \in 0 .. nb_q * n - 1 |->
        Stream(ids[s \div nb_q], s % nb_q,
               ids[TopologyTxPort(topology, s \div nb_q, n)], s % nb_q)]

(* icmp_echo_config_setup: every receive queue answers on its own port *)
IcmpConfig(n, nb_fwd_lcores, nb_rxq, nb_txq) ==
    Config(Lesser(Lesser(nb_fwd_lcores, nb_txq * n), nb_rxq * n), n, nb_rxq * n)
IcmpStreams(ids, n, nb_rxq) ==
    [s \in 0 .. nb_rxq * n - 1 |->
        Stream(ids[s \div nb_rxq], s % nb_rxq, ids[s \div nb_rxq], s % nb_rxq)]

-----------------------------------------------------------------------------
(* fwd_config_setup *)

Multi(nb_rxq, nb_txq) == nb_rxq > 1 /\ nb_txq > 1

ConfigOf(eng, n, nb_fwd_lcores, nb_rxq, nb_txq) ==
    CASE eng = "icmpecho" -> IcmpConfig(n, nb_fwd_lcores, nb_rxq, nb_txq)
      [] eng # "icmpecho" /\ Multi(nb_rxq, nb_txq) ->
            RssConfig(n, nb_fwd_lcores, Lesser(nb_rxq, nb_txq))
      [] OTHER -> SimpleConfig(n, nb_fwd_lcores)

StreamsOf(eng, topology, ids, n, nb_rxq, nb_txq) ==
    CASE eng = "icmpecho" -> IcmpStreams(ids, n, nb_rxq)
      [] eng # "icmpecho" /\ Multi(nb_rxq, nb_txq) ->
            RssStreams(topology, ids, n, Lesser(nb_rxq, nb_txq))
      [] OTHER -> SimpleStreams(topology, ids, n)
=============================================================================
