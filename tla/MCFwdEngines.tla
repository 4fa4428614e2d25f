---------------------------- MODULE MCFwdEngines ----------------------------
(* An instance of FwdEngines for TLC *)
EXTENDS FwdEngines

Tcp == [tunnel |-> "none", outer_l3 |-> "ip4", outer_sum |-> FALSE, l3 |-> "ip4", l4 |-> "tcp",
        sum |-> TRUE, long |-> TRUE, aligned |-> TRUE]

(* Each protocol, each tunnel, each case of a checksum that is not there *)
MCHeaders ==
    {Tcp, [Tcp EXCEPT !.l4 = "udp", !.l3 = "ip6"], [Tcp EXCEPT !.l4 = "sctp", !.aligned = FALSE],
     [Tcp EXCEPT !.l3 = "arp"],
     [Tcp EXCEPT !.tunnel = "vxlan", !.outer_sum = TRUE],
     [Tcp EXCEPT !.tunnel = "vxlan", !.l4 = "udp", !.sum = FALSE],
     [Tcp EXCEPT !.tunnel = "gre", !.l4 = "icmp"],
     [Tcp EXCEPT !.tunnel = "ipip", !.outer_l3 = "ip6"]}

MCConfigs ==
    {[flags |-> {}, tso_segsz |-> 1, tunnel_tso_segsz |-> 0],
     [flags |-> {"PARSE_TUNNEL"}, tso_segsz |-> 1, tunnel_tso_segsz |-> 1],
     [flags |-> {"UDP", "OUTER_IP", "PARSE_TUNNEL"}, tso_segsz |-> 0, tunnel_tso_segsz |-> 0],
     [flags |-> OlFlags, tso_segsz |-> 1, tunnel_tso_segsz |-> 1]}

Packet(name, lens) == [name |-> name, lens |-> lens]

(* For csum, also a packet of two mbufs *)
MCKinds == [e \in Engine |->
    CASE e = "csum" -> {[name |-> "plain", lens |-> <<42>>, hdr |-> h] : h \in MCHeaders}
                       \cup {[name |-> "plain", lens |-> <<60, 20>>, hdr |-> Tcp]}
      [] e = "icmpecho" -> {Packet("request", <<42>>), Packet("other", <<42>>)}
      [] OTHER -> {Packet("plain", <<42>>)}]

(* The first one is as long as the array; two that are long enough in all; *)
(* one that is not; one of too many                                        *)
MCTxPkts == <<<<64, 0, 0, 0>>, <<20, 22>>, <<14, 14, 14>>, <<14>>, <<14, 14, 14, 14>>>>

MCMbufs == [e \in Engine |->
    CASE e = "flowgen" -> 1 .. 2 [] e = "txonly" -> 1 .. 3 [] OTHER -> 1 .. 4]
MCMaxChanges == [e \in Engine |->
    CASE e = "flowgen" -> 0 [] e = "txonly" -> 2 [] OTHER -> 1]

(* Where lcores share more than the pool, two run; else one has two bursts. *)
MCMaxBursts == [e \in Engine |-> [s \in Stream |->
    IF e \in {"io", "flowgen"} THEN 1
    ELSE IF s = 2 THEN 0 ELSE IF e = "csum" THEN 1 ELSE 2]]
=============================================================================
