---------------------------- MODULE CsumOffload ----------------------------
(***************************************************************************)
(* testpmd, csum engine: which checksums of a packet are computed by the   *)
(* program ("sw"), left to the NIC ("hw"), set to zero or not touched, for *)
(* a packet and the tx_ol_flags and segment sizes of its transmit port.    *)
(*                                                                         *)
(* A packet is the record                                                  *)
(*   tunnel     "none", "vxlan", "gre", "ipip"                             *)
(*   outer_l3   the ethertype of the outer header of a tunnel              *)
(*   outer_sum  whether its UDP checksum (vxlan) is not zero               *)
(*   l3, l4     ethertype and protocol of the inner (or only) headers      *)
(*   sum        whether their UDP checksum is not zero                     *)
(*   long       longer than its headers and a segment                      *)
(*   aligned    what is read as total_length is a multiple of 4            *)
(***************************************************************************)
EXTENDS Naturals, Sequences

Tunnels == {"none", "vxlan", "gre", "ipip"}
Packets == [tunnel : Tunnels, outer_l3 : {"ip4", "ip6"}, outer_sum : BOOLEAN,
            l3 : {"ip4", "ip6", "arp"}, l4 : {"tcp", "udp", "sctp", "icmp"},
            sum : BOOLEAN, long : BOOLEAN, aligned : BOOLEAN]

OlFlags == {"IP", "UDP", "TCP", "SCTP", "OUTER_IP", "PARSE_TUNNEL"}
Configs == [flags : SUBSET OlFlags, tso_segsz : Nat, tunnel_tso_segsz : Nat]

(* struct testpmd_offload_info, cleared once for a burst *)
NoInfo == [is_tunnel |-> FALSE, ethertype |-> "none", l4_proto |-> "none",
           outer_ethertype |-> "none", outer_l4_proto |-> "none"]

OuterProto(tunnel) == IF tunnel = "vxlan" THEN "udp" ELSE tunnel

(* parse_ethernet, parse_ipv4, parse_ipv6 *)
ParseEthernet(info, l3, l4) ==
    [info EXCEPT !.ethertype = l3, !.l4_proto = IF l3 = "arp" THEN "none" ELSE l4]

(* What parse_vxlan and parse_gre keep of the outer headers. parse_encap_ip *)
(* does not keep the protocol: the one of an earlier packet stays.          *)
KeepOuter(info, tunnel) ==
    [info EXCEPT !.is_tunnel = TRUE, !.outer_ethertype = info.ethertype,
                 !.outer_l4_proto = IF tunnel = "ipip" THEN @ ELSE info.l4_proto]

Parse(pkt, old, flags) ==
    LET info == [old EXCEPT !.is_tunnel = FALSE]
    IN  IF pkt.tunnel = "none"
        THEN ParseEthernet(info, pkt.l3, pkt.l4)
        ELSE LET outer == ParseEthernet(info, pkt.outer_l3, OuterProto(pkt.tunnel))
             IN  IF "PARSE_TUNNEL" \in flags
                 THEN ParseEthernet(KeepOuter(outer, pkt.tunnel), pkt.l3, pkt.l4)
                 ELSE outer

(* Large enough to be segmented *)
Tso(pkt, info, cfg) ==
    pkt.long /\ (IF info.is_tunnel THEN cfg.tunnel_tso_segsz ELSE cfg.tso_segsz) # 0

HwOr(flag, cfg) == IF flag \in cfg.flags THEN "hw" ELSE "sw"

(* Mutant: a packet to be segmented asks for the TCP checksum only. *)
InnerIpAlone(pkt, info, cfg) ==
    IF info.ethertype = "ip4" THEN HwOr("IP", cfg) ELSE "none"

(* process_inner_cksums: the checksum of the IP header *)
InnerIp(pkt, info, cfg) ==
    IF info.ethertype # "ip4" THEN "none"
    ELSE IF info.l4_proto = "tcp" /\ Tso(pkt, info, cfg) THEN "hw"
    ELSE HwOr("IP", cfg)

(* The UDP checksum where process_inner_cksums looks for it *)
UdpSum(pkt, info) ==
    IF pkt.tunnel = "none" \/ info.is_tunnel THEN pkt.sum ELSE pkt.outer_sum

(* and of the layer above it *)
InnerL4(pkt, info, cfg) ==
    IF info.ethertype \notin {"ip4", "ip6"} THEN "kept"
    ELSE CASE info.l4_proto = "udp" ->
                IF UdpSum(pkt, info) THEN HwOr("UDP", cfg) ELSE "kept"
           [] info.l4_proto = "tcp" ->
                IF Tso(pkt, info, cfg) THEN "hw" ELSE HwOr("TCP", cfg)
           [] info.l4_proto = "sctp" ->
                IF "SCTP" \in cfg.flags /\ pkt.aligned THEN "hw" ELSE "zero"
           [] OTHER -> "kept"

TcpSeg(pkt, info, cfg) ==
    info.ethertype \in {"ip4", "ip6"} /\ info.l4_proto = "tcp" /\ Tso(pkt, info, cfg)

(* process_outer_cksums: of the IP header *)
OuterIp(info, cfg) ==
    IF ~info.is_tunnel \/ info.outer_ethertype # "ip4" THEN "none" ELSE HwOr("OUTER_IP", cfg)

(* and of UDP, by the protocol that info tells: where there is no UDP header *)
(* the word in its place may be written.                                     *)
OuterUdp(pkt, info, cfg) ==
    IF ~info.is_tunnel \/ info.outer_l4_proto # "udp" THEN "none"
    ELSE IF pkt.tunnel # "vxlan" THEN "astray"
    ELSE IF TcpSeg(pkt, info, cfg) THEN "zero"
    ELSE IF pkt.outer_sum THEN "sw" ELSE "kept"

(* The loop of pkt_burst_checksum_forward for a packet *)
Checksums(pkt, info, cfg) ==
    [ip |-> InnerIp(pkt, info, cfg), l4 |-> InnerL4(pkt, info, cfg),
     seg |-> TcpSeg(pkt, info, cfg),
     outer_ip |-> OuterIp(info, cfg), outer_udp |-> OuterUdp(pkt, info, cfg)]

(* A packet whose checksum is to be computed: UDP may come without.         *)
ToSum(pkt, info) ==
    /\ info.ethertype \in {"ip4", "ip6"}
    /\ \/ info.l4_proto \in {"tcp", "sctp"}
       \/ info.l4_proto = "udp" /\ UdpSum(pkt, info)

(* Where csum is known not to be right: it cannot compute the CRC of SCTP   *)
(* ("XXX implement CRC32c", csumonly.c:412), which leaves as 0;             *)
NoCrc(pkt, info, cfg) ==
    info.l4_proto = "sctp" /\ ~("SCTP" \in cfg.flags /\ pkt.aligned)

(* what it computes of an outer UDP packet "will be wrong if one of the     *)
(* inner checksums is processed in hardware" (763-765, 785-789);            *)
InnerInHw(pkt, cfg) == pkt.tunnel = "vxlan" /\ cfg.flags \cap {"IP", "UDP", "TCP", "SCTP"} # {}

(* and an IP-in-IP packet after a VXLAN packet has the outer protocol of    *)
(* that one (see KeepOuter).                                                *)
StaleOuter(pkt, info) == pkt.tunnel = "ipip" /\ info.outer_l4_proto = "udp"

(***************************************************************************)
(* What csum promises of a packet. A TCP, UDP or SCTP packet over IP       *)
(* leaves with a checksum that somebody computes, unless UDP came without. *)
(* A packet for the NIC to segment has no checksum computed here that its  *)
(* segments would get wrong; an outer checksum computed here is of what    *)
(* the NIC leaves alone. Nothing is written where the packet has no        *)
(* header. Each but for the exception named there.                         *)
(***************************************************************************)
Right(pkt, info, cfg, out) ==
    /\ ToSum(pkt, info) => out.l4 \in {"hw", "sw"} \/ NoCrc(pkt, info, cfg)
    /\ out.seg => /\ out.ip # "sw" /\ out.l4 = "hw"
                  /\ out.outer_udp \notin {"sw", "kept"}
    /\ out.outer_udp = "sw" => "hw" \notin {out.ip, out.l4} \/ InnerInHw(pkt, cfg)
    /\ pkt.tunnel # "vxlan" => out.outer_udp = "none" \/ StaleOuter(pkt, info)
=============================================================================
