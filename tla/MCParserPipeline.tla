-------------------------- MODULE MCParserPipeline --------------------------
(* Three packets of up to three beats: nine beats against eight registers, so *)
(* the pipeline fills to its source, and a packet can be followed by the      *)
(* metadata of the next and of the one after.                                 *)
EXTENDS ParserPipeline

Hdr(i, ethertype, inner, protocol, dst_port, ip) ==
  [src_mac |-> i, ethertype |-> ethertype, inner |-> inner,
   protocol |-> protocol, dst_port |-> dst_port, ip |-> ip]
Ip(ttl, csum_hi, csum_lo) == [ttl |-> ttl, csum_hi |-> csum_hi, csum_lo |-> csum_lo]

(* A DNS query (class 1, untouched), a tagged HTTP segment (class 2, behind a *)
(* VLAN tag), and two that only the catch-all rule matches: an ARP request,   *)
(* whose bytes there are of the sender's address, and a TCP segment to a port *)
(* without a rule, with a checksum that survives and one that does not.       *)
Dns(i) == Hdr(i, IPV4, "none", UDP, 53, Ip(64, 3, 4))
TaggedHttp(i) == Hdr(i, VLAN, IPV4, TCP, 80, Ip(64, 3, 9))
Arp(i) == Hdr(i, ARP, "none", 0, 0, Ip(0, 2, 0))
Other(i, csum_lo) == Hdr(i, IPV4, "none", TCP, 8080, Ip(1, 255 - csum_lo, csum_lo))

MCTraffic == << {Dns(1), TaggedHttp(1)}, {Arp(2), TaggedHttp(2)},
                {Other(3, 128), Other(3, 255)} >>
=============================================================================
