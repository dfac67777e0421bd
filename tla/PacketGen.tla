------------------------------ MODULE PacketGen ------------------------------
(* PacketGen (src/sim/packet_generators/packet_gen.h): builds the packets the *)
(* testbenches send.                                                          *)
(*                                                                            *)
(* Of a packet the model keeps its size and what makes its bytes differ from  *)
(* another's: the arguments of the call, kept as one value, and the IPv4      *)
(* identification.  Addresses, ports and checksums are left out: no property  *)
(* tells them apart.                                                          *)
EXTENDS Integers, Sequences, FiniteSets

(* Bytes of each header. *)
EthHdr == 14
Ipv4Hdr == 20
UdpHdr == 8
TcpHdr == 20
ArpHdr == 28

IpPacket(type, args, size, ip_id) ==
  [type |-> type, args |-> args, ident |-> ip_id, size |-> size]

make_udp_packet(args, payload, ip_id) ==
  IpPacket("UDP", args, EthHdr + Ipv4Hdr + UdpHdr + payload, ip_id)

make_tcp_packet(args, payload, ip_id) ==
  IpPacket("TCP", args, EthHdr + Ipv4Hdr + TcpHdr + payload, ip_id)

(* ARP has no identification: two calls with the same arguments return the    *)
(* same bytes.                                                                *)
make_arp_packet(args) == IpPacket("ARP", args, EthHdr + ArpHdr, 0)

(* What one generator returns for a sequence of calls: ip_id_counter_ moves   *)
(* at every packet with an IPv4 header and wraps at 16 bits.                  *)
UdpCall(args, payload) == [make |-> "UDP", args |-> args, payload |-> payload]
TcpCall(args, payload) == [make |-> "TCP", args |-> args, payload |-> payload]
ArpCall(args) == [make |-> "ARP", args |-> args, payload |-> 0]

ip_id_counter(calls, i) ==
  Cardinality({j \in 1 .. i - 1 : calls[j].make # "ARP"}) % 65536

Packets(calls) ==
  [i \in 1 .. Len(calls) |->
     LET c == calls[i]
         id == ip_id_counter(calls, i)
     IN  CASE c.make = "UDP" -> make_udp_packet(c.args, c.payload, id)
           [] c.make = "TCP" -> make_tcp_packet(c.args, c.payload, id)
           [] c.make = "ARP" -> make_arp_packet(c.args)]
=============================================================================
