--------------------------- MODULE PacketMetadata ---------------------------
(* What each parser and the match table write into packet_metadata_t (npe_pkg)*)
(* from the first beat of a packet, one operator per stage.  A header is the  *)
(* set of fields the stages look at; protocol 0 and port 0 are the values a   *)
(* field keeps when no stage writes it, as in the RTL's '0.                   *)
EXTENDS Integers, FiniteSets

IPV4 == "ipv4"
ARP  == "arp"
VLAN == "vlan"
UDP  == 17
TCP  == 6

ModifierAction == {"nop", "ttl_dec"}   \* the modifier_action_t the rules use

(* s_meta('0) of the first stage *)
ZeroMeta == [src_mac |-> 0, ethertype |-> "none", vlan_valid |-> FALSE,
             ipv4_valid |-> FALSE, protocol |-> 0, udp_valid |-> FALSE,
             tcp_valid |-> FALSE, dst_port |-> 0, class_id |-> 0,
             drop |-> FALSE, pkt_length |-> 0]

-----------------------------------------------------------------------------
(* Ethernet parser: pipe_meta <= s_meta, then its own fields. *)
EthParse(h) == [ZeroMeta EXCEPT !.src_mac = h.src_mac,
                                !.ethertype = h.ethertype,
                                !.vlan_valid = (h.ethertype = VLAN)]

(* VLAN parser: the inner ethertype replaces the outer one. *)
VlanParse(m, h) == IF m.vlan_valid THEN [m EXCEPT !.ethertype = h.inner]
                                   ELSE m

IpParse(m, h) == IF m.ethertype = IPV4
                 THEN [m EXCEPT !.ipv4_valid = TRUE, !.protocol = h.protocol]
                 ELSE m

UdpParse(m, h) == IF m.protocol = UDP /\ m.ipv4_valid
                  THEN [m EXCEPT !.udp_valid = TRUE, !.dst_port = h.dst_port]
                  ELSE m

TcpParse(m, h) == IF m.protocol = TCP /\ m.ipv4_valid
                  THEN [m EXCEPT !.tcp_valid = TRUE, !.dst_port = h.dst_port]
                  ELSE m

-----------------------------------------------------------------------------
(* The hardcoded rules[0..4]; the others are not valid.  No rule uses an      *)
(* address or a source port, and every rule allows.                           *)
Rule(protocol, dst_port, class_id, mod_action) ==
  [protocol |-> protocol, dst_port |-> dst_port, action |-> "allow",
   class_id |-> class_id, mod_action |-> mod_action]

rules == << Rule(UDP,  53, 1, "nop"),
            Rule(TCP,  80, 2, "nop"),
            Rule(TCP, 443, 3, "nop"),
            Rule(TCP,  22, 4, "nop"),
            Rule(0,     0, 0, "ttl_dec") >>

(* 0 is a wildcard; the port is compared only when an L4 header was parsed. *)
Matches(r, m) == /\ r.protocol # 0 => r.protocol = m.protocol
                 /\ r.dst_port # 0 /\ (m.udp_valid \/ m.tcp_valid)
                      => r.dst_port = m.dst_port

(* The priority encoder: the first valid rule that matches, and ACTION_DROP   *)
(* with MOD_NOP if none does.                                                 *)
NoMatch == [action |-> "drop", class_id |-> 0, mod_action |-> "nop"]

FirstMatch(m) ==
  LET hit == {i \in DOMAIN rules : Matches(rules[i], m)}
  IN  IF hit = {} THEN NoMatch
      ELSE rules[CHOOSE i \in hit : \A j \in hit : i <= j]

MatchTable(m) == [m EXCEPT !.class_id = FirstMatch(m).class_id,
                           !.drop = (FirstMatch(m).action = "drop")]
=============================================================================
