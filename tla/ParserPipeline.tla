--------------------------- MODULE ParserPipeline ---------------------------
(* parser_pipeline (src/rtl/top/parser_pipeline.sv): the AXI-Stream chain     *)
(*                                                                            *)
(*    eth -> vlan -> ip -> { udp || tcp } -> match -> mod -> stats -> flow    *)
(*                                                                            *)
(* Every box is a register that loads when its consumer is ready or when it   *)
(* is empty; readiness is combinational from m_tready back to s_tready.  The  *)
(* six stages up to match also hold a metadata register that loads on the     *)
(* first beat of a packet.  One step is one rising clock edge; the offered    *)
(* beat and m_tready are free.                                                *)
EXTENDS PacketMetadata, Sequences

CONSTANTS Traffic,    \* Traffic[i]: the headers the i-th packet sent may have
          MaxBeats,   \* beats of the longest packet
          CntMax      \* 2^C_WIDTH - 1, where the counters stop

Byte == 0 .. 255
IpBytes == [ttl : Byte, csum_hi : Byte, csum_lo : Byte]

(* The source sends Len(Traffic) packets: a bound of the model, not the code. *)
(* src_mac stands for everything that tells one packet from another.          *)
ASSUME TrafficAssumption ==
  /\ MaxBeats \in Nat \ {0} /\ CntMax \in Nat \ {0}
  /\ Len(Traffic) \in Nat \ {0} /\ DOMAIN Traffic = 1 .. Len(Traffic)
  /\ \A i \in DOMAIN Traffic : \A h \in Traffic[i] : h.src_mac = i /\ h.ip \in IpBytes

MaxPackets == Len(Traffic)
MaxSent == MaxPackets * MaxBeats

Bubble == [n |-> 0]     \* a register whose pipe_valid is 0

MetaStage == {"eth", "vlan", "ip", "udp", "tcp", "match"}
Stage == MetaStage \cup {"mod", "stats", "flow"}

VARIABLES pipe,        \* pipe_valid/tdata/tkeep/tlast of every stage
          meta,        \* pipe_meta of the parsers and of the match table
          mod_act,     \* the match table's pipe_mod_action
          first_beat,  \* first_beat of the parsers and of the match table
          pkt_len,     \* the Ethernet parser's length counter
          prev_tlast,  \* the modifier's first-beat detector
          cnt,         \* the statistics engine's counters
          source,      \* the sender: packets begun and ended, beats accepted
          delivered,   \* beats the sink has taken (a reset discards the rest)
          refused      \* history: match's beat was offered to mod and stalled

vars == <<pipe, meta, mod_act, first_beat, pkt_len, prev_tlast, cnt, source,
          delivered, refused>>

-----------------------------------------------------------------------------
(* The sender.  A packet is a header with its own src_mac and 1..MaxBeats     *)
(* beats; every beat carries one unit of tkeep.  n numbers the beats; ip are  *)
(* the bytes the modifier may rewrite, those at ip_off + 8, + 10 and + 11.    *)
Beat(h, idx, last) == [n |-> source.sent + 1, hdr |-> h, idx |-> idx,
                       last |-> last, ip |-> h.ip]

NoHeader == [src_mac |-> 0]

Idle == source.idx = 0      \* between packets

NextBeats ==
  LET idx == source.idx + 1
      hdrs == IF ~Idle THEN {source.hdr}
              ELSE IF source.begun < MaxPackets THEN Traffic[source.begun + 1]
              ELSE {}
  IN  {Beat(h, idx, last) : h \in hdrs,
                            last \in IF idx = MaxBeats THEN {TRUE} ELSE BOOLEAN}

Accepted(b) ==
  [sent |-> b.n,
   begun |-> IF b.idx = 1 THEN source.begun + 1 ELSE source.begun,
   ended |-> IF b.last THEN source.ended + 1 ELSE source.ended,
   idx |-> IF b.last THEN 0 ELSE b.idx,
   hdr |-> IF b.last THEN NoHeader ELSE b.hdr]

-----------------------------------------------------------------------------
(* Ready, from the sink back: m_tready || !pipe_valid at each stage.          *)
Empty(s) == pipe[s] = Bubble
Valid(s) == ~Empty(s)

r_flow(m_tready)  == m_tready \/ Empty("flow")
r_stats(m_tready) == r_flow(m_tready) \/ Empty("stats")
BugModWaitsEmpty(m_tready) == r_stats(m_tready) /\ Empty("mod")
r_mod(m_tready)   == r_stats(m_tready) \/ Empty("mod")
BugMatchNeverStalls(m_tready) == TRUE
r_match(m_tready) == r_mod(m_tready) \/ Empty("match")
r_udp(m_tready)   == r_match(m_tready) \/ Empty("udp")
BugTcpIgnoresEmpty(m_tready) == r_match(m_tready)
r_tcp(m_tready)   == r_match(m_tready) \/ Empty("tcp")
r_ip(m_tready)    == r_udp(m_tready) /\ r_tcp(m_tready)
r_vlan(m_tready)  == r_ip(m_tready) \/ Empty("ip")
r_eth(m_tready)   == r_vlan(m_tready) \/ Empty("vlan")
s_tready(m_tready) == r_eth(m_tready) \/ Empty("eth")

(* s_tready of each stage's own register. *)
Ready(s, m_tready) ==
  \/ s = "eth" /\ s_tready(m_tready)
  \/ s = "vlan" /\ r_eth(m_tready)
  \/ s = "ip" /\ r_vlan(m_tready)
  \/ s = "udp" /\ r_udp(m_tready)
  \/ s = "tcp" /\ r_tcp(m_tready)
  \/ s = "match" /\ r_match(m_tready)
  \/ s = "mod" /\ r_mod(m_tready)
  \/ s = "stats" /\ r_stats(m_tready)
  \/ s = "flow" /\ r_flow(m_tready)

-----------------------------------------------------------------------------
(* What the modifier does to the beat the match register offers it: prev_tlast*)
(* decides whether it is a first beat.                                        *)
BugModsEveryBeat == Valid("match")
do_mod == Valid("match") /\ prev_tlast

(* MOD_TTL_DEC, of every packet with that action, IPv4 or not.  The two       *)
(* assignments to the checksum are to one byte, so the second, of the low     *)
(* byte, stands, and the incremented high byte is lost.                       *)
ttl_dec(ip) == [ip EXCEPT !.ttl = (ip.ttl + 255) % 256, !.csum_hi = ip.csum_lo]

ModBeat == IF do_mod /\ mod_act = "ttl_dec"
           THEN [pipe["match"] EXCEPT !.ip = ttl_dec(pipe["match"].ip)]
           ELSE pipe["match"]

(* It follows every beat offered, taken or not. *)
PrevTlastNext == IF Valid("match") THEN pipe["match"].last ELSE prev_tlast

(* The two L4 registers joined: the TCP parser's beat if it has one, and the  *)
(* metadata of the one that recognised its protocol.                          *)
d_l4 == IF Valid("tcp") THEN pipe["tcp"] ELSE pipe["udp"]
m_l4 == IF meta["tcp"].tcp_valid THEN meta["tcp"] ELSE meta["udp"]

(* The beat on each stage's slave port, the sender offering b. *)
In(b) == [eth |-> b, vlan |-> pipe["eth"], ip |-> pipe["vlan"],
          udp |-> pipe["ip"], tcp |-> pipe["ip"], match |-> d_l4,
          mod |-> ModBeat, stats |-> pipe["mod"], flow |-> pipe["stats"]]

Fires(s, b, m_tready) == In(b)[s] # Bubble /\ Ready(s, m_tready)

(* The metadata each stage loads from a first beat. *)
Parsed(s, b) ==
  LET h == In(b)[s].hdr
  IN  CASE s = "eth"   -> EthParse(h)
        [] s = "vlan"  -> VlanParse(meta["eth"], h)
        [] s = "ip"    -> IpParse(meta["vlan"], h)
        [] s = "udp"   -> UdpParse(meta["ip"], h)
        [] s = "tcp"   -> TcpParse(meta["ip"], h)
        [] s = "match" -> MatchTable(m_l4)

Loaded(s, b, m_tready) ==
  IF Fires(s, b, m_tready) /\ first_beat[s] THEN Parsed(s, b) ELSE meta[s]

(* The Ethernet parser also sets pkt_length, on the last beat. *)
MetaNext(s, b, m_tready) ==
  IF s = "eth" /\ Fires("eth", b, m_tready) /\ b.last
  THEN [Loaded(s, b, m_tready) EXCEPT !.pkt_length = pkt_len + 1]
  ELSE Loaded(s, b, m_tready)

(* first_beat: the next beat to fire is the first of a packet. *)
BugFirstBeatIgnoresReady(s, b, m_tready) ==
  IF In(b)[s] # Bubble THEN In(b)[s].last ELSE first_beat[s]
FirstBeatNext(s, b, m_tready) ==
  IF Fires(s, b, m_tready) THEN In(b)[s].last ELSE first_beat[s]

(* Only the first beat of a longer packet restarts pkt_len. *)
BugLenCountsStalls(b, m_tready) == IF b # Bubble THEN pkt_len + 1 ELSE pkt_len
BugLenNeverRestarts(b, m_tready) ==
  IF Fires("eth", b, m_tready) THEN pkt_len + 1 ELSE pkt_len
PktLenNext(b, m_tready) ==
  IF ~Fires("eth", b, m_tready) THEN pkt_len
  ELSE IF first_beat["eth"] /\ ~b.last THEN 1
  ELSE pkt_len + 1

(* stats_engine counts on the last beat; its s_meta is wired to the match     *)
(* table's register, two stages upstream of the beat it counts, and so is the *)
(* flow table's, three stages upstream.                                       *)
BugStatsReadsIp == meta["ip"]
StatsMeta == meta["match"]
FlowMeta == meta["match"]
sat_inc(val) == IF val < CntMax THEN val + 1 ELSE val
CountIf(c, test) == IF test THEN sat_inc(c) ELSE c
CntNext == LET m == StatsMeta
           IN  [packets |-> sat_inc(cnt.packets),
                bytes |-> (cnt.bytes + m.pkt_length) % (CntMax + 1),
                ipv4 |-> CountIf(cnt.ipv4, m.ipv4_valid),
                tcp |-> CountIf(cnt.tcp, m.tcp_valid),
                udp |-> CountIf(cnt.udp, m.udp_valid),
                arp |-> CountIf(cnt.arp, m.ethertype = ARP),
                drops |-> CountIf(cnt.drops, m.drop)]
BugCountsStalledBeats(m_tready) == Valid("mod") /\ pipe["mod"].last
Counts(m_tready) == Valid("mod") /\ r_stats(m_tready) /\ pipe["mod"].last

-----------------------------------------------------------------------------
ZeroCnt == [packets |-> 0, bytes |-> 0, ipv4 |-> 0, tcp |-> 0, udp |-> 0,
            arp |-> 0, drops |-> 0]

Init == /\ pipe = [s \in Stage |-> Bubble]
        /\ meta = [s \in MetaStage |-> ZeroMeta]
        /\ mod_act = "nop"
        /\ first_beat = [s \in MetaStage |-> TRUE]
        /\ pkt_len = 0
        /\ prev_tlast = TRUE
        /\ cnt = ZeroCnt
        /\ source = [sent |-> 0, begun |-> 0, ended |-> 0, idx |-> 0, hdr |-> NoHeader]
        /\ delivered = 0
        /\ refused = FALSE

(* One clock edge with rst_n high: b is the offered beat or Bubble. *)
Clock(b, m_tready) ==
  /\ pipe' = [s \in Stage |-> IF Ready(s, m_tready) THEN In(b)[s] ELSE pipe[s]]
  /\ meta' = [s \in MetaStage |-> MetaNext(s, b, m_tready)]
  /\ mod_act' = IF Fires("match", b, m_tready) /\ first_beat["match"]
                THEN FirstMatch(m_l4).mod_action ELSE mod_act
  /\ first_beat' = [s \in MetaStage |-> FirstBeatNext(s, b, m_tready)]
  /\ pkt_len' = PktLenNext(b, m_tready)
  /\ prev_tlast' = PrevTlastNext
  /\ cnt' = IF Counts(m_tready) THEN CntNext ELSE cnt
  /\ source' = IF Fires("eth", b, m_tready) THEN Accepted(b) ELSE source
  /\ delivered' = IF m_tready /\ Valid("flow") THEN pipe["flow"].n ELSE delivered
  /\ refused' = (Valid("match") /\ ~r_mod(m_tready))

(* A clock edge with rst_n low.  The metadata registers are not reset; the    *)
(* sender sits under the same reset and abandons the packet it was sending.   *)
Reset == /\ pipe' = [s \in Stage |-> Bubble]
         /\ first_beat' = [s \in MetaStage |-> TRUE]
         /\ pkt_len' = 0
         /\ prev_tlast' = TRUE
         /\ cnt' = ZeroCnt
         /\ source' = [source EXCEPT !.idx = 0, !.hdr = NoHeader, !.ended = 0]
         /\ delivered' = source.sent
         /\ refused' = FALSE
         /\ UNCHANGED <<meta, mod_act>>

Next == \/ \E m_tready \in BOOLEAN, b \in NextBeats \cup {Bubble} : Clock(b, m_tready)
        \/ Reset

Spec == Init /\ [][Next]_vars

(* The clock never stops and the sink is ready again and again. *)
SinkReady == \E b \in NextBeats \cup {Bubble} : Clock(b, TRUE)
FairSpec == Spec /\ WF_vars(SinkReady)

-----------------------------------------------------------------------------
BeatType == [n : 1 .. MaxSent, hdr : UNION {Traffic[i] : i \in DOMAIN Traffic},
             idx : 1 .. MaxBeats, last : BOOLEAN, ip : IpBytes]

(* Every register holds a bubble or a beat of a packet the source has sent.   *)
TypeOK == /\ pipe \in [Stage -> BeatType \cup {Bubble}]
          /\ DOMAIN meta = MetaStage
          /\ mod_act \in ModifierAction
          /\ first_beat \in [MetaStage -> BOOLEAN]
          /\ pkt_len \in 0 .. MaxSent
          /\ prev_tlast \in BOOLEAN
          /\ source.sent \in 0 .. MaxSent
          /\ source.idx \in 0 .. MaxBeats - 1
          /\ cnt.packets \in 0 .. CntMax
          /\ delivered \in 0 .. source.sent
          /\ refused \in BOOLEAN

-----------------------------------------------------------------------------
(* Order, loss and duplication: whatever the back-pressure, the eight         *)
(* registers are a FIFO channel of eight beats (udp and tcp hold one).        *)
Content(b) == IF b = Bubble THEN <<>> ELSE <<b.n>>
InFlight == Content(pipe["flow"]) \o Content(pipe["stats"]) \o Content(pipe["mod"])
              \o Content(pipe["match"]) \o Content(d_l4) \o Content(pipe["ip"])
              \o Content(pipe["vlan"]) \o Content(pipe["eth"])

Channel == INSTANCE BoundedFifo
             WITH Data <- 1 .. MaxSent, Capacity <- 8, q <- InFlight
ImplementsChannel == Channel!Spec

(* The UDP and TCP parsers each look at their own s_tready only, while the    *)
(* IPv4 stage waits for both (r_ip): they must move in lockstep or a beat     *)
(* would enter one of them twice.                                             *)
L4Lockstep == /\ pipe["udp"] = pipe["tcp"]
              /\ first_beat["udp"] = first_beat["tcp"]

(* What a header means, said once and not stage by stage.                     *)
EtherTypeOf(h) == IF h.ethertype = VLAN THEN h.inner ELSE h.ethertype
Carries(h, protocol) == EtherTypeOf(h) = IPV4 /\ h.protocol = protocol
Service == {<<UDP, 53, 1>>, <<TCP, 80, 2>>, <<TCP, 443, 3>>, <<TCP, 22, 4>>}
ClassOf(h) == IF \E c \in 1 .. 4 : Carries(h, h.protocol) /\ <<h.protocol, h.dst_port, c>> \in Service
              THEN CHOOSE c \in 1 .. 4 : <<h.protocol, h.dst_port, c>> \in Service
              ELSE 0

(* Metadata travels with its packet as far as the match table: while a beat   *)
(* is in one of these stages, first or not and however long it has been       *)
(* stalled there, the stage's metadata register describes that beat's packet. *)
MetaDescribesBeat ==
  \A s \in MetaStage :
    LET m == meta[s]
        h == pipe[s].hdr
    IN  Valid(s) =>
          /\ m.src_mac = h.src_mac /\ m.vlan_valid = (h.ethertype = VLAN)
          /\ s # "eth" => m.ethertype = EtherTypeOf(h)
          /\ s \in {"ip", "udp", "tcp", "match"}
               => m.ipv4_valid = (EtherTypeOf(h) = IPV4)
          /\ s = "match" => /\ m.udp_valid = Carries(h, UDP)
                            /\ m.tcp_valid = Carries(h, TCP)
                            /\ m.class_id = ClassOf(h)
                            /\ mod_act = IF ClassOf(h) = 0 THEN "ttl_dec" ELSE "nop"
                            /\ ~m.drop

(* Every packet is counted exactly once, on its last beat: the counter is the *)
(* number of packets sent whose last beat is not still ahead of the engine,   *)
(* up to CntMax, where it stays.                                              *)
PacketsCounted ==
  LET ahead == {s \in {"eth", "vlan", "ip", "udp", "match", "mod"} :
                  Valid(s) /\ pipe[s].last}
      counted == source.ended - Cardinality(ahead)
  IN  counted >= 0 /\ cnt.packets = IF counted < CntMax THEN counted ELSE CntMax

(* On the last beat of a packet of several beats the Ethernet parser's        *)
(* pkt_length is the length of that packet alone; but the stages behind took  *)
(* their copy on the first beat, so all the way to the statistics engine the  *)
(* length of such a packet is 0, however its beats are spread out.  A packet  *)
(* of one beat, whose length is passed on, is given the sum of its own and    *)
(* the length the packet before it was given.                                 *)
LengthGiven(s) == IF pipe[s].idx > 1 THEN pipe[s].idx ELSE meta[s].pkt_length
LengthStaysInEth ==
  /\ Valid("eth") /\ pipe["eth"].last /\ pipe["eth"].idx > 1
       => meta["eth"].pkt_length = pipe["eth"].idx
  /\ \A s \in MetaStage \ {"eth"} :
       Valid(s) /\ (pipe[s].idx > 1 \/ ~pipe[s].last) => meta[s].pkt_length = 0
  /\ Valid("eth") /\ pipe["eth"].last /\ pipe["eth"].idx = 1 /\ Valid("vlan")
       => meta["eth"].pkt_length = LengthGiven("vlan") + 1

(* A beat the modifier takes on the first edge it is offered is rewritten if  *)
(* and only if it is its packet's first and only the catch-all rule matches.  *)
(* The header's sum over the bytes involved, on which a receiver's check of   *)
(* the checksum rests, stays the same only if the low byte of the checksum    *)
(* happens to be one more than the high byte.                                 *)
Rewrites(b) == b.idx = 1 /\ ClassOf(b.hdr) = 0
ModFires == /\ Valid("match") /\ pipe'["mod"] # Bubble
            /\ pipe'["mod"].n = pipe["match"].n
OnesSum(ip) == ((ip.ttl + ip.csum_hi) * 256 + ip.csum_lo) % 65535
UnrefusedBeatsModified ==
  [][ ModFires /\ ~refused =>
        LET old == pipe["match"].ip
            new == pipe'["mod"].ip
        IN  IF ~Rewrites(pipe["match"]) THEN new = old
            ELSE /\ new.ttl = IF old.ttl = 0 THEN 255 ELSE old.ttl - 1
                 /\ old.ttl > 0 => ( OnesSum(new) = OnesSum(old)
                                     <=> old.csum_lo = old.csum_hi + 1 ) ]_vars

(* A packet is counted under its own metadata, however long it has been       *)
(* stalled, unless the next packet is right behind it in the match register   *)
(* when it is counted; and its flow is updated under its own metadata unless  *)
(* another packet is in the match register or the modifier's by then.         *)
Leaves(s) == Valid(s) /\ pipe[s].last /\ pipe'[s] # pipe[s] /\ ~Reset
CountsNow == Leaves("mod")
Followed(s, behind) ==
  \E t \in behind : Valid(t) /\ pipe[t].hdr # pipe[s].hdr
AttributedUnlessFollowed ==
  [][ /\ CountsNow /\ ~Followed("mod", {"match"})
        => StatsMeta.src_mac = pipe["mod"].hdr.src_mac
      /\ Leaves("stats") /\ ~Followed("stats", {"match", "mod"})
        => FlowMeta.src_mac = pipe["stats"].hdr.src_mac ]_vars

(* Every beat accepted leaves, as long as the sink keeps becoming ready: the  *)
(* source falls silent after its last packet, and then nothing stays inside.  *)
Delivered == <>[](delivered = source.sent)

-----------------------------------------------------------------------------
(* What the documents say and the code does not do.                           *)

(* "The metadata struct flows alongside packet data through every stage"      *)
(* (src/docs/architecture.md:139): a packet is counted under its own metadata.*)
CountedUnderOwnMeta ==
  [][CountsNow => StatsMeta.src_mac = pipe["mod"].hdr.src_mac]_vars

(* "The modifier correctly transforms the first beat"                         *)
(* (src/docs/verification.md:100), stalled or not.                            *)
FirstBeatModified ==
  [][ModFires => (pipe'["mod"].ip # pipe["match"].ip <=> Rewrites(pipe["match"]))]_vars
=============================================================================
