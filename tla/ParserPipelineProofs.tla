------------------------ MODULE ParserPipelineProofs ------------------------
(* Proofs about the pipeline, for any traffic and packets of any length.      *)
EXTENDS ParserPipeline, FiniteSetTheorems, SequenceTheorems, TLAPS

(* The two L4 registers are ready together as long as they hold the same.     *)
LEMMA L4ReadyTogether ==
  ASSUME L4Lockstep, NEW m_tready \in BOOLEAN
  PROVE  Ready("udp", m_tready) <=> Ready("tcp", m_tready)
<1>1. Empty("udp") <=> Empty("tcp")
  BY DEF L4Lockstep, Empty
<1>2. r_udp(m_tready) <=> r_tcp(m_tready)
  BY <1>1 DEF r_udp, r_tcp
<1>3. Ready("udp", m_tready) <=> r_udp(m_tready)
  BY DEF Ready
<1>4. Ready("tcp", m_tready) <=> r_tcp(m_tready)
  BY DEF Ready
<1> QED BY <1>2, <1>3, <1>4

LEMMA L4Step == L4Lockstep /\ [Next]_vars => L4Lockstep'
<1> SUFFICES ASSUME L4Lockstep, [Next]_vars PROVE L4Lockstep'
  OBVIOUS
<1>0. /\ {"udp", "tcp"} \subseteq Stage /\ {"udp", "tcp"} \subseteq MetaStage
      /\ pipe["udp"] = pipe["tcp"] /\ first_beat["udp"] = first_beat["tcp"]
  BY DEF Stage, MetaStage, L4Lockstep
<1>1. ASSUME NEW m_tready \in BOOLEAN, NEW b \in NextBeats \cup {Bubble},
             Clock(b, m_tready)
      PROVE  L4Lockstep'
  <2>1. In(b)["udp"] = pipe["ip"] /\ In(b)["tcp"] = pipe["ip"]
    BY DEF In
  <2>2. Ready("udp", m_tready) <=> Ready("tcp", m_tready)
    BY L4ReadyTogether
  <2>3. /\ pipe'["udp"] = IF Ready("udp", m_tready) THEN pipe["ip"] ELSE pipe["udp"]
        /\ pipe'["tcp"] = IF Ready("tcp", m_tready) THEN pipe["ip"] ELSE pipe["tcp"]
    BY <1>0, <1>1, <2>1, Zenon DEF Clock
  <2>4. pipe'["udp"] = pipe'["tcp"]
    BY <1>0, <2>2, <2>3, Zenon
  <2>5. FirstBeatNext("udp", b, m_tready) = FirstBeatNext("tcp", b, m_tready)
    BY <1>0, <2>1, <2>2, Zenon DEF FirstBeatNext, Fires
  <2>6. first_beat'["udp"] = first_beat'["tcp"]
    <3>1. first_beat' = [s \in MetaStage |-> FirstBeatNext(s, b, m_tready)]
      BY <1>1 DEF Clock
    <3> QED BY <1>0, <2>5, <3>1, Zenon
  <2> QED BY <2>4, <2>6 DEF L4Lockstep
<1>2. CASE Reset
  <2>1. pipe' = [s \in Stage |-> Bubble] /\ first_beat' = [s \in MetaStage |-> TRUE]
    BY <1>2 DEF Reset
  <2>2. pipe'["udp"] = pipe'["tcp"]
    BY <1>0, <2>1, Zenon
  <2>3. first_beat'["udp"] = first_beat'["tcp"]
    BY <1>0, <2>1, Zenon
  <2> QED BY <2>2, <2>3 DEF L4Lockstep
<1>3. CASE UNCHANGED vars
  BY <1>0, <1>3 DEF vars, L4Lockstep
<1> QED BY <1>1, <1>2, <1>3 DEF Next

(* The UDP and TCP parsers never drift apart, so no beat enters one of them   *)
(* twice or is dropped by one: their pair is a single register, although      *)
(* each looks at its own s_tready only.                                       *)
THEOREM ParsersInLockstep == Spec => []L4Lockstep
<1>1. Init => L4Lockstep
  <2> SUFFICES ASSUME Init PROVE L4Lockstep
    OBVIOUS
  <2>0. {"udp", "tcp"} \subseteq Stage /\ {"udp", "tcp"} \subseteq MetaStage
    BY DEF Stage, MetaStage
  <2>1. pipe["udp"] = pipe["tcp"]
    BY <2>0, Zenon DEF Init
  <2>2. first_beat["udp"] = first_beat["tcp"]
    BY <2>0, Zenon DEF Init
  <2> QED BY <2>1, <2>2 DEF L4Lockstep
<1> QED BY <1>1, L4Step, PTL DEF Spec

-----------------------------------------------------------------------------
(* How one edge moves a beat.                                                 *)

Header == UNION {Traffic[i] : i \in DOMAIN Traffic}

(* What the environment gives at an edge.                                     *)
Edge(b, m_tready) == m_tready \in BOOLEAN /\ b \in NextBeats \cup {Bubble}

SourceOK(src) ==
  /\ src \in [sent : Nat, begun : 0 .. MaxPackets, ended : Nat,
              idx : 0 .. MaxBeats - 1, hdr : Header \cup {NoHeader}]
  /\ src.idx = 0 => src.sent <= src.begun * MaxBeats
  /\ src.idx # 0 => /\ src.begun \in DOMAIN Traffic
                    /\ src.hdr \in Traffic[src.begun]
                    /\ src.sent <= (src.begun - 1) * MaxBeats + src.idx

(* The type invariant, with what keeps it: no beat is ahead of the source,    *)
(* and the source is within its bound.                                        *)
TypeInv == /\ pipe \in [Stage -> BeatType \cup {Bubble}]
           /\ DOMAIN meta = MetaStage
           /\ mod_act \in ModifierAction
           /\ first_beat \in [MetaStage -> BOOLEAN]
           /\ prev_tlast \in BOOLEAN
           /\ SourceOK(source)
           /\ pkt_len \in 0 .. source.sent
           /\ delivered \in 0 .. source.sent
           /\ cnt.packets \in 0 .. CntMax
           /\ refused \in BOOLEAN
           /\ \A s \in Stage : Valid(s) => pipe[s].n <= source.sent

LEMMA Constants ==
  /\ MaxBeats \in Nat \ {0} /\ MaxPackets \in Nat \ {0} /\ CntMax \in Nat \ {0}
  /\ DOMAIN Traffic = 1 .. MaxPackets
BY TrafficAssumption DEF MaxPackets

LEMMA TimesMonotone ==
  ASSUME NEW x \in Nat, NEW y \in Nat, NEW z \in Nat, x <= y
  PROVE  x * z <= y * z
<1>1. PICK d \in Nat : y = x + d
  <2>1. y - x \in Nat /\ y = x + (y - x)
    OBVIOUS
  <2> QED BY <2>1
<1>2. y * z = x * z + d * z /\ d * z \in Nat /\ x * z \in Nat
  BY <1>1
<1> QED BY <1>2

LEMMA SourceBound == ASSUME NEW src, SourceOK(src) PROVE src.sent <= MaxSent
<1> DEFINE k == src.begun
           B == MaxBeats
<1>0. /\ k \in Nat /\ k <= MaxPackets /\ B \in Nat /\ MaxPackets \in Nat
      /\ src.sent \in Nat /\ src.idx \in 0 .. B - 1
  BY Constants DEF SourceOK
<1>1. k * B <= MaxPackets * B
  BY <1>0, TimesMonotone
<1>2. k * B \in Nat /\ MaxPackets * B \in Nat
  BY <1>0
<1>3. src.sent <= k * B
  <2>1. CASE src.idx = 0
    BY <2>1 DEF SourceOK
  <2>2. CASE src.idx # 0
    <3>1. src.sent <= (k - 1) * B + src.idx
      BY <2>2 DEF SourceOK
    <3>2. (k - 1) * B = k * B - B
      BY <1>0
    <3> HIDE DEF k, B
    <3> QED BY <1>0, <1>2, <3>1, <3>2
  <2> QED BY <2>1, <2>2
<1> QED BY <1>0, <1>1, <1>2, <1>3 DEF MaxSent

LEMMA TypeInvImplies == ASSUME TypeInv PROVE TypeOK
<1>0. MaxSent \in Nat
  BY Constants DEF MaxSent
<1>1. source.sent <= MaxSent /\ source.sent \in Nat
  <2>1. SourceOK(source)
    BY DEF TypeInv
  <2> QED BY <2>1, SourceBound DEF SourceOK
<1> QED BY <1>0, <1>1 DEF TypeInv, SourceOK, TypeOK

LEMMA BubbleIsNoBeat == \A x \in BeatType : x # Bubble
BY DEF BeatType, Bubble

(* What the source may offer: the next beat of its packet, or the first of    *)
(* the next packet.                                                           *)
LEMMA OfferedBeat ==
  ASSUME SourceOK(source), NEW b \in NextBeats
  PROVE  /\ b = [n |-> source.sent + 1, hdr |-> b.hdr, idx |-> source.idx + 1,
                 last |-> b.last, ip |-> b.hdr.ip]
         /\ b.last \in BOOLEAN /\ (b.idx = MaxBeats => b.last)
         /\ b.hdr \in Header /\ b.hdr.ip \in IpBytes
         /\ b # Bubble
         /\ Idle => /\ source.begun + 1 \in DOMAIN Traffic
                    /\ b.hdr \in Traffic[source.begun + 1]
         /\ ~Idle => b.hdr = source.hdr
<1>1. PICK h, last :
        /\ b = [n |-> source.sent + 1, hdr |-> h, idx |-> source.idx + 1,
                last |-> last, ip |-> h.ip]
        /\ last \in BOOLEAN /\ (source.idx + 1 = MaxBeats => last)
        /\ Idle => source.begun < MaxPackets /\ h \in Traffic[source.begun + 1]
        /\ ~Idle => h = source.hdr
  <2> DEFINE hdrs == IF ~Idle THEN {source.hdr}
                     ELSE IF source.begun < MaxPackets THEN Traffic[source.begun + 1]
                     ELSE {}
            lasts == IF source.idx + 1 = MaxBeats THEN {TRUE} ELSE BOOLEAN
  <2>0. NextBeats = {Beat(h, source.idx + 1, last) : h \in hdrs, last \in lasts}
    BY DEF NextBeats
  <2>1. PICK h \in hdrs, last \in lasts : b = Beat(h, source.idx + 1, last)
    <3> HIDE DEF hdrs, lasts
    <3> QED BY <2>0
  <2>2. /\ last \in BOOLEAN /\ (source.idx + 1 = MaxBeats => last)
        /\ Idle => source.begun < MaxPackets /\ h \in Traffic[source.begun + 1]
        /\ ~Idle => h = source.hdr
    BY <2>1
  <2> QED BY <2>1, <2>2, Zenon DEF Beat
<1>2. source.begun \in 0 .. MaxPackets /\ source.sent \in Nat
  BY DEF SourceOK
<1>3. Idle => source.begun + 1 \in DOMAIN Traffic
  BY <1>1, <1>2, Constants
<1>4. \E i \in DOMAIN Traffic : h \in Traffic[i]
  BY <1>1, <1>3 DEF Idle, SourceOK
<1>5. h \in Header /\ h.ip \in IpBytes
  BY <1>4, TrafficAssumption DEF Header
<1>6. b.n # 0
  BY <1>1, <1>2
<1> QED BY <1>1, <1>3, <1>5, <1>6 DEF Bubble

(* The source after a beat was accepted.                                      *)
LEMMA SourceStep ==
  ASSUME SourceOK(source), NEW b \in NextBeats, source' = Accepted(b)
  PROVE  /\ SourceOK(source')
         /\ source'.sent = source.sent + 1 /\ b \in BeatType
<1>1. /\ b = [n |-> source.sent + 1, hdr |-> b.hdr, idx |-> source.idx + 1,
              last |-> b.last, ip |-> b.hdr.ip]
      /\ b.last \in BOOLEAN /\ (b.idx = MaxBeats => b.last)
      /\ b.hdr \in Header /\ b.hdr.ip \in IpBytes
      /\ Idle => /\ source.begun + 1 \in DOMAIN Traffic
                 /\ b.hdr \in Traffic[source.begun + 1]
      /\ ~Idle => b.hdr = source.hdr
  BY OfferedBeat
<1>2. b.n = source.sent + 1 /\ b.idx = source.idx + 1
  BY <1>1
<1>3. /\ source.sent \in Nat /\ source.begun \in 0 .. MaxPackets /\ source.ended \in Nat
      /\ source.idx \in 0 .. MaxBeats - 1
      /\ MaxBeats \in Nat \ {0} /\ MaxPackets \in Nat \ {0}
      /\ DOMAIN Traffic = 1 .. MaxPackets
  BY Constants DEF SourceOK
<1> DEFINE begun == IF b.idx = 1 THEN source.begun + 1 ELSE source.begun
<1>4. source' = [sent |-> b.n, begun |-> begun,
                 ended |-> IF b.last THEN source.ended + 1 ELSE source.ended,
                 idx |-> IF b.last THEN 0 ELSE b.idx,
                 hdr |-> IF b.last THEN NoHeader ELSE b.hdr]
  BY DEF Accepted
<1>5. /\ begun \in DOMAIN Traffic /\ b.hdr \in Traffic[begun]
      /\ source.sent <= (begun - 1) * MaxBeats + source.idx
  <2>1. CASE Idle
    <3>1. begun = source.begun + 1 /\ source.idx = 0
      BY <2>1, <1>2 DEF Idle
    <3>2. source.sent <= source.begun * MaxBeats
      BY <3>1 DEF SourceOK
    <3>3. begun - 1 = source.begun /\ source.begun * MaxBeats \in Nat
      BY <1>3, <3>1
    <3> HIDE DEF begun
    <3> QED BY <1>1, <1>3, <2>1, <3>1, <3>2, <3>3
  <2>2. CASE ~Idle
    <3>1. begun = source.begun
      BY <2>2, <1>2, <1>3 DEF Idle
    <3> HIDE DEF begun
    <3> QED BY <1>1, <2>2, <3>1 DEF SourceOK, Idle
  <2> QED BY <2>1, <2>2
<1>6. begun \in 1 .. MaxPackets
  BY <1>3, <1>5
<1> HIDE DEF begun
<1>7. (begun - 1) * MaxBeats = begun * MaxBeats - MaxBeats /\ begun * MaxBeats \in Nat
  BY <1>3, <1>6
<1>8. source' \in [sent : Nat, begun : 0 .. MaxPackets, ended : Nat,
                   idx : 0 .. MaxBeats - 1, hdr : Header \cup {NoHeader}]
  <2>1. b.n \in Nat /\ begun \in 0 .. MaxPackets
    BY <1>2, <1>3, <1>6
  <2>2. (IF b.last THEN source.ended + 1 ELSE source.ended) \in Nat
    BY <1>3
  <2>3. (IF b.last THEN 0 ELSE b.idx) \in 0 .. MaxBeats - 1
    BY <1>1, <1>2, <1>3
  <2>4. (IF b.last THEN NoHeader ELSE b.hdr) \in Header \cup {NoHeader}
    BY <1>1
  <2> QED BY <1>4, <2>1, <2>2, <2>3, <2>4
<1>9. source'.idx = 0 => source'.sent <= source'.begun * MaxBeats
  <2>1. /\ source'.sent = source.sent + 1 /\ source'.begun = begun
    BY <1>2, <1>4
  <2> QED BY <1>3, <1>5, <1>7, <2>1
<1>10. source'.idx # 0 => /\ source'.begun \in DOMAIN Traffic
                          /\ source'.hdr \in Traffic[source'.begun]
                          /\ source'.sent <= (source'.begun - 1) * MaxBeats + source'.idx
  <2>1. /\ source'.sent = source.sent + 1 /\ source'.begun = begun
        /\ source'.idx # 0 => source'.idx = source.idx + 1 /\ source'.hdr = b.hdr
    BY <1>2, <1>4
  <2>2. HAVE source'.idx # 0
  <2>3. source.sent + 1 <= (begun - 1) * MaxBeats + (source.idx + 1)
    <3> DEFINE room == (begun - 1) * MaxBeats
    <3>1. room \in Int /\ source.sent <= room + source.idx
      BY <1>3, <1>5, <1>7
    <3> HIDE DEF room
    <3>2. source.sent + 1 <= room + (source.idx + 1)
      BY <1>3, <3>1
    <3> QED BY <3>2 DEF room
  <2>4. b.hdr \in Traffic[begun]
    BY <1>5
  <2> QED BY <1>5, <2>1, <2>2, <2>3, <2>4
<1>11. SourceOK(source')
  BY <1>8, <1>9, <1>10 DEF SourceOK
<1>12. source'.sent <= MaxSent /\ source'.sent = source.sent + 1
  BY <1>11, <1>2, <1>4, SourceBound
<1>13. b \in BeatType
  <2>1. b.n \in 1 .. MaxSent /\ b.idx \in 1 .. MaxBeats
    BY <1>2, <1>3, <1>12, SourceBound DEF MaxSent
  <2> QED BY <1>1, <2>1 DEF BeatType, Header
<1> QED BY <1>11, <1>12, <1>13

-----------------------------------------------------------------------------
(* The rule table: the first rule that matches is the one the priority        *)
(* encoder finds, and the last matches everything.                            *)
LEMMA Rules ==
  /\ DOMAIN rules = 1 .. 5
  /\ rules[1] = Rule(UDP, 53, 1, "nop") /\ rules[2] = Rule(TCP, 80, 2, "nop")
  /\ rules[3] = Rule(TCP, 443, 3, "nop") /\ rules[4] = Rule(TCP, 22, 4, "nop")
  /\ rules[5] = Rule(0, 0, 0, "ttl_dec")
BY DEF rules

LEMMA FirstMatchIs ==
  ASSUME NEW m, NEW i \in 1 .. 5, Matches(rules[i], m),
         \A j \in 1 .. i - 1 : ~Matches(rules[j], m)
  PROVE  FirstMatch(m) = rules[i]
<1> DEFINE hit == {j \in DOMAIN rules : Matches(rules[j], m)}
<1>1. i \in hit /\ hit \subseteq 1 .. 5 /\ \A j \in hit : i <= j
  BY Rules
<1>2. (CHOOSE k \in hit : \A j \in hit : k <= j) = i
  <2> HIDE DEF hit
  <2>1. \A k \in hit : (\A j \in hit : k <= j) => k = i
    BY <1>1
  <2> QED BY <1>1, <2>1
<1>3. FirstMatch(m) = IF hit = {} THEN NoMatch
                      ELSE rules[CHOOSE k \in hit : \A j \in hit : k <= j]
  BY Zenon DEF FirstMatch
<1> QED BY <1>1, <1>2, <1>3

(* Some rule is first.                                                        *)
LEMMA SomeMatch ==
  ASSUME NEW m
  PROVE  \E i \in 1 .. 5 : FirstMatch(m) = rules[i]
<1>1. Matches(rules[5], m)
  BY Rules DEF Matches, Rule
<1>2. PICK i \in 1 .. 5 : /\ Matches(rules[i], m)
                          /\ \A j \in 1 .. i - 1 : ~Matches(rules[j], m)
  <2> DEFINE M(i) == Matches(rules[i], m)
  <2>1. CASE M(1)
    BY <2>1
  <2>2. CASE ~M(1) /\ M(2)
    BY <2>2
  <2>3. CASE ~M(1) /\ ~M(2) /\ M(3)
    BY <2>3
  <2>4. CASE ~M(1) /\ ~M(2) /\ ~M(3) /\ M(4)
    BY <2>4
  <2>5. CASE ~M(1) /\ ~M(2) /\ ~M(3) /\ ~M(4)
    BY <2>5, <1>1
  <2> QED BY <2>1, <2>2, <2>3, <2>4, <2>5
<1> QED BY <1>2, FirstMatchIs

LEMMA ActionType == ASSUME NEW m PROVE FirstMatch(m).mod_action \in ModifierAction
<1>1. PICK i \in 1 .. 5 : FirstMatch(m) = rules[i]
  BY SomeMatch
<1>2. \A j \in 1 .. 5 : rules[j].mod_action \in ModifierAction
  <2>1. \A p, d, c, a : Rule(p, d, c, a).mod_action = a
    BY DEF Rule
  <2> TAKE j \in 1 .. 5
  <2>2. j = 1 \/ j = 2 \/ j = 3 \/ j = 4 \/ j = 5
    OBVIOUS
  <2> QED BY <2>1, <2>2, Rules DEF ModifierAction
<1> QED BY <1>1, <1>2

-----------------------------------------------------------------------------
(* What every register holds after an edge.                                   *)
LEMMA PipeStep ==
  ASSUME NEW b, NEW m_tready, Clock(b, m_tready), NEW s \in Stage
  PROVE  pipe'[s] = IF Ready(s, m_tready) THEN In(b)[s] ELSE pipe[s]
BY DEF Clock

LEMMA Inputs ==
  ASSUME NEW b
  PROVE  /\ In(b)["eth"] = b /\ In(b)["vlan"] = pipe["eth"]
         /\ In(b)["ip"] = pipe["vlan"] /\ In(b)["udp"] = pipe["ip"]
         /\ In(b)["tcp"] = pipe["ip"] /\ In(b)["match"] = d_l4
         /\ In(b)["mod"] = ModBeat /\ In(b)["stats"] = pipe["mod"]
         /\ In(b)["flow"] = pipe["stats"]
BY DEF In

LEMMA Stages ==
  /\ Stage = {"eth", "vlan", "ip", "udp", "tcp", "match", "mod", "stats", "flow"}
  /\ MetaStage = {"eth", "vlan", "ip", "udp", "tcp", "match"}
BY DEF Stage, MetaStage

(* The modifier changes three bytes of a beat and nothing else.               *)
LEMMA Modifies ==
  ASSUME pipe["match"] \in BeatType \cup {Bubble}
  PROVE  /\ ModBeat \in BeatType \cup {Bubble}
         /\ ModBeat = Bubble <=> Empty("match")
         /\ Valid("match") => /\ ModBeat.n = pipe["match"].n
                              /\ ModBeat.hdr = pipe["match"].hdr
                              /\ ModBeat.idx = pipe["match"].idx
                              /\ ModBeat.last = pipe["match"].last
<1> DEFINE x == pipe["match"]
<1>1. CASE x = Bubble
  <2>1. ~do_mod
    BY <1>1 DEF do_mod, Valid, Empty
  <2> QED BY <1>1, <2>1 DEF ModBeat, Empty, Valid
<1>2. CASE x # Bubble
  <2>1. x \in BeatType /\ x.ip \in IpBytes
    BY <1>2 DEF BeatType
  <2>2. ttl_dec(x.ip) \in IpBytes
    <3> DEFINE ip == x.ip
    <3>1. \A k \in Int : k % 256 \in Byte /\ k + 255 \in Int
      BY DEF Byte
    <3>2. ip \in IpBytes
      BY <2>1
    <3> HIDE DEF ip
    <3>3. ip.ttl \in Int
      BY <3>2 DEF IpBytes, Byte
    <3>4. (ip.ttl + 255) % 256 \in Byte
      BY <3>1, <3>3
    <3>5. ttl_dec(ip) \in IpBytes
      BY <3>2, <3>4 DEF ttl_dec, IpBytes
    <3> QED BY <3>5 DEF ip
  <2>3. [x EXCEPT !.ip = ttl_dec(x.ip)] \in BeatType
    BY <2>1, <2>2 DEF BeatType
  <2>4. ModBeat \in {x, [x EXCEPT !.ip = ttl_dec(x.ip)]}
    BY DEF ModBeat
  <2>5. \A y \in {x, [x EXCEPT !.ip = ttl_dec(x.ip)]} :
           /\ y \in BeatType
           /\ y.n = x.n /\ y.hdr = x.hdr /\ y.idx = x.idx /\ y.last = x.last
    BY <2>1, <2>3 DEF BeatType
  <2> QED BY <1>2, <2>4, <2>5, BubbleIsNoBeat DEF Empty, Valid
<1> QED BY <1>1, <1>2

(* A beat the source offers is taken by the pipeline exactly when it enters   *)
(* the first register.                                                        *)
LEMMA SourceMoves ==
  ASSUME TypeInv, NEW b, NEW m_tready, Edge(b, m_tready), Clock(b, m_tready)
  PROVE  /\ Fires("eth", b, m_tready) <=> b # Bubble /\ Ready("eth", m_tready)
         /\ Fires("eth", b, m_tready) =>
              /\ b \in NextBeats /\ b \in BeatType
              /\ source' = Accepted(b) /\ source'.sent = source.sent + 1
         /\ ~Fires("eth", b, m_tready) => source' = source
         /\ SourceOK(source') /\ source'.sent \in Nat
         /\ source.sent <= source'.sent
<1>1. Fires("eth", b, m_tready) <=> b # Bubble /\ Ready("eth", m_tready)
  BY Inputs DEF Fires
<1>2. /\ SourceOK(source) /\ source.sent \in Nat
  BY DEF TypeInv, SourceOK
<1>3. CASE Fires("eth", b, m_tready)
  <2>1. b \in NextBeats /\ source' = Accepted(b)
    BY <1>1, <1>3 DEF Edge, Clock
  <2>2. SourceOK(source') /\ source'.sent = source.sent + 1 /\ b \in BeatType
    BY <1>2, <2>1, SourceStep
  <2> QED BY <1>1, <1>2, <1>3, <2>1, <2>2
<1>4. CASE ~Fires("eth", b, m_tready)
  <2>1. source' = source
    BY <1>4 DEF Clock
  <2> QED BY <1>1, <1>2, <1>4, <2>1
<1> QED BY <1>3, <1>4

LEMMA CountStep == ASSUME NEW c \in 0 .. CntMax PROVE sat_inc(c) \in 0 .. CntMax
BY Constants DEF sat_inc

LEMMA TypeStep ==
  ASSUME TypeInv, NEW b, NEW m_tready, Edge(b, m_tready), Clock(b, m_tready)
  PROVE  TypeInv'
<1>0. /\ pipe \in [Stage -> BeatType \cup {Bubble}]
      /\ source.sent \in Nat /\ source'.sent \in Nat /\ source.sent <= source'.sent
      /\ SourceOK(source')
  BY SourceMoves DEF TypeInv, SourceOK
(* What enters a register is a beat the source has sent. *)
<1>1. ASSUME NEW s \in Stage, Ready(s, m_tready)
      PROVE  /\ In(b)[s] \in BeatType \cup {Bubble}
             /\ In(b)[s] # Bubble => In(b)[s].n <= source'.sent
  <2>1. CASE s = "eth"
    <3>1. CASE b # Bubble
      <4>1. Fires("eth", b, m_tready)
        BY <1>1, <2>1, <3>1, SourceMoves
      <4>2. b \in BeatType /\ source'.sent = source.sent + 1 /\ b \in NextBeats
        BY <4>1, SourceMoves
      <4>3. b.n = source.sent + 1
        BY <4>2, OfferedBeat DEF TypeInv
      <4> QED BY <1>0, <2>1, <4>2, <4>3, Inputs
    <3>2. CASE b = Bubble
      BY <2>1, <3>2, Inputs
    <3> QED BY <3>1, <3>2
  <2>2. CASE s = "mod"
    <3>1. pipe["match"] \in BeatType \cup {Bubble}
      BY <1>0, Stages
    <3>2. Valid("match") => pipe["match"].n <= source.sent
      BY Stages DEF TypeInv
    <3>3. Valid("match") => pipe["match"].n \in Nat
      BY <3>1 DEF Valid, Empty, BeatType
    <3> QED BY <1>0, <2>2, <3>1, <3>2, <3>3, Modifies, Inputs DEF Valid
  <2>3. CASE s # "eth" /\ s # "mod"
    <3>1. PICK t \in Stage : In(b)[s] = pipe[t]
      <4>1. In(b)["match"] = pipe["tcp"] \/ In(b)["match"] = pipe["udp"]
        BY Inputs DEF d_l4
      <4> QED BY <2>3, <4>1, Inputs, Stages
    <3>2. pipe[t] \in BeatType \cup {Bubble} /\ (pipe[t] # Bubble => pipe[t].n <= source.sent)
      BY <1>0 DEF TypeInv, Valid, Empty
    <3>3. pipe[t] # Bubble => pipe[t].n \in Nat
      BY <3>2 DEF BeatType
    <3> QED BY <1>0, <3>1, <3>2, <3>3
  <2> QED BY <2>1, <2>2, <2>3
<1>2. ASSUME NEW s \in Stage
      PROVE  /\ pipe'[s] \in BeatType \cup {Bubble}
             /\ pipe'[s] # Bubble => pipe'[s].n <= source'.sent
  <2>1. CASE Ready(s, m_tready)
    BY <1>1, <2>1, PipeStep
  <2>2. CASE ~Ready(s, m_tready)
    <3>1. pipe'[s] = pipe[s]
      BY <2>2, PipeStep
    <3>2. pipe[s] \in BeatType \cup {Bubble} /\ (pipe[s] # Bubble => pipe[s].n <= source.sent)
      BY <1>0 DEF TypeInv, Valid, Empty
    <3>3. pipe[s] # Bubble => pipe[s].n \in Nat
      BY <3>2 DEF BeatType
    <3> QED BY <1>0, <3>1, <3>2, <3>3
  <2> QED BY <2>1, <2>2
<1>3. pipe' \in [Stage -> BeatType \cup {Bubble}]
  <2>1. pipe' = [s \in Stage |-> pipe'[s]]
    BY DEF Clock
  <2> QED BY <1>2, <2>1
<1>4. \A s \in Stage : Valid(s)' => pipe'[s].n <= source'.sent
  BY <1>2 DEF Valid, Empty
<1>5. DOMAIN meta' = MetaStage
  BY DEF Clock
<1>6. mod_act' \in ModifierAction
  BY ActionType DEF Clock, TypeInv
<1>7. first_beat' \in [MetaStage -> BOOLEAN]
  <2>1. ASSUME NEW s \in MetaStage PROVE FirstBeatNext(s, b, m_tready) \in BOOLEAN
    <3>1. CASE Fires(s, b, m_tready)
      <4>1. s \in Stage /\ Ready(s, m_tready) /\ In(b)[s] # Bubble
        BY <3>1, Stages DEF Fires
      <4>2. In(b)[s] \in BeatType
        BY <1>1, <4>1
      <4> QED BY <3>1, <4>2 DEF FirstBeatNext, BeatType
    <3>2. CASE ~Fires(s, b, m_tready)
      BY <3>2 DEF FirstBeatNext, TypeInv
    <3> QED BY <3>1, <3>2
  <2> QED BY <2>1 DEF Clock
<1>8. prev_tlast' \in BOOLEAN
  <2>1. Valid("match") => pipe["match"].last \in BOOLEAN
    BY <1>0, Stages DEF Valid, Empty, BeatType
  <2> QED BY <2>1 DEF Clock, PrevTlastNext, TypeInv
<1>9. pkt_len' \in 0 .. source'.sent
  <2>1. pkt_len \in 0 .. source.sent
    BY DEF TypeInv
  <2>2. CASE Fires("eth", b, m_tready)
    <3>1. source'.sent = source.sent + 1
      BY <2>2, SourceMoves
    <3>2. pkt_len' \in {1, pkt_len + 1}
      BY <2>2 DEF Clock, PktLenNext
    <3> QED BY <1>0, <2>1, <3>1, <3>2
  <2>3. CASE ~Fires("eth", b, m_tready)
    <3>1. pkt_len' = pkt_len
      BY <2>3 DEF Clock, PktLenNext
    <3> QED BY <1>0, <2>1, <3>1
  <2> QED BY <2>2, <2>3
<1>10. delivered' \in 0 .. source'.sent
  <2>1. delivered \in 0 .. source.sent
    BY DEF TypeInv
  <2>2. Valid("flow") => pipe["flow"].n \in Nat /\ pipe["flow"].n <= source.sent
    BY <1>0, Stages DEF Valid, Empty, BeatType, TypeInv
  <2>3. delivered' = IF m_tready /\ Valid("flow") THEN pipe["flow"].n ELSE delivered
    BY DEF Clock
  <2> QED BY <1>0, <2>1, <2>2, <2>3
<1>11. cnt'.packets \in 0 .. CntMax
  <2>1. CASE Counts(m_tready)
    <3>1. cnt'.packets = sat_inc(cnt.packets)
      BY <2>1 DEF Clock, CntNext
    <3> QED BY <3>1, CountStep DEF TypeInv
  <2>2. CASE ~Counts(m_tready)
    BY <2>2 DEF Clock, TypeInv
  <2> QED BY <2>1, <2>2
<1>12. refused' \in BOOLEAN
  BY DEF Clock
<1> QED BY <1>0, <1>3, <1>4, <1>5, <1>6, <1>7, <1>8, <1>9, <1>10, <1>11, <1>12, Zenon
        DEF TypeInv

LEMMA TypeReset == ASSUME TypeInv, Reset PROVE TypeInv'
<1>1. /\ pipe' = [s \in Stage |-> Bubble]
      /\ source' = [source EXCEPT !.idx = 0, !.hdr = NoHeader, !.ended = 0]
      /\ first_beat' = [s \in MetaStage |-> TRUE]
      /\ pkt_len' = 0 /\ prev_tlast' = TRUE /\ cnt' = ZeroCnt
      /\ delivered' = source.sent /\ refused' = FALSE
      /\ meta' = meta /\ mod_act' = mod_act
  BY DEF Reset
<1>2. SourceOK(source') /\ source'.sent = source.sent /\ source.sent \in Nat
  <2>1. SourceOK(source)
    BY DEF TypeInv
  <2>2. /\ source.sent \in Nat /\ source.begun \in 0 .. MaxPackets
        /\ source.idx \in 0 .. MaxBeats - 1 /\ MaxBeats \in Nat /\ MaxBeats > 0
    BY <2>1, Constants DEF SourceOK
  <2> DEFINE S == [sent : Nat, begun : 0 .. MaxPackets, ended : Nat,
                   idx : 0 .. MaxBeats - 1, hdr : Header \cup {NoHeader}]
  <2>3. source \in S
    BY <2>1 DEF SourceOK
  <2>4. 0 \in 0 .. MaxBeats - 1 /\ 0 \in Nat /\ NoHeader \in Header \cup {NoHeader}
    BY <2>2
  <2>5. /\ source' \in [sent : Nat, begun : 0 .. MaxPackets, ended : Nat,
                        idx : 0 .. MaxBeats - 1, hdr : Header \cup {NoHeader}]
        /\ source'.sent = source.sent /\ source'.begun = source.begun /\ source'.idx = 0
    BY <1>1, <2>3, <2>4
  <2>6. source.sent <= source.begun * MaxBeats
    <3>1. CASE source.idx = 0
      BY <2>1, <3>1 DEF SourceOK
    <3>2. CASE source.idx # 0
      <4>1. /\ source.sent <= (source.begun - 1) * MaxBeats + source.idx
        BY <2>1, <3>2 DEF SourceOK
      <4>2. /\ (source.begun - 1) * MaxBeats = source.begun * MaxBeats - MaxBeats
            /\ source.begun * MaxBeats \in Nat
        BY <2>2
      <4> QED BY <2>2, <4>1, <4>2
    <3> QED BY <3>1, <3>2
  <2> QED BY <2>2, <2>5, <2>6 DEF SourceOK
<1>3. \A s \in Stage : ~Valid(s)'
  BY <1>1 DEF Valid, Empty
<1>4. cnt'.packets \in 0 .. CntMax
  BY <1>1, Constants DEF ZeroCnt
<1>5. pipe' \in [Stage -> BeatType \cup {Bubble}] /\ first_beat' \in [MetaStage -> BOOLEAN]
  BY <1>1
<1>6. /\ pkt_len' \in 0 .. source'.sent /\ delivered' \in 0 .. source'.sent
      /\ prev_tlast' \in BOOLEAN /\ refused' \in BOOLEAN
  <2>1. prev_tlast' \in BOOLEAN /\ refused' \in BOOLEAN
    BY <1>1, Zenon
  <2>2. pkt_len' = 0 /\ delivered' = source.sent
    BY <1>1
  <2> QED BY <1>2, <2>1, <2>2
<1>7. DOMAIN meta' = MetaStage /\ mod_act' \in ModifierAction
  BY <1>1 DEF TypeInv
<1> QED BY <1>2, <1>3, <1>4, <1>5, <1>6, <1>7, Zenon DEF TypeInv

LEMMA TypeInit == ASSUME Init PROVE TypeInv
<1>1. SourceOK(source) /\ source.sent = 0
  BY Constants DEF Init, SourceOK
<1>2. \A s \in Stage : ~Valid(s)
  BY DEF Init, Valid, Empty
<1>3. cnt.packets \in 0 .. CntMax
  BY Constants DEF Init, ZeroCnt
<1>4. pipe \in [Stage -> BeatType \cup {Bubble}] /\ first_beat \in [MetaStage -> BOOLEAN]
  BY DEF Init
<1>5. /\ pkt_len \in 0 .. source.sent /\ delivered \in 0 .. source.sent
      /\ prev_tlast \in BOOLEAN /\ refused \in BOOLEAN
  <2>1. prev_tlast \in BOOLEAN /\ refused \in BOOLEAN
    BY Zenon DEF Init
  <2>2. pkt_len = 0 /\ delivered = 0
    BY DEF Init
  <2> QED BY <1>1, <2>1, <2>2
<1>6. DOMAIN meta = MetaStage /\ mod_act \in ModifierAction
  BY DEF Init, ModifierAction
<1> QED BY <1>1, <1>2, <1>3, <1>4, <1>5, <1>6, Zenon DEF TypeInv

LEMMA TypeInductive == TypeInv /\ [Next]_vars => TypeInv'
<1> SUFFICES ASSUME TypeInv, [Next]_vars PROVE TypeInv'
  OBVIOUS
<1>1. ASSUME NEW m_tready \in BOOLEAN, NEW b \in NextBeats \cup {Bubble},
             Clock(b, m_tready)
      PROVE  TypeInv'
  BY <1>1, TypeStep DEF Edge
<1>2. CASE Reset
  BY <1>2, TypeReset
<1>3. CASE UNCHANGED vars
  BY <1>3 DEF vars, TypeInv, Valid, Empty
<1> QED BY <1>1, <1>2, <1>3 DEF Next

(* Registers, flags and counters keep their kinds, every register holds a     *)
(* bubble or a beat the source has sent, and nothing is delivered that was    *)
(* not, for any traffic and any pattern of stalls and resets.                 *)
THEOREM TypeCorrect == Spec => []TypeOK
<1>1. Init => TypeInv
  BY TypeInit
<1>2. TypeInv => TypeOK
  BY TypeInvImplies
<1> QED BY <1>1, <1>2, TypeInductive, PTL DEF Spec

-----------------------------------------------------------------------------
(* Metadata travels with its packet.                                          *)

Field == {"src_mac", "ethertype", "vlan_valid", "ipv4_valid", "protocol",
          "udp_valid", "tcp_valid", "dst_port", "class_id", "drop", "pkt_length"}

(* What a stage's metadata register says of a packet with header h.           *)
Describes(s, m, h) ==
  LET ip == s \notin {"eth", "vlan"} /\ EtherTypeOf(h) = IPV4
      udp == s \in {"udp", "match"} /\ Carries(h, UDP)
      tcp == s \in {"tcp", "match"} /\ Carries(h, TCP)
  IN  /\ DOMAIN m = Field
      /\ m.src_mac = h.src_mac
      /\ m.ethertype = IF s = "eth" THEN h.ethertype ELSE EtherTypeOf(h)
      /\ m.vlan_valid = (h.ethertype = VLAN)
      /\ m.ipv4_valid = ip
      /\ m.protocol = IF ip THEN h.protocol ELSE 0
      /\ m.udp_valid = udp
      /\ m.tcp_valid = tcp
      /\ m.dst_port = IF udp \/ tcp THEN h.dst_port ELSE 0
      /\ m.class_id = IF s = "match" THEN ClassOf(h) ELSE 0
      /\ ~m.drop

RuleAction(h) == IF ClassOf(h) = 0 THEN "ttl_dec" ELSE "nop"

LEMMA EthDescribes == ASSUME NEW h PROVE Describes("eth", EthParse(h), h)
BY DEF Describes, EthParse, ZeroMeta, Field, EtherTypeOf, Carries

LEMMA VlanDescribes ==
  ASSUME NEW h, NEW m, Describes("eth", m, h)
  PROVE  Describes("vlan", VlanParse(m, h), h)
BY DEF Describes, VlanParse, Field, EtherTypeOf, Carries

LEMMA IpDescribes ==
  ASSUME NEW h, NEW m, Describes("vlan", m, h)
  PROVE  Describes("ip", IpParse(m, h), h)
BY DEF Describes, IpParse, Field, EtherTypeOf, Carries

LEMMA UdpDescribes ==
  ASSUME NEW h, NEW m, Describes("ip", m, h)
  PROVE  Describes("udp", UdpParse(m, h), h)
BY DEF Describes, UdpParse, Field, EtherTypeOf, Carries, UDP, TCP

LEMMA TcpDescribes ==
  ASSUME NEW h, NEW m, Describes("ip", m, h)
  PROVE  Describes("tcp", TcpParse(m, h), h)
BY DEF Describes, TcpParse, Field, EtherTypeOf, Carries, UDP, TCP

(* The classes of the rule table, for a header.                               *)
LEMMA Classes ==
  ASSUME NEW h
  PROVE  /\ Carries(h, UDP) /\ h.dst_port = 53 => ClassOf(h) = 1
         /\ Carries(h, TCP) /\ h.dst_port = 80 => ClassOf(h) = 2
         /\ Carries(h, TCP) /\ h.dst_port = 443 => ClassOf(h) = 3
         /\ Carries(h, TCP) /\ h.dst_port = 22 => ClassOf(h) = 4
         /\ \/ Carries(h, UDP) /\ h.dst_port = 53
            \/ Carries(h, TCP) /\ h.dst_port \in {80, 443, 22}
            \/ ClassOf(h) = 0
<1> DEFINE t(c) == <<h.protocol, h.dst_port, c>>
<1>1. ASSUME NEW c \in 1 .. 4
      PROVE  t(c) \in Service <=> \/ h.protocol = UDP /\ h.dst_port = 53 /\ c = 1
                                  \/ h.protocol = TCP /\ h.dst_port = 80 /\ c = 2
                                  \/ h.protocol = TCP /\ h.dst_port = 443 /\ c = 3
                                  \/ h.protocol = TCP /\ h.dst_port = 22 /\ c = 4
  BY DEF Service
<1>2. Carries(h, h.protocol) <=> EtherTypeOf(h) = IPV4
  BY DEF Carries
<1>3. ClassOf(h) = IF \E c \in 1 .. 4 : Carries(h, h.protocol) /\ t(c) \in Service
                   THEN CHOOSE c \in 1 .. 4 : t(c) \in Service ELSE 0
  BY DEF ClassOf
<1>4. ASSUME NEW k \in 1 .. 4, t(k) \in Service
      PROVE  (CHOOSE c \in 1 .. 4 : t(c) \in Service) = k
  <2>1. \A c \in 1 .. 4 : t(c) \in Service => c = k
    <3> HIDE DEF t
    <3> QED BY <1>1, <1>4 DEF UDP, TCP
  <2> HIDE DEF t
  <2> QED BY <1>4, <2>1
<1> HIDE DEF t
<1>5. ASSUME NEW k \in 1 .. 4, EtherTypeOf(h) = IPV4, t(k) \in Service
      PROVE  ClassOf(h) = k
  BY <1>2, <1>3, <1>4, <1>5
<1>6. ASSUME EtherTypeOf(h) # IPV4 \/ ~(\E c \in 1 .. 4 : t(c) \in Service)
      PROVE  ClassOf(h) = 0
  BY <1>2, <1>3, <1>6
<1> QED BY <1>1, <1>5, <1>6 DEF Carries

(* What each of the two L4 registers says, when the other protocol is absent. *)
L4Fields(m, h, udp, tcp) ==
  LET ip == EtherTypeOf(h) = IPV4
  IN  /\ DOMAIN m = Field /\ m.src_mac = h.src_mac /\ m.ethertype = EtherTypeOf(h)
      /\ m.vlan_valid = (h.ethertype = VLAN)
      /\ m.ipv4_valid = ip /\ m.protocol = (IF ip THEN h.protocol ELSE 0)
      /\ m.udp_valid = udp /\ m.tcp_valid = tcp
      /\ m.dst_port = (IF udp \/ tcp THEN h.dst_port ELSE 0)
      /\ m.class_id = 0 /\ ~m.drop

LEMMA UdpFields == ASSUME NEW h, NEW m, Describes("udp", m, h)
                   PROVE  L4Fields(m, h, Carries(h, UDP), FALSE)
<1> DEFINE ip == EtherTypeOf(h) = IPV4
           x == Carries(h, UDP)
<1>0. x \in BOOLEAN
  BY DEF Carries
<1>1. /\ DOMAIN m = Field /\ m.src_mac = h.src_mac /\ m.ethertype = EtherTypeOf(h)
      /\ m.vlan_valid = (h.ethertype = VLAN)
      /\ m.ipv4_valid = ip /\ m.protocol = (IF ip THEN h.protocol ELSE 0)
      /\ m.udp_valid = x /\ m.tcp_valid = FALSE
      /\ m.dst_port = (IF x THEN h.dst_port ELSE 0)
      /\ m.class_id = 0 /\ ~m.drop
  BY <1>0 DEF Describes
<1> HIDE DEF x
<1> SUFFICES L4Fields(m, h, x, FALSE)
  BY DEF x
<1> QED BY <1>0, <1>1 DEF L4Fields

LEMMA TcpFields == ASSUME NEW h, NEW m, Describes("tcp", m, h)
                   PROVE  L4Fields(m, h, FALSE, Carries(h, TCP))
<1> DEFINE ip == EtherTypeOf(h) = IPV4
           x == Carries(h, TCP)
<1>0. x \in BOOLEAN
  BY DEF Carries
<1>1. /\ DOMAIN m = Field /\ m.src_mac = h.src_mac /\ m.ethertype = EtherTypeOf(h)
      /\ m.vlan_valid = (h.ethertype = VLAN)
      /\ m.ipv4_valid = ip /\ m.protocol = (IF ip THEN h.protocol ELSE 0)
      /\ m.udp_valid = FALSE /\ m.tcp_valid = x
      /\ m.dst_port = (IF x THEN h.dst_port ELSE 0)
      /\ m.class_id = 0 /\ ~m.drop
  BY <1>0 DEF Describes
<1> HIDE DEF x
<1> SUFFICES L4Fields(m, h, FALSE, x)
  BY DEF x
<1> QED BY <1>0, <1>1 DEF L4Fields

(* The match table's metadata and action, from what the L4 parsers hold.      *)
LEMMA MatchDescribes ==
  ASSUME NEW h, NEW m, \/ Describes("tcp", m, h) /\ m.tcp_valid
                       \/ Describes("udp", m, h) /\ ~Carries(h, TCP)
  PROVE  /\ Describes("match", MatchTable(m), h)
         /\ FirstMatch(m).mod_action = RuleAction(h)
<1> DEFINE ip == EtherTypeOf(h) = IPV4
           u == Carries(h, UDP)
           t == Carries(h, TCP)
<1>1. L4Fields(m, h, u, t)
  <2>1. ~(u /\ t) /\ u \in BOOLEAN /\ t \in BOOLEAN
    BY DEF Carries, UDP, TCP
  <2>2. CASE Describes("tcp", m, h) /\ m.tcp_valid
    <3>1. L4Fields(m, h, FALSE, t)
      BY <2>2, TcpFields
    <3>2. m.tcp_valid = t
      BY <3>1 DEF L4Fields
    <3>3. t = TRUE /\ u = FALSE
      BY <2>1, <2>2, <3>2
    <3> QED BY <3>1, <3>3
  <2>3. CASE Describes("udp", m, h) /\ ~Carries(h, TCP)
    <3>1. t = FALSE
      BY <2>1, <2>3
    <3> QED BY <2>3, <3>1, UdpFields
  <2> QED BY <2>2, <2>3
<1>2. /\ Matches(rules[1], m) <=> Carries(h, UDP) /\ h.dst_port = 53
      /\ Matches(rules[2], m) <=> Carries(h, TCP) /\ h.dst_port = 80
      /\ Matches(rules[3], m) <=> Carries(h, TCP) /\ h.dst_port = 443
      /\ Matches(rules[4], m) <=> Carries(h, TCP) /\ h.dst_port = 22
      /\ Matches(rules[5], m)
  <2>1. \A p, d, c, a : /\ Rule(p, d, c, a).protocol = p
                        /\ Rule(p, d, c, a).dst_port = d
    BY DEF Rule
  <2>2. /\ m.protocol = UDP <=> Carries(h, UDP)
        /\ m.protocol = TCP <=> Carries(h, TCP)
    BY <1>1 DEF L4Fields, Carries, UDP, TCP
  <2>3. ASSUME NEW p \in {UDP, TCP}, NEW d \in Nat \ {0}, NEW c, NEW a
        PROVE  Matches(Rule(p, d, c, a), m) <=> m.protocol = p /\ h.dst_port = d
    BY <1>1, <2>1, <2>2 DEF L4Fields, Matches, UDP, TCP
  <2>4. Matches(rules[5], m)
    BY <2>1, Rules DEF Matches
  <2> QED BY <2>2, <2>3, <2>4, Rules DEF UDP, TCP
<1>3. \E i \in 1 .. 5 : /\ FirstMatch(m) = rules[i]
                        /\ rules[i].class_id = ClassOf(h)
                        /\ rules[i].mod_action = RuleAction(h)
                        /\ rules[i].action = "allow"
  <2>1. CASE Carries(h, UDP) /\ h.dst_port = 53
    <3>1. FirstMatch(m) = rules[1]
      BY <1>2, <2>1, FirstMatchIs
    <3> QED BY <2>1, <3>1, Classes, Rules DEF Rule, RuleAction
  <2>2. CASE Carries(h, TCP) /\ h.dst_port = 80
    <3>1. FirstMatch(m) = rules[2]
      BY <1>2, <2>2, FirstMatchIs
    <3> QED BY <2>2, <3>1, Classes, Rules DEF Rule, RuleAction
  <2>3. CASE Carries(h, TCP) /\ h.dst_port = 443
    <3>1. FirstMatch(m) = rules[3]
      BY <1>2, <2>3, FirstMatchIs
    <3> QED BY <2>3, <3>1, Classes, Rules DEF Rule, RuleAction
  <2>4. CASE Carries(h, TCP) /\ h.dst_port = 22
    <3>1. FirstMatch(m) = rules[4]
      BY <1>2, <2>4, FirstMatchIs
    <3> QED BY <2>4, <3>1, Classes, Rules DEF Rule, RuleAction
  <2>5. CASE ~( \/ Carries(h, UDP) /\ h.dst_port = 53
                \/ Carries(h, TCP) /\ h.dst_port \in {80, 443, 22} )
    <3>1. FirstMatch(m) = rules[5]
      BY <1>2, <2>5, FirstMatchIs
    <3>2. ClassOf(h) = 0
      BY <2>5, Classes
    <3> QED BY <3>1, <3>2, Rules DEF Rule, RuleAction
  <2> QED BY <2>1, <2>2, <2>3, <2>4, <2>5
<1>4. /\ FirstMatch(m).class_id = ClassOf(h) /\ FirstMatch(m).mod_action = RuleAction(h)
      /\ FirstMatch(m).action # "drop"
  BY <1>3
<1>5. Describes("match", MatchTable(m), h)
  BY <1>1, <1>4 DEF L4Fields, Describes, MatchTable, Field
<1> QED BY <1>4, <1>5

-----------------------------------------------------------------------------
(* Which packet a stage is about to see: the header of the beat in front of   *)
(* it, and whether that beat is a packet's first.                             *)
Source == [start |-> Idle, hdr |-> source.hdr]
After(p, due) == IF p # Bubble THEN [start |-> p.idx = 1, hdr |-> p.hdr] ELSE due
DueVlan == After(pipe["eth"], Source)
DueIp == After(pipe["vlan"], DueVlan)
DueL4 == After(pipe["ip"], DueIp)
DueMatch == After(pipe["udp"], DueL4)
DueMod == After(pipe["match"], DueMatch)

Tells(s, m, act, h) == Describes(s, m, h) /\ (s = "match" => act = RuleAction(h))

(* A stage with first_beat f, metadata m, modifier action act and beat p,     *)
(* before which due waits: f marks a packet's start, and the metadata is that *)
(* of the beat held and of the packet under way.                              *)
Holds(s, f, m, act, p, due) ==
  /\ f <=> due.start
  /\ ~due.start => Tells(s, m, act, due.hdr)
  /\ p # Bubble => /\ p.last <=> due.start
                   /\ ~p.last => due.hdr = p.hdr
                   /\ Tells(s, m, act, p.hdr)

HoldsAt(s, due) == Holds(s, first_beat[s], meta[s], mod_act, pipe[s], due)

MetaInv == /\ HoldsAt("eth", Source) /\ HoldsAt("vlan", DueVlan)
           /\ HoldsAt("ip", DueIp) /\ HoldsAt("udp", DueL4)
           /\ HoldsAt("tcp", DueL4) /\ HoldsAt("match", DueMatch)

(* What is due before an edge and after it, when beat x is in front and is    *)
(* taken or not.                                                              *)
Arrives(x, taken, due, due2) ==
  /\ taken => /\ x.idx = 1 <=> due.start
              /\ ~due.start => x.hdr = due.hdr
              /\ x.last <=> due2.start
              /\ ~x.last => due2.hdr = x.hdr
  /\ ~taken => /\ due2.start <=> due.start
               /\ ~due.start => due2.hdr = due.hdr

LEMMA AfterIs ==
  ASSUME NEW p, NEW due
  PROVE  /\ p # Bubble => (After(p, due).start <=> p.idx = 1) /\ After(p, due).hdr = p.hdr
         /\ p = Bubble => After(p, due) = due
BY DEF After

LEMMA ReadyChain ==
  ASSUME L4Lockstep, NEW m_tready \in BOOLEAN
  PROVE  /\ Ready("eth", m_tready) <=> Ready("vlan", m_tready) \/ Empty("eth")
         /\ Ready("vlan", m_tready) <=> Ready("ip", m_tready) \/ Empty("vlan")
         /\ Ready("ip", m_tready) <=> Ready("udp", m_tready) \/ Empty("ip")
         /\ Ready("udp", m_tready) <=> Ready("match", m_tready) \/ Empty("udp")
         /\ Ready("tcp", m_tready) <=> Ready("match", m_tready) \/ Empty("tcp")
         /\ Ready("match", m_tready) <=> Ready("mod", m_tready) \/ Empty("match")
         /\ \A s \in MetaStage : Ready(s, m_tready) \in BOOLEAN
         /\ Ready("mod", m_tready) \in BOOLEAN
<1>1. /\ Ready("eth", m_tready) <=> s_tready(m_tready)
      /\ Ready("vlan", m_tready) <=> r_eth(m_tready)
      /\ Ready("ip", m_tready) <=> r_vlan(m_tready)
      /\ Ready("udp", m_tready) <=> r_udp(m_tready)
      /\ Ready("tcp", m_tready) <=> r_tcp(m_tready)
      /\ Ready("match", m_tready) <=> r_match(m_tready)
      /\ Ready("mod", m_tready) <=> r_mod(m_tready)
  BY DEF Ready
<1>2. r_udp(m_tready) <=> r_tcp(m_tready)
  BY <1>1, L4ReadyTogether
<1>3. \A s : Ready(s, m_tready) \in BOOLEAN
  BY DEF Ready
<1> QED BY <1>1, <1>2, <1>3 DEF s_tready, r_eth, r_vlan, r_ip, r_udp, r_tcp, r_match

(* The edge of one of the six stages.                                         *)
LEMMA StageEdge ==
  ASSUME NEW b, NEW m_tready, Clock(b, m_tready), NEW s \in MetaStage,
         Ready(s, m_tready) \in BOOLEAN, NEW next \in BOOLEAN,
         Ready(s, m_tready) <=> next \/ Empty(s),
         NEW due, NEW due2,
         Arrives(In(b)[s], Fires(s, b, m_tready), due, due2), HoldsAt(s, due),
         Fires(s, b, m_tready) /\ first_beat[s] =>
           Tells(s, meta'[s], mod_act', In(b)[s].hdr),
         ~(Fires(s, b, m_tready) /\ first_beat[s]) =>
           \A h : Tells(s, meta[s], mod_act, h) => Tells(s, meta'[s], mod_act', h)
  PROVE  /\ Holds(s, first_beat'[s], meta'[s], mod_act', pipe'[s], due2)
         /\ Arrives(pipe[s], Valid(s) /\ next, After(pipe[s], due), After(pipe'[s], due2))
<1> DEFINE x == In(b)[s]
           r == Ready(s, m_tready)
           p == pipe[s]
           p2 == pipe'[s]
           f == first_beat[s]
           f2 == first_beat'[s]
           m == meta[s]
           m2 == meta'[s]
           act == mod_act
           act2 == mod_act'
<1>1. Fires(s, b, m_tready) <=> x # Bubble /\ r
  BY DEF Fires
<1>2. p2 = IF r THEN x ELSE p
  BY PipeStep, Stages
<1>3. /\ x # Bubble /\ r => (f2 <=> x.last)
      /\ ~(x # Bubble /\ r) => (f2 <=> f)
  <2>1. first_beat'[s] = IF Fires(s, b, m_tready) THEN x.last ELSE first_beat[s]
    BY DEF Clock, FirstBeatNext
  <2> QED BY <1>1, <2>1
<1>4. /\ r <=> next \/ p = Bubble
      /\ Valid(s) <=> p # Bubble
  BY DEF Empty, Valid
<1>5. Arrives(x, x # Bubble /\ r, due, due2) /\ Holds(s, f, m, act, p, due)
  BY <1>1 DEF Arrives, HoldsAt
<1>6. /\ x # Bubble /\ r /\ f => Tells(s, m2, act2, x.hdr)
      /\ ~(x # Bubble /\ r /\ f) => \A h : Tells(s, m, act, h) => Tells(s, m2, act2, h)
  BY <1>1
<1> SUFFICES /\ Holds(s, f2, m2, act2, p2, due2)
             /\ Arrives(p, p # Bubble /\ next, After(p, due), After(p2, due2))
  BY <1>4 DEF Arrives
<1> HIDE DEF x, r, p, p2, f, f2, m, m2, act, act2
<1>7. CASE x # Bubble /\ r
  <2>1. p2 = x /\ x # Bubble
    BY <1>2, <1>7
  <2>2. /\ x.idx = 1 <=> due.start
        /\ ~due.start => x.hdr = due.hdr
        /\ x.last <=> due2.start
        /\ ~x.last => due2.hdr = x.hdr
    BY <1>5, <1>7 DEF Arrives
  <2>3. Tells(s, m2, act2, x.hdr)
    BY <1>5, <1>6, <1>7, <2>2 DEF Holds
  <2>4. Holds(s, f2, m2, act2, p2, due2)
    BY <1>3, <1>7, <2>1, <2>2, <2>3 DEF Holds
  <2>5. (After(p2, due2).start <=> x.idx = 1) /\ After(p2, due2).hdr = x.hdr
    BY <2>1, AfterIs
  <2>6. CASE p # Bubble
    <3>1. next /\ (After(p, due).start <=> p.idx = 1) /\ After(p, due).hdr = p.hdr
      BY <1>4, <1>7, <2>6, AfterIs
    <3>2. (p.last <=> due.start) /\ (~p.last => due.hdr = p.hdr)
      BY <1>5, <2>6 DEF Holds
    <3> QED BY <2>2, <2>4, <2>5, <2>6, <3>1, <3>2 DEF Arrives
  <2>7. CASE p = Bubble
    <3>1. After(p, due) = due
      BY <2>7, AfterIs
    <3> QED BY <2>2, <2>4, <2>5, <2>7, <3>1 DEF Arrives
  <2> QED BY <2>6, <2>7
<1>8. CASE ~(x # Bubble /\ r)
  <2>1. /\ due2.start <=> due.start
        /\ ~due.start => due2.hdr = due.hdr
        /\ f2 <=> f
        /\ \A h : Tells(s, m, act, h) => Tells(s, m2, act2, h)
    BY <1>3, <1>5, <1>6, <1>8 DEF Arrives
  <2>2. p2 = p \/ p2 = Bubble
    BY <1>2, <1>8
  <2>3. Holds(s, f2, m2, act2, p2, due2)
    BY <1>5, <2>1, <2>2 DEF Holds
  <2>4. CASE p = Bubble
    <3>1. p2 = Bubble /\ After(p, due) = due /\ After(p2, due2) = due2
      BY <1>2, <1>4, <1>8, <2>4, AfterIs
    <3> QED BY <2>1, <2>3, <2>4, <3>1 DEF Arrives
  <2>5. CASE p # Bubble /\ next
    <3>1. p2 = Bubble
      BY <1>2, <1>4, <1>8, <2>5
    <3>2. /\ (After(p, due).start <=> p.idx = 1) /\ After(p, due).hdr = p.hdr
          /\ After(p2, due2) = due2
      BY <2>5, <3>1, AfterIs
    <3>3. (p.last <=> due.start) /\ (~p.last => due.hdr = p.hdr)
      BY <1>5, <2>5 DEF Holds
    <3> QED BY <2>1, <2>3, <2>5, <3>2, <3>3 DEF Arrives
  <2>6. CASE p # Bubble /\ ~next
    <3>1. p2 = p
      BY <1>2, <1>4, <2>6
    <3>2. /\ After(p2, due2).start <=> After(p, due).start
          /\ After(p2, due2).hdr = After(p, due).hdr
      BY <2>6, <3>1, AfterIs
    <3> QED BY <2>3, <2>6, <3>2 DEF Arrives
  <2> QED BY <2>4, <2>5, <2>6
<1> QED BY <1>7, <1>8

(* What a stage's metadata register loads and keeps.                          *)
LEMMA MetaEdge ==
  ASSUME NEW b, NEW m_tready, Clock(b, m_tready), NEW s \in MetaStage
  PROVE  /\ s # "eth" => meta'[s] = IF Fires(s, b, m_tready) /\ first_beat[s]
                                    THEN Parsed(s, b) ELSE meta[s]
         /\ s = "eth" => \/ meta'[s] = Loaded(s, b, m_tready)
                         \/ meta'[s] = [Loaded(s, b, m_tready) EXCEPT !.pkt_length = pkt_len + 1]
         /\ ~(Fires("match", b, m_tready) /\ first_beat["match"]) => mod_act' = mod_act
<1>1. meta'[s] = MetaNext(s, b, m_tready)
  BY DEF Clock
<1> QED BY <1>1 DEF MetaNext, Loaded, Clock

LEMMA ActAside == ASSUME NEW m, NEW h, NEW s, s # "match", Describes(s, m, h)
                  PROVE  \A act : Tells(s, m, act, h)
BY DEF Tells

(* What the source offers and whether it is taken.                            *)
LEMMA SourceArrives ==
  ASSUME TypeInv, NEW b, NEW m_tready, Edge(b, m_tready), Clock(b, m_tready)
  PROVE  Arrives(b, Fires("eth", b, m_tready), Source, Source')
<1>1. Source.start <=> source.idx = 0
  BY DEF Source, Idle
<1>2. Source.hdr = source.hdr
  BY DEF Source
<1>3. (Source'.start <=> source'.idx = 0) /\ Source'.hdr = source'.hdr
  BY DEF Source, Idle
<1>4. CASE Fires("eth", b, m_tready)
  <2>1. b \in NextBeats /\ source' = Accepted(b) /\ SourceOK(source)
    BY <1>4, SourceMoves DEF TypeInv
  <2>2. b.idx = source.idx + 1 /\ b.last \in BOOLEAN /\ (~Idle => b.hdr = source.hdr)
    <3>1. /\ b = [n |-> source.sent + 1, hdr |-> b.hdr, idx |-> source.idx + 1,
                   last |-> b.last, ip |-> b.hdr.ip]
          /\ b.last \in BOOLEAN /\ (~Idle => b.hdr = source.hdr)
      BY <2>1, OfferedBeat
    <3> QED BY <3>1
  <2>3. source.idx \in Nat
    BY <2>1, Constants DEF SourceOK
  <2>4. /\ source'.idx = IF b.last THEN 0 ELSE b.idx
        /\ ~b.last => source'.hdr = b.hdr
    BY <2>1 DEF Accepted
  <2>5. b.idx = 1 <=> source.idx = 0
    BY <2>2, <2>3
  <2>6. b.last <=> source'.idx = 0
    BY <2>2, <2>3, <2>4
  <2> QED BY <1>1, <1>2, <1>3, <1>4, <2>2, <2>4, <2>5, <2>6 DEF Arrives, Idle
<1>5. CASE ~Fires("eth", b, m_tready)
  <2>1. source' = source
    BY <1>5, SourceMoves
  <2> QED BY <1>1, <1>2, <1>3, <1>5, <2>1 DEF Arrives
<1> QED BY <1>4, <1>5

(* The two L4 registers as one, and what the match table reads from them.     *)
LEMMA L4AsOne ==
  ASSUME L4Lockstep, HoldsAt("udp", DueL4), HoldsAt("tcp", DueL4)
  PROVE  /\ d_l4 = pipe["udp"] /\ pipe["tcp"] = pipe["udp"]
         /\ Valid("udp") => /\ Describes("match", MatchTable(m_l4), pipe["udp"].hdr)
                            /\ FirstMatch(m_l4).mod_action = RuleAction(pipe["udp"].hdr)
<1>1. pipe["tcp"] = pipe["udp"] /\ d_l4 = pipe["udp"]
  BY DEF L4Lockstep, d_l4
<1>2. ASSUME Valid("udp")
      PROVE  /\ Describes("match", MatchTable(m_l4), pipe["udp"].hdr)
             /\ FirstMatch(m_l4).mod_action = RuleAction(pipe["udp"].hdr)
  <2> DEFINE h == pipe["udp"].hdr
  <2>1. Describes("udp", meta["udp"], h) /\ Describes("tcp", meta["tcp"], h)
    BY <1>1, <1>2 DEF HoldsAt, Holds, Tells, Valid, Empty
  <2> HIDE DEF h
  <2>2. CASE meta["tcp"].tcp_valid
    <3>1. m_l4 = meta["tcp"]
      BY <2>2 DEF m_l4
    <3>2. Describes("tcp", m_l4, h) /\ m_l4.tcp_valid
      BY <2>1, <2>2, <3>1
    <3> QED BY <3>2, MatchDescribes DEF h
  <2>3. CASE ~meta["tcp"].tcp_valid
    <3>1. m_l4 = meta["udp"]
      BY <2>3 DEF m_l4
    <3>2. ~Carries(h, TCP)
      <4>1. meta["tcp"].tcp_valid = Carries(h, TCP)
        BY <2>1, TcpFields DEF L4Fields
      <4> QED BY <2>3, <4>1
    <3>3. Describes("udp", m_l4, h)
      BY <2>1, <3>1
    <3> QED BY <3>2, <3>3, MatchDescribes DEF h
  <2> QED BY <2>2, <2>3
<1> QED BY <1>1, <1>2

LEMMA MetaStep ==
  ASSUME TypeInv, L4Lockstep, MetaInv,
         NEW b, NEW m_tready, Edge(b, m_tready), Clock(b, m_tready)
  PROVE  /\ MetaInv'
         /\ Arrives(pipe["match"], Valid("match") /\ Ready("mod", m_tready), DueMod, DueMod')
<1> DEFINE F(s) == Fires(s, b, m_tready)
           R(s) == Ready(s, m_tready)
<1>0. /\ m_tready \in BOOLEAN
      /\ \A s \in MetaStage : F(s) <=> In(b)[s] # Bubble /\ R(s)
      /\ \A s \in MetaStage : R(s) \in BOOLEAN
      /\ R("mod") \in BOOLEAN
  BY ReadyChain DEF Edge, Fires
<1>1. /\ Holds("eth", first_beat'["eth"], meta'["eth"], mod_act', pipe'["eth"], Source')
      /\ Arrives(pipe["eth"], F("vlan"), DueVlan, DueVlan')
  <2>1. In(b)["eth"] = b /\ Arrives(b, F("eth"), Source, Source')
    BY Inputs, SourceArrives
  <2>2. F("eth") /\ first_beat["eth"] => Tells("eth", meta'["eth"], mod_act', b.hdr)
    <3> SUFFICES ASSUME F("eth"), first_beat["eth"]
                 PROVE  Tells("eth", meta'["eth"], mod_act', b.hdr)
      OBVIOUS
    <3>1. Loaded("eth", b, m_tready) = EthParse(b.hdr)
      BY <2>1 DEF Loaded, Parsed
    <3>2. Tells("eth", EthParse(b.hdr), mod_act', b.hdr)
      BY EthDescribes DEF Tells
    <3>3. \/ meta'["eth"] = Loaded("eth", b, m_tready)
          \/ meta'["eth"] = [Loaded("eth", b, m_tready) EXCEPT !.pkt_length = pkt_len + 1]
      BY MetaEdge, Stages
    <3>4. Tells("eth", Loaded("eth", b, m_tready), mod_act', b.hdr)
      BY <3>1, <3>2
    <3>5. Tells("eth", [Loaded("eth", b, m_tready) EXCEPT !.pkt_length = pkt_len + 1], mod_act', b.hdr)
      BY <3>4 DEF Tells, Describes, Field
    <3> QED BY <3>3, <3>4, <3>5
  <2>3. ~(F("eth") /\ first_beat["eth"]) =>
          \A h : Tells("eth", meta["eth"], mod_act, h) => Tells("eth", meta'["eth"], mod_act', h)
    <3> SUFFICES ASSUME ~(F("eth") /\ first_beat["eth"]), NEW h,
                        Tells("eth", meta["eth"], mod_act, h)
                 PROVE  Tells("eth", meta'["eth"], mod_act', h)
      OBVIOUS
    <3>1. Loaded("eth", b, m_tready) = meta["eth"]
      BY DEF Loaded
    <3>2. Tells("eth", meta["eth"], mod_act', h)
      BY DEF Tells
    <3>3. \/ meta'["eth"] = Loaded("eth", b, m_tready)
          \/ meta'["eth"] = [Loaded("eth", b, m_tready) EXCEPT !.pkt_length = pkt_len + 1]
      BY MetaEdge, Stages
    <3>4. Tells("eth", Loaded("eth", b, m_tready), mod_act', h)
      BY <3>1, <3>2
    <3>5. Tells("eth", [Loaded("eth", b, m_tready) EXCEPT !.pkt_length = pkt_len + 1], mod_act', h)
      BY <3>4 DEF Tells, Describes, Field
    <3> QED BY <3>3, <3>4, <3>5
  <2>4. /\ R("eth") <=> R("vlan") \/ Empty("eth")
        /\ R("eth") \in BOOLEAN /\ R("vlan") \in BOOLEAN /\ "eth" \in MetaStage
    BY <1>0, ReadyChain, Stages
  <2>5. HoldsAt("eth", Source)
    BY DEF MetaInv
  <2>6. Valid("eth") /\ R("vlan") <=> F("vlan")
    BY <1>0, Inputs, Stages DEF Valid, Empty
  <2>7. DueVlan' = After(pipe'["eth"], Source') /\ DueVlan = After(pipe["eth"], Source)
    BY DEF DueVlan, After
  <2>8. Arrives(pipe["eth"], Valid("eth") /\ R("vlan"), DueVlan, DueVlan')
        /\ Holds("eth", first_beat'["eth"], meta'["eth"], mod_act', pipe'["eth"], Source')
    BY <2>1, <2>2, <2>3, <2>4, <2>5, <2>7, StageEdge
  <2> QED BY <2>6, <2>8 DEF Arrives
<1>2. /\ Holds("vlan", first_beat'["vlan"], meta'["vlan"], mod_act', pipe'["vlan"], DueVlan')
      /\ Arrives(pipe["vlan"], F("ip"), DueIp, DueIp')
  <2>1. In(b)["vlan"] = pipe["eth"] /\ Arrives(pipe["eth"], F("vlan"), DueVlan, DueVlan')
    BY <1>1, Inputs
  <2>2. F("vlan") /\ first_beat["vlan"] => Tells("vlan", meta'["vlan"], mod_act', pipe["eth"].hdr)
    <3> SUFFICES ASSUME F("vlan"), first_beat["vlan"]
                 PROVE  Tells("vlan", meta'["vlan"], mod_act', pipe["eth"].hdr)
      OBVIOUS
    <3>1. Valid("eth") /\ HoldsAt("eth", Source)
      BY <1>0, Inputs, Stages DEF MetaInv, Valid, Empty
    <3>2. Describes("eth", meta["eth"], pipe["eth"].hdr)
      BY <3>1 DEF HoldsAt, Holds, Tells, Valid, Empty
    <3>3. meta'["vlan"] = Parsed("vlan", b)
      BY MetaEdge, Stages
    <3>4. Parsed("vlan", b) = VlanParse(meta["eth"], pipe["eth"].hdr)
      BY <2>1 DEF Parsed
    <3> QED BY <3>2, <3>3, <3>4, VlanDescribes, ActAside
  <2>3. ~(F("vlan") /\ first_beat["vlan"]) =>
          \A h : Tells("vlan", meta["vlan"], mod_act, h) => Tells("vlan", meta'["vlan"], mod_act', h)
    BY MetaEdge, Stages DEF Tells
  <2>4. /\ R("vlan") <=> R("ip") \/ Empty("vlan")
        /\ R("vlan") \in BOOLEAN /\ R("ip") \in BOOLEAN /\ "vlan" \in MetaStage
    BY <1>0, ReadyChain, Stages
  <2>5. HoldsAt("vlan", DueVlan)
    BY DEF MetaInv
  <2>6. Valid("vlan") /\ R("ip") <=> F("ip")
    BY <1>0, Inputs, Stages DEF Valid, Empty
  <2>7. DueIp' = After(pipe'["vlan"], DueVlan') /\ DueIp = After(pipe["vlan"], DueVlan)
    BY DEF DueIp, After
  <2>8. Arrives(pipe["vlan"], Valid("vlan") /\ R("ip"), DueIp, DueIp')
        /\ Holds("vlan", first_beat'["vlan"], meta'["vlan"], mod_act', pipe'["vlan"], DueVlan')
    BY <2>1, <2>2, <2>3, <2>4, <2>5, <2>7, StageEdge
  <2> QED BY <2>6, <2>8 DEF Arrives
<1>3. /\ Holds("ip", first_beat'["ip"], meta'["ip"], mod_act', pipe'["ip"], DueIp')
      /\ Arrives(pipe["ip"], F("udp"), DueL4, DueL4')
  <2>1. In(b)["ip"] = pipe["vlan"] /\ Arrives(pipe["vlan"], F("ip"), DueIp, DueIp')
    BY <1>2, Inputs
  <2>2. F("ip") /\ first_beat["ip"] => Tells("ip", meta'["ip"], mod_act', pipe["vlan"].hdr)
    <3> SUFFICES ASSUME F("ip"), first_beat["ip"]
                 PROVE  Tells("ip", meta'["ip"], mod_act', pipe["vlan"].hdr)
      OBVIOUS
    <3>1. Valid("vlan") /\ HoldsAt("vlan", DueVlan)
      BY <1>0, Inputs, Stages DEF MetaInv, Valid, Empty
    <3>2. Describes("vlan", meta["vlan"], pipe["vlan"].hdr)
      BY <3>1 DEF HoldsAt, Holds, Tells, Valid, Empty
    <3>3. meta'["ip"] = Parsed("ip", b)
      BY MetaEdge, Stages
    <3>4. Parsed("ip", b) = IpParse(meta["vlan"], pipe["vlan"].hdr)
      BY <2>1 DEF Parsed
    <3> QED BY <3>2, <3>3, <3>4, IpDescribes, ActAside
  <2>3. ~(F("ip") /\ first_beat["ip"]) =>
          \A h : Tells("ip", meta["ip"], mod_act, h) => Tells("ip", meta'["ip"], mod_act', h)
    BY MetaEdge, Stages DEF Tells
  <2>4. /\ R("ip") <=> R("udp") \/ Empty("ip")
        /\ R("ip") \in BOOLEAN /\ R("udp") \in BOOLEAN /\ "ip" \in MetaStage
    BY <1>0, ReadyChain, Stages
  <2>5. HoldsAt("ip", DueIp)
    BY DEF MetaInv
  <2>6. Valid("ip") /\ R("udp") <=> F("udp")
    BY <1>0, Inputs, Stages DEF Valid, Empty
  <2>7. DueL4' = After(pipe'["ip"], DueIp') /\ DueL4 = After(pipe["ip"], DueIp)
    BY DEF DueL4, After
  <2>8. Arrives(pipe["ip"], Valid("ip") /\ R("udp"), DueL4, DueL4')
        /\ Holds("ip", first_beat'["ip"], meta'["ip"], mod_act', pipe'["ip"], DueIp')
    BY <2>1, <2>2, <2>3, <2>4, <2>5, <2>7, StageEdge
  <2> QED BY <2>6, <2>8 DEF Arrives
<1>4. /\ Holds("udp", first_beat'["udp"], meta'["udp"], mod_act', pipe'["udp"], DueL4')
      /\ Arrives(pipe["udp"], F("match"), DueMatch, DueMatch')
  <2>1. In(b)["udp"] = pipe["ip"] /\ Arrives(pipe["ip"], F("udp"), DueL4, DueL4')
    BY <1>3, Inputs
  <2>2. F("udp") /\ first_beat["udp"] => Tells("udp", meta'["udp"], mod_act', pipe["ip"].hdr)
    <3> SUFFICES ASSUME F("udp"), first_beat["udp"]
                 PROVE  Tells("udp", meta'["udp"], mod_act', pipe["ip"].hdr)
      OBVIOUS
    <3>1. Valid("ip") /\ HoldsAt("ip", DueIp)
      BY <1>0, Inputs, Stages DEF MetaInv, Valid, Empty
    <3>2. Describes("ip", meta["ip"], pipe["ip"].hdr)
      BY <3>1 DEF HoldsAt, Holds, Tells, Valid, Empty
    <3>3. meta'["udp"] = Parsed("udp", b)
      BY MetaEdge, Stages
    <3>4. Parsed("udp", b) = UdpParse(meta["ip"], pipe["ip"].hdr)
      BY <2>1 DEF Parsed
    <3> QED BY <3>2, <3>3, <3>4, UdpDescribes, ActAside
  <2>3. ~(F("udp") /\ first_beat["udp"]) =>
          \A h : Tells("udp", meta["udp"], mod_act, h) => Tells("udp", meta'["udp"], mod_act', h)
    BY MetaEdge, Stages DEF Tells
  <2>4. /\ R("udp") <=> R("match") \/ Empty("udp")
        /\ R("udp") \in BOOLEAN /\ R("match") \in BOOLEAN /\ "udp" \in MetaStage
    BY <1>0, ReadyChain, Stages
  <2>5. HoldsAt("udp", DueL4)
    BY DEF MetaInv
  <2>6. Valid("udp") /\ R("match") <=> F("match")
    BY <1>0, L4AsOne, Inputs, Stages DEF MetaInv, Valid, Empty
  <2>7. DueMatch' = After(pipe'["udp"], DueL4') /\ DueMatch = After(pipe["udp"], DueL4)
    BY DEF DueMatch, After
  <2>8. Arrives(pipe["udp"], Valid("udp") /\ R("match"), DueMatch, DueMatch')
        /\ Holds("udp", first_beat'["udp"], meta'["udp"], mod_act', pipe'["udp"], DueL4')
    BY <2>1, <2>2, <2>3, <2>4, <2>5, <2>7, StageEdge
  <2> QED BY <2>6, <2>8 DEF Arrives
<1>5. Holds("tcp", first_beat'["tcp"], meta'["tcp"], mod_act', pipe'["tcp"], DueL4')
  <2>1. In(b)["tcp"] = pipe["ip"] /\ Arrives(pipe["ip"], F("tcp"), DueL4, DueL4')
    <3>1. F("tcp") <=> F("udp")
      BY <1>0, L4ReadyTogether, Inputs, Stages
    <3> HIDE DEF F
    <3> QED BY <1>3, <3>1, Inputs DEF Arrives
  <2>2. F("tcp") /\ first_beat["tcp"] => Tells("tcp", meta'["tcp"], mod_act', pipe["ip"].hdr)
    <3> SUFFICES ASSUME F("tcp"), first_beat["tcp"]
                 PROVE  Tells("tcp", meta'["tcp"], mod_act', pipe["ip"].hdr)
      OBVIOUS
    <3>1. Valid("ip") /\ HoldsAt("ip", DueIp)
      BY <1>0, Inputs, Stages DEF MetaInv, Valid, Empty
    <3>2. Describes("ip", meta["ip"], pipe["ip"].hdr)
      BY <3>1 DEF HoldsAt, Holds, Tells, Valid, Empty
    <3>3. meta'["tcp"] = Parsed("tcp", b)
      BY MetaEdge, Stages
    <3>4. Parsed("tcp", b) = TcpParse(meta["ip"], pipe["ip"].hdr)
      BY <2>1 DEF Parsed
    <3> QED BY <3>2, <3>3, <3>4, TcpDescribes, ActAside
  <2>3. ~(F("tcp") /\ first_beat["tcp"]) =>
          \A h : Tells("tcp", meta["tcp"], mod_act, h) => Tells("tcp", meta'["tcp"], mod_act', h)
    BY MetaEdge, Stages DEF Tells
  <2>4. /\ R("tcp") <=> R("match") \/ Empty("tcp")
        /\ R("tcp") \in BOOLEAN /\ R("match") \in BOOLEAN /\ "tcp" \in MetaStage
    BY <1>0, ReadyChain, Stages
  <2>5. HoldsAt("tcp", DueL4)
    BY DEF MetaInv
  <2> QED BY <2>1, <2>2, <2>3, <2>4, <2>5, StageEdge
<1>6. /\ Holds("match", first_beat'["match"], meta'["match"], mod_act', pipe'["match"], DueMatch')
      /\ Arrives(pipe["match"], Valid("match") /\ R("mod"), DueMod, DueMod')
  <2>0. /\ d_l4 = pipe["udp"]
        /\ Valid("udp") => /\ Describes("match", MatchTable(m_l4), pipe["udp"].hdr)
                           /\ FirstMatch(m_l4).mod_action = RuleAction(pipe["udp"].hdr)
    BY L4AsOne DEF MetaInv
  <2>1. In(b)["match"] = pipe["udp"] /\ Arrives(pipe["udp"], F("match"), DueMatch, DueMatch')
    BY <1>4, <2>0, Inputs
  <2>2. F("match") /\ first_beat["match"] =>
          Tells("match", meta'["match"], mod_act', pipe["udp"].hdr)
    <3> SUFFICES ASSUME F("match"), first_beat["match"]
                 PROVE  Tells("match", meta'["match"], mod_act', pipe["udp"].hdr)
      OBVIOUS
    <3>1. Valid("udp")
      BY <1>0, <2>1, Stages DEF Valid, Empty
    <3>2. meta'["match"] = Parsed("match", b)
      BY MetaEdge, Stages
    <3>3. Parsed("match", b) = MatchTable(m_l4)
      BY DEF Parsed
    <3>4. mod_act' = FirstMatch(m_l4).mod_action
      BY DEF Clock
    <3> QED BY <2>0, <3>1, <3>2, <3>3, <3>4 DEF Tells
  <2>3. ~(F("match") /\ first_beat["match"]) =>
          \A h : Tells("match", meta["match"], mod_act, h) => Tells("match", meta'["match"], mod_act', h)
    BY MetaEdge, Stages DEF Tells
  <2>4. /\ R("match") <=> R("mod") \/ Empty("match")
        /\ R("match") \in BOOLEAN /\ R("mod") \in BOOLEAN /\ "match" \in MetaStage
    BY <1>0, ReadyChain, Stages
  <2>5. HoldsAt("match", DueMatch)
    BY DEF MetaInv
  <2>6. DueMod' = After(pipe'["match"], DueMatch') /\ DueMod = After(pipe["match"], DueMatch)
    BY DEF DueMod, After
  <2> QED BY <2>1, <2>2, <2>3, <2>4, <2>5, <2>6, StageEdge
<1>7. /\ HoldsAt("eth", Source)' /\ HoldsAt("vlan", DueVlan)' /\ HoldsAt("ip", DueIp)'
      /\ HoldsAt("udp", DueL4)' /\ HoldsAt("tcp", DueL4)' /\ HoldsAt("match", DueMatch)'
  BY <1>1, <1>2, <1>3, <1>4, <1>5, <1>6 DEF HoldsAt
<1> QED BY <1>6, <1>7 DEF MetaInv

(* When nothing is in flight and every stage expects a first beat.            *)
LEMMA MetaFromEmpty ==
  ASSUME Idle, \A s \in MetaStage : pipe[s] = Bubble /\ first_beat[s] = TRUE
  PROVE  MetaInv
<1>1. /\ pipe["eth"] = Bubble /\ pipe["vlan"] = Bubble /\ pipe["ip"] = Bubble
      /\ pipe["udp"] = Bubble /\ pipe["tcp"] = Bubble /\ pipe["match"] = Bubble
  BY Stages
<1>2. Source.start
  BY DEF Source
<1>3. DueVlan = Source /\ DueIp = Source /\ DueL4 = Source /\ DueMatch = Source
  BY <1>1, AfterIs DEF DueVlan, DueIp, DueL4, DueMatch
<1>4. ASSUME NEW s \in MetaStage PROVE HoldsAt(s, Source)
  BY <1>2 DEF HoldsAt, Holds
<1> QED BY <1>3, <1>4, Stages DEF MetaInv

LEMMA MetaInductive == TypeInv /\ L4Lockstep /\ MetaInv /\ [Next]_vars => MetaInv'
<1> SUFFICES ASSUME TypeInv, L4Lockstep, MetaInv, [Next]_vars PROVE MetaInv'
  OBVIOUS
<1>1. ASSUME NEW m_tready \in BOOLEAN, NEW b \in NextBeats \cup {Bubble},
             Clock(b, m_tready)
      PROVE  MetaInv'
  BY <1>1, MetaStep DEF Edge
<1>2. CASE Reset
  <2>1. /\ pipe' = [s \in Stage |-> Bubble] /\ first_beat' = [s \in MetaStage |-> TRUE]
        /\ source' = [source EXCEPT !.idx = 0, !.hdr = NoHeader, !.ended = 0]
    BY <1>2 DEF Reset
  <2>2. Idle'
    BY <2>1 DEF Idle, TypeInv, SourceOK
  <2>3. (\A s \in MetaStage : pipe[s] = Bubble /\ first_beat[s] = TRUE)'
    BY <2>1, Stages
  <2>4. (Idle /\ \A s \in MetaStage : pipe[s] = Bubble /\ first_beat[s] = TRUE)' => MetaInv'
    BY MetaFromEmpty, PTL
  <2> QED BY <2>2, <2>3, <2>4
<1>3. CASE UNCHANGED vars
  BY <1>3 DEF vars, MetaInv, HoldsAt, Source, Idle, DueVlan, DueIp, DueL4, DueMatch
<1> QED BY <1>1, <1>2, <1>3 DEF Next

(* Metadata travels with its packet as far as the match table: whatever the   *)
(* traffic, the stalls and the resets, while a beat is in one of these stages *)
(* the metadata register there, and the modifier action behind it, are those  *)
(* of that beat's packet.                                                     *)
THEOREM MetadataTravels == Spec => []MetaDescribesBeat
<1>1. Init => MetaInv /\ L4Lockstep /\ TypeInv
  <2> SUFFICES ASSUME Init PROVE MetaInv /\ L4Lockstep /\ TypeInv
    OBVIOUS
  <2>1. /\ Idle
        /\ \A s \in Stage : pipe[s] = Bubble
        /\ \A s \in MetaStage : first_beat[s] = TRUE
    BY DEF Init, Idle
  <2>2. L4Lockstep
    BY <2>1, Stages DEF L4Lockstep
  <2> QED BY <2>1, <2>2, MetaFromEmpty, TypeInit, Stages
<1>2. MetaInv => MetaDescribesBeat
  <2> SUFFICES ASSUME MetaInv PROVE MetaDescribesBeat
    OBVIOUS
  <2>1. ASSUME NEW s \in MetaStage, Valid(s)
        PROVE  Tells(s, meta[s], mod_act, pipe[s].hdr)
    <3>1. \E due : HoldsAt(s, due)
      BY Stages DEF MetaInv
    <3> QED BY <2>1, <3>1 DEF HoldsAt, Holds, Valid, Empty
  <2>2. ASSUME NEW s \in MetaStage, NEW m, NEW h, NEW act, Tells(s, m, act, h)
        PROVE  /\ m.src_mac = h.src_mac /\ m.vlan_valid = (h.ethertype = VLAN)
               /\ s # "eth" => m.ethertype = EtherTypeOf(h)
               /\ s \in {"ip", "udp", "tcp", "match"}
                    => m.ipv4_valid = (EtherTypeOf(h) = IPV4)
               /\ s = "match" => /\ m.udp_valid = Carries(h, UDP)
                                 /\ m.tcp_valid = Carries(h, TCP)
                                 /\ m.class_id = ClassOf(h)
                                 /\ act = IF ClassOf(h) = 0 THEN "ttl_dec" ELSE "nop"
                                 /\ ~m.drop
    <3>1. Carries(h, UDP) \in BOOLEAN /\ Carries(h, TCP) \in BOOLEAN
      BY DEF Carries
    <3> QED BY <2>2, <3>1 DEF Tells, Describes, RuleAction
  <2> QED BY <2>1, <2>2 DEF MetaDescribesBeat
<1> QED BY <1>1, <1>2, L4Step, TypeInductive, MetaInductive, PTL DEF Spec

-----------------------------------------------------------------------------
(* Every packet is counted once: last beats are conserved from the source to  *)
(* the counter, one register at a time.                                       *)
One(p) == IF p # Bubble /\ p.last THEN 1 ELSE 0

Ahead == One(pipe["eth"]) + One(pipe["vlan"]) + One(pipe["ip"])
         + One(pipe["udp"]) + One(pipe["match"]) + One(pipe["mod"])

LEMMA AddToCount ==
  ASSUME NEW S, IsFiniteSet(S), NEW t, t \notin S, NEW test \in BOOLEAN
  PROVE  LET T == S \cup (IF test THEN {t} ELSE {})
         IN  IsFiniteSet(T) /\ Cardinality(T) = Cardinality(S) + (IF test THEN 1 ELSE 0)
<1>1. CASE test
  BY <1>1, FS_AddElement
<1>2. CASE ~test
  <2>1. S \cup (IF test THEN {t} ELSE {}) = S
    BY <1>2
  <2>2. Cardinality(S) \in Nat
    BY FS_CardinalityType
  <2> QED BY <1>2, <2>1, <2>2
<1> QED BY <1>1, <1>2

LEMMA AheadIs ==
  Cardinality({s \in {"eth", "vlan", "ip", "udp", "match", "mod"} :
                 Valid(s) /\ pipe[s].last}) = Ahead
<1> DEFINE P(s) == Valid(s) /\ pipe[s].last
           Opt(s) == IF P(s) THEN {s} ELSE {}
           S1 == {} \cup Opt("eth")
           S2 == S1 \cup Opt("vlan")
           S3 == S2 \cup Opt("ip")
           S4 == S3 \cup Opt("udp")
           S5 == S4 \cup Opt("match")
           S6 == S5 \cup Opt("mod")
<1>0. /\ \A s : P(s) \in BOOLEAN
      /\ \A s : One(pipe[s]) = IF P(s) THEN 1 ELSE 0
  BY DEF One, Valid, Empty
<1>1. /\ S1 \subseteq {"eth"} /\ S2 \subseteq {"eth", "vlan"}
      /\ S3 \subseteq {"eth", "vlan", "ip"} /\ S4 \subseteq {"eth", "vlan", "ip", "udp"}
      /\ S5 \subseteq {"eth", "vlan", "ip", "udp", "match"}
  <2> HIDE DEF P
  <2> QED OBVIOUS
<1>2. {s \in {"eth", "vlan", "ip", "udp", "match", "mod"} : P(s)} = S6
  <2> HIDE DEF P
  <2> QED OBVIOUS
<1> HIDE DEF P
<1>3. IsFiniteSet(S1) /\ Cardinality(S1) = One(pipe["eth"])
  BY <1>0, AddToCount, FS_EmptySet
<1>4. IsFiniteSet(S2) /\ Cardinality(S2) = Cardinality(S1) + One(pipe["vlan"])
  <2> HIDE DEF S1
  <2> QED BY <1>0, <1>1, <1>3, AddToCount
<1>5. IsFiniteSet(S3) /\ Cardinality(S3) = Cardinality(S2) + One(pipe["ip"])
  <2> HIDE DEF S2
  <2> QED BY <1>0, <1>1, <1>4, AddToCount
<1>6. IsFiniteSet(S4) /\ Cardinality(S4) = Cardinality(S3) + One(pipe["udp"])
  <2> HIDE DEF S3
  <2> QED BY <1>0, <1>1, <1>5, AddToCount
<1>7. IsFiniteSet(S5) /\ Cardinality(S5) = Cardinality(S4) + One(pipe["match"])
  <2> HIDE DEF S4
  <2> QED BY <1>0, <1>1, <1>6, AddToCount
<1>8. IsFiniteSet(S6) /\ Cardinality(S6) = Cardinality(S5) + One(pipe["mod"])
  <2> HIDE DEF S5
  <2> QED BY <1>0, <1>1, <1>7, AddToCount
<1>9. Cardinality(S6) = Ahead
  <2> HIDE DEF S1, S2, S3, S4, S5, S6
  <2> QED BY <1>3, <1>4, <1>5, <1>6, <1>7, <1>8 DEF Ahead
<1> QED BY <1>2, <1>9 DEF P

CountInv == /\ source.ended - Ahead \in Nat
            /\ cnt.packets = IF source.ended - Ahead < CntMax
                             THEN source.ended - Ahead ELSE CntMax

(* A register passes on what it loses and gains what enters.                  *)
LEMMA OneStep ==
  ASSUME NEW p, NEW p2, NEW x, NEW r \in BOOLEAN, NEW next \in BOOLEAN,
         r <=> next \/ p = Bubble, p2 = IF r THEN x ELSE p
  PROVE  One(p2) = One(p) + (IF r THEN One(x) ELSE 0) - (IF next THEN One(p) ELSE 0)
<1>1. One(p) \in 0 .. 1 /\ One(x) \in 0 .. 1 /\ One(Bubble) = 0
  BY DEF One
<1>2. CASE next
  BY <1>1, <1>2
<1>3. CASE ~next /\ p = Bubble
  BY <1>1, <1>3
<1>4. CASE ~next /\ p # Bubble
  BY <1>1, <1>4
<1> QED BY <1>2, <1>3, <1>4

LEMMA CountEdge ==
  ASSUME TypeInv, L4Lockstep, CountInv,
         NEW b, NEW m_tready, Edge(b, m_tready), Clock(b, m_tready)
  PROVE  CountInv'
<1> DEFINE R(s) == Ready(s, m_tready)
<1>0. /\ R("eth") <=> R("vlan") \/ Empty("eth")
      /\ R("vlan") <=> R("ip") \/ Empty("vlan")
      /\ R("ip") <=> R("udp") \/ Empty("ip")
      /\ R("udp") <=> R("match") \/ Empty("udp")
      /\ R("match") <=> R("mod") \/ Empty("match")
      /\ R("mod") <=> R("stats") \/ Empty("mod")
      /\ \A s : R(s) \in BOOLEAN
  <2>1. m_tready \in BOOLEAN /\ \A s : R(s) \in BOOLEAN
    BY DEF Edge, Ready
  <2>2. R("mod") <=> R("stats") \/ Empty("mod")
    BY DEF Ready, r_mod
  <2> QED BY <2>1, <2>2, ReadyChain
<1>1. One(pipe'["eth"]) = One(pipe["eth"]) + (IF R("eth") THEN One(b) ELSE 0)
                       - (IF R("vlan") THEN One(pipe["eth"]) ELSE 0)
  <2>1. pipe'["eth"] = IF R("eth") THEN b ELSE pipe["eth"]
    BY PipeStep, Inputs, Stages
  <2>2. R("eth") <=> R("vlan") \/ pipe["eth"] = Bubble
    BY <1>0 DEF Empty
  <2> HIDE DEF R
  <2> QED BY <1>0, <2>1, <2>2, OneStep
<1>2. One(pipe'["vlan"]) = One(pipe["vlan"]) + (IF R("vlan") THEN One(pipe["eth"]) ELSE 0)
                       - (IF R("ip") THEN One(pipe["vlan"]) ELSE 0)
  <2>1. pipe'["vlan"] = IF R("vlan") THEN pipe["eth"] ELSE pipe["vlan"]
    BY PipeStep, Inputs, Stages
  <2>2. R("vlan") <=> R("ip") \/ pipe["vlan"] = Bubble
    BY <1>0 DEF Empty
  <2> HIDE DEF R
  <2> QED BY <1>0, <2>1, <2>2, OneStep
<1>3. One(pipe'["ip"]) = One(pipe["ip"]) + (IF R("ip") THEN One(pipe["vlan"]) ELSE 0)
                       - (IF R("udp") THEN One(pipe["ip"]) ELSE 0)
  <2>1. pipe'["ip"] = IF R("ip") THEN pipe["vlan"] ELSE pipe["ip"]
    BY PipeStep, Inputs, Stages
  <2>2. R("ip") <=> R("udp") \/ pipe["ip"] = Bubble
    BY <1>0 DEF Empty
  <2> HIDE DEF R
  <2> QED BY <1>0, <2>1, <2>2, OneStep
<1>4. One(pipe'["udp"]) = One(pipe["udp"]) + (IF R("udp") THEN One(pipe["ip"]) ELSE 0)
                       - (IF R("match") THEN One(pipe["udp"]) ELSE 0)
  <2>1. pipe'["udp"] = IF R("udp") THEN pipe["ip"] ELSE pipe["udp"]
    BY PipeStep, Inputs, Stages
  <2>2. R("udp") <=> R("match") \/ pipe["udp"] = Bubble
    BY <1>0 DEF Empty
  <2> HIDE DEF R
  <2> QED BY <1>0, <2>1, <2>2, OneStep
<1>5. d_l4 = pipe["udp"] /\ One(ModBeat) = One(pipe["match"])
  <2>1. d_l4 = pipe["udp"]
    BY DEF L4Lockstep, d_l4
  <2>2. pipe["match"] \in BeatType \cup {Bubble}
    BY Stages DEF TypeInv
  <2>3. /\ ModBeat = Bubble <=> Empty("match")
        /\ Valid("match") => ModBeat.last = pipe["match"].last
    BY <2>2, Modifies
  <2> QED BY <2>1, <2>3 DEF One, Valid, Empty
<1>6. One(pipe'["match"]) = One(pipe["match"]) + (IF R("match") THEN One(pipe["udp"]) ELSE 0)
                       - (IF R("mod") THEN One(pipe["match"]) ELSE 0)
  <2>1. pipe'["match"] = IF R("match") THEN pipe["udp"] ELSE pipe["match"]
    BY <1>5, PipeStep, Inputs, Stages
  <2>2. R("match") <=> R("mod") \/ pipe["match"] = Bubble
    BY <1>0 DEF Empty
  <2> HIDE DEF R
  <2> QED BY <1>0, <2>1, <2>2, OneStep
<1>7. One(pipe'["mod"]) = One(pipe["mod"]) + (IF R("mod") THEN One(pipe["match"]) ELSE 0)
                       - (IF R("stats") THEN One(pipe["mod"]) ELSE 0)
  <2>1. pipe'["mod"] = IF R("mod") THEN ModBeat ELSE pipe["mod"]
    BY PipeStep, Inputs, Stages
  <2>2. R("mod") <=> R("stats") \/ pipe["mod"] = Bubble
    BY <1>0 DEF Empty
  <2> HIDE DEF R
  <2> QED BY <1>0, <1>5, <2>1, <2>2, OneStep
<1>8. /\ source'.ended = source.ended + (IF R("eth") THEN One(b) ELSE 0)
      /\ source.ended \in Nat
  <2>1. SourceOK(source) /\ source.ended \in Nat
    BY DEF TypeInv, SourceOK
  <2>2. Fires("eth", b, m_tready) <=> b # Bubble /\ R("eth")
    BY SourceMoves
  <2>3. CASE Fires("eth", b, m_tready)
    <3>1. source' = Accepted(b)
      BY <2>3, SourceMoves
    <3>2. source'.ended = IF b.last THEN source.ended + 1 ELSE source.ended
      BY <3>1 DEF Accepted
    <3> QED BY <2>1, <2>2, <2>3, <3>2 DEF One
  <2>4. CASE ~Fires("eth", b, m_tready)
    <3>1. source' = source
      BY <2>4, SourceMoves
    <3> QED BY <2>1, <2>2, <2>4, <3>1 DEF One
  <2> QED BY <2>3, <2>4
<1>9. cnt'.packets = IF R("stats") /\ One(pipe["mod"]) = 1
                     THEN sat_inc(cnt.packets) ELSE cnt.packets
  <2>1. Counts(m_tready) <=> R("stats") /\ One(pipe["mod"]) = 1
    BY DEF Counts, Ready, One, Valid, Empty
  <2>2. cnt' = IF Counts(m_tready) THEN CntNext ELSE cnt
    BY DEF Clock
  <2>3. CntNext.packets = sat_inc(cnt.packets)
    BY DEF CntNext
  <2> QED BY <2>1, <2>2, <2>3
<1> HIDE DEF R
<1>10. \A p : One(p) \in 0 .. 1
  BY DEF One
<1>11. source'.ended - Ahead' = source.ended - Ahead
                                + (IF R("stats") THEN One(pipe["mod"]) ELSE 0)
  BY <1>1, <1>2, <1>3, <1>4, <1>6, <1>7, <1>8, <1>10 DEF Ahead
<1>12. Ahead \in Int /\ Ahead' \in Int /\ CntMax \in Nat
  BY <1>10, Constants DEF Ahead
<1> DEFINE c == source.ended - Ahead
           c2 == source'.ended - Ahead'
<1>13. c \in Nat /\ cnt.packets = IF c < CntMax THEN c ELSE CntMax
  BY DEF CountInv
<1>14. c2 \in Nat /\ cnt'.packets = IF c2 < CntMax THEN c2 ELSE CntMax
  <2> HIDE DEF c, c2
  <2>1. c2 = c + (IF R("stats") THEN One(pipe["mod"]) ELSE 0)
    BY <1>11 DEF c, c2
  <2>2. CASE R("stats") /\ One(pipe["mod"]) = 1
    BY <1>9, <1>12, <1>13, <2>1, <2>2 DEF sat_inc
  <2>3. CASE ~(R("stats") /\ One(pipe["mod"]) = 1)
    <3>1. c2 = c
      BY <1>10, <1>13, <2>1, <2>3
    <3> QED BY <1>9, <1>13, <2>3, <3>1
  <2> QED BY <2>2, <2>3
<1> QED BY <1>14 DEF CountInv

LEMMA CountInductive == TypeInv /\ L4Lockstep /\ CountInv /\ [Next]_vars => CountInv'
<1> SUFFICES ASSUME TypeInv, L4Lockstep, CountInv, [Next]_vars PROVE CountInv'
  OBVIOUS
<1>1. ASSUME NEW m_tready \in BOOLEAN, NEW b \in NextBeats \cup {Bubble},
             Clock(b, m_tready)
      PROVE  CountInv'
  BY <1>1, CountEdge DEF Edge
<1>2. CASE Reset
  <2>1. source'.ended = 0
    BY <1>2 DEF Reset, TypeInv, SourceOK
  <2>2. Ahead' = 0
    BY <1>2, Stages DEF Reset, Ahead, One
  <2>3. cnt'.packets = 0
    BY <1>2 DEF Reset, ZeroCnt
  <2> QED BY <2>1, <2>2, <2>3, Constants DEF CountInv
<1>3. CASE UNCHANGED vars
  BY <1>3 DEF vars, CountInv, Ahead
<1> QED BY <1>1, <1>2, <1>3 DEF Next

(* Every packet is counted exactly once, on its last beat, whatever the       *)
(* stalls and resets, until the counter stops at its largest value.           *)
THEOREM CountedOnce == Spec => []PacketsCounted
<1>1. Init => CountInv /\ L4Lockstep /\ TypeInv
  <2> SUFFICES ASSUME Init PROVE CountInv /\ L4Lockstep /\ TypeInv
    OBVIOUS
  <2>1. /\ \A s \in Stage : pipe[s] = Bubble
        /\ \A s \in MetaStage : first_beat[s] = TRUE
        /\ source.ended = 0 /\ cnt.packets = 0
    BY DEF Init, ZeroCnt
  <2>2. L4Lockstep
    BY <2>1, Stages DEF L4Lockstep
  <2>3. Ahead = 0
    BY <2>1, Stages DEF Ahead, One
  <2> QED BY <2>1, <2>2, <2>3, TypeInit, Constants DEF CountInv
<1>2. CountInv => PacketsCounted
  BY AheadIs DEF CountInv, PacketsCounted
<1> QED BY <1>1, <1>2, L4Step, TypeInductive, CountInductive, PTL DEF Spec

-----------------------------------------------------------------------------
(* What becomes of a packet's length.                                         *)

(* While a packet is under way no stage knows its length, and the parser's    *)
(* counter is at the beats taken of it; a beat of a longer packet was loaded  *)
(* under way, or began one.  The counter is where the last beat taken left    *)
(* it, whether that is still in the parser or already behind it.              *)
Long(p) == p.idx > 1 \/ ~p.last
LengthAt(p, m) == IF Long(p) THEN p.idx ELSE m.pkt_length
LengthInv ==
  /\ ~Idle => pkt_len = source.idx
  /\ \A s \in MetaStage : ~first_beat[s] => meta[s].pkt_length = 0
  /\ Valid("eth") => pkt_len = LengthAt(pipe["eth"], meta["eth"])
  /\ Empty("eth") /\ Valid("vlan") => pkt_len = LengthAt(pipe["vlan"], meta["vlan"])
  /\ LengthStaysInEth

LEMMA LengthKept ==
  ASSUME NEW m, NEW h, DOMAIN m = Field
  PROVE  /\ VlanParse(m, h).pkt_length = m.pkt_length
         /\ IpParse(m, h).pkt_length = m.pkt_length
         /\ UdpParse(m, h).pkt_length = m.pkt_length
         /\ TcpParse(m, h).pkt_length = m.pkt_length
         /\ MatchTable(m).pkt_length = m.pkt_length
         /\ EthParse(h).pkt_length = 0
BY DEF VlanParse, IpParse, UdpParse, TcpParse, MatchTable, EthParse, ZeroMeta, Field

(* Where a stage's input comes from.                                          *)
Up == [vlan |-> "eth", ip |-> "vlan", udp |-> "ip", tcp |-> "ip", match |-> "udp"]

(* A stage behind the first loads, from a beat under way, a length of 0.      *)
LEMMA LengthLoaded ==
  ASSUME L4Lockstep, MetaInv, LengthInv, NEW b, NEW s \in MetaStage \ {"eth"},
         In(b)[s] # Bubble
  PROVE  /\ In(b)[s] = pipe[Up[s]]
         /\ first_beat[s] <=> In(b)[s].idx = 1
         /\ ~In(b)[s].last => Parsed(s, b).pkt_length = 0
<1>1. d_l4 = pipe["udp"] /\ pipe["tcp"] = pipe["udp"]
  BY L4AsOne DEF MetaInv
<1>2. In(b)[s] = pipe[Up[s]] /\ Up[s] \in MetaStage
  BY <1>1, Inputs, Stages DEF Up
<1>3. ASSUME NEW u \in MetaStage, pipe[u] # Bubble
      PROVE  /\ ~pipe[u].last => meta[u].pkt_length = 0
             /\ DOMAIN meta[u] = Field
  <2>1. \E due : HoldsAt(u, due)
    BY Stages DEF MetaInv
  <2>2. (first_beat[u] <=> pipe[u].last) /\ \E h : Describes(u, meta[u], h)
    BY <1>3, <2>1 DEF HoldsAt, Holds, Tells
  <2> QED BY <2>2 DEF LengthInv, Describes
<1>4. first_beat[s] <=> In(b)[s].idx = 1
  <2> DEFINE x == pipe[Up[s]]
  <2>1. \A due : After(x, due).start <=> x.idx = 1
    BY <1>2, AfterIs
  <2>2. \E due : HoldsAt(s, After(x, due))
    BY <1>1, Stages DEF MetaInv, DueVlan, DueIp, DueL4, DueMatch, Up
  <2> HIDE DEF x
  <2>3. first_beat[s] <=> x.idx = 1
    BY <2>1, <2>2 DEF HoldsAt, Holds
  <2> QED BY <1>2, <2>3 DEF x
<1>5. ASSUME ~In(b)[s].last PROVE Parsed(s, b).pkt_length = 0
  <2> DEFINE h == In(b)[s].hdr
  <2>1. CASE s = "vlan"
    <3>1. Parsed(s, b) = VlanParse(meta["eth"], h)
      BY <2>1 DEF Parsed
    <3>2. meta["eth"].pkt_length = 0 /\ DOMAIN meta["eth"] = Field
      BY <1>2, <1>3, <1>5, <2>1 DEF Up
    <3> QED BY <3>1, <3>2, LengthKept
  <2>2. CASE s = "ip"
    <3>1. Parsed(s, b) = IpParse(meta["vlan"], h)
      BY <2>2 DEF Parsed
    <3>2. meta["vlan"].pkt_length = 0 /\ DOMAIN meta["vlan"] = Field
      BY <1>2, <1>3, <1>5, <2>2 DEF Up
    <3> QED BY <3>1, <3>2, LengthKept
  <2>3. CASE s = "udp"
    <3>1. Parsed(s, b) = UdpParse(meta["ip"], h)
      BY <2>3 DEF Parsed
    <3>2. meta["ip"].pkt_length = 0 /\ DOMAIN meta["ip"] = Field
      BY <1>2, <1>3, <1>5, <2>3 DEF Up
    <3> QED BY <3>1, <3>2, LengthKept
  <2>4. CASE s = "tcp"
    <3>1. Parsed(s, b) = TcpParse(meta["ip"], h)
      BY <2>4 DEF Parsed
    <3>2. meta["ip"].pkt_length = 0 /\ DOMAIN meta["ip"] = Field
      BY <1>2, <1>3, <1>5, <2>4 DEF Up
    <3> QED BY <3>1, <3>2, LengthKept
  <2>5. CASE s = "match"
    <3>1. Parsed(s, b) = MatchTable(m_l4)
      BY <2>5 DEF Parsed
    <3>2. /\ meta["udp"].pkt_length = 0 /\ DOMAIN meta["udp"] = Field
          /\ meta["tcp"].pkt_length = 0 /\ DOMAIN meta["tcp"] = Field
      BY <1>1, <1>2, <1>3, <1>5, <2>5, Stages DEF Up
    <3>3. m_l4.pkt_length = 0 /\ DOMAIN m_l4 = Field
      BY <3>2 DEF m_l4
    <3> QED BY <3>1, <3>3, LengthKept
  <2> QED BY <2>1, <2>2, <2>3, <2>4, <2>5, Stages
<1> QED BY <1>2, <1>4, <1>5

(* On an edge on which the Ethernet register does not keep its beat, what is  *)
(* in the VLAN register behind it afterwards accounts for the counter.        *)
LEMMA LengthBehind ==
  ASSUME TypeInv, L4Lockstep, MetaInv, LengthInv,
         NEW b, NEW m_tready, Edge(b, m_tready), Clock(b, m_tready),
         Fires("eth", b, m_tready) \/ pipe'["eth"] = Bubble, pipe'["vlan"] # Bubble
  PROVE  pkt_len = LengthAt(pipe'["vlan"], meta'["vlan"])
<1>1. /\ "vlan" \in MetaStage \ {"eth"} /\ "vlan" \in Stage /\ "eth" \in Stage
      /\ In(b)["vlan"] = pipe["eth"] /\ m_tready \in BOOLEAN
  BY Stages, Inputs DEF Edge
<1>2. /\ pipe'["vlan"] = IF Ready("vlan", m_tready) THEN pipe["eth"] ELSE pipe["vlan"]
      /\ pipe'["eth"] = IF Ready("eth", m_tready) THEN In(b)["eth"] ELSE pipe["eth"]
      /\ Ready("eth", m_tready) <=> Ready("vlan", m_tready) \/ Empty("eth")
      /\ meta'["vlan"] = IF Fires("vlan", b, m_tready) /\ first_beat["vlan"]
                         THEN Parsed("vlan", b) ELSE meta["vlan"]
  BY <1>1, PipeStep, ReadyChain, MetaEdge
<1>3. CASE Ready("vlan", m_tready)
  <2>1. /\ pipe'["vlan"] = pipe["eth"] /\ Valid("eth") /\ In(b)["vlan"] # Bubble
        /\ Fires("vlan", b, m_tready)
    BY <1>1, <1>2, <1>3 DEF Fires, Valid, Empty
  <2>2. pkt_len = LengthAt(pipe["eth"], meta["eth"])
    BY <2>1 DEF LengthInv
  <2>3. CASE Long(pipe["eth"])
    BY <2>1, <2>2, <2>3 DEF LengthAt
  <2>4. CASE ~Long(pipe["eth"])
    <3>1. pipe["eth"] \in BeatType
      BY <1>1, <2>1 DEF TypeInv, Valid, Empty
    <3>2. pipe["eth"].idx = 1
      <4>1. pipe["eth"].idx \in 1 .. MaxBeats
        BY <3>1 DEF BeatType
      <4> QED BY <2>4, <4>1, Constants DEF Long
    <3>3. first_beat["vlan"]
      BY <1>1, <2>1, <3>2, LengthLoaded
    <3>4. meta'["vlan"] = VlanParse(meta["eth"], pipe["eth"].hdr)
      BY <1>1, <1>2, <2>1, <3>3 DEF Parsed
    <3>5. DOMAIN meta["eth"] = Field
      BY <2>1 DEF MetaInv, HoldsAt, Holds, Tells, Describes, Valid, Empty
    <3>6. meta'["vlan"].pkt_length = meta["eth"].pkt_length
      BY <3>4, <3>5, LengthKept
    <3> QED BY <2>1, <2>2, <2>4, <3>6 DEF LengthAt
  <2> QED BY <2>3, <2>4
<1>4. CASE ~Ready("vlan", m_tready)
  <2>1. /\ pipe'["vlan"] = pipe["vlan"] /\ Valid("vlan") /\ meta'["vlan"] = meta["vlan"]
    BY <1>2, <1>4 DEF Fires, Valid, Empty
  <2>2. Empty("eth")
    BY <1>2, <1>4 DEF Fires, Empty
  <2> QED BY <2>1, <2>2 DEF LengthInv
<1> QED BY <1>3, <1>4

(* A packet is begun behind the last beat of the one before.                  *)
LEMMA LastBehind ==
  ASSUME TypeInv, L4Lockstep, MetaInv, NEW b, NEW m_tready, Edge(b, m_tready),
         Clock(b, m_tready), Fires("eth", b, m_tready), Idle, pipe'["vlan"] # Bubble
  PROVE  pipe'["vlan"].last
<1>1. /\ pipe'["vlan"] = IF Ready("vlan", m_tready) THEN pipe["eth"] ELSE pipe["vlan"]
      /\ Ready("eth", m_tready) <=> Ready("vlan", m_tready) \/ Empty("eth")
      /\ Ready("eth", m_tready)
  BY Stages, Inputs, PipeStep, ReadyChain DEF Edge, Fires
<1>2. Valid("eth") => pipe["eth"].last
  BY DEF MetaInv, HoldsAt, Holds, Source, Valid, Empty
<1>3. Empty("eth") /\ Valid("vlan") => pipe["vlan"].last
  BY DEF MetaInv, HoldsAt, Holds, DueVlan, After, Source, Valid, Empty
<1> QED BY <1>1, <1>2, <1>3 DEF Valid, Empty

(* A beat that stays in the Ethernet register is held up by the VLAN register.*)
LEMMA HeldUp ==
  ASSUME TypeInv, L4Lockstep, NEW b, NEW m_tready, Edge(b, m_tready),
         Clock(b, m_tready), ~Fires("eth", b, m_tready), pipe'["eth"] # Bubble
  PROVE  /\ pipe'["eth"] = pipe["eth"]
         /\ pipe'["vlan"] = pipe["vlan"] /\ meta'["vlan"] = meta["vlan"]
<1>1. ~Ready("eth", m_tready)
  BY Stages, Inputs, PipeStep DEF Fires
<1>2. ~Ready("vlan", m_tready)
  BY <1>1, ReadyChain DEF Edge
<1>3. meta'["vlan"] = meta["vlan"]
  BY <1>2, MetaEdge, Stages DEF Fires
<1> QED BY <1>1, <1>2, <1>3, PipeStep, Stages

LEMMA LengthEdge ==
  ASSUME TypeInv, L4Lockstep, MetaInv, LengthInv,
         NEW b, NEW m_tready, Edge(b, m_tready), Clock(b, m_tready)
  PROVE  LengthInv'
<1> DEFINE F(s) == Fires(s, b, m_tready)
<1>1. ASSUME NEW s \in MetaStage
      PROVE  /\ first_beat'[s] = IF F(s) THEN In(b)[s].last ELSE first_beat[s]
             /\ (pipe'[s] = In(b)[s] /\ F(s)) \/ pipe'[s] = Bubble \/ pipe'[s] = pipe[s]
             /\ F(s) => pipe'[s] = In(b)[s] /\ In(b)[s] # Bubble
             /\ ~F(s) => pipe'[s] = Bubble \/ pipe'[s] = pipe[s]
  BY PipeStep, Stages DEF Clock, FirstBeatNext, Fires
<1>2. ASSUME NEW s \in MetaStage \ {"eth"}
      PROVE  /\ ~first_beat'[s] => meta'[s].pkt_length = 0
             /\ pipe'[s] # Bubble /\ Long(pipe'[s]) => meta'[s].pkt_length = 0
  <2>0. /\ meta'[s] = IF F(s) /\ first_beat[s] THEN Parsed(s, b) ELSE meta[s]
        /\ ~first_beat[s] => meta[s].pkt_length = 0
        /\ pipe[s] # Bubble /\ Long(pipe[s]) => meta[s].pkt_length = 0
    BY MetaEdge DEF LengthInv, LengthStaysInEth, Long, Valid, Empty
  <2>1. CASE ~F(s)
    BY <1>1, <2>0, <2>1
  <2>2. CASE F(s) /\ ~first_beat[s]
    BY <2>0, <2>2
  <2>3. CASE F(s) /\ first_beat[s]
    <3>1. In(b)[s] # Bubble
      BY <1>1, <2>3
    <3>2. In(b)[s].idx = 1 /\ (~In(b)[s].last => Parsed(s, b).pkt_length = 0)
      BY <2>3, <3>1, LengthLoaded
    <3> QED BY <1>1, <2>0, <2>3, <3>2 DEF Long
  <2> QED BY <2>1, <2>2, <2>3
<1>3. /\ ~Idle' => pkt_len' = source'.idx
      /\ ~first_beat'["eth"] => meta'["eth"].pkt_length = 0
      /\ pipe'["eth"] # Bubble /\ pipe'["eth"].last /\ pipe'["eth"].idx > 1
           => meta'["eth"].pkt_length = pipe'["eth"].idx
      /\ pipe'["eth"] # Bubble => pkt_len' = LengthAt(pipe'["eth"], meta'["eth"])
      /\ F("eth") /\ b.last => meta'["eth"].pkt_length = pkt_len + 1
      /\ F("eth") => (b.idx = 1 => Idle)
      /\ ~F("eth") => source' = source /\ pkt_len' = pkt_len /\ meta'["eth"] = meta["eth"]
  <2>0. /\ first_beat["eth"] <=> Idle
        /\ In(b)["eth"] = b
        /\ ~Idle => pkt_len = source.idx
        /\ ~first_beat["eth"] => meta["eth"].pkt_length = 0
        /\ pipe["eth"] # Bubble /\ pipe["eth"].last /\ pipe["eth"].idx > 1
             => meta["eth"].pkt_length = pipe["eth"].idx
        /\ pipe["eth"] # Bubble => pkt_len = LengthAt(pipe["eth"], meta["eth"])
    BY Inputs, Stages DEF MetaInv, HoldsAt, Holds, Source, LengthInv, LengthStaysInEth, Valid, Empty
  <2>1. CASE ~F("eth")
    <3>1. source' = source /\ pkt_len' = pkt_len /\ meta'["eth"] = meta["eth"]
      BY <2>1, SourceMoves, Stages DEF Clock, PktLenNext, MetaNext, Loaded
    <3> QED BY <1>1, <2>0, <2>1, <3>1, Stages DEF Idle
  <2>2. CASE F("eth")
    <3>1. /\ b.idx = source.idx + 1 /\ b.last \in BOOLEAN /\ source.idx \in Nat
          /\ source' = Accepted(b)
      <4>1. b \in NextBeats /\ source' = Accepted(b) /\ SourceOK(source)
        BY <2>2, SourceMoves DEF TypeInv
      <4>2. /\ b = [n |-> source.sent + 1, hdr |-> b.hdr, idx |-> source.idx + 1,
                     last |-> b.last, ip |-> b.hdr.ip]
            /\ b.last \in BOOLEAN
        BY <4>1, OfferedBeat
      <4>3. b.idx = source.idx + 1
        BY <4>2
      <4> QED BY <4>1, <4>2, <4>3, Constants DEF SourceOK
    <3>2. /\ source'.idx = IF b.last THEN 0 ELSE b.idx
          /\ pkt_len' = IF Idle /\ ~b.last THEN 1 ELSE pkt_len + 1
      BY <2>0, <2>2, <3>1 DEF Clock, PktLenNext, Accepted
    <3>3. /\ pipe'["eth"] = b /\ first_beat'["eth"] = b.last
      BY <1>1, <2>0, <2>2, Stages
    <3>4. meta'["eth"] = IF b.last THEN [Loaded("eth", b, m_tready) EXCEPT !.pkt_length = pkt_len + 1]
                         ELSE Loaded("eth", b, m_tready)
      BY <2>2, Stages DEF Clock, MetaNext
    <3>5. DOMAIN Loaded("eth", b, m_tready) = Field
      <4>1. CASE Idle
        <5>1. Loaded("eth", b, m_tready) = EthParse(b.hdr)
          BY <2>0, <2>2, <4>1 DEF Loaded, Parsed
        <5> QED BY <5>1 DEF EthParse, ZeroMeta, Field
      <4>2. CASE ~Idle
        <5>1. Loaded("eth", b, m_tready) = meta["eth"]
          BY <2>0, <4>2 DEF Loaded
        <5>2. Describes("eth", meta["eth"], source.hdr)
          BY <4>2 DEF MetaInv, HoldsAt, Holds, Tells, Source
        <5> QED BY <5>1, <5>2 DEF Describes
      <4> QED BY <4>1, <4>2
    <3>6. Loaded("eth", b, m_tready).pkt_length = 0
      <4>1. CASE Idle
        <5>1. Loaded("eth", b, m_tready) = EthParse(b.hdr)
          BY <2>0, <2>2, <4>1 DEF Loaded, Parsed
        <5> QED BY <5>1 DEF EthParse, ZeroMeta
      <4>2. CASE ~Idle
        BY <2>0, <4>2 DEF Loaded
      <4> QED BY <4>1, <4>2
    <3>7. b.last => meta'["eth"].pkt_length = pkt_len + 1
      BY <3>4, <3>5 DEF Field
    <3>8. b.last /\ b.idx > 1 => meta'["eth"].pkt_length = b.idx
      <4>1. b.idx > 1 => ~Idle
        BY <3>1 DEF Idle
      <4> QED BY <2>0, <3>1, <3>7, <4>1
    <3>9. ~Idle' => pkt_len' = source'.idx
      BY <2>0, <3>1, <3>2 DEF Idle
    <3>10. b.idx = 1 => Idle
      BY <3>1 DEF Idle
    <3>11. pkt_len' = LengthAt(b, meta'["eth"])
      <4>1. CASE b.idx > 1
        <5>1. pkt_len = source.idx /\ ~Idle
          BY <2>0, <3>1, <4>1 DEF Idle
        <5> QED BY <3>1, <3>2, <4>1, <5>1 DEF LengthAt, Long
      <4>2. CASE b.idx = 1
        BY <3>1, <3>2, <3>7, <3>10, <4>2 DEF LengthAt, Long
      <4> QED BY <3>1, <4>1, <4>2
    <3> QED BY <2>2, <3>3, <3>4, <3>6, <3>7, <3>8, <3>9, <3>10, <3>11
  <2> QED BY <2>1, <2>2
<1>4. \A s \in MetaStage : ~first_beat'[s] => meta'[s].pkt_length = 0
  BY <1>2, <1>3
<1>5. pipe'["eth"] = Bubble /\ pipe'["vlan"] # Bubble
        => pkt_len' = LengthAt(pipe'["vlan"], meta'["vlan"])
  <2> SUFFICES ASSUME pipe'["eth"] = Bubble, pipe'["vlan"] # Bubble
               PROVE  pkt_len' = LengthAt(pipe'["vlan"], meta'["vlan"])
    OBVIOUS
  <2>1. ~F("eth")
    BY <1>1, Stages
  <2>2. pkt_len' = pkt_len
    BY <1>3, <2>1
  <2> QED BY <2>2, LengthBehind
<1>6. pipe'["eth"] # Bubble /\ pipe'["eth"].last /\ pipe'["eth"].idx = 1
        /\ pipe'["vlan"] # Bubble
        => meta'["eth"].pkt_length = LengthGiven("vlan")' + 1
  <2> SUFFICES ASSUME pipe'["eth"] # Bubble, pipe'["eth"].last, pipe'["eth"].idx = 1,
                      pipe'["vlan"] # Bubble
               PROVE  meta'["eth"].pkt_length = LengthGiven("vlan")' + 1
    OBVIOUS
  <2>1. CASE F("eth")
    <3>1. /\ pipe'["eth"] = b /\ Idle /\ b.idx = 1
          /\ meta'["eth"].pkt_length = pkt_len + 1
      BY <1>1, <1>3, <2>1, Inputs, Stages
    <3>2. pkt_len = LengthAt(pipe'["vlan"], meta'["vlan"])
      BY <2>1, LengthBehind
    <3>3. pipe'["vlan"].last
      BY <2>1, <3>1, LastBehind
    <3>4. LengthAt(pipe'["vlan"], meta'["vlan"]) = LengthGiven("vlan")'
      BY <3>3 DEF LengthAt, Long, LengthGiven
    <3> QED BY <3>1, <3>2, <3>4
  <2>2. CASE ~F("eth")
    <3>1. /\ pipe'["eth"] = pipe["eth"] /\ meta'["eth"] = meta["eth"]
          /\ pipe'["vlan"] = pipe["vlan"] /\ meta'["vlan"] = meta["vlan"]
      BY <1>3, <2>2, HeldUp
    <3>2. meta["eth"].pkt_length = LengthGiven("vlan") + 1
      BY <3>1 DEF LengthInv, LengthStaysInEth, Valid, Empty
    <3> QED BY <3>1, <3>2 DEF LengthGiven
  <2> QED BY <2>1, <2>2
<1>7. LengthStaysInEth'
  <2>1. \A s \in MetaStage \ {"eth"} :
          pipe'[s] # Bubble /\ Long(pipe'[s]) => meta'[s].pkt_length = 0
    BY <1>2
  <2> QED BY <1>3, <1>6, <2>1 DEF LengthStaysInEth, Long, Valid, Empty
<1> QED BY <1>3, <1>4, <1>5, <1>7 DEF LengthInv, Valid, Empty

LEMMA LengthInductive ==
  TypeInv /\ L4Lockstep /\ MetaInv /\ LengthInv /\ [Next]_vars => LengthInv'
<1> SUFFICES ASSUME TypeInv, L4Lockstep, MetaInv, LengthInv, [Next]_vars PROVE LengthInv'
  OBVIOUS
<1>1. ASSUME NEW m_tready \in BOOLEAN, NEW b \in NextBeats \cup {Bubble},
             Clock(b, m_tready)
      PROVE  LengthInv'
  BY <1>1, LengthEdge DEF Edge
<1>2. CASE Reset
  <2>1. Idle'
    BY <1>2 DEF Reset, Idle, TypeInv, SourceOK
  <2>2. \A s \in MetaStage : pipe'[s] = Bubble /\ first_beat'[s] = TRUE
    BY <1>2, Stages DEF Reset
  <2> QED BY <2>1, <2>2, Stages DEF LengthInv, LengthStaysInEth, Valid, Empty
<1>3. CASE UNCHANGED vars
  BY <1>3 DEF vars, LengthInv, LengthStaysInEth, LengthGiven, LengthAt, Idle, Valid, Empty
<1> QED BY <1>1, <1>2, <1>3 DEF Next

(* The length of a packet of several beats is right in the Ethernet parser on *)
(* the packet's last beat, and never reaches a stage behind it; one beat's is *)
(* added to the length of the packet before it.                               *)
THEOREM LengthNeverPassedOn == Spec => []LengthStaysInEth
<1>1. Init => TypeInv /\ L4Lockstep /\ MetaInv /\ LengthInv
  <2> SUFFICES ASSUME Init PROVE TypeInv /\ L4Lockstep /\ MetaInv /\ LengthInv
    OBVIOUS
  <2>1. /\ Idle
        /\ \A s \in Stage : pipe[s] = Bubble
        /\ \A s \in MetaStage : first_beat[s] = TRUE
    BY DEF Init, Idle
  <2>2. L4Lockstep
    BY <2>1, Stages DEF L4Lockstep
  <2>3. LengthInv
    BY <2>1, Stages DEF LengthInv, LengthStaysInEth, Valid, Empty
  <2> QED BY <2>1, <2>2, <2>3, MetaFromEmpty, TypeInit, Stages
<1>2. LengthInv => LengthStaysInEth
  BY DEF LengthInv
<1> QED BY <1>1, <1>2, L4Step, TypeInductive, MetaInductive, LengthInductive, PTL DEF Spec

-----------------------------------------------------------------------------
(* Beats keep their order: a stage nearer to the sink holds an older one.     *)
Rank == [eth |-> 1, vlan |-> 2, ip |-> 3, udp |-> 4,
         match |-> 5, mod |-> 6, stats |-> 7, flow |-> 8]
Prev == [vlan |-> "eth", ip |-> "vlan", udp |-> "ip", match |-> "udp",
         mod |-> "match", stats |-> "mod", flow |-> "stats"]

InOrder == \A s, t \in DOMAIN Rank :
             Rank[s] < Rank[t] /\ Valid(s) /\ Valid(t) => pipe[t].n < pipe[s].n

(* Where the beat in a register was before the edge.                          *)
LEMMA CameFrom ==
  ASSUME TypeInv, L4Lockstep, NEW b, NEW m_tready, Edge(b, m_tready),
         Clock(b, m_tready), NEW s \in DOMAIN Rank, s # "eth"
  PROVE  /\ Prev[s] \in DOMAIN Rank /\ Rank[Prev[s]] = Rank[s] - 1
         /\ Ready(s, m_tready) => Ready(Prev[s], m_tready)
         /\ Ready(s, m_tready) => (pipe'[s] = Bubble <=> Empty(Prev[s]))
         /\ Ready(s, m_tready) /\ Valid(Prev[s]) => pipe'[s].n = pipe[Prev[s]].n
         /\ ~Ready(s, m_tready) => pipe'[s] = pipe[s]
<1>1. /\ s \in {"vlan", "ip", "udp", "match", "mod", "stats", "flow"}
      /\ s \in Stage
  BY Stages DEF Rank
<1>2. Prev[s] \in DOMAIN Rank /\ Rank[Prev[s]] = Rank[s] - 1
  BY <1>1 DEF Prev, Rank
<1>3. Ready(s, m_tready) => Ready(Prev[s], m_tready)
  <2>1. m_tready \in BOOLEAN
    BY DEF Edge
  <2>2. /\ Ready("stats", m_tready) => Ready("mod", m_tready)
        /\ Ready("flow", m_tready) => Ready("stats", m_tready)
    BY DEF Ready, r_mod, r_stats
  <2> QED BY <1>1, <2>1, <2>2, ReadyChain DEF Prev
<1>4. pipe'[s] = IF Ready(s, m_tready) THEN In(b)[s] ELSE pipe[s]
  BY <1>1, PipeStep
<1>5. /\ In(b)[s] = Bubble <=> Empty(Prev[s])
      /\ Valid(Prev[s]) => In(b)[s].n = pipe[Prev[s]].n
  <2>1. CASE s = "mod"
    <3>1. pipe["match"] \in BeatType \cup {Bubble}
      BY Stages DEF TypeInv
    <3> QED BY <2>1, <3>1, Modifies, Inputs DEF Prev
  <2>2. CASE s # "mod"
    <3>1. d_l4 = pipe["udp"]
      BY DEF L4Lockstep, d_l4
    <3>2. In(b)[s] = pipe[Prev[s]]
      BY <1>1, <2>2, <3>1, Inputs DEF Prev
    <3> QED BY <3>2 DEF Empty
  <2> QED BY <2>1, <2>2
<1> QED BY <1>2, <1>3, <1>4, <1>5

LEMMA OrderEdge ==
  ASSUME TypeInv, L4Lockstep, InOrder,
         NEW b, NEW m_tready, Edge(b, m_tready), Clock(b, m_tready)
  PROVE  InOrder'
<1> SUFFICES ASSUME NEW s \in DOMAIN Rank, NEW t \in DOMAIN Rank, Rank[s] < Rank[t],
                    pipe'[s] # Bubble, pipe'[t] # Bubble
             PROVE  pipe'[t].n < pipe'[s].n
  BY DEF InOrder, Valid, Empty
<1>0. /\ \A u \in DOMAIN Rank : Rank[u] \in 1 .. 8 /\ u \in Stage
      /\ \A u, v \in DOMAIN Rank : Rank[u] = Rank[v] => u = v
      /\ \A u \in DOMAIN Rank : Rank[u] = 1 => u = "eth"
      /\ Rank["eth"] = 1
  BY Stages DEF Rank
<1>1. t # "eth"
  BY <1>0
<1>2. \A u \in DOMAIN Rank : pipe[u] # Bubble => pipe[u].n \in Nat /\ pipe[u].n <= source.sent
  BY <1>0 DEF TypeInv, Valid, Empty, BeatType
<1>3. source.sent \in Nat
  BY DEF TypeInv, SourceOK
(* What is now in s is newer than anything that was in a stage after s.       *)
<1>4. ASSUME NEW u \in DOMAIN Rank, pipe[u] # Bubble, Rank[s] < Rank[u]
      PROVE  pipe[u].n < pipe'[s].n
  <2>1. CASE s = "eth" /\ Ready(s, m_tready)
    <3>1. pipe'[s] = b
      BY <2>1, PipeStep, Inputs, Stages
    <3>2. b \in NextBeats /\ SourceOK(source)
      BY <3>1 DEF Edge, TypeInv
    <3>3. b.n = source.sent + 1
      <4>1. b = [n |-> source.sent + 1, hdr |-> b.hdr, idx |-> source.idx + 1,
                 last |-> b.last, ip |-> b.hdr.ip]
        BY <3>2, OfferedBeat
      <4> QED BY <4>1
    <3> QED BY <1>2, <1>3, <1>4, <3>1, <3>3
  <2>2. CASE ~Ready(s, m_tready)
    <3>1. pipe'[s] = pipe[s]
      BY <1>0, <2>2, PipeStep
    <3> QED BY <1>4, <3>1 DEF InOrder, Valid, Empty
  <2>3. CASE s # "eth" /\ Ready(s, m_tready)
    <3>1. /\ Prev[s] \in DOMAIN Rank /\ Rank[Prev[s]] = Rank[s] - 1
          /\ Valid(Prev[s]) /\ pipe'[s].n = pipe[Prev[s]].n
      BY <2>3, CameFrom DEF Valid
    <3>2. Rank[Prev[s]] < Rank[u]
      BY <1>0, <1>4, <3>1
    <3> QED BY <1>4, <3>1, <3>2 DEF InOrder, Valid, Empty
  <2> QED BY <2>1, <2>2, <2>3
<1>5. CASE ~Ready(t, m_tready)
  BY <1>1, <1>4, <1>5, CameFrom
<1>6. CASE Ready(t, m_tready)
  <2>1. /\ Prev[t] \in DOMAIN Rank /\ Rank[Prev[t]] = Rank[t] - 1
        /\ Valid(Prev[t]) /\ pipe'[t].n = pipe[Prev[t]].n
        /\ Ready(Prev[t], m_tready)
    BY <1>1, <1>6, CameFrom DEF Valid
  <2>2. CASE Rank[s] < Rank[Prev[t]]
    BY <1>4, <2>1, <2>2 DEF Valid, Empty
  <2>3. CASE s = Prev[t] /\ s # "eth"
    <3>1. /\ Prev[s] \in DOMAIN Rank /\ Rank[Prev[s]] = Rank[s] - 1
          /\ Valid(Prev[s]) /\ pipe'[s].n = pipe[Prev[s]].n
      BY <2>1, <2>3, CameFrom DEF Valid
    <3>2. Rank[Prev[s]] < Rank[s]
      BY <1>0, <3>1
    <3> QED BY <2>1, <2>3, <3>1, <3>2 DEF InOrder
  <2>4. CASE s = Prev[t] /\ s = "eth"
    <3>1. pipe'[s] = b
      BY <2>1, <2>4, PipeStep, Inputs, Stages
    <3>2. b \in NextBeats /\ SourceOK(source)
      BY <3>1 DEF Edge, TypeInv
    <3>3. b.n = source.sent + 1
      <4>1. b = [n |-> source.sent + 1, hdr |-> b.hdr, idx |-> source.idx + 1,
                 last |-> b.last, ip |-> b.hdr.ip]
        BY <3>2, OfferedBeat
      <4> QED BY <4>1
    <3> QED BY <1>2, <1>3, <2>1, <2>4, <3>1, <3>3 DEF Valid, Empty
  <2>5. Rank[s] < Rank[Prev[t]] \/ s = Prev[t]
    BY <1>0, <2>1
  <2> QED BY <2>2, <2>3, <2>4, <2>5
<1> QED BY <1>5, <1>6

LEMMA OrderInductive == TypeInv /\ L4Lockstep /\ InOrder /\ [Next]_vars => InOrder'
<1> SUFFICES ASSUME TypeInv, L4Lockstep, InOrder, [Next]_vars PROVE InOrder'
  OBVIOUS
<1>1. ASSUME NEW m_tready \in BOOLEAN, NEW b \in NextBeats \cup {Bubble},
             Clock(b, m_tready)
      PROVE  InOrder'
  BY <1>1, OrderEdge DEF Edge
<1>2. CASE Reset
  <2>1. \A s \in Stage : pipe'[s] = Bubble
    BY <1>2 DEF Reset
  <2>2. \A s \in DOMAIN Rank : s \in Stage
    BY Stages DEF Rank
  <2> QED BY <2>1, <2>2 DEF InOrder, Valid, Empty
<1>3. CASE UNCHANGED vars
  BY <1>3 DEF vars, InOrder, Valid, Empty
<1> QED BY <1>1, <1>2, <1>3 DEF Next

-----------------------------------------------------------------------------
(* The modifier's own first-beat detector agrees with the stream until a beat *)
(* has been refused.                                                          *)
DetectInv == /\ refused => Valid("match")
             /\ ~refused => (prev_tlast <=> DueMod.start)

LEMMA DetectEdge ==
  ASSUME TypeInv, L4Lockstep, MetaInv, DetectInv,
         NEW b, NEW m_tready, Edge(b, m_tready), Clock(b, m_tready)
  PROVE  DetectInv'
<1>1. Arrives(pipe["match"], Valid("match") /\ Ready("mod", m_tready), DueMod, DueMod')
  BY MetaStep
<1>2. /\ Ready("mod", m_tready) <=> r_mod(m_tready)
      /\ refused' <=> Valid("match") /\ ~r_mod(m_tready)
      /\ prev_tlast' = IF Valid("match") THEN pipe["match"].last ELSE prev_tlast
  BY DEF Ready, Clock, PrevTlastNext
<1>3. CASE Valid("match") /\ Ready("mod", m_tready)
  BY <1>1, <1>2, <1>3 DEF Arrives, DetectInv
<1>4. CASE Valid("match") /\ ~Ready("mod", m_tready)
  <2>1. ~Ready("match", m_tready)
    BY <1>4, ReadyChain DEF Edge, Valid
  <2>2. pipe'["match"] = pipe["match"]
    BY <2>1, PipeStep, Stages
  <2> QED BY <1>2, <1>4, <2>2 DEF DetectInv, Valid, Empty
<1>5. CASE ~Valid("match")
  BY <1>1, <1>2, <1>5 DEF Arrives, DetectInv
<1> QED BY <1>3, <1>4, <1>5

LEMMA DetectInductive ==
  TypeInv /\ L4Lockstep /\ MetaInv /\ DetectInv /\ [Next]_vars => DetectInv'
<1> SUFFICES ASSUME TypeInv, L4Lockstep, MetaInv, DetectInv, [Next]_vars PROVE DetectInv'
  OBVIOUS
<1>1. ASSUME NEW m_tready \in BOOLEAN, NEW b \in NextBeats \cup {Bubble},
             Clock(b, m_tready)
      PROVE  DetectInv'
  BY <1>1, DetectEdge DEF Edge
<1>2. CASE Reset
  <2>1. refused' = FALSE /\ prev_tlast' = TRUE
    BY <1>2, Zenon DEF Reset
  <2>2. source'.idx = 0
    BY <1>2 DEF Reset, TypeInv, SourceOK
  <2>3. /\ pipe'["eth"] = Bubble /\ pipe'["vlan"] = Bubble /\ pipe'["ip"] = Bubble
        /\ pipe'["udp"] = Bubble /\ pipe'["match"] = Bubble
    BY <1>2, Stages DEF Reset
  <2>4. DueMod' = Source' /\ Source'.start
    BY <2>2, <2>3 DEF DueMod, DueMatch, DueL4, DueIp, DueVlan, After, Source, Idle
  <2> QED BY <2>1, <2>4 DEF DetectInv
<1>3. CASE UNCHANGED vars
  BY <1>3 DEF vars, DetectInv, DueMod, DueMatch, DueL4, DueIp, DueVlan, Source, Idle,
              Valid, Empty
<1> QED BY <1>1, <1>2, <1>3 DEF Next

(* The arithmetic of MOD_TTL_DEC: the sum over the bytes is the same only if  *)
(* the low byte of the checksum is one more than the high byte.               *)
LEMMA SumReduced ==
  ASSUME NEW x \in Int, 0 <= x, x < 131070
  PROVE  x % 65535 = IF x < 65535 THEN x ELSE x - 65535
<1>1. CASE x < 65535
  BY <1>1
<1>2. CASE x >= 65535
  BY <1>2
<1> QED BY <1>1, <1>2

LEMMA SumKept ==
  ASSUME NEW t \in Int, NEW hi \in Int, NEW lo \in Int, 0 < t, t <= 255,
         0 <= hi, hi <= 255, 0 <= lo, lo <= 255
  PROVE  ((t - 1 + lo) * 256 + lo) % 65535 = ((t + hi) * 256 + lo) % 65535
           <=> lo = hi + 1
<1> DEFINE x == (t + hi) * 256 + lo
           y == (t - 1 + lo) * 256 + lo
<1>1. x \in Int /\ 0 <= x /\ x < 131070
  OBVIOUS
<1>2. y \in Int /\ 0 <= y /\ y < 131070
  OBVIOUS
<1>3. x - y = 256 * (hi + 1 - lo)
  OBVIOUS
<1>4. x = y <=> lo = hi + 1
  BY <1>3
<1>5. x - y # 65535 /\ y - x # 65535
  BY <1>3
<1> HIDE DEF x, y
<1>6. /\ x % 65535 = IF x < 65535 THEN x ELSE x - 65535
      /\ y % 65535 = IF y < 65535 THEN y ELSE y - 65535
  BY <1>1, <1>2, SumReduced
<1>7. x % 65535 = y % 65535 <=> x = y
  BY <1>1, <1>2, <1>5, <1>6
<1> QED BY <1>4, <1>7 DEF x, y

LEMMA TtlDec ==
  ASSUME NEW ip \in IpBytes
  PROVE  /\ ttl_dec(ip).ttl = IF ip.ttl = 0 THEN 255 ELSE ip.ttl - 1
         /\ ip.ttl > 0 => ( OnesSum(ttl_dec(ip)) = OnesSum(ip)
                            <=> ip.csum_lo = ip.csum_hi + 1 )
<1> DEFINE t == ip.ttl
           hi == ip.csum_hi
           lo == ip.csum_lo
<1>1. /\ t \in Int /\ hi \in Int /\ lo \in Int /\ 0 <= t /\ t <= 255
      /\ 0 <= hi /\ hi <= 255 /\ 0 <= lo /\ lo <= 255
  BY DEF IpBytes, Byte
<1>2. /\ ttl_dec(ip).ttl = (t + 255) % 256
      /\ ttl_dec(ip).csum_hi = lo /\ ttl_dec(ip).csum_lo = lo
  BY DEF ttl_dec, IpBytes
<1>3. /\ OnesSum(ip) = ((t + hi) * 256 + lo) % 65535
      /\ OnesSum(ttl_dec(ip)) = ((((t + 255) % 256) + lo) * 256 + lo) % 65535
  BY <1>2 DEF OnesSum
<1> HIDE DEF t, hi, lo
<1>4. t = 0 => (t + 255) % 256 = 255
  OBVIOUS
<1>5. t > 0 => (t + 255) % 256 = t - 1
  BY <1>1
<1>6. ttl_dec(ip).ttl = IF t = 0 THEN 255 ELSE t - 1
  BY <1>1, <1>2, <1>4, <1>5
<1>7. t > 0 => (OnesSum(ttl_dec(ip)) = OnesSum(ip) <=> lo = hi + 1)
  BY <1>1, <1>3, <1>5, SumKept
<1> QED BY <1>6, <1>7 DEF t, hi, lo

LEMMA ModifyStep ==
  ASSUME TypeInv, L4Lockstep, MetaInv, DetectInv, InOrder, Next, ModFires, ~refused
  PROVE  LET old == pipe["match"].ip
             new == pipe'["mod"].ip
         IN  IF ~Rewrites(pipe["match"]) THEN new = old
             ELSE /\ new.ttl = IF old.ttl = 0 THEN 255 ELSE old.ttl - 1
                  /\ old.ttl > 0 => ( OnesSum(new) = OnesSum(old)
                                      <=> old.csum_lo = old.csum_hi + 1 )
<1>1. ~Reset
  BY Stages DEF Reset, ModFires
<1>2. PICK m_tready \in BOOLEAN, b \in NextBeats \cup {Bubble} : Clock(b, m_tready)
  BY <1>1 DEF Next
<1>3. pipe'["mod"] = ModBeat
  <2>1. pipe'["mod"] = IF Ready("mod", m_tready) THEN ModBeat ELSE pipe["mod"]
    BY <1>2, PipeStep, Inputs, Stages
  <2>2. CASE ~Ready("mod", m_tready)
    <3>1. Valid("mod") /\ Valid("match") /\ pipe["mod"].n = pipe["match"].n
      BY <2>1, <2>2 DEF ModFires, Valid, Empty
    <3>2. pipe["mod"].n < pipe["match"].n
      BY <3>1 DEF InOrder, Rank
    <3>3. pipe["match"].n \in Nat
      BY <3>1, Stages DEF TypeInv, BeatType, Valid, Empty
    <3> QED BY <3>1, <3>2, <3>3
  <2> QED BY <2>1, <2>2
<1>4. /\ pipe["match"] \in BeatType /\ pipe["match"] # Bubble /\ pipe["match"].ip \in IpBytes
  BY Stages DEF ModFires, Valid, Empty, TypeInv, BeatType
<1>5. do_mod <=> pipe["match"].idx = 1
  <2>1. DueMod.start <=> pipe["match"].idx = 1
    BY <1>4, AfterIs DEF DueMod
  <2> QED BY <2>1 DEF DetectInv, do_mod, ModFires
<1>6. mod_act = RuleAction(pipe["match"].hdr)
  BY <1>4 DEF MetaInv, HoldsAt, Holds, Tells
<1>7. do_mod /\ mod_act = "ttl_dec" <=> Rewrites(pipe["match"])
  BY <1>5, <1>6 DEF RuleAction, Rewrites
<1>8. CASE Rewrites(pipe["match"])
  <2>1. pipe'["mod"] = [pipe["match"] EXCEPT !.ip = ttl_dec(pipe["match"].ip)]
    BY <1>3, <1>7, <1>8 DEF ModBeat
  <2>2. pipe'["mod"].ip = ttl_dec(pipe["match"].ip)
    BY <1>4, <2>1 DEF BeatType
  <2> QED BY <1>4, <1>8, <2>2, TtlDec
<1>9. CASE ~Rewrites(pipe["match"])
  <2>1. pipe'["mod"] = pipe["match"]
    BY <1>3, <1>7, <1>9 DEF ModBeat
  <2> QED BY <1>9, <2>1
<1> QED BY <1>8, <1>9

(* A beat the modifier takes on the first edge it is offered is rewritten if  *)
(* and only if it is its packet's first and only the catch-all rule matches;  *)
(* the TTL wraps below 0, and the header's sum survives in one case only.     *)
THEOREM UnrefusedModified == Spec => UnrefusedBeatsModified
<1>1. Init => TypeInv /\ L4Lockstep /\ MetaInv /\ DetectInv /\ InOrder
  <2> SUFFICES ASSUME Init PROVE TypeInv /\ L4Lockstep /\ MetaInv /\ DetectInv /\ InOrder
    OBVIOUS
  <2>1. /\ Idle /\ prev_tlast = TRUE /\ refused = FALSE
        /\ \A s \in Stage : pipe[s] = Bubble
        /\ \A s \in MetaStage : first_beat[s] = TRUE
    BY DEF Init, Idle
  <2>2. L4Lockstep
    BY <2>1, Stages DEF L4Lockstep
  <2>3. DueMod = Source /\ Source.start
    BY <2>1, Stages, AfterIs DEF DueMod, DueMatch, DueL4, DueIp, DueVlan, Source
  <2>4. InOrder
    <3>1. \A s \in DOMAIN Rank : s \in Stage
      BY Stages DEF Rank
    <3> QED BY <2>1, <3>1 DEF InOrder, Valid, Empty
  <2> QED BY <2>1, <2>2, <2>3, <2>4, MetaFromEmpty, TypeInit, Stages DEF DetectInv
<1>2. /\ TypeInv /\ L4Lockstep /\ MetaInv /\ DetectInv /\ InOrder /\ Next
      => (ModFires /\ ~refused =>
            LET old == pipe["match"].ip
                new == pipe'["mod"].ip
            IN  IF ~Rewrites(pipe["match"]) THEN new = old
                ELSE /\ new.ttl = IF old.ttl = 0 THEN 255 ELSE old.ttl - 1
                     /\ old.ttl > 0 => ( OnesSum(new) = OnesSum(old)
                                         <=> old.csum_lo = old.csum_hi + 1 ))
  BY ModifyStep
<1> QED BY <1>1, <1>2, L4Step, TypeInductive, MetaInductive, DetectInductive,
           OrderInductive, PTL DEF Spec, UnrefusedBeatsModified

-----------------------------------------------------------------------------
(* The match table's metadata is that of the newest beat it has passed on, as *)
(* long as it holds none itself.                                              *)
Mine(s) == meta["match"].src_mac = pipe[s].hdr.src_mac
LastPassed == Empty("match") => /\ Valid("mod") => Mine("mod")
                                /\ Empty("mod") /\ Valid("stats") => Mine("stats")

LEMMA MatchOwn == ASSUME MetaInv, Valid("match") PROVE Mine("match")
BY DEF MetaInv, HoldsAt, Holds, Tells, Describes, Valid, Empty, Mine

LEMMA PassedEdge ==
  ASSUME TypeInv, L4Lockstep, MetaInv, LastPassed,
         NEW b, NEW m_tready, Edge(b, m_tready), Clock(b, m_tready)
  PROVE  LastPassed'
<1> SUFFICES ASSUME pipe'["match"] = Bubble
             PROVE  /\ pipe'["mod"] # Bubble => Mine("mod")'
                    /\ pipe'["mod"] = Bubble /\ pipe'["stats"] # Bubble => Mine("stats")'
  BY DEF LastPassed, Valid, Empty
<1> DEFINE R(s) == Ready(s, m_tready)
<1>0. /\ R("match") <=> R("mod") \/ Empty("match")
      /\ R("mod") <=> R("stats") \/ Empty("mod")
  <2>1. R("mod") <=> R("stats") \/ Empty("mod")
    BY DEF Ready, r_mod
  <2> QED BY <2>1, ReadyChain DEF Edge
<1>1. meta'["match"] = meta["match"]
  <2>1. ~Fires("match", b, m_tready)
    BY PipeStep, Stages DEF Fires
  <2> QED BY <2>1, MetaEdge, Stages
<1>2. /\ pipe'["match"] = IF R("match") THEN In(b)["match"] ELSE pipe["match"]
      /\ pipe'["mod"] = IF R("mod") THEN ModBeat ELSE pipe["mod"]
      /\ pipe'["stats"] = IF R("stats") THEN pipe["mod"] ELSE pipe["stats"]
  BY PipeStep, Inputs, Stages
<1>3. /\ ModBeat = Bubble <=> Empty("match")
      /\ Valid("match") => ModBeat.hdr = pipe["match"].hdr
  <2>1. pipe["match"] \in BeatType \cup {Bubble}
    BY Stages DEF TypeInv
  <2> QED BY <2>1, Modifies
<1> HIDE DEF R
<1>4. CASE Valid("match")
  <2>1. R("match") /\ R("mod")
    BY <1>0, <1>2, <1>4 DEF Valid, Empty
  <2>2. pipe'["mod"] # Bubble /\ pipe'["mod"].hdr = pipe["match"].hdr
    BY <1>2, <1>3, <1>4, <2>1 DEF Valid
  <2> QED BY <1>1, <1>4, <2>2, MatchOwn DEF Mine
<1>5. CASE Empty("match") /\ R("mod")
  <2>1. pipe'["mod"] = Bubble
    BY <1>2, <1>3, <1>5
  <2>2. CASE Valid("mod")
    <3>1. pipe'["stats"] = pipe["mod"]
      BY <1>0, <1>2, <1>5, <2>2 DEF Valid
    <3> QED BY <1>1, <1>5, <2>1, <2>2, <3>1 DEF LastPassed, Mine
  <2>3. CASE Empty("mod")
    <3>1. pipe'["stats"] = Bubble \/ pipe'["stats"] = pipe["stats"]
      BY <1>2, <2>3 DEF Empty
    <3> QED BY <1>1, <1>5, <2>1, <2>3, <3>1 DEF LastPassed, Mine, Valid, Empty
  <2> QED BY <2>2, <2>3 DEF Valid
<1>6. CASE Empty("match") /\ ~R("mod")
  <2>1. pipe'["mod"] = pipe["mod"] /\ pipe["mod"] # Bubble
    BY <1>0, <1>2, <1>6 DEF Empty
  <2> QED BY <1>1, <1>6, <2>1 DEF LastPassed, Mine, Valid, Empty
<1> QED BY <1>4, <1>5, <1>6 DEF Valid

LEMMA PassedInductive ==
  TypeInv /\ L4Lockstep /\ MetaInv /\ LastPassed /\ [Next]_vars => LastPassed'
<1> SUFFICES ASSUME TypeInv, L4Lockstep, MetaInv, LastPassed, [Next]_vars PROVE LastPassed'
  OBVIOUS
<1>1. ASSUME NEW m_tready \in BOOLEAN, NEW b \in NextBeats \cup {Bubble},
             Clock(b, m_tready)
      PROVE  LastPassed'
  BY <1>1, PassedEdge DEF Edge
<1>2. CASE Reset
  <2>1. pipe'["mod"] = Bubble /\ pipe'["stats"] = Bubble
    BY <1>2, Stages DEF Reset
  <2> QED BY <2>1 DEF LastPassed, Valid, Empty
<1>3. CASE UNCHANGED vars
  BY <1>3 DEF vars, LastPassed, Mine, Valid, Empty
<1> QED BY <1>1, <1>2, <1>3 DEF Next

(* A packet is counted, and its flow updated, under its own metadata, unless  *)
(* another packet has reached the registers behind it by then.                *)
THEOREM AttributedWhenAlone == Spec => AttributedUnlessFollowed
<1>1. Init => TypeInv /\ L4Lockstep /\ MetaInv /\ LastPassed
  <2> SUFFICES ASSUME Init PROVE TypeInv /\ L4Lockstep /\ MetaInv /\ LastPassed
    OBVIOUS
  <2>1. /\ Idle
        /\ \A s \in Stage : pipe[s] = Bubble
        /\ \A s \in MetaStage : first_beat[s] = TRUE
    BY DEF Init, Idle
  <2>2. L4Lockstep /\ LastPassed
    BY <2>1, Stages DEF L4Lockstep, LastPassed, Valid, Empty
  <2> QED BY <2>1, <2>2, MetaFromEmpty, TypeInit, Stages
<1>2. MetaInv /\ LastPassed
      => /\ CountsNow /\ ~Followed("mod", {"match"})
              => StatsMeta.src_mac = pipe["mod"].hdr.src_mac
         /\ Leaves("stats") /\ ~Followed("stats", {"match", "mod"})
              => FlowMeta.src_mac = pipe["stats"].hdr.src_mac
  <2> SUFFICES ASSUME MetaInv, LastPassed
               PROVE  /\ Valid("mod") /\ ~Followed("mod", {"match"}) => Mine("mod")
                      /\ Valid("stats") /\ ~Followed("stats", {"match", "mod"})
                           => Mine("stats")
    BY DEF CountsNow, Leaves, StatsMeta, FlowMeta, Mine
  <2>1. CASE Valid("match")
    BY <2>1, MatchOwn DEF Followed, Mine
  <2>2. CASE Empty("match")
    BY <2>2 DEF LastPassed, Followed, Mine, Valid
  <2> QED BY <2>1, <2>2 DEF Valid
<1> QED BY <1>1, <1>2, L4Step, TypeInductive, MetaInductive, PassedInductive, PTL
        DEF Spec, AttributedUnlessFollowed

-----------------------------------------------------------------------------
(* The chain as a channel.  The contents are put together from the sink back: *)
(* what the registers nearer the sink hold, without the beat that leaves, is  *)
(* after an edge followed by what the register behind passes on.              *)

Numbers == 1 .. MaxSent

LEMMA ContentType ==
  ASSUME NEW x \in BeatType \cup {Bubble}
  PROVE  /\ Content(x) \in Seq(Numbers) /\ Len(Content(x)) \in 0 .. 1
         /\ Content(x) = <<>> <=> x = Bubble
         /\ x # Bubble => Content(x) = <<x.n>> /\ x.n \in Numbers
<1>1. CASE x = Bubble
  BY <1>1 DEF Content
<1>2. CASE x # Bubble
  <2>1. x.n \in Numbers
    BY <1>2 DEF BeatType, Numbers
  <2>2. Content(x) = <<x.n>>
    BY <1>2 DEF Content
  <2> QED BY <1>2, <2>1, <2>2
<1> QED BY <1>1, <1>2

LEMMA Joined ==
  ASSUME NEW low \in Seq(Numbers), NEW held \in Seq(Numbers)
  PROVE  /\ low \o held \in Seq(Numbers) /\ low \o <<>> = low
         /\ (low \o held) \o <<>> = low \o held
<1>1. low \o held \in Seq(Numbers)
  BY ConcatProperties
<1> QED BY <1>1, ConcatEmptySeq

(* What follows the oldest element stays behind it when it leaves.            *)
LEMMA TailOfMore ==
  ASSUME NEW D, NEW s \in Seq(D), NEW t \in Seq(D), s # <<>>
  PROVE  s \o t \in Seq(D) /\ s \o t # <<>> /\ Tail(s \o t) = Tail(s) \o t
<1>1. /\ s \o t \in Seq(D) /\ Len(s \o t) = Len(s) + Len(t)
      /\ \A i \in 1 .. Len(s) + Len(t) :
           (s \o t)[i] = IF i <= Len(s) THEN s[i] ELSE t[i - Len(s)]
  BY ConcatProperties
<1>2. Len(s) \in Nat \ {0} /\ Len(t) \in Nat
  BY EmptySeq, LenProperties
<1>3. s \o t # <<>>
  BY <1>1, <1>2, EmptySeq
<1>4. /\ Tail(s) \in Seq(D) /\ Len(Tail(s)) = Len(s) - 1
      /\ \A i \in 1 .. Len(Tail(s)) : Tail(s)[i] = s[i + 1]
  BY HeadTailProperties
<1>5. /\ Tail(s \o t) \in Seq(D) /\ Len(Tail(s \o t)) = Len(s \o t) - 1
      /\ \A i \in 1 .. Len(Tail(s \o t)) : Tail(s \o t)[i] = (s \o t)[i + 1]
  BY <1>1, <1>3, HeadTailProperties
<1>6. /\ Tail(s) \o t \in Seq(D) /\ Len(Tail(s) \o t) = Len(Tail(s)) + Len(t)
      /\ \A i \in 1 .. Len(Tail(s)) + Len(t) :
           (Tail(s) \o t)[i] = IF i <= Len(Tail(s)) THEN Tail(s)[i]
                               ELSE t[i - Len(Tail(s))]
  BY <1>4, ConcatProperties
<1>7. \A i \in 1 .. Len(Tail(s \o t)) : Tail(s \o t)[i] = (Tail(s) \o t)[i]
  <2> TAKE i \in 1 .. Len(Tail(s \o t))
  <2>1. i + 1 \in 1 .. Len(s) + Len(t) /\ i \in 1 .. Len(Tail(s)) + Len(t)
    BY <1>1, <1>2, <1>4, <1>5
  <2>2. Tail(s \o t)[i] = IF i + 1 <= Len(s) THEN s[i + 1] ELSE t[(i + 1) - Len(s)]
    BY <1>1, <1>5, <2>1
  <2>3. (Tail(s) \o t)[i] = IF i <= Len(Tail(s)) THEN Tail(s)[i]
                            ELSE t[i - Len(Tail(s))]
    BY <1>6, <2>1
  <2>4. CASE i + 1 <= Len(s)
    <3>1. i \in 1 .. Len(Tail(s))
      BY <1>2, <1>4, <2>1, <2>4
    <3> QED BY <1>4, <2>2, <2>3, <2>4, <3>1
  <2>5. CASE ~(i + 1 <= Len(s))
    <3>1. ~(i <= Len(Tail(s))) /\ (i + 1) - Len(s) = i - Len(Tail(s))
      BY <1>2, <1>4, <2>1, <2>5
    <3> QED BY <2>2, <2>3, <2>5, <3>1
  <2> QED BY <2>4, <2>5
<1>8. Len(Tail(s \o t)) = Len(Tail(s) \o t)
  BY <1>1, <1>2, <1>4, <1>5, <1>6
<1> QED BY <1>1, <1>3, <1>5, <1>6, <1>7, <1>8, SeqEqual

(* What the registers hold, first being the share of the last of them.        *)
Behind(first) == first \o Content(pipe["stats"]) \o Content(pipe["mod"])
                   \o Content(pipe["match"]) \o Content(pipe["udp"])
                   \o Content(pipe["ip"]) \o Content(pipe["vlan"])
                   \o Content(pipe["eth"])

LEMMA InFlightIs == ASSUME L4Lockstep PROVE InFlight = Behind(Content(pipe["flow"]))
<1>1. d_l4 = pipe["udp"]
  BY DEF L4Lockstep, d_l4
<1> QED BY <1>1 DEF InFlight, Behind

LEMMA InFlightIsNext ==
  ASSUME L4Lockstep' PROVE InFlight' = Behind(Content(pipe["flow"]))'
<1>1. d_l4' = pipe'["udp"]
  BY DEF L4Lockstep, d_l4
<1> QED BY <1>1 DEF InFlight, Behind

LEMMA Contents ==
  ASSUME TypeInv, NEW s \in Stage
  PROVE  /\ Content(pipe[s]) \in Seq(Numbers) /\ Len(Content(pipe[s])) \in 0 .. 1
         /\ Content(pipe[s]) = <<>> <=> Empty(s)
         /\ Empty(s) => Len(Content(pipe[s])) = 0
<1>1. pipe[s] \in BeatType \cup {Bubble}
  BY DEF TypeInv
<1>2. Len(<<>>) = 0
  OBVIOUS
<1> QED BY <1>1, <1>2, ContentType DEF Empty

(* The oldest beat leaves and the others stay behind it in order.             *)
LEMMA OldestLeaves ==
  ASSUME TypeInv, NEW n \in Numbers
  PROVE  /\ Behind(<<n>>) \in Seq(Numbers) /\ Behind(<<n>>) # <<>>
         /\ Tail(Behind(<<n>>)) = Behind(<<>>)
<1> DEFINE c(s) == Content(pipe[s])
           t0 == <<n>>
           t1 == t0 \o c("stats")
           t2 == t1 \o c("mod")
           t3 == t2 \o c("match")
           t4 == t3 \o c("udp")
           t5 == t4 \o c("ip")
           t6 == t5 \o c("vlan")
           t7 == t6 \o c("eth")
           u0 == <<>>
           u1 == u0 \o c("stats")
           u2 == u1 \o c("mod")
           u3 == u2 \o c("match")
           u4 == u3 \o c("udp")
           u5 == u4 \o c("ip")
           u6 == u5 \o c("vlan")
           u7 == u6 \o c("eth")
<1>1. \A s \in Stage : c(s) \in Seq(Numbers)
  BY Contents
<1>2. t0 \in Seq(Numbers) /\ t0 # <<>> /\ Tail(t0) = u0
  OBVIOUS
<1> HIDE DEF c, t0, u0
<1>3. t1 \in Seq(Numbers) /\ t1 # <<>> /\ Tail(t1) = u1
  <2>1. c("stats") \in Seq(Numbers)
    BY <1>1, Stages
  <2> HIDE DEF t0, u0
  <2> QED BY <1>2, <2>1, TailOfMore DEF t1, u1
<1>4. t2 \in Seq(Numbers) /\ t2 # <<>> /\ Tail(t2) = u2
  <2>1. c("mod") \in Seq(Numbers)
    BY <1>1, Stages
  <2> HIDE DEF t1, u1
  <2> QED BY <1>3, <2>1, TailOfMore DEF t2, u2
<1>5. t3 \in Seq(Numbers) /\ t3 # <<>> /\ Tail(t3) = u3
  <2>1. c("match") \in Seq(Numbers)
    BY <1>1, Stages
  <2> HIDE DEF t2, u2
  <2> QED BY <1>4, <2>1, TailOfMore DEF t3, u3
<1>6. t4 \in Seq(Numbers) /\ t4 # <<>> /\ Tail(t4) = u4
  <2>1. c("udp") \in Seq(Numbers)
    BY <1>1, Stages
  <2> HIDE DEF t3, u3
  <2> QED BY <1>5, <2>1, TailOfMore DEF t4, u4
<1>7. t5 \in Seq(Numbers) /\ t5 # <<>> /\ Tail(t5) = u5
  <2>1. c("ip") \in Seq(Numbers)
    BY <1>1, Stages
  <2> HIDE DEF t4, u4
  <2> QED BY <1>6, <2>1, TailOfMore DEF t5, u5
<1>8. t6 \in Seq(Numbers) /\ t6 # <<>> /\ Tail(t6) = u6
  <2>1. c("vlan") \in Seq(Numbers)
    BY <1>1, Stages
  <2> HIDE DEF t5, u5
  <2> QED BY <1>7, <2>1, TailOfMore DEF t6, u6
<1>9. t7 \in Seq(Numbers) /\ t7 # <<>> /\ Tail(t7) = u7
  <2>1. c("eth") \in Seq(Numbers)
    BY <1>1, Stages
  <2> HIDE DEF t6, u6
  <2> QED BY <1>8, <2>1, TailOfMore DEF t7, u7
<1> QED BY <1>9 DEF Behind, c, t0, u0

LEMMA BehindType == ASSUME TypeInv PROVE Behind(Content(pipe["flow"])) \in Seq(Numbers)
<1>1. \A s \in Stage : Content(pipe[s]) \in Seq(Numbers)
  BY Contents
<1>2. \A s, t \in Seq(Numbers) : s \o t \in Seq(Numbers)
  BY ConcatProperties
<1> QED BY <1>1, <1>2, Stages DEF Behind

(* One edge: what is left of the contents, and the beat that is taken in.     *)
LEMMA ChannelEdge ==
  ASSUME TypeInv, L4Lockstep,
         NEW b, NEW m_tready, Edge(b, m_tready), Clock(b, m_tready),
         NEW new \in Seq(Numbers), Ready("eth", m_tready) => new = Content(b)
  PROVE  Behind(Content(pipe["flow"]))'
           = Behind(IF m_tready THEN <<>> ELSE Content(pipe["flow"]))
             \o (IF Ready("eth", m_tready) THEN new ELSE <<>>)
<1> DEFINE R(s) == Ready(s, m_tready)
           c(s) == Content(pipe[s])
           d(s) == Content(pipe'[s])
<1>0. /\ R("eth") <=> R("vlan") \/ c("eth") = <<>>
      /\ R("vlan") <=> R("ip") \/ c("vlan") = <<>>
      /\ R("ip") <=> R("udp") \/ c("ip") = <<>>
      /\ R("udp") <=> R("match") \/ c("udp") = <<>>
      /\ R("match") <=> R("mod") \/ c("match") = <<>>
      /\ R("mod") <=> R("stats") \/ c("mod") = <<>>
      /\ R("stats") <=> R("flow") \/ c("stats") = <<>>
      /\ R("flow") <=> m_tready \/ c("flow") = <<>>
  <2>1. m_tready \in BOOLEAN
    BY DEF Edge
  <2>2. /\ R("mod") <=> R("stats") \/ Empty("mod")
        /\ R("stats") <=> R("flow") \/ Empty("stats")
        /\ R("flow") <=> m_tready \/ Empty("flow")
    BY DEF Ready, r_mod, r_stats, r_flow
  <2>3. \A s \in Stage : c(s) = <<>> <=> Empty(s)
    BY Contents
  <2> HIDE DEF c
  <2> QED BY <2>1, <2>2, <2>3, ReadyChain, Stages
<1>1. m_tready \in BOOLEAN /\ \A s : R(s) \in BOOLEAN
  BY DEF Edge, Ready
<1>2. \A s \in Stage : c(s) \in Seq(Numbers)
  BY Contents
<1>3. d_l4 = pipe["udp"] /\ Content(ModBeat) = c("match")
  <2>1. d_l4 = pipe["udp"]
    BY DEF L4Lockstep, d_l4
  <2>2. pipe["match"] \in BeatType \cup {Bubble}
    BY Stages DEF TypeInv
  <2>3. /\ ModBeat = Bubble <=> Empty("match")
        /\ Valid("match") => ModBeat.n = pipe["match"].n
    BY <2>2, Modifies
  <2> QED BY <2>1, <2>3 DEF Content, Valid, Empty
<1>4. /\ d("eth") = IF R("eth") THEN new ELSE c("eth")
      /\ d("vlan") = IF R("vlan") THEN c("eth") ELSE c("vlan")
      /\ d("ip") = IF R("ip") THEN c("vlan") ELSE c("ip")
      /\ d("udp") = IF R("udp") THEN c("ip") ELSE c("udp")
  <2>1. /\ pipe'["eth"] = IF R("eth") THEN b ELSE pipe["eth"]
        /\ pipe'["vlan"] = IF R("vlan") THEN pipe["eth"] ELSE pipe["vlan"]
        /\ pipe'["ip"] = IF R("ip") THEN pipe["vlan"] ELSE pipe["ip"]
        /\ pipe'["udp"] = IF R("udp") THEN pipe["ip"] ELSE pipe["udp"]
    BY PipeStep, Inputs, Stages
  <2> QED BY <2>1
<1>5. /\ d("match") = IF R("match") THEN c("udp") ELSE c("match")
      /\ d("mod") = IF R("mod") THEN c("match") ELSE c("mod")
      /\ d("stats") = IF R("stats") THEN c("mod") ELSE c("stats")
      /\ d("flow") = IF R("flow") THEN c("stats") ELSE c("flow")
  <2>1. /\ pipe'["match"] = IF R("match") THEN pipe["udp"] ELSE pipe["match"]
        /\ pipe'["mod"] = IF R("mod") THEN ModBeat ELSE pipe["mod"]
        /\ pipe'["stats"] = IF R("stats") THEN pipe["mod"] ELSE pipe["stats"]
        /\ pipe'["flow"] = IF R("flow") THEN pipe["stats"] ELSE pipe["flow"]
    BY <1>3, PipeStep, Inputs, Stages
  <2> QED BY <1>3, <2>1
<1> DEFINE l0 == IF m_tready THEN <<>> ELSE c("flow")
           k0 == d("flow")
           l1 == l0 \o c("stats")
           k1 == k0 \o d("stats")
           l2 == l1 \o c("mod")
           k2 == k1 \o d("mod")
           l3 == l2 \o c("match")
           k3 == k2 \o d("match")
           l4 == l3 \o c("udp")
           k4 == k3 \o d("udp")
           l5 == l4 \o c("ip")
           k5 == k4 \o d("ip")
           l6 == l5 \o c("vlan")
           k6 == k5 \o d("vlan")
           l7 == l6 \o c("eth")
           k7 == k6 \o d("eth")
<1> HIDE DEF R, c, d
<1>6. l0 \in Seq(Numbers) /\ k0 = l0 \o (IF R("flow") THEN c("stats") ELSE <<>>)
  <2>1. c("flow") \in Seq(Numbers) /\ c("stats") \in Seq(Numbers)
    BY <1>2, Stages
  <2>2. l0 \in Seq(Numbers)
    BY <1>1, <2>1
  <2>3. CASE R("flow")
    <3>1. l0 = <<>> /\ k0 = c("stats")
      BY <1>0, <1>1, <1>5, <2>3
    <3> HIDE DEF l0, k0
    <3> QED BY <2>1, <2>2, <2>3, <3>1, ConcatEmptySeq
  <2>4. CASE ~R("flow")
    <3>1. l0 = c("flow") /\ k0 = c("flow")
      BY <1>0, <1>1, <1>5, <2>4
    <3> HIDE DEF l0, k0
    <3> QED BY <2>1, <2>2, <2>4, <3>1, ConcatEmptySeq
  <2> QED BY <2>3, <2>4, <2>2
<1> HIDE DEF l0, k0
<1>7. l1 \in Seq(Numbers) /\ k1 = l1 \o (IF R("stats") THEN c("mod") ELSE <<>>)
  <2> DEFINE passed == IF R("flow") THEN c("stats") ELSE <<>>
             taken == IF R("stats") THEN c("mod") ELSE <<>>
  <2>1. c("stats") \in Seq(Numbers) /\ c("mod") \in Seq(Numbers)
    BY <1>2, Stages
  <2>2. \/ d("stats") = c("mod") /\ taken = c("mod") /\ passed = c("stats")
        \/ d("stats") = c("stats") /\ taken = <<>> /\ passed = <<>>
    BY <1>0, <1>1, <1>5
  <2>3. l0 \in Seq(Numbers) /\ k0 = l0 \o passed
    BY <1>6
  <2> HIDE DEF l0, k0, passed, taken
  <2>4. /\ l0 \o c("stats") \in Seq(Numbers) /\ l0 \o <<>> = l0
        /\ (l0 \o c("stats")) \o <<>> = l0 \o c("stats")
    BY <2>1, <2>3, Joined
  <2>5. k0 \o d("stats") = (l0 \o c("stats")) \o taken
    BY <2>2, <2>3, <2>4
  <2> QED BY <2>4, <2>5 DEF l1, k1, taken
<1>8. l2 \in Seq(Numbers) /\ k2 = l2 \o (IF R("mod") THEN c("match") ELSE <<>>)
  <2> DEFINE passed == IF R("stats") THEN c("mod") ELSE <<>>
             taken == IF R("mod") THEN c("match") ELSE <<>>
  <2>1. c("mod") \in Seq(Numbers) /\ c("match") \in Seq(Numbers)
    BY <1>2, Stages
  <2>2. \/ d("mod") = c("match") /\ taken = c("match") /\ passed = c("mod")
        \/ d("mod") = c("mod") /\ taken = <<>> /\ passed = <<>>
    BY <1>0, <1>1, <1>5
  <2>3. l1 \in Seq(Numbers) /\ k1 = l1 \o passed
    BY <1>7
  <2> HIDE DEF l1, k1, passed, taken
  <2>4. /\ l1 \o c("mod") \in Seq(Numbers) /\ l1 \o <<>> = l1
        /\ (l1 \o c("mod")) \o <<>> = l1 \o c("mod")
    BY <2>1, <2>3, Joined
  <2>5. k1 \o d("mod") = (l1 \o c("mod")) \o taken
    BY <2>2, <2>3, <2>4
  <2> QED BY <2>4, <2>5 DEF l2, k2, taken
<1>9. l3 \in Seq(Numbers) /\ k3 = l3 \o (IF R("match") THEN c("udp") ELSE <<>>)
  <2> DEFINE passed == IF R("mod") THEN c("match") ELSE <<>>
             taken == IF R("match") THEN c("udp") ELSE <<>>
  <2>1. c("match") \in Seq(Numbers) /\ c("udp") \in Seq(Numbers)
    BY <1>2, Stages
  <2>2. \/ d("match") = c("udp") /\ taken = c("udp") /\ passed = c("match")
        \/ d("match") = c("match") /\ taken = <<>> /\ passed = <<>>
    BY <1>0, <1>1, <1>5
  <2>3. l2 \in Seq(Numbers) /\ k2 = l2 \o passed
    BY <1>8
  <2> HIDE DEF l2, k2, passed, taken
  <2>4. /\ l2 \o c("match") \in Seq(Numbers) /\ l2 \o <<>> = l2
        /\ (l2 \o c("match")) \o <<>> = l2 \o c("match")
    BY <2>1, <2>3, Joined
  <2>5. k2 \o d("match") = (l2 \o c("match")) \o taken
    BY <2>2, <2>3, <2>4
  <2> QED BY <2>4, <2>5 DEF l3, k3, taken
<1>10. l4 \in Seq(Numbers) /\ k4 = l4 \o (IF R("udp") THEN c("ip") ELSE <<>>)
  <2> DEFINE passed == IF R("match") THEN c("udp") ELSE <<>>
             taken == IF R("udp") THEN c("ip") ELSE <<>>
  <2>1. c("udp") \in Seq(Numbers) /\ c("ip") \in Seq(Numbers)
    BY <1>2, Stages
  <2>2. \/ d("udp") = c("ip") /\ taken = c("ip") /\ passed = c("udp")
        \/ d("udp") = c("udp") /\ taken = <<>> /\ passed = <<>>
    BY <1>0, <1>1, <1>4
  <2>3. l3 \in Seq(Numbers) /\ k3 = l3 \o passed
    BY <1>9
  <2> HIDE DEF l3, k3, passed, taken
  <2>4. /\ l3 \o c("udp") \in Seq(Numbers) /\ l3 \o <<>> = l3
        /\ (l3 \o c("udp")) \o <<>> = l3 \o c("udp")
    BY <2>1, <2>3, Joined
  <2>5. k3 \o d("udp") = (l3 \o c("udp")) \o taken
    BY <2>2, <2>3, <2>4
  <2> QED BY <2>4, <2>5 DEF l4, k4, taken
<1>11. l5 \in Seq(Numbers) /\ k5 = l5 \o (IF R("ip") THEN c("vlan") ELSE <<>>)
  <2> DEFINE passed == IF R("udp") THEN c("ip") ELSE <<>>
             taken == IF R("ip") THEN c("vlan") ELSE <<>>
  <2>1. c("ip") \in Seq(Numbers) /\ c("vlan") \in Seq(Numbers)
    BY <1>2, Stages
  <2>2. \/ d("ip") = c("vlan") /\ taken = c("vlan") /\ passed = c("ip")
        \/ d("ip") = c("ip") /\ taken = <<>> /\ passed = <<>>
    BY <1>0, <1>1, <1>4
  <2>3. l4 \in Seq(Numbers) /\ k4 = l4 \o passed
    BY <1>10
  <2> HIDE DEF l4, k4, passed, taken
  <2>4. /\ l4 \o c("ip") \in Seq(Numbers) /\ l4 \o <<>> = l4
        /\ (l4 \o c("ip")) \o <<>> = l4 \o c("ip")
    BY <2>1, <2>3, Joined
  <2>5. k4 \o d("ip") = (l4 \o c("ip")) \o taken
    BY <2>2, <2>3, <2>4
  <2> QED BY <2>4, <2>5 DEF l5, k5, taken
<1>12. l6 \in Seq(Numbers) /\ k6 = l6 \o (IF R("vlan") THEN c("eth") ELSE <<>>)
  <2> DEFINE passed == IF R("ip") THEN c("vlan") ELSE <<>>
             taken == IF R("vlan") THEN c("eth") ELSE <<>>
  <2>1. c("vlan") \in Seq(Numbers) /\ c("eth") \in Seq(Numbers)
    BY <1>2, Stages
  <2>2. \/ d("vlan") = c("eth") /\ taken = c("eth") /\ passed = c("vlan")
        \/ d("vlan") = c("vlan") /\ taken = <<>> /\ passed = <<>>
    BY <1>0, <1>1, <1>4
  <2>3. l5 \in Seq(Numbers) /\ k5 = l5 \o passed
    BY <1>11
  <2> HIDE DEF l5, k5, passed, taken
  <2>4. /\ l5 \o c("vlan") \in Seq(Numbers) /\ l5 \o <<>> = l5
        /\ (l5 \o c("vlan")) \o <<>> = l5 \o c("vlan")
    BY <2>1, <2>3, Joined
  <2>5. k5 \o d("vlan") = (l5 \o c("vlan")) \o taken
    BY <2>2, <2>3, <2>4
  <2> QED BY <2>4, <2>5 DEF l6, k6, taken
<1>13. l7 \in Seq(Numbers) /\ k7 = l7 \o (IF R("eth") THEN new ELSE <<>>)
  <2> DEFINE passed == IF R("vlan") THEN c("eth") ELSE <<>>
             taken == IF R("eth") THEN new ELSE <<>>
  <2>1. c("eth") \in Seq(Numbers) /\ new \in Seq(Numbers)
    BY <1>2, Stages
  <2>2. \/ d("eth") = new /\ taken = new /\ passed = c("eth")
        \/ d("eth") = c("eth") /\ taken = <<>> /\ passed = <<>>
    BY <1>0, <1>1, <1>4
  <2>3. l6 \in Seq(Numbers) /\ k6 = l6 \o passed
    BY <1>12
  <2> HIDE DEF l6, k6, passed, taken
  <2>4. /\ l6 \o c("eth") \in Seq(Numbers) /\ l6 \o <<>> = l6
        /\ (l6 \o c("eth")) \o <<>> = l6 \o c("eth")
    BY <2>1, <2>3, Joined
  <2>5. k6 \o d("eth") = (l6 \o c("eth")) \o taken
    BY <2>2, <2>3, <2>4
  <2> QED BY <2>4, <2>5 DEF l7, k7, taken
<1> QED BY <1>13 DEF Behind, l0, k0, c, d, R

(* A chain that takes a beat and gives none has a register to spare.          *)
LEMMA RoomForOne ==
  ASSUME TypeInv, L4Lockstep, NEW m_tready \in BOOLEAN, Ready("eth", m_tready),
         m_tready => Empty("flow")
  PROVE  Len(Behind(Content(pipe["flow"]))) < 8
<1> DEFINE c(s) == Content(pipe[s])
           n(s) == Len(c(s))
<1>1. \E s \in Stage \ {"tcp"} : Empty(s)
  <2>1. /\ Ready("mod", m_tready) <=> Ready("stats", m_tready) \/ Empty("mod")
        /\ Ready("stats", m_tready) <=> Ready("flow", m_tready) \/ Empty("stats")
        /\ Ready("flow", m_tready) <=> m_tready \/ Empty("flow")
    BY DEF Ready, r_mod, r_stats, r_flow
  <2> QED BY <2>1, ReadyChain, Stages
<1>2. \A s \in Stage : c(s) \in Seq(Numbers) /\ n(s) \in 0 .. 1 /\ (Empty(s) => n(s) = 0)
  BY Contents
<1> HIDE DEF c
<1>3. Len(c("flow") \o c("stats") \o c("mod") \o c("match")
             \o c("udp") \o c("ip") \o c("vlan") \o c("eth"))
        = n("flow") + n("stats") + n("mod") + n("match")
             + n("udp") + n("ip") + n("vlan") + n("eth")
  <2>0. \A s \in Stage : c(s) \in Seq(Numbers)
    BY <1>2
  <2> DEFINE x0 == c("flow")
             x1 == x0 \o c("stats")
             x2 == x1 \o c("mod")
             x3 == x2 \o c("match")
             x4 == x3 \o c("udp")
             x5 == x4 \o c("ip")
             x6 == x5 \o c("vlan")
             x7 == x6 \o c("eth")
  <2> HIDE DEF x0
  <2>1. x0 \in Seq(Numbers) /\ Len(x0) = n("flow")
    BY <2>0, Stages DEF x0
  <2>2. x1 \in Seq(Numbers) /\ Len(x1) = n("flow") + n("stats")
    <3>1. c("stats") \in Seq(Numbers)
      BY <2>0, Stages
    <3> HIDE DEF x0
    <3>2. x1 \in Seq(Numbers) /\ Len(x1) = Len(x0) + n("stats")
      BY <2>1, <3>1, ConcatProperties DEF x1
    <3> QED BY <2>1, <3>2
  <2>3. x2 \in Seq(Numbers) /\ Len(x2) = n("flow") + n("stats") + n("mod")
    <3>1. c("mod") \in Seq(Numbers)
      BY <2>0, Stages
    <3> HIDE DEF x1
    <3>2. x2 \in Seq(Numbers) /\ Len(x2) = Len(x1) + n("mod")
      BY <2>2, <3>1, ConcatProperties DEF x2
    <3> QED BY <2>2, <3>2
  <2>4. x3 \in Seq(Numbers) /\ Len(x3) = n("flow") + n("stats") + n("mod") + n("match")
    <3>1. c("match") \in Seq(Numbers)
      BY <2>0, Stages
    <3> HIDE DEF x2
    <3>2. x3 \in Seq(Numbers) /\ Len(x3) = Len(x2) + n("match")
      BY <2>3, <3>1, ConcatProperties DEF x3
    <3> QED BY <2>3, <3>2
  <2>5. x4 \in Seq(Numbers) /\ Len(x4) = n("flow") + n("stats") + n("mod") + n("match") + n("udp")
    <3>1. c("udp") \in Seq(Numbers)
      BY <2>0, Stages
    <3> HIDE DEF x3
    <3>2. x4 \in Seq(Numbers) /\ Len(x4) = Len(x3) + n("udp")
      BY <2>4, <3>1, ConcatProperties DEF x4
    <3> QED BY <2>4, <3>2
  <2>6. x5 \in Seq(Numbers) /\ Len(x5) = n("flow") + n("stats") + n("mod") + n("match") + n("udp") + n("ip")
    <3>1. c("ip") \in Seq(Numbers)
      BY <2>0, Stages
    <3> HIDE DEF x4
    <3>2. x5 \in Seq(Numbers) /\ Len(x5) = Len(x4) + n("ip")
      BY <2>5, <3>1, ConcatProperties DEF x5
    <3> QED BY <2>5, <3>2
  <2>7. x6 \in Seq(Numbers) /\ Len(x6) = n("flow") + n("stats") + n("mod") + n("match") + n("udp") + n("ip") + n("vlan")
    <3>1. c("vlan") \in Seq(Numbers)
      BY <2>0, Stages
    <3> HIDE DEF x5
    <3>2. x6 \in Seq(Numbers) /\ Len(x6) = Len(x5) + n("vlan")
      BY <2>6, <3>1, ConcatProperties DEF x6
    <3> QED BY <2>6, <3>2
  <2>8. x7 \in Seq(Numbers) /\ Len(x7) = n("flow") + n("stats") + n("mod") + n("match") + n("udp") + n("ip") + n("vlan") + n("eth")
    <3>1. c("eth") \in Seq(Numbers)
      BY <2>0, Stages
    <3> HIDE DEF x6
    <3>2. x7 \in Seq(Numbers) /\ Len(x7) = Len(x6) + n("eth")
      BY <2>7, <3>1, ConcatProperties DEF x7
    <3> QED BY <2>7, <3>2
  <2> QED BY <2>8 DEF x0
<1> HIDE DEF n
<1>4. n("flow") + n("stats") + n("mod") + n("match")
        + n("udp") + n("ip") + n("vlan") + n("eth") < 8
  <2>1. PICK e \in Stage \ {"tcp"} : Empty(e)
    BY <1>1
  <2>2. n(e) = 0
    BY <1>2, <2>1
  <2>3. \A s \in Stage : n(s) \in Int /\ 0 <= n(s) /\ n(s) <= 1
    <3>1. \A k \in 0 .. 1 : k \in Int /\ 0 <= k /\ k <= 1
      OBVIOUS
    <3> QED BY <1>2, <3>1
  <2>4. /\ n("flow") \in Int /\ 0 <= n("flow") /\ n("flow") <= 1
        /\ n("stats") \in Int /\ 0 <= n("stats") /\ n("stats") <= 1
        /\ n("mod") \in Int /\ 0 <= n("mod") /\ n("mod") <= 1
        /\ n("match") \in Int /\ 0 <= n("match") /\ n("match") <= 1
        /\ n("udp") \in Int /\ 0 <= n("udp") /\ n("udp") <= 1
        /\ n("ip") \in Int /\ 0 <= n("ip") /\ n("ip") <= 1
        /\ n("vlan") \in Int /\ 0 <= n("vlan") /\ n("vlan") <= 1
        /\ n("eth") \in Int /\ 0 <= n("eth") /\ n("eth") <= 1
    BY <2>3, Stages
  <2>5. \/ n("flow") = 0 \/ n("stats") = 0 \/ n("mod") = 0 \/ n("match") = 0
        \/ n("udp") = 0 \/ n("ip") = 0 \/ n("vlan") = 0 \/ n("eth") = 0
    <3>1. \/ e = "eth" \/ e = "vlan" \/ e = "ip" \/ e = "udp"
          \/ e = "match" \/ e = "mod" \/ e = "stats" \/ e = "flow"
      BY <2>1, Stages
    <3> QED BY <2>2, <3>1
  <2>6. \A k1, k2, k3, k4, k5, k6, k7, k8 \in Int :
          /\ k1 <= 1 /\ k2 <= 1 /\ k3 <= 1 /\ k4 <= 1
          /\ k5 <= 1 /\ k6 <= 1 /\ k7 <= 1 /\ k8 <= 1
          /\ \/ k1 = 0 \/ k2 = 0 \/ k3 = 0 \/ k4 = 0
             \/ k5 = 0 \/ k6 = 0 \/ k7 = 0 \/ k8 = 0
          => k1 + k2 + k3 + k4 + k5 + k6 + k7 + k8 < 8
    OBVIOUS
  <2> QED BY <2>4, <2>5, <2>6
<1> QED BY <1>3, <1>4 DEF Behind, c, n

(* Every edge is a step of the channel.                                       *)
LEMMA ChannelStep ==
  ASSUME TypeInv, TypeInv', L4Lockstep, L4Lockstep',
         NEW b, NEW m_tready, Edge(b, m_tready), Clock(b, m_tready)
  PROVE  Channel!Next \/ InFlight' = InFlight
<1> DEFINE q == Behind(Content(pipe["flow"]))
           rest == Behind(IF m_tready THEN <<>> ELSE Content(pipe["flow"]))
           enters == Ready("eth", m_tready) /\ b # Bubble
           leaves == m_tready /\ Valid("flow")
<1>1. InFlight = q /\ InFlight' = q'
  BY InFlightIs, InFlightIsNext
<1>2. /\ Fires("eth", b, m_tready) <=> enters
      /\ enters => b \in BeatType
  BY SourceMoves
<1>3. m_tready \in BOOLEAN /\ enters \in BOOLEAN
  BY DEF Edge, Ready
<1>4. q' = rest \o (IF enters THEN <<b.n>> ELSE <<>>)
  <2> DEFINE new == IF enters THEN <<b.n>> ELSE <<>>
  <2>1. new \in Seq(Numbers) /\ (Ready("eth", m_tready) => new = Content(b))
    <3>1. CASE enters
      <4>1. Content(b) \in Seq(Numbers) /\ Content(b) = <<b.n>>
        BY <1>2, <3>1, ContentType
      <4> QED BY <3>1, <4>1
    <3>2. CASE ~enters
      <4>1. Ready("eth", m_tready) => Content(b) = <<>>
        BY <3>2 DEF Content
      <4> QED BY <3>2, <4>1
    <3> QED BY <3>1, <3>2
  <2>2. (IF Ready("eth", m_tready) THEN new ELSE <<>>) = new
    OBVIOUS
  <2>3. q' = rest \o (IF Ready("eth", m_tready) THEN new ELSE <<>>)
    <3> HIDE DEF new
    <3> QED BY <2>1, ChannelEdge
  <2> QED BY <2>2, <2>3
<1>5. /\ q \in Seq(Numbers) /\ rest \in Seq(Numbers)
      /\ leaves => q # <<>> /\ rest = Tail(q)
      /\ ~leaves => rest = q
  <2>1. pipe["flow"] \in BeatType \cup {Bubble}
    BY Stages DEF TypeInv
  <2>2. CASE leaves
    <3>1. /\ Content(pipe["flow"]) = <<pipe["flow"].n>> /\ pipe["flow"].n \in Numbers
      BY <2>1, <2>2, ContentType DEF Valid, Empty
    <3>2. q = Behind(<<pipe["flow"].n>>) /\ rest = Behind(<<>>)
      BY <2>2, <3>1
    <3> HIDE DEF q, rest
    <3>3. q \in Seq(Numbers) /\ q # <<>> /\ rest = Tail(q)
      BY <3>1, <3>2, OldestLeaves
    <3> QED BY <2>2, <3>3, HeadTailProperties
  <2>3. CASE ~leaves
    <3>1. rest = q
      <4>1. CASE m_tready
        <5>1. Content(pipe["flow"]) = <<>>
          BY <2>1, <2>3, <4>1, ContentType DEF Valid, Empty
        <5> QED BY <4>1, <5>1
      <4>2. CASE ~m_tready
        BY <4>2
      <4> QED BY <4>1, <4>2
    <3>2. q \in Seq(Numbers)
      BY BehindType
    <3> QED BY <2>3, <3>1, <3>2
  <2> QED BY <2>2, <2>3
<1>6. ~leaves /\ enters => Len(q) < 8
  BY <1>3, RoomForOne DEF Valid
<1> HIDE DEF q, rest
<1>7. CASE enters
  <2>1. b.n \in 1 .. MaxSent
    BY <1>2, <1>7 DEF BeatType
  <2>2. q' = Append(rest, b.n)
    <3>1. b.n \in Numbers
      BY <2>1 DEF Numbers
    <3> QED BY <1>4, <1>5, <1>7, <3>1, AppendIsConcat
  <2>3. CASE leaves
    BY <1>1, <1>5, <2>1, <2>2, <2>3 DEF Channel!Next, Channel!PushPop
  <2>4. CASE ~leaves
    BY <1>1, <1>5, <1>6, <1>7, <2>1, <2>2, <2>4 DEF Channel!Next, Channel!Push
  <2> QED BY <2>3, <2>4
<1>8. CASE ~enters
  <2>1. q' = rest
    BY <1>4, <1>5, <1>8, ConcatEmptySeq
  <2>2. CASE leaves
    BY <1>1, <1>5, <2>1, <2>2 DEF Channel!Next, Channel!Pop
  <2>3. CASE ~leaves
    BY <1>1, <1>5, <2>1, <2>3
  <2> QED BY <2>2, <2>3
<1> QED BY <1>7, <1>8

(* No beat is lost, duplicated or overtaken in the nine registers, whatever   *)
(* the traffic, the stalls, the bubbles and the resets (the ready chain of    *)
(* parser_pipeline.sv:50-107): the chain implements the bounded channel.      *)
THEOREM ChainRefinesChannel == Spec => ImplementsChannel
<1>1. Init => TypeInv /\ L4Lockstep /\ Channel!Init
  <2> SUFFICES ASSUME Init PROVE TypeInv /\ L4Lockstep /\ Channel!Init
    OBVIOUS
  <2>1. /\ \A s \in Stage : pipe[s] = Bubble
        /\ \A s \in MetaStage : first_beat[s] = TRUE
    BY DEF Init
  <2>2. L4Lockstep
    BY <2>1, Stages DEF L4Lockstep
  <2>3. Behind(Content(pipe["flow"])) = <<>>
    <3>1. \A s \in Stage : Content(pipe[s]) = <<>>
      BY <2>1 DEF Content
    <3> QED BY <3>1, Stages DEF Behind
  <2> QED BY <2>2, <2>3, InFlightIs, TypeInit DEF Channel!Init
<1>2. TypeInv /\ TypeInv' /\ L4Lockstep /\ L4Lockstep' /\ [Next]_vars
      => [Channel!Next]_InFlight
  <2> SUFFICES ASSUME TypeInv, TypeInv', L4Lockstep, L4Lockstep', [Next]_vars
               PROVE  Channel!Next \/ InFlight' = InFlight
    OBVIOUS
  <2>1. ASSUME NEW m_tready \in BOOLEAN, NEW b \in NextBeats \cup {Bubble},
               Clock(b, m_tready)
        PROVE  Channel!Next \/ InFlight' = InFlight
    BY <2>1, ChannelStep DEF Edge
  <2>2. CASE Reset
    <3>1. \A s \in Stage : Content(pipe'[s]) = <<>>
      BY <2>2 DEF Reset, Content
    <3>2. Behind(Content(pipe["flow"]))' = <<>>
      BY <3>1, Stages DEF Behind
    <3> QED BY <3>2, InFlightIsNext DEF Channel!Next, Channel!Reset
  <2>3. CASE UNCHANGED vars
    BY <2>3 DEF vars, InFlight, d_l4, Valid, Empty
  <2> QED BY <2>1, <2>2, <2>3 DEF Next
<1> QED BY <1>1, <1>2, L4Step, TypeInductive, PTL
        DEF Spec, ImplementsChannel, Channel!Spec

-----------------------------------------------------------------------------
(* Delivery.  The prover knows nothing of ENABLED, so the theorem says where  *)
(* it needs it: while beat n is inside, an edge with m_tready high can be     *)
(* taken and changes something (the beat moves).                              *)
At(s, n) == Valid(s) /\ pipe[s].n = n
Gone(n) == delivered >= n
Inside(n) == \/ At("eth", n) \/ At("vlan", n) \/ At("ip", n) \/ At("udp", n)
             \/ At("match", n) \/ At("mod", n) \/ At("stats", n) \/ At("flow", n)

(* An edge moves a beat to the next register if that is ready, as it is       *)
(* whenever the sink is, and leaves it where it is otherwise.                 *)
LEMMA BeatMoves ==
  ASSUME TypeInv, L4Lockstep, NEW b, NEW m_tready, Edge(b, m_tready),
         Clock(b, m_tready), NEW n, NEW s \in DOMAIN Rank, s # "eth", At(Prev[s], n)
  PROVE  /\ At(s, n)' \/ At(Prev[s], n)'
         /\ m_tready => At(s, n)'
<1>1. /\ s \in {"vlan", "ip", "udp", "match", "mod", "stats", "flow"}
      /\ Prev[s] \in Stage /\ s \in Stage /\ Valid(Prev[s]) /\ pipe[Prev[s]].n = n
  BY Stages DEF Rank, Prev, At
<1>2. Ready(s, m_tready) => At(s, n)'
  BY <1>1, CameFrom DEF At, Valid, Empty
<1>3. ~Ready(s, m_tready) => ~Ready(Prev[s], m_tready) /\ ~m_tready
  <2>1. m_tready \in BOOLEAN
    BY DEF Edge
  <2>2. /\ Ready("mod", m_tready) <=> Ready("stats", m_tready) \/ Empty("mod")
        /\ Ready("stats", m_tready) <=> Ready("flow", m_tready) \/ Empty("stats")
        /\ m_tready => Ready("flow", m_tready)
    BY DEF Ready, r_mod, r_stats, r_flow
  <2>3. /\ Ready("eth", m_tready) <=> Ready("vlan", m_tready) \/ Empty("eth")
        /\ Ready("vlan", m_tready) <=> Ready("ip", m_tready) \/ Empty("vlan")
        /\ Ready("ip", m_tready) <=> Ready("udp", m_tready) \/ Empty("ip")
        /\ Ready("udp", m_tready) <=> Ready("match", m_tready) \/ Empty("udp")
        /\ Ready("match", m_tready) <=> Ready("mod", m_tready) \/ Empty("match")
    BY <2>1, ReadyChain
  <2> QED BY <1>1, <2>2, <2>3 DEF Prev, Valid
<1>4. ~Ready(s, m_tready) => At(Prev[s], n)'
  <2>1. ~Ready(Prev[s], m_tready) => pipe'[Prev[s]] = pipe[Prev[s]]
    BY <1>1, PipeStep
  <2> QED BY <1>1, <1>3, <2>1 DEF At, Valid, Empty
<1> QED BY <1>2, <1>3, <1>4

LEMMA LastLeaves ==
  ASSUME TypeInv, NEW b, NEW m_tready, Edge(b, m_tready), Clock(b, m_tready),
         NEW n \in Nat, At("flow", n)
  PROVE  /\ At("flow", n)' \/ Gone(n)'
         /\ m_tready => Gone(n)'
<1>1. Valid("flow") /\ pipe["flow"].n = n /\ m_tready \in BOOLEAN
  BY DEF At, Edge
<1>2. CASE m_tready
  <2>1. delivered' = n
    BY <1>1, <1>2 DEF Clock
  <2> QED BY <2>1 DEF Gone
<1>3. CASE ~m_tready
  <2>1. ~Ready("flow", m_tready)
    BY <1>1, <1>3 DEF Ready, r_flow, Valid
  <2>2. pipe'["flow"] = pipe["flow"]
    BY <2>1, PipeStep, Stages
  <2> QED BY <1>1, <1>3, <2>2 DEF At, Valid, Empty
<1> QED BY <1>1, <1>2, <1>3

(* A reset discards what is inside, and what it discards counts as gone. *)
LEMMA ResetDiscards ==
  ASSUME TypeInv, Reset, NEW n \in Nat, Inside(n)
  PROVE  Gone(n)'
<1>1. \E s \in Stage : At(s, n)
  BY Stages DEF Inside
<1>2. n <= source.sent
  BY <1>1 DEF TypeInv, At
<1> QED BY <1>2 DEF Reset, Gone

LEMMA BeatStays ==
  ASSUME UNCHANGED vars, NEW s, NEW n, At(s, n)
  PROVE  At(s, n)'
BY DEF vars, At, Valid, Empty

(* One register to the next. *)
LEMMA BeatProgress ==
  ASSUME TypeInv, L4Lockstep, NEW n \in Nat, NEW s \in DOMAIN Rank, s # "eth",
         At(Prev[s], n)
  PROVE  /\ [Next]_vars => At(s, n)' \/ At(Prev[s], n)' \/ Gone(n)'
         /\ SinkReady => At(s, n)'
<1>1. Inside(n)
  BY DEF Prev, Rank, Inside
<1>2. ASSUME NEW m_tready \in BOOLEAN, NEW b \in NextBeats \cup {Bubble}, Clock(b, m_tready)
      PROVE  At(s, n)' \/ At(Prev[s], n)'
  BY <1>2, BeatMoves DEF Edge
<1>3. SinkReady => At(s, n)'
  <2>1. ASSUME NEW b \in NextBeats \cup {Bubble}, Clock(b, TRUE)
        PROVE  At(s, n)'
    BY <2>1, BeatMoves DEF Edge
  <2> QED BY <2>1 DEF SinkReady
<1> QED BY <1>1, <1>2, <1>3, ResetDiscards, BeatStays DEF Next

LEMMA LastProgress ==
  ASSUME TypeInv, NEW n \in Nat, At("flow", n)
  PROVE  /\ [Next]_vars => At("flow", n)' \/ Gone(n)'
         /\ SinkReady => Gone(n)'
<1>1. ASSUME NEW m_tready \in BOOLEAN, NEW b \in NextBeats \cup {Bubble}, Clock(b, m_tready)
      PROVE  At("flow", n)' \/ Gone(n)'
  BY <1>1, LastLeaves DEF Edge
<1>2. SinkReady => Gone(n)'
  <2>1. ASSUME NEW b \in NextBeats \cup {Bubble}, Clock(b, TRUE)
        PROVE  Gone(n)'
    BY <2>1, LastLeaves DEF Edge
  <2> QED BY <2>1 DEF SinkReady
<1> QED BY <1>1, <1>2, ResetDiscards, BeatStays DEF Next, Inside

(* Every beat that is taken in leaves, for every traffic, every pattern of    *)
(* stalls and bubbles and any number of resets, as long as the sink keeps     *)
(* becoming ready: no register waits for another that waits for it.           *)
THEOREM EveryBeatLeaves ==
  ASSUME NEW n \in Nat
  PROVE  FairSpec /\ [](Inside(n) => ENABLED <<SinkReady>>_vars)
           => (At("eth", n) ~> Gone(n))
<1>1. Init => TypeInv /\ L4Lockstep
  <2> SUFFICES ASSUME Init PROVE L4Lockstep
    BY TypeInit
  <2>1. /\ \A s \in Stage : pipe[s] = Bubble
        /\ \A s \in MetaStage : first_beat[s] = TRUE
    BY DEF Init
  <2> QED BY <2>1, Stages DEF L4Lockstep
<1> DEFINE Waits(s, t) == At(s, n) /\ [Next]_vars => At(t, n)' \/ At(s, n)' \/ Gone(n)'
           Moves(s, t) == At(s, n) /\ SinkReady => At(t, n)'
<1>2. ASSUME TypeInv, L4Lockstep
      PROVE  /\ Waits("eth", "vlan") /\ Moves("eth", "vlan")
             /\ Waits("vlan", "ip") /\ Moves("vlan", "ip")
             /\ Waits("ip", "udp") /\ Moves("ip", "udp")
             /\ Waits("udp", "match") /\ Moves("udp", "match")
             /\ Waits("match", "mod") /\ Moves("match", "mod")
             /\ Waits("mod", "stats") /\ Moves("mod", "stats")
             /\ Waits("stats", "flow") /\ Moves("stats", "flow")
  <2>1. \A s \in DOMAIN Rank : s # "eth" => Waits(Prev[s], s) /\ Moves(Prev[s], s)
    BY <1>2, BeatProgress
  <2> HIDE DEF Waits, Moves
  <2> QED BY <2>1 DEF Prev, Rank
<1>3. TypeInv /\ At("flow", n) /\ [Next]_vars => At("flow", n)' \/ Gone(n)'
  BY LastProgress
<1>4. TypeInv /\ At("flow", n) /\ SinkReady => Gone(n)'
  BY LastProgress
<1>5. Inside(n) <=> \/ At("eth", n) \/ At("vlan", n) \/ At("ip", n) \/ At("udp", n)
                    \/ At("match", n) \/ At("mod", n) \/ At("stats", n) \/ At("flow", n)
  BY DEF Inside
<1> QED BY <1>1, <1>2, <1>3, <1>4, <1>5, L4Step, TypeInductive, PTL DEF FairSpec, Spec
=============================================================================
