-------------------------- MODULE FlowTableProofs --------------------------
(* Proofs about flow_table, for any hash, any number of flows and sets, any   *)
(* timeout and any width of the cycle counter.                                *)
EXTENDS FlowTable, TLAPS

LEMMA WayIsTwo == Way = {0, 1}
BY DEF Way, NUM_WAYS

LEMMA SetOfFlow == ASSUME NEW f \in Flow PROVE set_idx[f] \in Set
BY FlowTableAssumption

(* An entry of the table is the invalid one or has every field.               *)
LEMMA EntryFields ==
  ASSUME TypeOK, NEW w \in Way, NEW s \in Set
  PROVE  /\ flow_ram[w][s] \in EntryType \cup {Invalid}
         /\ flow_ram[w][s].valid => /\ flow_ram[w][s].key \in Flow
                                    /\ flow_ram[w][s].packet_count \in 1 .. MaxCount
                                    /\ flow_ram[w][s].last_seen \in Now
<1> DEFINE e == flow_ram[w][s]
<1>1. e \in EntryType \cup {Invalid}
  BY DEF TypeOK
<1>2. e \in EntryType => /\ e.key \in Flow
                        /\ e.packet_count \in 1 .. MaxCount
                        /\ e.last_seen \in Now
  BY DEF EntryType
<1>3. e = Invalid => ~e.valid
  BY DEF Invalid
<1> QED BY <1>1, <1>2, <1>3

(* The table after one entry was put: that entry, and the others as before.   *)
LEMMA AfterPut ==
  ASSUME TypeOK, NEW w \in Way, NEW s \in Set, NEW e, Put({w}, s, e)
  PROVE  /\ flow_ram'[w][s] = e
         /\ \A w2 \in Way, s2 \in Set :
              w2 # w \/ s2 # s => flow_ram'[w2][s2] = flow_ram[w2][s2]
BY DEF TypeOK, Put

LEMMA PutType ==
  ASSUME TypeOK, NEW w \in Way, NEW s \in Set, NEW e \in EntryType, Put({w}, s, e)
  PROVE  flow_ram' \in [Way -> [Set -> EntryType \cup {Invalid}]]
<1>1. \A w2 \in Way : flow_ram[w2] \in [Set -> EntryType \cup {Invalid}]
  BY DEF TypeOK
<1>2. [flow_ram[w] EXCEPT ![s] = e] \in [Set -> EntryType \cup {Invalid}]
  BY <1>1
<1> QED BY <1>1, <1>2 DEF Put

(* One edge makes every flow one edge older, and the arriving flow new.       *)
LEMMA TickAges ==
  ASSUME TypeOK, NEW arrivals, Tick(arrivals)
  PROVE  /\ now' \in Now
         /\ age' \in [Flow -> 1 .. NowSpace]
         /\ \A f \in Flow : IF f \in arrivals THEN age'[f] = 1
                            ELSE age'[f] < NowSpace => age'[f] = age[f] + 1
<1>1. NowSpace \in Nat /\ NowSpace > 1 /\ now \in 0 .. NowSpace - 1
  BY FlowTableAssumption DEF TypeOK, Now
<1>2. now' \in Now
  BY <1>1 DEF Tick, NextNow, Now
<1>3. ASSUME NEW f \in Flow
      PROVE  /\ age'[f] \in 1 .. NowSpace
             /\ IF f \in arrivals THEN age'[f] = 1
                ELSE age'[f] < NowSpace => age'[f] = age[f] + 1
  <2>1. age[f] \in 1 .. NowSpace
    BY DEF TypeOK
  <2>2. age'[f] = IF f \in arrivals THEN 1
                  ELSE IF age[f] < NowSpace THEN age[f] + 1 ELSE age[f]
    BY DEF Tick
  <2> QED BY <1>1, <2>1, <2>2
<1>4. age' = [f \in Flow |-> age'[f]]
  BY DEF Tick
<1> QED BY <1>2, <1>3, <1>4

(* The wrapped difference grows by one per edge until the counter is round.   *)
LEMMA IdleGrows ==
  ASSUME NEW n \in Now, NEW last \in Now,
         NEW i, i = (IF last <= n THEN n - last ELSE n - last + NowSpace),
         i + 1 < NowSpace,
         NEW m, m = (IF n = NowSpace - 1 THEN 0 ELSE n + 1)
  PROVE  (IF last <= m THEN m - last ELSE m - last + NowSpace) = i + 1
BY FlowTableAssumption DEF Now

-----------------------------------------------------------------------------
(* Entries the edge leaves alone keep agreeing with their ages.               *)
LEMMA AgeKept ==
  ASSUME Inv, NEW arrivals, Tick(arrivals), NEW w \in Way, NEW s \in Set,
         flow_ram'[w][s] = flow_ram[w][s], flow_ram[w][s].valid,
         flow_ram[w][s].key \notin arrivals,
         age'[flow_ram[w][s].key] < NowSpace
  PROVE  idle(w, s)' = age'[flow_ram[w][s].key]
<1> DEFINE f == flow_ram[w][s].key
           last == flow_ram[w][s].last_seen
<1>1. f \in Flow /\ last \in Now /\ now \in Now
  BY EntryFields DEF Inv, TypeOK
<1>2. age'[f] = age[f] + 1 /\ age[f] \in 1 .. NowSpace
  BY <1>1, TickAges DEF Inv, TypeOK
<1>3. NowSpace \in Nat
  BY FlowTableAssumption
<1>4. idle(w, s) = age[f]
  BY <1>1, <1>2, <1>3 DEF Inv, AgesAgree
<1>5. now' = IF now = NowSpace - 1 THEN 0 ELSE now + 1
  BY DEF Tick, NextNow
<1>6. idle(w, s) = IF last <= now THEN now - last ELSE now - last + NowSpace
  BY DEF idle
<1>7. idle(w, s)' = IF last <= now' THEN now' - last ELSE now' - last + NowSpace
  BY DEF idle
<1>8. idle(w, s) + 1 < NowSpace
  BY <1>2, <1>4
<1> HIDE DEF f, last
<1>9. (IF last <= now' THEN now' - last ELSE now' - last + NowSpace) = idle(w, s) + 1
  BY <1>1, <1>5, <1>6, <1>8, IdleGrows
<1> QED BY <1>2, <1>4, <1>7, <1>9 DEF f
(* Putting flow f, newly counted c, into a way of its set when no other way   *)
(* of the set holds f: what a hit, an expired hit and a miss have in common.  *)
LEMMA UpdateInv ==
  ASSUME Inv, NEW f \in Flow, NEW w \in Way, NEW c \in 1 .. MaxCount,
         Put({w}, set_idx[f], Entry(f, c)),
         \A w2 \in Way \ {w} : ~way_hit(w2, f),
         seen' = [seen EXCEPT ![f] = c], Tick({f}), lru' \in [Way -> {0, 1}]
  PROVE  Inv'
<1> DEFINE s == set_idx[f]
           e == Entry(f, c)
<1>0. /\ s \in Set /\ TypeOK /\ now \in Now /\ NowSpace \in Nat /\ NowSpace > 1
  BY SetOfFlow, FlowTableAssumption DEF Inv, TypeOK
<1>1. /\ e \in EntryType /\ e.valid /\ e.key = f /\ e.packet_count = c
      /\ e.last_seen = now
  <2>1. e = [valid |-> TRUE, key |-> f, packet_count |-> c, last_seen |-> now]
    BY DEF Entry
  <2> HIDE DEF e
  <2> QED BY <1>0, <2>1 DEF EntryType
<1>2. /\ flow_ram'[w][s] = e
      /\ \A w2 \in Way, s2 \in Set :
           w2 # w \/ s2 # s => flow_ram'[w2][s2] = flow_ram[w2][s2]
  BY <1>0, AfterPut
<1> HIDE DEF e
<1>3. ASSUME NEW w2 \in Way, NEW s2 \in Set, w2 # w \/ s2 # s,
             flow_ram'[w2][s2].valid
      PROVE  /\ flow_ram'[w2][s2] = flow_ram[w2][s2]
             /\ flow_ram[w2][s2].valid
             /\ flow_ram[w2][s2].key \in Flow \ {f}
             /\ set_idx[flow_ram[w2][s2].key] = s2
  <2>1. flow_ram'[w2][s2] = flow_ram[w2][s2] /\ flow_ram[w2][s2].valid
    BY <1>2, <1>3
  <2>2. flow_ram[w2][s2].key \in Flow /\ set_idx[flow_ram[w2][s2].key] = s2
    BY <1>0, <2>1, EntryFields DEF Inv, OneEntryPerFlow
  <2>3. flow_ram[w2][s2].key # f
    <3>1. CASE s2 # s
      BY <2>2, <3>1
    <3>2. CASE s2 = s /\ w2 # w
      BY <2>1, <3>2 DEF way_hit
    <3> QED BY <1>3, <3>1, <3>2
  <2> QED BY <2>1, <2>2, <2>3
<1>4. TypeOK'
  <2>1. flow_ram' \in [Way -> [Set -> EntryType \cup {Invalid}]]
    BY <1>0, <1>1, PutType DEF e
  <2>2. seen' \in [Flow -> 0 .. MaxCount]
    BY <1>0, FlowTableAssumption DEF TypeOK
  <2>3. now' \in Now /\ age' \in [Flow -> 1 .. NowSpace]
    BY <1>0, TickAges
  <2> QED BY <2>1, <2>2, <2>3 DEF TypeOK
<1>5. OneEntryPerFlow'
  <2> SUFFICES ASSUME NEW w1 \in Way, NEW s1 \in Set, flow_ram'[w1][s1].valid
               PROVE  /\ set_idx[flow_ram'[w1][s1].key] = s1
                      /\ \A w2 \in Way \ {w1} :
                           ~(/\ flow_ram'[w2][s1].valid
                             /\ flow_ram'[w2][s1].key = flow_ram'[w1][s1].key)
    BY DEF OneEntryPerFlow
  <2>1. CASE w1 = w /\ s1 = s
    BY <1>1, <1>2, <1>3, <2>1
  <2>2. CASE w1 # w \/ s1 # s
    <3>1. /\ flow_ram'[w1][s1] = flow_ram[w1][s1] /\ flow_ram[w1][s1].valid
          /\ flow_ram[w1][s1].key # f /\ set_idx[flow_ram[w1][s1].key] = s1
      BY <1>3, <2>2
    <3>2. ASSUME NEW w2 \in Way \ {w1}, flow_ram'[w2][s1].valid
          PROVE  flow_ram'[w2][s1].key # flow_ram[w1][s1].key
      <4>1. CASE w2 = w /\ s1 = s
        BY <1>1, <1>2, <3>1, <4>1
      <4>2. CASE w2 # w \/ s1 # s
        BY <1>3, <3>1, <3>2, <4>2 DEF Inv, OneEntryPerFlow
      <4> QED BY <4>1, <4>2
    <3> QED BY <3>1, <3>2
  <2> QED BY <2>1, <2>2
<1>6. CountsItsFlow'
  <2> SUFFICES ASSUME NEW w1 \in Way, NEW s1 \in Set, flow_ram'[w1][s1].valid
               PROVE  flow_ram'[w1][s1].packet_count = seen'[flow_ram'[w1][s1].key]
    BY DEF CountsItsFlow
  <2>1. CASE w1 = w /\ s1 = s
    BY <1>0, <1>1, <1>2, <2>1 DEF TypeOK
  <2>2. CASE w1 # w \/ s1 # s
    BY <1>0, <1>3, <2>2 DEF TypeOK, Inv, CountsItsFlow
  <2> QED BY <2>1, <2>2
<1>7. AgesAgree'
  <2> SUFFICES ASSUME NEW w1 \in Way, NEW s1 \in Set, flow_ram'[w1][s1].valid,
                      age'[flow_ram'[w1][s1].key] < NowSpace
               PROVE  idle(w1, s1)' = age'[flow_ram'[w1][s1].key]
    BY DEF AgesAgree
  <2>1. CASE w1 = w /\ s1 = s
    <3>1. age'[f] = 1
      BY <1>0, TickAges
    <3>2. idle(w1, s1)' = IF now <= now' THEN now' - now ELSE now' - now + NowSpace
      BY <1>1, <1>2, <2>1 DEF idle
    <3>3. now' = IF now = NowSpace - 1 THEN 0 ELSE now + 1
      BY DEF Tick, NextNow
    <3>4. idle(w1, s1)' = 1
      BY <1>0, <3>2, <3>3 DEF Now
    <3> QED BY <1>1, <1>2, <2>1, <3>1, <3>4
  <2>2. CASE w1 # w \/ s1 # s
    BY <1>3, <2>2, AgeKept
  <2> QED BY <2>1, <2>2
<1> QED BY <1>4, <1>5, <1>6, <1>7 DEF Inv

(* A hit or expired entry is the only one of its flow in the set.             *)
LEMMA HitIsUnique ==
  ASSUME Inv, NEW f \in Flow, NEW w \in Way, way_hit(w, f)
  PROVE  \A w2 \in Way \ {w} : ~way_hit(w2, f)
BY SetOfFlow DEF Inv, OneEntryPerFlow, way_hit

(* So the loops over the ways write one, a hit adds to that one's own count,  *)
(* and the lru bit is that one's.                                             *)
LEMMA OneWayWritten ==
  ASSUME Inv, NEW f \in Flow, NEW w \in Way, way_hit(w, f)
  PROVE  /\ KeyWays(f) = {w}
         /\ way_valid(w, set_idx[f]) => HitWays(f) = {w}
         /\ hit_pkt_cnt(f) = flow_ram[w][set_idx[f]].packet_count
         /\ LastOf({w}) = w
<1>1. \A w2 \in Way : way_hit(w2, f) => w2 = w
  BY HitIsUnique
<1>2. KeyWays(f) = {w}
  BY <1>1 DEF KeyWays
<1>3. way_valid(w, set_idx[f]) => HitWays(f) = {w}
  BY <1>1 DEF HitWays
<1>4. way_hit(0, f) <=> w = 0
  BY <1>1, WayIsTwo
<1>5. w = IF way_hit(0, f) THEN 0 ELSE 1
  BY <1>4, WayIsTwo
<1> QED BY <1>2, <1>3, <1>5, WayIsTwo DEF hit_pkt_cnt, LastOf

LEMMA LruType ==
  ASSUME TypeOK, NEW s \in Set, NEW b \in {0, 1}, SetLru(s, b)
  PROVE  lru' \in [Way -> {0, 1}]
BY DEF TypeOK, SetLru

LEMMA LruBit == ASSUME TypeOK, NEW s \in Set
                PROVE  lru_bit(s) \in {0, 1} /\ victim(s) \in Way
BY WayIsTwo, FlowTableAssumption DEF TypeOK, lru_bit, victim, Set, NUM_WAYS

LEMMA NextInv == Inv /\ [Next]_vars => Inv'
<1> SUFFICES ASSUME Inv, [Next]_vars PROVE Inv'
  OBVIOUS
<1>0. TypeOK /\ MaxCount \in Nat /\ MaxCount > 0
  BY FlowTableAssumption DEF Inv
<1>1. ASSUME NEW f \in Flow, Hit(f) PROVE Inv'
  <2>1. PICK w \in Way : way_hit(w, f) /\ way_valid(w, set_idx[f])
    BY <1>1 DEF Hit, flow_hit
  <2>2. /\ HitWays(f) = {w} /\ LastOf({w}) = w
        /\ hit_pkt_cnt(f) = flow_ram[w][set_idx[f]].packet_count
    BY <2>1, OneWayWritten
  <2>3. hit_pkt_cnt(f) = seen[f]
    BY <2>1, <2>2, SetOfFlow DEF Inv, CountsItsFlow, way_hit
  <2>4. seen[f] + 1 \in 1 .. MaxCount
    BY <1>0, <1>1 DEF Hit, TypeOK
  <2>5. seen' = [seen EXCEPT ![f] = seen[f] + 1] /\ Tick({f})
    BY <1>1 DEF Hit
  <2>6. Put({w}, set_idx[f], Entry(f, seen[f] + 1)) /\ SetLru(set_idx[f], 1 - w)
    BY <1>1, <2>2, <2>3 DEF Hit, Rewrite
  <2>7. lru' \in [Way -> {0, 1}]
    BY <1>0, <2>6, SetOfFlow, WayIsTwo, LruType
  <2> QED BY <2>1, <2>4, <2>5, <2>6, <2>7, HitIsUnique, UpdateInv
<1>2. ASSUME NEW f \in Flow, ExpiredHit(f) PROVE Inv'
  <2>1. PICK w \in Way : way_hit(w, f)
    BY <1>2 DEF ExpiredHit, expired_hit
  <2>2. KeyWays(f) = {w} /\ LastOf({w}) = w
    BY <2>1, OneWayWritten
  <2>3. /\ Put({w}, set_idx[f], Entry(f, 1)) /\ SetLru(set_idx[f], 1 - w)
        /\ seen' = [seen EXCEPT ![f] = 1] /\ Tick({f})
    BY <1>2, <2>2 DEF ExpiredHit, Rewrite
  <2>4. lru' \in [Way -> {0, 1}]
    BY <1>0, <2>3, SetOfFlow, WayIsTwo, LruType
  <2>5. 1 \in 1 .. MaxCount
    BY <1>0
  <2> QED BY <2>1, <2>3, <2>4, <2>5, HitIsUnique, UpdateInv
<1>3. ASSUME NEW f \in Flow, Miss(f) PROVE Inv'
  <2> DEFINE w == victim(set_idx[f])
  <2>1. /\ Put({w}, set_idx[f], Entry(f, 1))
        /\ SetLru(set_idx[f], 1 - lru_bit(set_idx[f]))
        /\ seen' = [seen EXCEPT ![f] = 1] /\ Tick({f})
    BY <1>3 DEF Miss
  <2>2. \A w2 \in Way \ {w} : ~way_hit(w2, f)
    BY <1>3 DEF Miss, flow_hit, expired_hit
  <2>3. w \in Way /\ lru_bit(set_idx[f]) \in {0, 1}
    BY <1>0, SetOfFlow, LruBit
  <2>4. lru' \in [Way -> {0, 1}]
    BY <1>0, <2>1, <2>3, SetOfFlow, LruType
  <2>5. 1 \in 1 .. MaxCount
    BY <1>0
  <2> HIDE DEF w
  <2> QED BY <2>1, <2>2, <2>3, <2>4, <2>5, UpdateInv
<1>4. CASE NoUpdate
  <2>1. flow_ram' = flow_ram /\ lru' = lru /\ seen' = seen /\ Tick({})
    BY <1>4 DEF NoUpdate
  <2>2. TypeOK'
    BY <1>0, <2>1, TickAges DEF TypeOK
  <2>3. OneEntryPerFlow' /\ CountsItsFlow'
    BY <2>1 DEF Inv, OneEntryPerFlow, CountsItsFlow
  <2>4. AgesAgree'
    BY <2>1, AgeKept DEF AgesAgree
  <2> QED BY <2>2, <2>3, <2>4 DEF Inv
<1>5. CASE Reset
  <2>1. /\ flow_ram' = EmptyTable /\ lru' = [s \in Way |-> 0] /\ now' = 0
        /\ seen' = [f \in Flow |-> 0] /\ age' = [f \in Flow |-> NowSpace]
    BY <1>5 DEF Reset
  <2>2. TypeOK'
    BY <2>1, FlowTableAssumption DEF TypeOK, EmptyTable, Now
  <2>3. \A w \in Way, s \in Set : ~flow_ram'[w][s].valid
    <3>1. \A w \in Way, s \in Set : flow_ram'[w][s] = Invalid
      BY <2>1 DEF EmptyTable
    <3>2. ~Invalid.valid
      BY DEF Invalid
    <3> QED BY <3>1, <3>2
  <2> QED BY <2>2, <2>3 DEF Inv, OneEntryPerFlow, CountsItsFlow, AgesAgree
<1>6. CASE UNCHANGED vars
  BY <1>6 DEF vars, Inv, TypeOK, OneEntryPerFlow, CountsItsFlow, AgesAgree, idle
<1> QED BY <1>1, <1>2, <1>3, <1>4, <1>5, <1>6 DEF Next

LEMMA InitInv == Init => Inv
<1> SUFFICES ASSUME Init PROVE Inv
  OBVIOUS
<1>1. TypeOK
  BY FlowTableAssumption DEF Init, TypeOK, EmptyTable, Now
<1>2. \A w \in Way, s \in Set : ~flow_ram[w][s].valid
  <2>1. \A w \in Way, s \in Set : flow_ram[w][s] = Invalid
    BY DEF Init, EmptyTable
  <2>2. ~Invalid.valid
    BY DEF Invalid
  <2> QED BY <2>1, <2>2
<1> QED BY <1>1, <1>2 DEF Inv, OneEntryPerFlow, CountsItsFlow, AgesAgree

(* The inductive invariant of FlowTable holds in every reachable state.       *)
THEOREM Invariance == Spec => []Inv
<1> QED BY InitInv, NextInv, PTL DEF Spec

(* Entries, lru bits, cycle counter and history stay within their widths.     *)
THEOREM TypeCorrect == Spec => []TypeOK
<1>1. Inv => TypeOK
  BY DEF Inv
<1> QED BY <1>1, Invariance, PTL

(* A lookup finds at most one entry of a flow, in the set it hashes to.       *)
THEOREM LookupUnambiguous == Spec => []OneEntryPerFlow
<1>1. Inv => OneEntryPerFlow
  BY DEF Inv
<1> QED BY <1>1, Invariance, PTL

(* An entry's counter is its own flow's, whatever was evicted or expired: the *)
(* count a hit adds to is read from the way that is written, although it is   *)
(* selected by way 0's key alone, because no flow is ever in both ways.       *)
THEOREM CountsAttributed == Spec => []CountsItsFlow
<1>1. Inv => CountsItsFlow
  BY DEF Inv
<1> QED BY <1>1, Invariance, PTL

(* The idle timeout is exact across the wrap of the cycle counter, for a flow *)
(* seen within one period of the counter.                                     *)
THEOREM TimeoutExact == Spec => []LiveIffRecent
<1>1. Inv => LiveIffRecent
  BY DEF Inv, AgesAgree, LiveIffRecent, way_valid
<1> QED BY <1>1, Invariance, PTL

-----------------------------------------------------------------------------
(* Which way a miss takes.                                                    *)
VictimIs(s) ==
  IF s < NUM_WAYS
  THEN CASE touched[s].how = "hit"  -> victim(s) = touched[s].way
         [] touched[s].how = "miss" -> victim(s) = 1 - touched[s].way
         [] OTHER -> victim(s) = 1
  ELSE victim(s) = 1 /\ ~flow_ram[0][s].valid

VictimInv == /\ touched \in [Set -> [way : Way, how : {"hit", "miss", "never"}]]
             /\ \A s \in Set : VictimIs(s)

(* The bit of one set is written, that of the others stays.                   *)
LEMMA AfterSetLru ==
  ASSUME TypeOK, NEW s \in Set, NEW bit \in {0, 1}, SetLru(s, bit)
  PROVE  /\ lru_bit(s)' = IF s < NUM_WAYS THEN bit ELSE 0
         /\ \A s2 \in Set \ {s} : lru_bit(s2)' = lru_bit(s2)
<1>1. lru \in [Way -> {0, 1}] /\ Set \subseteq Nat
  BY FlowTableAssumption DEF TypeOK, Set
<1>2. \A s2 \in Set : s2 < NUM_WAYS => s2 \in Way
  BY <1>1, WayIsTwo DEF NUM_WAYS
<1>3. CASE s < NUM_WAYS
  <2>1. lru' = [lru EXCEPT ![s] = bit] /\ s \in Way
    BY <1>2, <1>3 DEF SetLru
  <2> QED BY <1>1, <1>2, <1>3, <2>1 DEF lru_bit
<1>4. CASE ~(s < NUM_WAYS)
  <2>1. lru' = lru
    BY <1>4 DEF SetLru
  <2> QED BY <1>4, <2>1 DEF lru_bit
<1> QED BY <1>3, <1>4

LEMMA VictimStep ==
  ASSUME TypeOK, VictimInv, NEW s \in Set, NEW w \in Way, NEW e, NEW bit \in {0, 1},
         Put({w}, s, e), SetLru(s, bit), NEW how \in {"hit", "miss"}, Touch(w, s, how),
         how = "hit" => bit = 1 - w /\ flow_ram[w][s].valid,
         how = "miss" => bit = 1 - lru_bit(s) /\ w = victim(s)
  PROVE  VictimInv'
<1>0. \A w2 \in Way, s2 \in Set :
        w2 # w \/ s2 # s => flow_ram'[w2][s2] = flow_ram[w2][s2]
  BY AfterPut
<1>1. /\ touched' = [touched EXCEPT ![s] = [way |-> w, how |-> how]]
      /\ touched \in [Set -> [way : Way, how : {"hit", "miss", "never"}]]
  BY DEF Touch, VictimInv
<1>2. /\ touched' \in [Set -> [way : Way, how : {"hit", "miss", "never"}]]
      /\ touched'[s].way = w /\ touched'[s].how = how
      /\ \A s2 \in Set \ {s} : touched'[s2] = touched[s2]
  BY <1>1
<1>3. w \in {0, 1} /\ 0 \in Way
  BY WayIsTwo
<1>4. VictimIs(s)'
  <2>1. lru_bit(s)' = IF s < NUM_WAYS THEN bit ELSE 0
    BY AfterSetLru
  <2>2. victim(s)' = IF lru_bit(s)' = 1 THEN 0 ELSE 1
    BY DEF victim
  <2>3. victim(s) = (IF lru_bit(s) = 1 THEN 0 ELSE 1) /\ lru_bit(s) \in {0, 1}
    BY LruBit DEF victim
  <2>4. CASE s < NUM_WAYS
    <3>1. how = "hit" => victim(s)' = w
      BY <1>3, <2>1, <2>2, <2>4
    <3>2. how = "miss" => victim(s)' = 1 - w
      BY <1>3, <2>1, <2>2, <2>3, <2>4
    <3> QED BY <1>2, <2>4, <3>1, <3>2 DEF VictimIs
  <2>5. CASE ~(s < NUM_WAYS)
    <3>1. victim(s) = 1 /\ ~flow_ram[0][s].valid /\ victim(s)' = 1
      BY <2>1, <2>2, <2>5 DEF VictimInv, VictimIs
    <3>2. w # 0
      BY <3>1
    <3>3. flow_ram'[0][s] = flow_ram[0][s]
      BY <1>0, <1>3, <3>2
    <3> QED BY <2>5, <3>1, <3>3 DEF VictimIs
  <2> QED BY <2>4, <2>5
<1>5. ASSUME NEW s2 \in Set \ {s} PROVE VictimIs(s2)'
  <2>1. lru_bit(s2)' = lru_bit(s2) /\ flow_ram'[0][s2] = flow_ram[0][s2]
    <3>1. lru_bit(s2)' = lru_bit(s2)
      BY AfterSetLru
    <3> QED BY <1>0, <1>3, <3>1
  <2>2. victim(s2)' = victim(s2)
    BY <2>1 DEF victim
  <2>3. VictimIs(s2)
    BY DEF VictimInv
  <2> QED BY <1>2, <2>1, <2>2, <2>3 DEF VictimIs
<1> QED BY <1>2, <1>4, <1>5 DEF VictimInv

LEMMA VictimAtStart ==
  ASSUME flow_ram = EmptyTable, lru = [s \in Way |-> 0],
         touched = [s \in Set |-> [way |-> 0, how |-> "never"]]
  PROVE  VictimInv
<1>1. 0 \in Way /\ Set \subseteq Nat
  BY WayIsTwo, FlowTableAssumption DEF Set
<1>2. ASSUME NEW s \in Set PROVE VictimIs(s)
  <2>1. lru_bit(s) = 0
    BY <1>1, WayIsTwo DEF lru_bit, NUM_WAYS
  <2>2. ~flow_ram[0][s].valid
    BY <1>1 DEF EmptyTable, Invalid
  <2>3. touched[s].how = "never"
    OBVIOUS
  <2> QED BY <2>1, <2>2, <2>3 DEF VictimIs, victim
<1> QED BY <1>1, <1>2 DEF VictimInv

LEMMA VictimInductive == Inv /\ VictimInv /\ [Next]_vars => VictimInv'
<1> SUFFICES ASSUME Inv, VictimInv, [Next]_vars PROVE VictimInv'
  OBVIOUS
<1>0. TypeOK
  BY DEF Inv
<1>1. ASSUME NEW f \in Flow, Hit(f) \/ ExpiredHit(f) PROVE VictimInv'
  <2>1. PICK w \in Way : /\ way_hit(w, f)
                         /\ Hit(f) => way_valid(w, set_idx[f])
    BY <1>1 DEF Hit, flow_hit, ExpiredHit, expired_hit
  <2>2. PICK e : /\ Put({w}, set_idx[f], e)
                 /\ SetLru(set_idx[f], 1 - w) /\ Touch(w, set_idx[f], "hit")
    <3>1. /\ KeyWays(f) = {w} /\ LastOf({w}) = w
          /\ Hit(f) => HitWays(f) = {w}
      BY <2>1, OneWayWritten
    <3>2. CASE Hit(f)
      BY <3>1, <3>2 DEF Hit, Rewrite
    <3>3. CASE ExpiredHit(f)
      BY <3>1, <3>3 DEF ExpiredHit, Rewrite
    <3> QED BY <1>1, <3>2, <3>3
  <2>3. 1 - w \in {0, 1} /\ flow_ram[w][set_idx[f]].valid
    BY <2>1, WayIsTwo DEF way_hit
  <2> QED BY <1>0, <2>2, <2>3, SetOfFlow, VictimStep
<1>2. ASSUME NEW f \in Flow, Miss(f) PROVE VictimInv'
  <2> DEFINE s == set_idx[f]
  <2>1. /\ Put({victim(s)}, s, Entry(f, 1)) /\ SetLru(s, 1 - lru_bit(s))
        /\ Touch(victim(s), s, "miss")
    BY <1>2 DEF Miss
  <2>2. s \in Set /\ victim(s) \in Way /\ 1 - lru_bit(s) \in {0, 1}
    BY <1>0, SetOfFlow, LruBit
  <2> HIDE DEF s
  <2> QED BY <1>0, <2>1, <2>2, VictimStep
<1>3. CASE NoUpdate
  BY <1>3 DEF NoUpdate, VictimInv, VictimIs, victim, lru_bit
<1>4. CASE Reset
  <2>1. (flow_ram = EmptyTable /\ lru = [s \in Way |-> 0]
           /\ touched = [s \in Set |-> [way |-> 0, how |-> "never"]])' => VictimInv'
    BY VictimAtStart, PTL
  <2> QED BY <1>4, <2>1 DEF Reset, EmptyTable
<1>5. CASE UNCHANGED vars
  BY <1>5 DEF vars, VictimInv, VictimIs, victim, lru_bit
<1> QED BY <1>1, <1>2, <1>3, <1>4, <1>5 DEF Next

(* A miss takes the way last hit, or, after another miss, the other one; in a *)
(* set without an lru bit it always takes way 1, whose fellow stays empty.    *)
THEOREM MissVictim == Spec => []MissTakesLastHit
<1>1. Init => Inv /\ VictimInv
  BY InitInv, VictimAtStart DEF Init
<1>2. VictimInv => MissTakesLastHit
  BY DEF VictimInv, VictimIs, MissTakesLastHit
<1> QED BY <1>1, <1>2, NextInv, VictimInductive, PTL DEF Spec
=============================================================================
