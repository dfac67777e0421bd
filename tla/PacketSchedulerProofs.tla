----------------------- MODULE PacketSchedulerProofs -----------------------
(* Proofs about packet_scheduler, for every depth of its queues, every class  *)
(* assignment the source makes and every mode and set of weights.             *)
EXTENDS PacketScheduler, TLAPS

LEMMA MinOfSmallSet ==
  ASSUME NEW S \in SUBSET (0 .. 3), S # {}
  PROVE  Min(S) \in S /\ \A y \in S : Min(S) <= y
<1>1. \E x \in S : \A y \in S : x <= y
  <2>1. CASE 0 \in S
    BY <2>1
  <2>2. CASE 0 \notin S /\ 1 \in S
    BY <2>2
  <2>3. CASE 0 \notin S /\ 1 \notin S /\ 2 \in S
    BY <2>3
  <2>4. CASE 0 \notin S /\ 1 \notin S /\ 2 \notin S
    <3>1. \A y \in S : y = 3
      BY <2>4
    <3>2. PICK x \in S : TRUE
      OBVIOUS
    <3>3. \A y \in S : x <= y
      BY <3>1, <3>2
    <3> QED BY <3>3
  <2> QED BY <2>1, <2>2, <2>3, <2>4
<1> QED BY <1>1 DEF Min

LEMMA QueueIsRange == Queue = 0 .. 2
BY DEF Queue, Q_HIGH, Q_MED, Q_LOW

LEMMA WeightType == ASSUME cfg \in Configs
                    PROVE  \A q \in Queue : weight(q) \in 0 .. 255
BY ConfigAssumption DEF weight

(* The strict arbiter chooses the highest queue that holds a beat.            *)
LEMMA StrictChoice ==
  ASSUME arb_state \in Queue
  PROVE  /\ strict_next \in Queue
         /\ \A q \in Queue : arb_ready(q) => /\ strict_next <= q
                                             /\ arb_ready(strict_next)
<1> DEFINE R == {q \in Queue : arb_ready(q)}
<1>1. CASE \A q \in Queue : ~arb_ready(q)
  BY <1>1 DEF strict_next
<1>2. CASE ~(\A q \in Queue : ~arb_ready(q))
  <2>1. R \in SUBSET (0 .. 3) /\ R # {}
    BY <1>2, QueueIsRange
  <2>2. strict_next = Min(R)
    BY <1>2 DEF strict_next
  <2>3. Min(R) \in R /\ \A y \in R : Min(R) <= y
    BY <2>1, MinOfSmallSet
  <2> QED BY <2>2, <2>3
<1> QED BY <1>1, <1>2

(* The round robin finds a queue with a beat and a weight whenever there is   *)
(* one.                                                                       *)
LEMMA RoundRobinChoice ==
  ASSUME arb_state \in Queue
  PROVE  /\ round_robin \in Queue
         /\ (\E q \in Queue : arb_ready(q) /\ weight(q) # 0)
              => arb_ready(round_robin)
<1> DEFINE T == {i \in 1 .. 3 : LET q == (arb_state + i) % 3
                                IN  arb_ready(q) /\ weight(q) # 0}
<1>1. CASE T = {}
  <2>1. round_robin = arb_state
    BY <1>1 DEF round_robin
  <2>2. ASSUME NEW q \in Queue, arb_ready(q), weight(q) # 0 PROVE FALSE
    <3>1. PICK i \in 1 .. 3 : (arb_state + i) % 3 = q
      <4>1. arb_state \in 0 .. 2 /\ q \in 0 .. 2
        BY QueueIsRange
      <4> QED BY <4>1
    <3> QED BY <1>1, <2>2, <3>1
  <2> QED BY <2>1, <2>2
<1>2. CASE T # {}
  <2>1. T \in SUBSET (0 .. 3)
    OBVIOUS
  <2>2. round_robin = (arb_state + Min(T)) % 3
    BY <1>2 DEF round_robin
  <2>3. Min(T) \in T
    BY <1>2, <2>1, MinOfSmallSet
  <2>4. arb_ready(round_robin)
    BY <2>2, <2>3
  <2>5. round_robin \in Queue
    BY <2>2, <2>3, QueueIsRange
  <2> QED BY <2>4, <2>5
<1> QED BY <1>1, <1>2

LEMMA ArbNextType == ASSUME arb_state \in Queue PROVE arb_next \in Queue
BY StrictChoice, RoundRobinChoice DEF arb_next

-----------------------------------------------------------------------------
(* One edge keeps every register in its range: a queue is pushed only below   *)
(* its depth and popped only when it holds a beat.                            *)
LEMMA ClockType ==
  ASSUME TypeOK, NEW class \in Classes \cup {NoBeat}, NEW m_tready \in BOOLEAN,
         Clock(class, m_tready)
  PROVE  TypeOK'
<1>1. cfg' = cfg /\ cfg \in Configs /\ arb_state \in Queue /\ FIFO_DEPTH \in Nat
  BY ConfigAssumption DEF TypeOK, Clock
<1>2. used' \in [Queue -> 0 .. FIFO_DEPTH]
  <2>1. ASSUME NEW q \in Queue
        PROVE  used[q] + (IF Pushed(class, q) THEN 1 ELSE 0)
                       - (IF Popped(q, m_tready) THEN 1 ELSE 0) \in 0 .. FIFO_DEPTH
    <3>1. used[q] \in 0 .. FIFO_DEPTH
      BY DEF TypeOK
    <3>2. Pushed(class, q) => used[q] < FIFO_DEPTH
      BY DEF Pushed, s_tready
    <3>3. Popped(q, m_tready) => used[q] > 0
      BY DEF Popped, m_tvalid, arb_ready
    <3> QED BY <1>1, <3>1, <3>2, <3>3
  <2> QED BY <2>1 DEF Clock
<1>3. arb_state' \in Queue
  BY <1>1, ArbNextType DEF Clock
<1>4. ASSUME NEW q \in Queue
      PROVE  /\ wrr_count'[q] \in 0 .. 255
             /\ wrr_count'[q] < weight(q) \/ wrr_count'[q] = 0
  <2>1. wrr_count'[q] = WrrCountNext(q, m_tready)
    BY DEF Clock
  <2>2. wrr_count[q] \in 0 .. 255 /\ weight(q) \in 0 .. 255
    BY <1>1, WeightType DEF TypeOK
  <2>3. wrr_count[q] < weight(q) \/ wrr_count[q] = 0
    BY DEF TypeOK
  <2>4. CASE ~Popped(q, m_tready) \/ cfg.SCHED_MODE = STRICT
    <3>1. wrr_count'[q] = wrr_count[q]
      BY <2>1, <2>4, Zenon DEF WrrCountNext
    <3> QED BY <2>2, <2>3, <3>1
  <2>5. CASE ~(~Popped(q, m_tready) \/ cfg.SCHED_MODE = STRICT)
    <3>1. wrr_count'[q] = IF wrr_count[q] + 1 >= weight(q) THEN 0 ELSE wrr_count[q] + 1
      BY <2>1, <2>5, Zenon DEF WrrCountNext
    (* a credit counter restarts before it reaches the weight *)
    <3>2. wrr_count'[q] \in 0 .. 255 /\ (wrr_count'[q] < weight(q) \/ wrr_count'[q] = 0)
      <4> DEFINE c == wrr_count[q]
                 w == weight(q)
                 n == wrr_count'[q]
      <4>1. c \in 0 .. 255 /\ w \in 0 .. 255
        BY <2>2
      <4>2. n = IF c + 1 >= w THEN 0 ELSE c + 1
        BY <3>1
      <4> HIDE DEF c, w, n
      <4>3. n \in 0 .. 255 /\ (n < w \/ n = 0)
        BY <4>1, <4>2
      <4> QED BY <4>3 DEF c, w, n
    <3> QED BY <3>2
  <2> QED BY <2>4, <2>5, Zenon
<1>5. wrr_count' \in [Queue -> 0 .. 255]
  <2>1. wrr_count' = [q \in Queue |-> WrrCountNext(q, m_tready)]
    BY DEF Clock
  <2> QED BY <1>4, <2>1
<1>6. \A q \in Queue : (wrr_count[q] < weight(q) \/ wrr_count[q] = 0)'
  BY <1>1, <1>4 DEF weight
<1>7. offer' \in Classes \cup {NoBeat}
  BY DEF Clock
<1>8. overtaken' \in [Queue -> 0 .. 2]
  <2>1. ASSUME NEW q \in Queue
        PROVE  Min({overtaken[q] + 1, 2}) \in 0 .. 2 /\ overtaken[q] \in 0 .. 2
    <3>1. overtaken[q] \in 0 .. 2
      BY DEF TypeOK
    <3>2. {overtaken[q] + 1, 2} \in SUBSET (0 .. 3) /\ {overtaken[q] + 1, 2} # {}
      BY <3>1
    <3>3. /\ Min({overtaken[q] + 1, 2}) \in {overtaken[q] + 1, 2}
          /\ Min({overtaken[q] + 1, 2}) <= 2
      BY <3>2, MinOfSmallSet
    <3> QED BY <3>1, <3>3
  <2> QED BY <2>1 DEF Clock
<1>9. bubbled' \in BOOLEAN
  <2>1. bubbled' = (~m_tvalid /\ \E q \in Queue : arb_ready(q) /\ Served(q))
    BY DEF Clock
  <2> QED BY <2>1, Zenon
<1> QED BY <1>1, <1>2, <1>3, <1>5, <1>6, <1>7, <1>8, <1>9 DEF TypeOK
(* Strict mode: a beat of lower priority passes only on the edge that also    *)
(* redirects the arbiter, so the overtaken queue is never passed again.       *)
LEMMA ClockOvertaken ==
  ASSUME Inv, NEW class \in Classes \cup {NoBeat}, NEW m_tready \in BOOLEAN,
         Clock(class, m_tready), cfg.SCHED_MODE = STRICT, NEW q \in Queue
  PROVE  /\ overtaken'[q] <= 1
         /\ overtaken'[q] >= 1 => arb_state' <= q /\ used'[q] > 0
<1>1. /\ arb_state \in Queue /\ overtaken[q] \in 0 .. 2 /\ overtaken[q] <= 1
      /\ used[q] \in 0 .. FIFO_DEPTH /\ q \in 0 .. 2 /\ arb_state \in 0 .. 2
  BY QueueIsRange DEF Inv, TypeOK, OvertakenAtMostOnce
<1>2. overtaken[q] >= 1 => arb_state <= q
  BY DEF Inv, OvertakenIsNext
<1>3. arb_state' = strict_next
  BY DEF Clock, arb_next
<1>4. overtaken'[q] = IF ~arb_ready(q) \/ Popped(q, m_tready) THEN 0
                      ELSE IF arb_state > q /\ Popped(arb_state, m_tready)
                      THEN Min({overtaken[q] + 1, 2})
                      ELSE overtaken[q]
  BY DEF Clock
<1>5. CASE ~arb_ready(q) \/ Popped(q, m_tready)
  <2>1. overtaken'[q] = 0
    BY <1>4, <1>5, Zenon
  <2> QED BY <2>1
<1>6. CASE arb_ready(q) /\ ~Popped(q, m_tready)
  <2>1. strict_next <= q
    BY <1>1, <1>6, StrictChoice
  <2>2. used'[q] > 0
    <3>1. used'[q] = used[q] + (IF Pushed(class, q) THEN 1 ELSE 0) - 0
      BY <1>6 DEF Clock
    <3> QED BY <1>1, <1>6, <3>1 DEF arb_ready
  <2>3. overtaken'[q] <= 1
    <3>1. CASE arb_state > q /\ Popped(arb_state, m_tready)
      <4>1. overtaken'[q] = Min({overtaken[q] + 1, 2})
        BY <1>4, <1>6, <3>1, Zenon
      <4>2. overtaken[q] = 0
        BY <1>1, <1>2, <3>1
      <4>3. {overtaken[q] + 1, 2} \in SUBSET (0 .. 3) /\ {overtaken[q] + 1, 2} # {}
        BY <4>2
      <4>4. Min({overtaken[q] + 1, 2}) <= overtaken[q] + 1
        BY <4>3, MinOfSmallSet
      <4> QED BY <4>1, <4>2, <4>4
    <3>2. CASE ~(arb_state > q /\ Popped(arb_state, m_tready))
      <4>1. overtaken'[q] = overtaken[q]
        BY <1>4, <1>6, <3>2, Zenon
      <4> QED BY <1>1, <4>1
    <3> QED BY <3>1, <3>2
  <2> QED BY <1>3, <2>1, <2>2, <2>3
<1> QED BY <1>5, <1>6

(* Both arbiters find a beat that may be served, so one edge without output   *)
(* is followed by one with output.                                            *)
LEMMA ClockBubble ==
  ASSUME Inv, NEW class \in Classes \cup {NoBeat}, NEW m_tready \in BOOLEAN,
         Clock(class, m_tready)
  PROVE  OneBubblePerSwitch'
<1> SUFFICES ASSUME bubbled' PROVE m_tvalid'
  BY DEF OneBubblePerSwitch
<1>1. ~m_tvalid /\ \E q \in Queue : arb_ready(q) /\ Served(q)
  <2>1. bubbled' = (~m_tvalid /\ \E q \in Queue : arb_ready(q) /\ Served(q))
    BY DEF Clock
  <2> QED BY <2>1, Zenon
<1>2. arb_state \in Queue
  BY DEF Inv, TypeOK
<1>3. arb_ready(arb_next)
  <2>1. CASE cfg.SCHED_MODE = STRICT
    BY <1>1, <1>2, <2>1, StrictChoice DEF arb_next
  <2>2. CASE cfg.SCHED_MODE # STRICT
    <3>1. arb_next = round_robin
      BY <1>1, <2>2 DEF arb_next
    <3> QED BY <1>1, <1>2, <2>2, <3>1, RoundRobinChoice DEF Served
  <2> QED BY <2>1, <2>2
<1>4. arb_next \in Queue /\ used[arb_next] \in 0 .. FIFO_DEPTH
  BY <1>2, ArbNextType DEF Inv, TypeOK
<1>5. used'[arb_next] = used[arb_next] + (IF Pushed(class, arb_next) THEN 1 ELSE 0) - 0
  BY <1>1, <1>4 DEF Clock, Popped
<1>6. used'[arb_next] > 0
  BY <1>3, <1>4, <1>5 DEF arb_ready
<1>7. arb_state' = arb_next
  BY DEF Clock
<1> QED BY <1>6, <1>7 DEF m_tvalid, arb_ready

LEMMA NextInv == Inv /\ [Next]_vars => Inv'
<1> SUFFICES ASSUME Inv, [Next]_vars PROVE Inv'
  OBVIOUS
<1>1. ASSUME NEW class \in Classes \cup {NoBeat}, NEW m_tready \in BOOLEAN,
             Clock(class, m_tready)
      PROVE  Inv'
  <2>1. TypeOK'
    BY <1>1, ClockType DEF Inv
  <2>2. OneBubblePerSwitch'
    BY <1>1, ClockBubble
  <2>3. cfg' = cfg
    BY <1>1 DEF Clock
  <2>4. OvertakenAtMostOnce'
    BY <1>1, <2>3, ClockOvertaken DEF OvertakenAtMostOnce
  <2>5. OvertakenIsNext'
    BY <1>1, <2>3, ClockOvertaken DEF OvertakenIsNext, arb_ready
  <2> QED BY <2>1, <2>2, <2>4, <2>5 DEF Inv
<1>2. CASE Reset
  <2>1. /\ cfg' = cfg /\ cfg \in Configs /\ FIFO_DEPTH \in Nat
        /\ used' = [q \in Queue |-> 0] /\ wrr_count' = [q \in Queue |-> 0]
        /\ overtaken' = [q \in Queue |-> 0] /\ arb_state' = 0 /\ offer' = NoBeat
    BY <1>2, ConfigAssumption DEF Reset, Inv, TypeOK, Q_HIGH
  <2>2. bubbled' = FALSE
    BY <1>2 DEF Reset
  <2>3. bubbled' \in BOOLEAN /\ ~bubbled'
    BY <2>2, Zenon
  <2>4. TypeOK'
    BY <2>1, <2>3, QueueIsRange DEF TypeOK
  <2>5. OneBubblePerSwitch'
    BY <2>3 DEF OneBubblePerSwitch
  <2>6. OvertakenAtMostOnce' /\ OvertakenIsNext'
    BY <2>1 DEF OvertakenAtMostOnce, OvertakenIsNext
  <2> QED BY <2>4, <2>5, <2>6 DEF Inv
<1>3. CASE UNCHANGED vars
  BY <1>3 DEF vars, Inv, TypeOK, OvertakenAtMostOnce, OvertakenIsNext,
              OneBubblePerSwitch, arb_ready, m_tvalid, weight
<1> QED BY <1>1, <1>2, <1>3 DEF Next

LEMMA InitInv == Init => Inv
<1> SUFFICES ASSUME Init PROVE Inv
  OBVIOUS
<1>1. /\ cfg \in Configs /\ FIFO_DEPTH \in Nat
      /\ used = [q \in Queue |-> 0] /\ wrr_count = [q \in Queue |-> 0]
      /\ overtaken = [q \in Queue |-> 0] /\ arb_state = 0 /\ offer = NoBeat
  BY ConfigAssumption DEF Init, Q_HIGH
<1>2. bubbled = FALSE
  BY DEF Init
<1>3. bubbled \in BOOLEAN /\ ~bubbled
  BY <1>2, Zenon
<1>4. TypeOK
  BY <1>1, <1>3, QueueIsRange DEF TypeOK
<1>5. OneBubblePerSwitch
  BY <1>3 DEF OneBubblePerSwitch
<1>6. OvertakenAtMostOnce /\ OvertakenIsNext
  BY <1>1 DEF OvertakenAtMostOnce, OvertakenIsNext
<1> QED BY <1>4, <1>5, <1>6 DEF Inv

THEOREM Invariance == Spec => []Inv
<1> QED BY InitInv, NextInv, PTL DEF Spec

(* Registers keep their ranges; no credit counter reaches its weight.         *)
THEOREM TypeCorrect == Spec => []TypeOK
<1>1. Inv => TypeOK
  BY DEF Inv
<1> QED BY <1>1, Invariance, PTL

(* Strict priority costs a waiting beat at most one beat of lower priority,   *)
(* for every depth and traffic (src/docs/verification.md:102).                *)
THEOREM PriorityInversionBounded == Spec => []OvertakenAtMostOnce
<1>1. Inv => OvertakenAtMostOnce
  BY DEF Inv
<1> QED BY <1>1, Invariance, PTL

(* The output is idle at most one edge at a time while a servable beat waits. *)
THEOREM WorkConserving == Spec => []OneBubblePerSwitch
<1>1. Inv => OneBubblePerSwitch
  BY DEF Inv
<1> QED BY <1>1, Invariance, PTL

(* The arbiter leaves a queue only when it is dry or, in strict mode,         *)
(* outranked: in WRR mode no weight ever ends the turn of a backlogged queue. *)
THEOREM TurnsEndDryOrOutranked == Spec => LeavesOnlyWhenDryOrOutranked
<1> DEFINE A == arb_state' # arb_state /\ ~Reset
                  => \/ used[arb_state] = 0
                     \/ cfg.SCHED_MODE = STRICT
                          /\ \E q \in Queue : q < arb_state /\ arb_ready(q)
                     \/ weight(arb_state) = 0
<1>1. Inv /\ [Next]_vars => [A]_vars
  <2> SUFFICES ASSUME Inv, Next, arb_state' # arb_state, ~Reset,
                      used[arb_state] # 0, weight(arb_state) # 0
               PROVE  cfg.SCHED_MODE = STRICT
                        /\ \E q \in Queue : q < arb_state /\ arb_ready(q)
    OBVIOUS
  <2>1. arb_state' = arb_next
    BY DEF Next, Clock
  <2>2. /\ arb_state \in Queue /\ cfg \in Configs
        /\ used[arb_state] \in 0 .. FIFO_DEPTH
        /\ wrr_count[arb_state] < weight(arb_state) \/ wrr_count[arb_state] = 0
    BY DEF Inv, TypeOK
  <2>3. m_tvalid
    BY <2>2 DEF m_tvalid, arb_ready
  <2>4. CASE cfg.SCHED_MODE # STRICT
    <3>1. weight(arb_state) \in 0 .. 255
      BY <2>2, WeightType
    <3>2. wrr_count[arb_state] < weight(arb_state)
      BY <2>2, <3>1
    <3> QED BY <2>1, <2>3, <2>4, <3>2 DEF arb_next
  <2>5. CASE cfg.SCHED_MODE = STRICT
    <3>1. arb_state' = strict_next
      BY <2>1, <2>5 DEF arb_next
    <3>2. strict_next \in Queue /\ strict_next <= arb_state /\ arb_ready(strict_next)
      BY <2>2, <2>3, StrictChoice DEF m_tvalid
    <3> QED BY <2>2, <2>5, <3>1, <3>2, QueueIsRange
  <2> QED BY <2>4, <2>5
<1>2. [][A]_vars <=> LeavesOnlyWhenDryOrOutranked
  BY Zenon DEF LeavesOnlyWhenDryOrOutranked
<1> QED BY <1>1, <1>2, Invariance, PTL DEF Spec
=============================================================================
