-------------------------- MODULE PacketScheduler --------------------------
(* packet_scheduler (src/rtl/schedulers/packet_scheduler.sv): three priority  *)
(* queues, each an axis_fifo, and an arbiter whose choice is registered: the  *)
(* queue read on this edge was chosen on the edge before.                     *)
(*                                                                            *)
(* The arbiter never looks inside a beat and axis_fifo implements a bounded   *)
(* queue (AxisFifoProofs), so a queue is its number of beats.  One step is    *)
(* one rising clock edge.                                                     *)
EXTENDS Integers, FiniteSetsExt

CONSTANTS FIFO_DEPTH,
          Classes,   \* the s_meta.class_id values the source sends
          Configs    \* SCHED_MODE and the weights it may be wired with

Q_HIGH == 0
Q_MED == 1
Q_LOW == 2
Queue == {Q_HIGH, Q_MED, Q_LOW}

STRICT == 0
WRR == 1

(* Parameter and weights do not change while the scheduler runs; weights are  *)
(* eight bits wide.                                                           *)
ASSUME ConfigAssumption ==
  /\ FIFO_DEPTH \in Nat \ {0}
  /\ Classes \subseteq 0 .. 255
  /\ Configs \subseteq [SCHED_MODE : {STRICT, WRR}, wrr_weight : [Queue -> 0 .. 255]]

VARIABLES cfg,        \* the configuration, fixed from the start
          used,       \* beats in each queue
          arb_state,
          wrr_count,
          offer,      \* class of the beat the source was refused, or NoBeat
          overtaken,  \* history: beats of lower priority passed on meanwhile
          bubbled     \* history: the last edge offered nothing though it could

vars == <<cfg, used, arb_state, wrr_count, offer, overtaken, bubbled>>

NoBeat == 256

-----------------------------------------------------------------------------
dest_queue(class) == IF class = 0 THEN Q_LOW
                     ELSE IF class \in {3, 4} THEN Q_HIGH
                     ELSE Q_MED

s_tready(class) == used[dest_queue(class)] < FIFO_DEPTH
Pushed(class, q) == class # NoBeat /\ s_tready(class) /\ dest_queue(class) = q

arb_ready(q) == used[q] > 0
m_tvalid == arb_ready(arb_state)
Popped(q, m_tready) == arb_state = q /\ m_tvalid /\ m_tready

weight(q) == cfg.wrr_weight[q]

(* Strict priority: the highest queue that holds a beat, or no change. *)
BugFinishQueueFirst ==
  IF m_tvalid \/ \A q \in Queue : ~arb_ready(q) THEN arb_state
  ELSE Min({q \in Queue : arb_ready(q)})
strict_next ==
  IF \A q \in Queue : ~arb_ready(q) THEN arb_state
  ELSE Min({q \in Queue : arb_ready(q)})

(* Round robin: the first queue after this one, itself included last, that    *)
(* holds a beat and has a weight, or no change.                               *)
BugRoundRobinSkipsNext ==
  LET turns == {i \in 2 .. 3 : LET q == (arb_state + i) % 3
                               IN  arb_ready(q) /\ weight(q) # 0}
  IN  IF turns = {} THEN arb_state ELSE (arb_state + Min(turns)) % 3
BugRoundRobinGivesUp ==
  LET turns == {i \in 1 .. 3 : arb_ready((arb_state + i) % 3)}
      q == (arb_state + Min(turns)) % 3
  IN  IF turns = {} \/ weight(q) = 0 THEN arb_state ELSE q
round_robin ==
  LET turns == {i \in 1 .. 3 : LET q == (arb_state + i) % 3
                               IN  arb_ready(q) /\ weight(q) # 0}
  IN  IF turns = {} THEN arb_state ELSE (arb_state + Min(turns)) % 3

BugLeavesOnLastCredit ==
  IF cfg.SCHED_MODE = STRICT THEN strict_next
  ELSE IF m_tvalid /\ wrr_count[arb_state] + 1 < weight(arb_state) THEN arb_state
  ELSE round_robin
arb_next ==
  IF cfg.SCHED_MODE = STRICT THEN strict_next
  ELSE IF m_tvalid /\ wrr_count[arb_state] < weight(arb_state) THEN arb_state
  ELSE round_robin

BugCreditOffByOne(q, m_tready) ==
  IF ~Popped(q, m_tready) \/ cfg.SCHED_MODE = STRICT THEN wrr_count[q]
  ELSE IF wrr_count[q] + 1 > weight(q) THEN 0
  ELSE wrr_count[q] + 1
WrrCountNext(q, m_tready) ==
  IF ~Popped(q, m_tready) \/ cfg.SCHED_MODE = STRICT THEN wrr_count[q]
  ELSE IF wrr_count[q] + 1 >= weight(q) THEN 0
  ELSE wrr_count[q] + 1

-----------------------------------------------------------------------------
Init == /\ cfg \in Configs
        /\ used = [q \in Queue |-> 0]
        /\ arb_state = Q_HIGH
        /\ wrr_count = [q \in Queue |-> 0]
        /\ offer = NoBeat
        /\ overtaken = [q \in Queue |-> 0]
        /\ bubbled = FALSE

(* A queue the arbiter can ever be made to serve. *)
Served(q) == cfg.SCHED_MODE = STRICT \/ weight(q) # 0

(* A clock edge with rst_n high: the source offers a beat of this class, or   *)
(* NoBeat, and repeats a refused offer.                                       *)
Clock(class, m_tready) ==
  /\ offer # NoBeat => class = offer
  /\ used' = [q \in Queue |-> used[q] + (IF Pushed(class, q) THEN 1 ELSE 0)
                                      - (IF Popped(q, m_tready) THEN 1 ELSE 0)]
  /\ arb_state' = arb_next
  /\ wrr_count' = [q \in Queue |-> WrrCountNext(q, m_tready)]
  /\ offer' = IF class # NoBeat /\ ~s_tready(class) THEN class ELSE NoBeat
  /\ overtaken' = [q \in Queue |->
                     IF ~arb_ready(q) \/ Popped(q, m_tready) THEN 0
                     ELSE IF arb_state > q /\ Popped(arb_state, m_tready)
                     THEN Min({overtaken[q] + 1, 2})
                     ELSE overtaken[q]]
  /\ bubbled' = (~m_tvalid /\ \E q \in Queue : arb_ready(q) /\ Served(q))
  /\ UNCHANGED cfg

(* A clock edge with rst_n low; the source is under the same reset. *)
Reset == /\ used' = [q \in Queue |-> 0]
         /\ arb_state' = Q_HIGH
         /\ wrr_count' = [q \in Queue |-> 0]
         /\ offer' = NoBeat
         /\ overtaken' = [q \in Queue |-> 0]
         /\ bubbled' = FALSE
         /\ UNCHANGED cfg

Next == \/ \E class \in Classes \cup {NoBeat}, m_tready \in BOOLEAN :
             Clock(class, m_tready)
        \/ Reset

Spec == Init /\ [][Next]_vars

(* The clock never stops and the sink is ready again and again. *)
SinkReady == \E class \in Classes \cup {NoBeat} : Clock(class, TRUE)
FairSpec == Spec /\ WF_vars(SinkReady)

-----------------------------------------------------------------------------
(* Every register holds a value it can hold; in particular a queue never uses *)
(* more credits than its weight gives it, although the arbiter that grants    *)
(* the turn and the counter that ends it are registered separately.           *)
TypeOK == /\ cfg \in Configs
          /\ used \in [Queue -> 0 .. FIFO_DEPTH]
          /\ arb_state \in Queue
          /\ wrr_count \in [Queue -> 0 .. 255]
          /\ \A q \in Queue : wrr_count[q] < weight(q) \/ wrr_count[q] = 0
          /\ offer \in Classes \cup {NoBeat}
          /\ overtaken \in [Queue -> 0 .. 2]
          /\ bubbled \in BOOLEAN

(* Strict priority: because the choice is registered, a beat may overtake a   *)
(* beat of higher priority that arrived after the choice, but only one may,   *)
(* however the two ends stall (src/docs/verification.md:102).                 *)
OvertakenAtMostOnce ==
  cfg.SCHED_MODE = STRICT => \A q \in Queue : overtaken[q] <= 1

(* The arbiter loses at most one edge when the queue it points at runs dry:   *)
(* after an edge that offered nothing, with a beat it could serve stored      *)
(* elsewhere, the next edge offers something.                                 *)
OneBubblePerSwitch == bubbled => m_tvalid

(* What makes the two inductive: once overtaken, a beat waits at a queue no   *)
(* lower than the arbiter's choice.                                           *)
OvertakenIsNext ==
  cfg.SCHED_MODE = STRICT =>
    \A q \in Queue : overtaken[q] >= 1 => arb_state <= q /\ arb_ready(q)
Inv == TypeOK /\ OvertakenAtMostOnce /\ OvertakenIsNext /\ OneBubblePerSwitch

(* The arbiter moves off a queue only when that queue is empty or, in strict  *)
(* mode, when a higher one holds a beat.  Between those events packets leave  *)
(* whole; at them a packet is cut and its beats interleave with another's.    *)
(* In WRR mode it says that the credits never end a turn: when one is used up *)
(* its counter restarts before the arbiter looks at it.                       *)
LeavesOnlyWhenDryOrOutranked ==
  [][ arb_state' # arb_state /\ ~Reset
        => \/ used[arb_state] = 0
           \/ cfg.SCHED_MODE = STRICT /\ \E q \in Queue : q < arb_state /\ arb_ready(q)
           \/ weight(arb_state) = 0 ]_vars

(* A full queue blocks the shared input, whatever class waits behind it.  If  *)
(* it has a weight it makes room in the end, given that the sink keeps        *)
(* becoming ready, although nothing arrives meanwhile and the arbiter may be  *)
(* at a queue, full too, that has none.                                       *)
InputNotBlocked ==
  (offer # NoBeat /\ Served(dest_queue(offer))) ~> (offer = NoBeat)

-----------------------------------------------------------------------------
(* "tready=0 -> hold data" (src/docs/architecture.md:88): the beat offered    *)
(* to a sink that is not ready stays on offer.                                *)
OutputHeld ==
  [][ m_tvalid /\ used'[arb_state] >= used[arb_state] /\ ~Reset
        => m_tvalid' /\ arb_state' = arb_state ]_vars
=============================================================================
