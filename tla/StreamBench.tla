----------------------------- MODULE StreamBench -----------------------------
(* The testbenches that push packets through a device over AXI-Stream         *)
(* (src/sim/testbenches), each a C++ program that turns the clock of the      *)
(* device it tests: tb_random, tb_stress, tb_match_action, tb_flow,           *)
(* tb_pipeline and tb_perf drive parser_pipeline, tb_axis_fifo an axis_fifo,  *)
(* tb_scheduler a packet_scheduler.  One step is one rising edge, from pre()  *)
(* to the next, or a step of the program between two calls.                   *)
(*                                                                            *)
(* The drivers differ in a few habits (BenchPrograms); the loops are the      *)
(* same.  The device is what it is at its boundary: the pipeline a row of     *)
(* STAGES registers, which never stalls since the benches keep m_tready high  *)
(* on every edge, the others queues of DEPTH beats.  parser_pipeline rewrites *)
(* bytes from offset 22 of a first beat on, and a beat here has dw = 8, so    *)
(* the bytes that count pass unchanged.  A bench is there to find a broken    *)
(* device, so up to MaxFaults times the device does something wrong.          *)
EXTENDS PacketMon, BenchPrograms, FiniteSetsExt

CONSTANTS STAGES,      \* registers of parser_pipeline
          DEPTH,       \* beats in an axis_fifo
          TIMEOUT,     \* edges after which a drain loop stops
          MaxFaults,   \* how often the device misbehaves
          Tests        \* what is run: [driver, program] records

ASSUME BenchAssumption ==
  /\ STAGES \in Nat \ {0} /\ DEPTH \in Nat \ {0} /\ MaxFaults \in Nat
  /\ TIMEOUT \in Nat /\ TIMEOUT >= STAGES /\ TIMEOUT >= DEPTH

VARIABLES bench,     \* the driver functions of the testbench
          todo,      \* calls its program still makes
          pushed,    \* the pushes it has made
          pc, pos, timeout,
          rx,        \* how many bytes the running call has captured
          results,   \* for each finished drain, what was wanted and captured
          dut, arb,  \* beats in the device, and the queue it offers from
          stalled,   \* the device refuses input though it has room
          faults

progVars == <<bench, todo, pushed, pc, pos, timeout, rx, results>>
dutVars == <<dut, arb, stalled, faults>>
vars == <<progVars, dutVars, monVars>>

-----------------------------------------------------------------------------
(* Beats: dw bytes of a packet from a position on.  NoBeat is tvalid low.     *)
dw == 8
NoBeat == [data |-> <<>>, keep |-> 0, last |-> FALSE]

beat(pkt, p) == LET nb == Min({dw, pkt.size - p})
                IN  [data |-> <<pkt, p>>, keep |-> nb, last |-> p + nb >= pkt.size]
final_beat(pkt) == beat(pkt, ((pkt.size - 1) \div dw) * dw)

(* The bytes tkeep selects, as one element. *)
bytes(b) == <<[data |-> b.data, keep |-> b.keep]>>
beats(pkt) == (pkt.size + dw - 1) \div dw
packet_bytes(pkt) == [i \in 1 .. beats(pkt) |-> bytes(beat(pkt, (i - 1) * dw))[1]]

-----------------------------------------------------------------------------
(* What the tests have in common, and what their verdicts rest on.            *)
Driver == [device : {"pipeline", "fifo", "scheduler"}, m_tready : BOOLEAN,
           captures : BOOLEAN, wait : {"none", "spin", "take"}, idle : BOOLEAN,
           at_last : BOOLEAN, when_dry : {"at once", "still dry", "wait"},
           flush : Nat, check : {"monitor", "size", "none"}]
Packet == [type : {"UDP", "TCP", "ARP"}, args : Nat, ident : Nat, size : Nat \ {0}]
Call == [op : {"expect", "push", "drain"}, pkt : Packet, class : Nat]

Made(program, n, op) == Cardinality({i \in 1 .. n : program[i].op = op})

(* Every packet is expected before it is pushed, and the test ends with a     *)
(* drain.                                                                     *)
Announced(program) ==
  /\ program # <<>> /\ Last(program).op = "drain"
  /\ \A n \in DOMAIN program : Made(program, n, "push") <= Made(program, n, "expect")
  /\ Made(program, Len(program), "push") = Made(program, Len(program), "expect")
  /\ \A i, j \in DOMAIN program :
       /\ program[i].op = "expect" /\ program[j].op = "push"
       /\ Made(program, i, "expect") = Made(program, j, "push")
       => program[i].pkt = program[j].pkt

(* Every packet is drained before the next is pushed, and its size compared.  *)
Paired(program) ==
  \A i \in DOMAIN program :
    /\ program[i].op = "push"
         => /\ i < Len(program) /\ program[i + 1].op = "drain"
            /\ program[i + 1].pkt.size = program[i].pkt.size
    /\ program[i].op = "drain" => i > 1 /\ program[i - 1].op = "push"

(* A drain that watches for the end of a packet or for a gap needs packets    *)
(* that reach from one end of the pipeline to the other.                      *)
PipelineTest(d, program) ==
  /\ d.device = "pipeline" /\ d.m_tready /\ d.idle /\ d.at_last /\ d.flush = 0
  /\ d.when_dry \in {"at once", "still dry"}
  /\ \A i \in DOMAIN program :
       program[i].op = "push"
         => program[i].pkt.size > dw * (STAGES - (IF d.when_dry = "at once" THEN 2 ELSE 3))
  /\ \/ d.check = "none"
     \/ d.check = "size" /\ d.captures /\ Paired(program)
     \/ d.check = "monitor" /\ d.captures /\ Announced(program)

HeldTest(d, program) ==
  /\ d.device = "pipeline" /\ d.m_tready /\ ~d.idle /\ d.at_last /\ d.when_dry = "wait"
  /\ d.wait = "none" /\ d.check = "size" /\ d.captures
  /\ Paired(program) /\ Len(program) = 2

FifoTest(d, program) ==
  /\ d.device = "fifo" /\ ~d.m_tready /\ ~d.captures /\ d.wait = "take" /\ d.idle
  /\ ~d.at_last /\ d.when_dry = "still dry" /\ d.flush = 0
  /\ d.check = "monitor" /\ Announced(program)

(* Every packet enters one queue; a test of more than one packet pushes more  *)
(* than the queue holds before it first drains.                               *)
SchedulerTest(d, program) ==
  /\ d.device = "scheduler" /\ ~d.m_tready /\ ~d.captures /\ d.wait = "spin" /\ d.idle
  /\ d.flush = 0 /\ d.check = "size"
  /\ \A i \in DOMAIN program : program[i].class = 0
  /\ \/ Paired(program) /\ d.at_last /\ d.when_dry = "wait"
     \/ /\ Len(program) >= 3 /\ \A i \in 1 .. 3 : program[i].op = "push"
        /\ beats(program[1].pkt) + beats(program[2].pkt) + beats(program[3].pkt) > DEPTH

ASSUME TestAssumption ==
  \A t \in Tests :
    /\ t.driver \in Driver /\ t.program \in Seq(Call)
    /\ \/ PipelineTest(t.driver, t.program) \/ HeldTest(t.driver, t.program)
       \/ FifoTest(t.driver, t.program) \/ SchedulerTest(t.driver, t.program)

-----------------------------------------------------------------------------
(* The device.  The scheduler's arbiter is that of PacketScheduler, in the    *)
(* mode and with the queues of the simulated build.                           *)
Queue == 0 .. 2
Scheduler == INSTANCE PacketScheduler
               WITH FIFO_DEPTH <- DEPTH, Classes <- {}, Configs <- {},
                    cfg <- [SCHED_MODE |-> 0], used <- [q \in Queue |-> Len(dut[q])],
                    arb_state <- arb, wrr_count <- 0, offer <- 256,
                    overtaken <- 0, bubbled <- FALSE

EmptyDut == [q \in Queue |-> IF q = 0 /\ bench.device = "pipeline"
                             THEN [i \in 1 .. STAGES |-> NoBeat] ELSE <<>>]

dest == IF bench.device = "scheduler" THEN Scheduler!dest_queue(Last(pushed).class)
        ELSE 0
s_tready == ~stalled /\ (bench.device = "pipeline" \/ Len(dut[dest]) < DEPTH)

output == IF dut[arb] = <<>> THEN NoBeat ELSE Head(dut[arb])
m_tvalid == output # NoBeat

(* An edge at which queue dest loads this beat. *)
Loads(b, m_tready, stall) ==
  /\ dut' = [q \in Queue |->
               (IF q = arb /\ m_tready /\ dut[q] # <<>> THEN Tail(dut[q]) ELSE dut[q])
               \o (IF q = dest /\ (b # NoBeat \/ bench.device = "pipeline")
                   THEN <<b>> ELSE <<>>)]
  /\ arb' = IF bench.device = "scheduler" THEN Scheduler!strict_next ELSE arb
  /\ stalled' = stall

(* What may go wrong with a beat on its way in: lost, changed, cut from or    *)
(* joined to the next packet, or replaced by the one before it.               *)
Mishaps(b) ==
  IF ~s_tready THEN {}
  ELSE ( {NoBeat}
         \cup (IF b = NoBeat THEN {}
               ELSE {[b EXCEPT !.data = <<"changed">>], [b EXCEPT !.last = ~b.last]})
         \cup (IF dut[dest] = <<>> THEN {} ELSE {Last(dut[dest])}) ) \ {b}

Edge(b, m_tready) ==
  LET taken == IF s_tready THEN b ELSE NoBeat
  IN  \/ Loads(taken, m_tready, FALSE) /\ UNCHANGED faults
      \/ /\ faults < MaxFaults
         /\ faults' = faults + 1
         /\ \/ \E x \in Mishaps(b) : Loads(x, m_tready, FALSE)
            \/ Loads(taken, m_tready, TRUE)

-----------------------------------------------------------------------------
(* The program. *)
Init == /\ \E t \in Tests : bench = t.driver /\ todo = t.program
        /\ pushed = <<>> /\ pc = "reset" /\ pos = 0 /\ timeout = 0
        /\ rx = 0 /\ results = <<>>
        /\ dut = [q \in Queue |-> <<>>] /\ arb = 0 /\ stalled = FALSE /\ faults = 0
        /\ MonInit

(* Sim::reset, and the monitor's. *)
Reset == /\ pc = "reset"
         /\ dut' = EmptyDut /\ arb' = 0 /\ stalled' = FALSE
         /\ pc' = "host"
         /\ reset
         /\ UNCHANGED <<bench, todo, pushed, pos, timeout, rx, results, faults>>

Calls(op) == pc = "host" /\ todo # <<>> /\ Head(todo).op = op /\ todo' = Tail(todo)

CallExpect == /\ Calls("expect")
              /\ expect(packet_bytes(Head(todo).pkt))
              /\ UNCHANGED <<bench, pushed, pc, pos, timeout, rx, results, dutVars>>

CallPush == /\ Calls("push")
            /\ pushed' = Append(pushed, Head(todo))
            /\ pos' = 0 /\ pc' = "push"
            /\ UNCHANGED <<bench, timeout, rx, results, dutVars, monVars>>

CallDrain == /\ pc = "host" /\ todo # <<>> /\ Head(todo).op = "drain"
             /\ timeout' = TIMEOUT /\ pc' = "drain"
             /\ UNCHANGED <<bench, todo, pushed, pos, rx, results, dutVars, monVars>>

Finish == /\ pc = "host" /\ todo = <<>>
          /\ pc' = "done"
          /\ UNCHANGED <<bench, todo, pushed, pos, timeout, rx, results, dutVars, monVars>>

(* What the program does with the beat on offer before the edge takes it. *)
Capture(looks) ==
  IF ~(looks /\ m_tvalid) THEN UNCHANGED <<rx, monVars>>
  ELSE IF bench.check = "monitor"
  THEN push_beat(bytes(output), output.last) /\ UNCHANGED rx
  ELSE rx' = rx + output.keep /\ UNCHANGED monVars

pkt == Last(pushed).pkt
driven == beat(pkt, pos)

BugDoesNotWait ==
  /\ pos' = pos + driven.keep
  /\ pc' = IF ~driven.last THEN "push" ELSE IF bench.idle THEN "idle" ELSE "host"

(* The beat is out; go on once the device is ready for another. *)
NextBeat ==
  IF bench.wait # "none" /\ ~s_tready' THEN pc' = "wait" /\ UNCHANGED pos
  ELSE /\ pos' = pos + driven.keep
       /\ pc' = IF ~driven.last THEN "push" ELSE IF bench.idle THEN "idle" ELSE "host"

Push == /\ pc = "push"
        /\ UNCHANGED <<bench, todo, pushed, timeout, results>>
        /\ Capture(bench.captures)
        /\ Edge(driven, bench.m_tready)
        /\ NextBeat

(* The waiting loop does not look at the output, even with m_tready high. *)
Spin == /\ pc = "wait" /\ bench.wait = "spin"
        /\ UNCHANGED <<bench, todo, pushed, timeout, results, rx, monVars>>
        /\ Edge(driven, bench.m_tready)
        /\ NextBeat

BugTakesNothing == /\ pc = "wait" /\ bench.wait = "take"
                   /\ UNCHANGED <<bench, todo, pushed, timeout, results, rx, monVars>>
                   /\ Edge(NoBeat, FALSE)
                   /\ NextBeat
TakeOne == /\ pc = "wait" /\ bench.wait = "take"
           /\ UNCHANGED <<bench, todo, pushed, timeout, results>>
           /\ Capture(TRUE)
           /\ Edge(NoBeat, TRUE)
           /\ NextBeat

Idle == /\ pc = "idle"
        /\ UNCHANGED <<bench, todo, pushed, pos, timeout, results>>
        /\ Capture(bench.captures)
        /\ Edge(NoBeat, bench.m_tready)
        /\ pc' = "host"

(* A driver that never idles leaves the last beat valid on its input. *)
held == IF bench.idle THEN NoBeat ELSE final_beat(pkt)

BugGivesUpAtOnce ==
  \/ timeout = 1
  \/ bench.at_last /\ m_tvalid /\ output.last
  \/ ~m_tvalid /\ bench.when_dry # "wait"
DrainEnds ==
  \/ timeout = 1
  \/ bench.at_last /\ m_tvalid /\ output.last
  \/ ~m_tvalid /\ \/ bench.when_dry = "at once"
                  \/ bench.when_dry = "still dry" /\ ~m_tvalid'

Drain == /\ pc = "drain"
         /\ UNCHANGED <<bench, todo, pushed, pos, results>>
         /\ Capture(bench.check # "none")
         /\ Edge(held, TRUE)
         /\ IF ~DrainEnds THEN timeout' = timeout - 1 /\ UNCHANGED pc
            ELSE IF bench.flush > 0 THEN timeout' = bench.flush /\ pc' = "flush"
            ELSE timeout' = 0 /\ pc' = "return"

Flush == /\ pc = "flush"
         /\ UNCHANGED <<bench, todo, pushed, pos, results, rx, monVars>>
         /\ Edge(held, TRUE)
         /\ timeout' = timeout - 1
         /\ pc' = IF timeout = 1 THEN "return" ELSE "flush"

Return == /\ pc = "return"
          /\ results' = Append(results, [want |-> Head(todo).pkt.size, got |-> rx])
          /\ rx' = 0 /\ todo' = Tail(todo)
          /\ pc' = "host"
          /\ UNCHANGED <<bench, pushed, pos, timeout, dutVars, monVars>>

Next == \/ Reset \/ CallExpect \/ CallPush \/ CallDrain \/ Finish
        \/ Push \/ Spin \/ TakeOne \/ Idle \/ Drain \/ Flush \/ Return

Spec == Init /\ [][Next]_vars

(* The program runs until it returns. *)
FairSpec == Spec /\ WF_vars(Next)
-----------------------------------------------------------------------------
Passed == CASE bench.check = "monitor" -> MonitorPasses
            [] bench.check = "size" -> \A i \in DOMAIN results :
                                          results[i].got = results[i].want
            [] bench.check = "none" -> TRUE

(* No bench fails a correct device: its drain loops do not give up while a    *)
(* packet is inside, its captures miss no beat, and the scoreboard never sees *)
(* a packet cut short, whichever of the loops sees which beat.  tb_random     *)
(* needs at least six beats in a packet for it, and an ARP packet has six.    *)
CorrectDutPasses == pc = "done" /\ faults = 0 => Passed

(* A drain that returns leaves a correct pipeline empty, so that a packet     *)
(* never meets its predecessor there, and the last drain leaves any device    *)
(* empty; but tb_pipeline, which never lowers s_tvalid, keeps feeding copies  *)
(* of the last beat.                                                          *)
DrainedDry ==
  /\ pc = "return" /\ faults = 0 /\ bench.idle
  /\ bench.device = "pipeline" \/ Len(todo) = 1
  => \A q \in Queue : \A i \in DOMAIN dut[q] : dut[q][i] = NoBeat

(* The scheduler's driver waits for room while it refuses all output. *)
BlocksItself == /\ bench.device = "scheduler" /\ pc = "wait"
                /\ Len(dut[dest]) = DEPTH /\ ~bench.m_tready

(* Every bench comes to its verdict, although the loops that wait for room    *)
(* have no timeout and an axis_fifo fills while nothing takes its beats; but  *)
(* the scheduler's bench, whose packets all enter one queue, is stuck for     *)
(* ever once it has filled it (tb_scheduler.cpp:45).                          *)
ReturnsUnlessBlocked == <>(pc = "done") \/ <>[]BlocksItself
=============================================================================
