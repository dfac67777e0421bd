---------------------------- MODULE BenchPrograms ----------------------------
(* What the testbenches in src/sim/testbenches do: the habits of the          *)
(* functions that push packets into a device and take them out, and the       *)
(* sequences of calls the tests make.  StreamBench runs them.                 *)
(*                                                                            *)
(* A test that repeats a packet some hundred times is given here for n of     *)
(* them.  Each test starts a generator of its own.                            *)
EXTENDS PacketGen, SequencesExt

(* Habits of a driver.                                                        *)
(*   device:   what it drives                                                 *)
(*   m_tready: m_tready while it pushes                                       *)
(*   captures: it looks at the output while it pushes                         *)
(*   wait:     after a beat, with s_tready low, it turns the clock with the   *)
(*             beat still valid ("spin"), takes one beat at a time from the   *)
(*             output ("take"), or does not look ("none")                     *)
(*   idle:     it lowers s_tvalid for one edge after the last beat            *)
(*   at_last:  its drain loop ends after a beat with tlast                    *)
(*   when_dry: its drain loop ends after an edge with no output ("at once"),  *)
(*             only if there is none after the edge either ("still dry"), or  *)
(*             goes on ("wait")                                               *)
(*   flush:    edges it adds after the drain loop                             *)
(*   check:    the verdict: the scoreboard's ("monitor"), a comparison of     *)
(*             sizes for each drain ("size"), or none                         *)
tb_random ==
  [device |-> "pipeline", m_tready |-> TRUE, captures |-> TRUE, wait |-> "spin",
   idle |-> TRUE, at_last |-> TRUE, when_dry |-> "still dry", flush |-> 0,
   check |-> "monitor"]
tb_stress == [tb_random EXCEPT !.check = "size"]
tb_match_action == [tb_random EXCEPT !.check = "size"]
tb_flow_integrity == [tb_random EXCEPT !.check = "size"]
tb_flow == [tb_random EXCEPT !.captures = FALSE, !.check = "none"]
tb_perf == [tb_random EXCEPT !.captures = FALSE, !.check = "none",
                             !.when_dry = "at once"]
tb_pipeline == [tb_random EXCEPT !.check = "size", !.wait = "none",
                                 !.idle = FALSE, !.when_dry = "wait", !.flush = 8]
tb_axis_fifo ==
  [tb_random EXCEPT !.device = "fifo", !.m_tready = FALSE, !.captures = FALSE,
                    !.wait = "take", !.at_last = FALSE]
tb_scheduler_one ==
  [tb_random EXCEPT !.device = "scheduler", !.m_tready = FALSE, !.captures = FALSE,
                    !.when_dry = "wait", !.check = "size"]
tb_scheduler_all ==
  [tb_scheduler_one EXCEPT !.at_last = FALSE, !.when_dry = "still dry"]

-----------------------------------------------------------------------------
(* s_meta is written 320 + 13 bits above its lowest bit.  A packed struct has *)
(* its first member in its highest bits, so class_id stands above drop, the   *)
(* two error bits and pkt_length, and what is written is part of dst_mac: the *)
(* scheduler sees the class the simulation starts with.                       *)
WrittenAt == 10 * 32 + 13
ClassAt == 16 + 1 + 1 + 1
class_id(class) == IF WrittenAt = ClassAt THEN class ELSE 0

(* Calls.  A drain names the packet its result is compared with. *)
Expect(pkt) == [op |-> "expect", pkt |-> pkt, class |-> 0]
PushOf(pkt, class) == [op |-> "push", pkt |-> pkt, class |-> class_id(class)]
DrainFor(pkt) == [op |-> "drain", pkt |-> pkt, class |-> 0]

PushAndDrain(pkts) ==
  FlattenSeq([i \in 1 .. Len(pkts) |-> <<PushOf(pkts[i], 0), DrainFor(pkts[i])>>])

-----------------------------------------------------------------------------
(* tb_random: packets of the given types, with payload len(i). *)
gen_pkt(type, i, len) == CASE type % 4 \in {0, 3} -> UdpCall(i, len)
                           [] type % 4 = 1 -> TcpCall(i, len)
                           [] type % 4 = 2 -> ArpCall(i)
random_run(types, len) ==
  LET pkts == Packets([i \in 1 .. Len(types) |-> gen_pkt(types[i], i, len)])
  IN  FlattenSeq([i \in 1 .. Len(pkts) |->
                    <<Expect(pkts[i]), PushOf(pkts[i], 0), DrainFor(pkts[i])>>])

(* tb_stress *)
stress_small(n) == PushAndDrain(Packets([i \in 1 .. n |-> UdpCall(i, 20)]))
stress_mixed(n) ==
  PushAndDrain(Packets([i \in 1 .. n |-> CASE i % 3 = 1 -> TcpCall(i, 30)
                                           [] i % 3 = 2 -> ArpCall(0)
                                           [] i % 3 = 0 -> UdpCall(i, 15)]))
stress_jumbo(n, payload) == PushAndDrain(Packets([i \in 1 .. n |-> UdpCall(i, payload)]))
stress_batched(n) == PushAndDrain(Packets([i \in 1 .. n |-> TcpCall(i % 5, 30)]))

(* tb_match_action, tb_flow and its test of integrity *)
match_integrity == PushAndDrain(Packets(<<UdpCall(0, 4)>>))
flow_integrity == PushAndDrain(Packets(<<UdpCall(0, 4)>>))
flow_same(n) == PushAndDrain(Packets([i \in 1 .. n |-> UdpCall(0, 10)]))
flow_multi(n) == PushAndDrain(Packets([i \in 1 .. n |-> UdpCall(i, 10)]))

(* tb_pipeline; test_multi has a device of its own for each packet. *)
pipeline_tests ==
  {PushAndDrain(Packets(<<c>>)) : c \in {UdpCall(0, 2), TcpCall(0, 4), ArpCall(0),
                                         UdpCall(1, 3), TcpCall(1, 4)}}
pipeline_multi ==
  LET pkts == Packets(<<UdpCall(0, 3), TcpCall(0, 4), ArpCall(0)>>)
  IN  {PushAndDrain(<<pkts[i]>>) : i \in 1 .. 3}

(* tb_perf: one packet, pushed and drained twice, then n times without a      *)
(* drain; and a mix without the first part.                                   *)
measure(call, n) ==
  LET pkt == Packets(<<call>>)[1]
  IN  PushAndDrain(<<pkt, pkt>>)
      \o [i \in 1 .. n |-> PushOf(pkt, 0)] \o <<DrainFor(pkt)>>
perf_sizes(n, payloads) ==
  {measure(UdpCall(0, p), n) : p \in payloads} \cup {measure(TcpCall(0, 22), n)}
perf_csv(n, sizes) ==
  {measure(UdpCall(0, s - 42), n) : s \in sizes} \cup {measure(TcpCall(0, 64 - 54), n)}
perf_mixed(n, long) ==
  LET pkts == Packets(<<UdpCall(0, 22), TcpCall(0, long)>>)
  IN  [i \in 1 .. n |-> PushOf(pkts[2 - (i % 2)], 0)] \o <<DrainFor(pkts[1])>>

(* tb_axis_fifo *)
fifo_basic ==
  LET pkts == Packets(<<UdpCall(1, 5), UdpCall(2, 5)>>)
  IN  <<Expect(pkts[1]), Expect(pkts[2]), PushOf(pkts[1], 0), PushOf(pkts[2], 0),
        DrainFor(pkts[2])>>
fifo_backpressure(payloads) ==
  LET pkts == Packets([i \in 1 .. Len(payloads) |-> UdpCall(i, payloads[i])])
  IN  FlattenSeq([i \in 1 .. Len(pkts) |-> <<Expect(pkts[i]), PushOf(pkts[i], 0)>>])
      \o <<DrainFor(Last(pkts))>>

(* tb_scheduler *)
scheduler_strict ==
  LET pkts == Packets(<<UdpCall(0, 1), TcpCall(0, 1), TcpCall(1, 1)>>)
  IN  <<PushOf(pkts[1], 0), PushOf(pkts[2], 2), PushOf(pkts[3], 3),
        DrainFor(pkts[3]), DrainFor(pkts[2]), DrainFor(pkts[1])>>
scheduler_wrr ==
  LET pkt == Packets(<<UdpCall(0, 1)>>)[1]
  IN  <<PushOf(pkt, 1), DrainFor(pkt)>>
scheduler_multi ==
  LET pkts == Packets([i \in 1 .. 3 |-> UdpCall(i, 1)])
      all == [pkts[1] EXCEPT !.size = pkts[1].size + pkts[2].size + pkts[3].size]
  IN  [i \in 1 .. 3 |-> PushOf(pkts[i], i - 1)] \o <<DrainFor(all)>>
=============================================================================
