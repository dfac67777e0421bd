------------------------------ MODULE PacketMon ------------------------------
(* PacketMon (src/sim/packet_monitors/packet_mon.h): the scoreboard of the    *)
(* testbenches.  Beats are gathered into a packet, a complete packet is       *)
(* compared with the front of a queue of expected ones.                       *)
(*                                                                            *)
(* A string of bytes is a sequence whose elements the scoreboard never looks  *)
(* into.  rx_bytes_ is assigned before each use and is no state of its own.   *)
EXTENDS Integers, Sequences

VARIABLES rx_beats,     \* bytes of the packet being received
          expected,     \* packets still expected, in order
          pkt_count,
          error_count,
          wanted,       \* history: all packets expected since the last reset
          received      \* history: all packets completed since the last reset

monVars == <<rx_beats, expected, pkt_count, error_count, wanted, received>>

-----------------------------------------------------------------------------
MonInit == /\ rx_beats = <<>> /\ expected = <<>>
           /\ pkt_count = 0 /\ error_count = 0
           /\ wanted = <<>> /\ received = <<>>

(* reset() leaves the expectations where they are. *)
reset == /\ rx_beats' = <<>> /\ pkt_count' = 0 /\ error_count' = 0
         /\ received' = <<>> /\ wanted' = expected
         /\ UNCHANGED expected

expect(packet) == /\ expected' = Append(expected, packet)
                  /\ wanted' = Append(wanted, packet)
                  /\ UNCHANGED <<rx_beats, pkt_count, error_count, received>>

(* The front is consumed whether it matches or not.  The branch for an empty  *)
(* queue has no caller that can reach it.                                     *)
BugComparesLengths(pkt) ==
  /\ error_count' = error_count + (IF Len(pkt) = Len(Head(expected)) THEN 0 ELSE 1)
  /\ expected' = Tail(expected)
check_next(pkt) ==
  /\ error_count' = error_count + (IF pkt = Head(expected) THEN 0 ELSE 1)
  /\ expected' = Tail(expected)

(* Every path returns true, a wrong check sequence included; without an       *)
(* expectation the packet is counted and nothing else.                        *)
process_complete_packet(pkt) ==
  /\ IF expected = <<>> THEN UNCHANGED <<expected, error_count>> ELSE check_next(pkt)
  /\ pkt_count' = pkt_count + 1
  /\ received' = Append(received, pkt)

push_beat(data, last) ==
  LET pkt == rx_beats \o data
  IN  /\ IF last
         THEN rx_beats' = <<>> /\ process_complete_packet(pkt)
         ELSE /\ rx_beats' = pkt
              /\ UNCHANGED <<expected, pkt_count, error_count, received>>
      /\ UNCHANGED wanted

-----------------------------------------------------------------------------
(* The verdict of the testbenches that use the monitor. *)
MonitorPasses == error_count = 0 /\ expected = <<>>

(* "all packets matched, none lost" (src/docs/verification.md:54): a verdict  *)
(* of PASS together with a count of as many packets as were expected means    *)
(* that exactly those arrived, in that order, whatever the device lost,       *)
(* repeated or changed on the way.  PASS alone does not mean it: a packet     *)
(* that arrives while none is expected raises nothing but the count.          *)
PassMeansReceived ==
  MonitorPasses /\ pkt_count = Len(wanted) => received = wanted
=============================================================================
