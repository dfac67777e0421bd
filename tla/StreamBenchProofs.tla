-------------------------- MODULE StreamBenchProofs --------------------------
(* What the verdict of a bench means.                                         *)
(*                                                                            *)
(* First what PASS says, for every bench, every test, every device and any    *)
(* number of faults.  It needs no fact about the device: whatever it does,    *)
(* the bench changes the scoreboard only by reset, expect and push_beat.      *)
(*                                                                            *)
(* Then that a correct device passes and is left empty, for all tests of the  *)
(* four kinds of TestAssumption.  ProgramInv and CallInv say where the        *)
(* program is and what it has called; then there is an invariant for each     *)
(* kind of device and drain loop, about what is inside: a packet on its way   *)
(* through the pipeline (PipeInv), copies of a last beat that is held on the  *)
(* input (HeldInv), or a queue between what was pushed and what was captured  *)
(* (QueueInv, StreamInv).  BenchInv puts them together.                       *)
EXTENDS StreamBench, FiniteSetTheorems, TLAPS

IsSeq(s) == \E S : s \in Seq(S)

LEMMA AppendIsSeq ==
  ASSUME NEW s, IsSeq(s), NEW e
  PROVE  /\ IsSeq(Append(s, e)) /\ Len(s) \in Nat
         /\ Len(Append(s, e)) = Len(s) + 1
         /\ \A i \in 1 .. Len(s) : Append(s, e)[i] = s[i]
         /\ Append(s, e)[Len(s) + 1] = e
<1>1. PICK S : s \in Seq(S)
  BY DEF IsSeq
<1>. DEFINE T == S \cup {e}
<1>2. s \in Seq(T) /\ e \in T
  BY <1>1
<1>. HIDE DEF T
<1>. QED
  BY <1>2 DEF IsSeq

LEMMA TailIsSeq ==
  ASSUME NEW s, IsSeq(s), s # <<>>
  PROVE  /\ IsSeq(Tail(s)) /\ Len(s) \in Nat \ {0}
         /\ Len(Tail(s)) = Len(s) - 1
         /\ \A i \in 1 .. Len(s) - 1 : Tail(s)[i] = s[i + 1]
         /\ Head(s) = s[1]
  BY DEF IsSeq

LEMMA EmptyIsSeq == IsSeq(<<>>) /\ Len(<<>>) = 0
<1>1. <<>> \in Seq({})
  OBVIOUS
<1>. QED
  BY <1>1 DEF IsSeq

LEMMA SameSeq ==
  ASSUME NEW s, NEW t, IsSeq(s), IsSeq(t), Len(s) = Len(t),
         \A i \in 1 .. Len(s) : s[i] = t[i]
  PROVE  s = t
  BY DEF IsSeq

-----------------------------------------------------------------------------
(* Packets taken from the front of the queue since the last reset. *)
consumed == Len(wanted) - Len(expected)

AllSequences == IsSeq(expected) /\ IsSeq(wanted) /\ IsSeq(received)

(* The queue is the end of what was wanted. *)
QueueIsRest == /\ Len(expected) <= Len(wanted)
               /\ \A i \in 1 .. Len(expected) : expected[i] = wanted[consumed + i]

(* Every packet taken from the queue was counted; a packet that found it      *)
(* empty was counted as well.                                                 *)
CountsReceived == /\ pkt_count = Len(received) /\ consumed <= pkt_count
                  /\ error_count \in Nat

(* As long as no packet found the queue empty, packets and expectations are   *)
(* paired by position, so that no error means equality.                       *)
PairedSoFar == error_count = 0 /\ consumed = pkt_count
                 => \A i \in 1 .. consumed : received[i] = wanted[i]

MonInv == AllSequences /\ QueueIsRest /\ CountsReceived /\ PairedSoFar

LEMMA InvMeansReceived == MonInv => PassMeansReceived
<1>. SUFFICES ASSUME MonInv, error_count = 0, expected = <<>>, pkt_count = Len(wanted)
              PROVE  received = wanted
  BY DEF PassMeansReceived, MonitorPasses
<1>1. Len(wanted) \in Nat
  BY AppendIsSeq DEF MonInv, AllSequences
<1>2. consumed = Len(wanted)
  BY <1>1, EmptyIsSeq DEF consumed
<1>. QED
  BY <1>2, SameSeq DEF MonInv, AllSequences, CountsReceived, PairedSoFar

LEMMA MonInitInv == MonInit => MonInv
  BY EmptyIsSeq DEF MonInit, MonInv, AllSequences, QueueIsRest, CountsReceived,
                    PairedSoFar, consumed

LEMMA ResetInv == MonInv /\ reset => MonInv'
<1>. SUFFICES ASSUME MonInv, reset
              PROVE  MonInv'
  OBVIOUS
<1>1. Len(expected) \in Nat
  BY AppendIsSeq DEF MonInv, AllSequences
<1>. QED
  BY <1>1, EmptyIsSeq DEF reset, MonInv, AllSequences, QueueIsRest, CountsReceived,
                          PairedSoFar, consumed

LEMMA ExpectInv ==
  ASSUME NEW packet, MonInv, expect(packet)
  PROVE  MonInv'
<1>1. /\ IsSeq(expected') /\ IsSeq(wanted')
      /\ Len(expected) \in Nat /\ Len(expected') = Len(expected) + 1
      /\ Len(wanted) \in Nat /\ Len(wanted') = Len(wanted) + 1
  BY AppendIsSeq DEF MonInv, AllSequences, expect
<1>2. consumed' = consumed
  BY <1>1 DEF consumed
<1>3. QueueIsRest'
  <2>1. \A i \in 1 .. Len(expected) : expected'[i] = wanted'[consumed + i]
    <3>. TAKE i \in 1 .. Len(expected)
    <3>1. consumed + i \in 1 .. Len(wanted)
      BY <1>1 DEF consumed, MonInv, QueueIsRest
    <3>. QED
      BY <3>1, AppendIsSeq DEF MonInv, QueueIsRest, AllSequences, expect
  <2>2. expected'[Len(expected) + 1] = packet /\ wanted'[Len(wanted) + 1] = packet
    BY AppendIsSeq DEF MonInv, AllSequences, expect
  <2>3. consumed + (Len(expected) + 1) = Len(wanted) + 1
    BY <1>1 DEF consumed
  <2>4. \A i \in 1 .. Len(expected) + 1 : expected'[i] = wanted'[consumed + i]
    BY <1>1, <2>1, <2>2, <2>3
  <2>. QED
    BY <1>1, <1>2, <2>4 DEF MonInv, QueueIsRest
<1>4. CountsReceived'
  BY <1>2 DEF MonInv, CountsReceived, expect
<1>5. PairedSoFar'
  <2>1. \A i \in 1 .. consumed : wanted'[i] = wanted[i]
    BY <1>1, AppendIsSeq DEF consumed, MonInv, AllSequences, expect
  <2>. QED
    BY <1>2, <2>1 DEF MonInv, PairedSoFar, expect
<1>. QED
  BY <1>1, <1>3, <1>4, <1>5 DEF MonInv, AllSequences, expect

-----------------------------------------------------------------------------
(* A packet completes. *)
LEMMA CompleteInv ==
  ASSUME NEW pk, MonInv, process_complete_packet(pk), wanted' = wanted
  PROVE  MonInv'
<1>1. /\ IsSeq(received') /\ Len(received) \in Nat
      /\ Len(received') = Len(received) + 1
      /\ \A i \in 1 .. Len(received) : received'[i] = received[i]
      /\ received'[Len(received) + 1] = pk
  BY AppendIsSeq DEF MonInv, AllSequences, process_complete_packet
<1>2. Len(wanted) \in Nat /\ Len(expected) \in Nat
  BY AppendIsSeq DEF MonInv, AllSequences
<1>3. pkt_count' = pkt_count + 1 /\ pkt_count = Len(received)
  BY DEF MonInv, CountsReceived, process_complete_packet
<1>4. CASE expected = <<>>
  <2>1. UNCHANGED <<expected, error_count>>
    BY <1>4 DEF process_complete_packet
  <2>2. consumed' = consumed /\ consumed < pkt_count'
    BY <1>1, <1>2, <1>3, <2>1 DEF consumed, MonInv, CountsReceived
  <2>3. AllSequences'
    BY <1>1, <2>1 DEF MonInv, AllSequences
  <2>4. QueueIsRest'
    BY <2>1, <2>2 DEF MonInv, QueueIsRest
  <2>5. CountsReceived'
    <3>1. consumed \in Int
      BY <1>2 DEF consumed
    <3>. QED
      BY <1>1, <1>3, <2>1, <2>2, <3>1 DEF MonInv, CountsReceived
  <2>6. PairedSoFar'
    <3>1. consumed' # pkt_count'
      BY <1>1, <1>2, <1>3, <2>2 DEF consumed
    <3>. QED
      BY <3>1 DEF PairedSoFar
  <2>. QED
    BY <2>3, <2>4, <2>5, <2>6 DEF MonInv
<1>5. CASE expected # <<>>
  <2>1. /\ expected' = Tail(expected)
        /\ error_count' = error_count + (IF pk = Head(expected) THEN 0 ELSE 1)
    BY <1>5 DEF process_complete_packet, check_next
  <2>2. /\ IsSeq(expected') /\ Len(expected) \in Nat \ {0}
        /\ Len(expected') = Len(expected) - 1
        /\ \A i \in 1 .. Len(expected) - 1 : expected'[i] = expected[i + 1]
        /\ Head(expected) = expected[1]
    BY <1>5, <2>1, TailIsSeq DEF MonInv, AllSequences
  <2>3. consumed' = consumed + 1 /\ consumed \in Nat
    BY <1>2, <2>2 DEF consumed, MonInv, QueueIsRest
  <2>4. QueueIsRest'
    <3>1. \A i \in 1 .. Len(expected') : expected'[i] = wanted'[consumed' + i]
      <4>. TAKE i \in 1 .. Len(expected')
      <4>1. i \in 1 .. Len(expected) - 1 /\ i + 1 \in 1 .. Len(expected)
        BY <2>2
      <4>2. expected'[i] = wanted[consumed + (i + 1)]
        BY <4>1, <2>2 DEF MonInv, QueueIsRest
      <4>. QED
        BY <4>1, <4>2, <2>3
    <3>. QED
      BY <1>2, <2>2, <3>1 DEF MonInv, QueueIsRest
  <2>5. CountsReceived'
    BY <1>1, <1>3, <2>1, <2>3 DEF MonInv, CountsReceived
  <2>6. PairedSoFar'
    <3>. SUFFICES ASSUME error_count' = 0, consumed' = pkt_count'
                  PROVE  \A i \in 1 .. consumed' : received'[i] = wanted'[i]
      BY DEF PairedSoFar
    <3>1. error_count = 0 /\ pk = expected[1] /\ consumed = pkt_count
      BY <1>1, <1>3, <2>1, <2>2, <2>3 DEF MonInv, CountsReceived
    <3>2. \A i \in 1 .. consumed : received[i] = wanted[i]
      BY <3>1 DEF MonInv, PairedSoFar
    <3>3. pk = wanted[consumed + 1]
      BY <2>2, <3>1 DEF MonInv, QueueIsRest
    <3>. QED
      BY <1>1, <1>3, <2>3, <3>1, <3>2, <3>3
  <2>. QED
    BY <1>1, <2>2, <2>4, <2>5, <2>6 DEF MonInv, AllSequences
<1>. QED
  BY <1>4, <1>5

LEMMA UnchangedInv ==
  MonInv /\ UNCHANGED <<expected, pkt_count, error_count, wanted, received>> => MonInv'
  BY DEF MonInv, AllSequences, QueueIsRest, CountsReceived, PairedSoFar, consumed, IsSeq

LEMMA PushBeatInv ==
  ASSUME NEW data, NEW last, MonInv, push_beat(data, last)
  PROVE  MonInv'
<1>1. CASE last
  BY <1>1, CompleteInv DEF push_beat
<1>2. CASE ~last
  BY <1>2, UnchangedInv DEF push_beat
<1>. QED
  BY <1>1, <1>2

-----------------------------------------------------------------------------
(* The bench works the scoreboard through its operations only. *)
ScoreboardStep == \/ reset
                  \/ \E packet : expect(packet)
                  \/ \E data, last : push_beat(data, last)
                  \/ UNCHANGED monVars

LEMMA CaptureStep ==
  ASSUME NEW looks, Capture(looks)
  PROVE  ScoreboardStep
  BY DEF Capture, ScoreboardStep

LEMMA NextStep == [Next]_vars => ScoreboardStep
<1>. SUFFICES ASSUME [Next]_vars
              PROVE  ScoreboardStep
  OBVIOUS
<1>1. CASE Reset
  BY <1>1 DEF Reset, ScoreboardStep
<1>2. CASE CallExpect
  BY <1>2 DEF CallExpect, ScoreboardStep
<1>3. CASE CallPush \/ CallDrain \/ Finish \/ Spin \/ Flush \/ Return
  BY <1>3 DEF CallPush, CallDrain, Finish, Spin, Flush, Return, ScoreboardStep
<1>4. CASE Push \/ TakeOne \/ Idle \/ Drain
  BY <1>4, CaptureStep DEF Push, TakeOne, Idle, Drain
<1>5. CASE UNCHANGED vars
  BY <1>5 DEF vars, monVars, ScoreboardStep
<1>. QED
  BY <1>1, <1>2, <1>3, <1>4, <1>5 DEF Next

LEMMA StepInv == MonInv /\ ScoreboardStep => MonInv'
<1>. SUFFICES ASSUME MonInv, ScoreboardStep
              PROVE  MonInv'
  OBVIOUS
<1>1. CASE reset
  BY <1>1, ResetInv
<1>2. CASE \E packet : expect(packet)
  BY <1>2, ExpectInv
<1>3. CASE \E data, last : push_beat(data, last)
  BY <1>3, PushBeatInv
<1>4. CASE UNCHANGED monVars
  BY <1>4, UnchangedInv DEF monVars
<1>. QED
  BY <1>1, <1>2, <1>3, <1>4 DEF ScoreboardStep

(* A verdict of PASS with as many packets as were expected means that just    *)
(* those arrived, in order and unchanged (packet_mon.h), whatever the device  *)
(* did and whichever test ran.                                                *)
THEOREM PassProvesDelivery == Spec => []PassMeansReceived
<1>1. Init => MonInv
  BY MonInitInv DEF Init
<1>2. MonInv /\ [Next]_vars => MonInv'
  BY NextStep, StepInv
<1>3. MonInv => PassMeansReceived
  BY InvMeansReceived
<1>. QED
  BY <1>1, <1>2, <1>3, PTL DEF Spec

-----------------------------------------------------------------------------
(* The bench with a correct device: for tests that meet TestAssumption, no    *)
(* bench fails it and no drain leaves a beat behind.                          *)

LEMMA ConcatIsSeq ==
  ASSUME NEW s, IsSeq(s), NEW e
  PROVE  /\ IsSeq(s \o <<e>>) /\ Len(s) \in Nat
         /\ Len(s \o <<e>>) = Len(s) + 1
         /\ \A i \in 1 .. Len(s) : (s \o <<e>>)[i] = s[i]
         /\ (s \o <<e>>)[Len(s) + 1] = e
         /\ s \o <<>> = s
<1>1. PICK S : s \in Seq(S)
  BY DEF IsSeq
<1>. DEFINE T == S \cup {e}
<1>2. s \in Seq(T) /\ e \in T
  BY <1>1
<1>. HIDE DEF T
<1>3. <<e>> \in Seq(T) /\ Len(<<e>>) = 1 /\ <<e>>[1] = e
  BY <1>2
<1>4. s \o <<e>> \in Seq(T) /\ Len(s \o <<e>>) = Len(s) + 1
  BY <1>2, <1>3
<1>5. \A i \in 1 .. Len(s) + 1 :
        (s \o <<e>>)[i] = IF i <= Len(s) THEN s[i] ELSE <<e>>[i - Len(s)]
  BY <1>2, <1>3
<1>6. Len(s) \in Nat
  BY <1>2
<1>7. (s \o <<e>>)[Len(s) + 1] = e
  BY <1>3, <1>5, <1>6
<1>8. s \o <<>> = s
  BY <1>1, <1>2
<1>. QED
  BY <1>4, <1>5, <1>6, <1>7, <1>8 DEF IsSeq

(* A beat carries eight bytes, or those that are left of the packet.          *)
LEMMA BeatIs ==
  ASSUME NEW p, p.size \in Nat, NEW k \in Nat, k < p.size
  PROVE  /\ beat(p, k).data = <<p, k>>
         /\ beat(p, k).keep \in 1 .. dw
         /\ beat(p, k).last <=> k + dw >= p.size
         /\ beat(p, k).last => beat(p, k).keep = p.size - k
         /\ ~beat(p, k).last => beat(p, k).keep = dw
         /\ beat(p, k) # NoBeat
<1>. DEFINE rest == p.size - k
            nb == Min({dw, rest})
<1>1. rest \in Nat \ {0} /\ dw = 8
  BY DEF dw
<1>2. nb \in {dw, rest} /\ nb <= dw /\ nb <= rest
  <2>1. \E x \in {dw, rest} : \A y \in {dw, rest} : x <= y
    BY <1>1
  <2>. QED
    BY <2>1 DEF Min
<1>3. beat(p, k) = [data |-> <<p, k>>, keep |-> nb, last |-> k + nb >= p.size]
  BY DEF beat
<1>. HIDE DEF nb
<1>4. /\ beat(p, k).data = <<p, k>> /\ beat(p, k).keep = nb
      /\ beat(p, k).last = (k + nb >= p.size)
  BY <1>3
<1>5. NoBeat.keep = 0
  BY DEF NoBeat
<1>6. nb \in 1 .. dw
  BY <1>1, <1>2
<1>7. (k + nb >= p.size) <=> k + dw >= p.size
  BY <1>1, <1>2
<1>8. k + nb >= p.size => nb = p.size - k
  BY <1>1, <1>2
<1>9. ~(k + nb >= p.size) => nb = dw
  BY <1>1, <1>2
<1>10. beat(p, k) # NoBeat
  BY <1>1, <1>4, <1>5, <1>6
<1>. QED
  BY <1>4, <1>6, <1>7, <1>8, <1>9, <1>10

-----------------------------------------------------------------------------
(* What an edge of a correct device does to one of its queues.                *)
Moved(old, new, off, on, b) ==
  /\ IsSeq(new) /\ Len(new) = Len(old) - off + on
  /\ \A i \in 1 .. Len(old) - off : new[i] = old[i + off]
  /\ on = 1 => new[Len(new)] = b

LEMMA GoodEdge ==
  ASSUME NEW b, NEW m_tready, Edge(b, m_tready), faults \in Nat, faults' = 0
  PROVE  faults = 0 /\ Loads(IF s_tready THEN b ELSE NoBeat, m_tready, FALSE)
<1>1. faults' # faults + 1
  OBVIOUS
<1>2. Loads(IF s_tready THEN b ELSE NoBeat, m_tready, FALSE) /\ UNCHANGED faults
  BY <1>1, Zenon DEF Edge
<1>. QED
  BY <1>2

LEMMA QueueMoves ==
  ASSUME NEW b, NEW m_tready, Loads(b, m_tready, FALSE), NEW q \in Queue, IsSeq(dut[q])
  PROVE  Moved(dut[q], dut'[q], IF q = arb /\ m_tready /\ dut[q] # <<>> THEN 1 ELSE 0,
               IF q = dest /\ (b # NoBeat \/ bench.device = "pipeline") THEN 1 ELSE 0, b)
<1>. DEFINE out == q = arb /\ m_tready /\ dut[q] # <<>>
            in == q = dest /\ (b # NoBeat \/ bench.device = "pipeline")
            left == IF out THEN Tail(dut[q]) ELSE dut[q]
<1>1. dut'[q] = left \o (IF in THEN <<b>> ELSE <<>>)
  BY DEF Loads
<1>2. /\ IsSeq(left) /\ Len(dut[q]) \in Nat
      /\ Len(left) = Len(dut[q]) - (IF out THEN 1 ELSE 0)
      /\ \A i \in 1 .. Len(left) : left[i] = dut[q][i + (IF out THEN 1 ELSE 0)]
  <2>1. CASE out
    BY <2>1, TailIsSeq
  <2>2. CASE ~out
    <3>1. Len(dut[q]) \in Nat /\ \A i \in 1 .. Len(dut[q]) : i + 0 = i
      BY AppendIsSeq
    <3>. QED
      BY <2>2, <3>1
  <2>. QED
    BY <2>1, <2>2
<1>. DEFINE off == IF out THEN 1 ELSE 0
            on == IF in THEN 1 ELSE 0
<1>3. Moved(dut[q], dut'[q], off, on, b)
  <2>. HIDE DEF out, in, left
  <2>1. CASE in
    <3>1. dut'[q] = left \o <<b>>
      BY <1>1, <2>1
    <3>2. /\ IsSeq(dut'[q]) /\ Len(dut'[q]) = Len(left) + 1
          /\ \A i \in 1 .. Len(left) : dut'[q][i] = left[i]
          /\ dut'[q][Len(left) + 1] = b
      <4>1. IsSeq(left)
        BY <1>2
      <4>2. /\ IsSeq(left \o <<b>>) /\ Len(left \o <<b>>) = Len(left) + 1
            /\ \A i \in 1 .. Len(left) : (left \o <<b>>)[i] = left[i]
            /\ (left \o <<b>>)[Len(left) + 1] = b
        BY <4>1, ConcatIsSeq
      <4>. QED
        BY <3>1, <4>2
    <3>. QED
      BY <1>2, <2>1, <3>2 DEF Moved
  <2>2. CASE ~in
    <3>1. dut'[q] = left
      BY <1>1, <1>2, <2>2, ConcatIsSeq
    <3>. QED
      BY <1>2, <2>2, <3>1 DEF Moved
  <2>. QED
    BY <2>1, <2>2
<1>. QED
  BY <1>3

-----------------------------------------------------------------------------
(* Where the program of test t is.                                            *)
Called(t) == Len(t.program) - Len(todo)

ProgramInv(t) ==
  /\ bench = t.driver
  /\ IsSeq(todo) /\ Len(todo) <= Len(t.program)
  /\ \A i \in 1 .. Len(todo) : todo[i] = t.program[Called(t) + i]
  /\ IsSeq(pushed)
  /\ \A j \in 1 .. Len(pushed) :
       \E i \in 1 .. Called(t) : t.program[i].op = "push" /\ pushed[j] = t.program[i]
  /\ pc \in {"reset", "host", "push", "wait", "idle", "drain", "flush", "return", "done"}
  /\ pos \in Nat
  /\ pc \in {"push", "wait"} => pos < pkt.size
  /\ pc \in {"push", "wait", "idle"} => pushed # <<>>
  /\ pc \in {"drain", "flush", "return"} => todo # <<>> /\ Head(todo).op = "drain"
  /\ pc = "drain" => timeout \in 1 .. TIMEOUT
  /\ pc = "done" => todo = <<>>

LEMMA ProgramType ==
  ASSUME NEW t \in Tests
  PROVE  /\ IsSeq(t.program) /\ Len(t.program) \in Nat
         /\ \A i \in 1 .. Len(t.program) : t.program[i] \in Call
  BY TestAssumption DEF IsSeq

LEMMA PushedType ==
  ASSUME NEW t \in Tests, ProgramInv(t)
  PROVE  /\ Len(pushed) \in Nat
         /\ \A j \in 1 .. Len(pushed) : pushed[j] \in Call /\ pushed[j].pkt.size \in Nat \ {0}
         /\ pushed # <<>> => /\ Len(pushed) \in 1 .. Len(pushed)
                             /\ pkt = pushed[Len(pushed)].pkt /\ pkt.size \in Nat \ {0}
<1>1. Len(pushed) \in Nat /\ Len(todo) \in Nat
  BY AppendIsSeq DEF ProgramInv
<1>2. ASSUME NEW j \in 1 .. Len(pushed)
      PROVE  pushed[j] \in Call /\ pushed[j].pkt.size \in Nat \ {0}
  <2>1. PICK i \in 1 .. Called(t) : pushed[j] = t.program[i]
    BY DEF ProgramInv
  <2>2. i \in 1 .. Len(t.program)
    BY <1>1, ProgramType DEF Called
  <2>3. pushed[j] \in Call
    BY <2>1, <2>2, ProgramType
  <2>. QED
    BY <2>3 DEF Call, Packet
<1>3. pushed # <<>> => Len(pushed) \in 1 .. Len(pushed)
  BY <1>1, TailIsSeq DEF ProgramInv
<1>. QED
  BY <1>1, <1>2, <1>3 DEF pkt, Last

(* The call that is made next.                                                *)
LEMMA NextCall ==
  ASSUME NEW t \in Tests, ProgramInv(t), todo # <<>>, todo' = Tail(todo)
  PROVE  /\ Called(t) \in Nat /\ Called(t)' = Called(t) + 1
         /\ Called(t) + 1 \in 1 .. Len(t.program)
         /\ Head(todo) = t.program[Called(t) + 1]
         /\ IsSeq(todo') /\ Len(todo') <= Len(t.program)
         /\ \A i \in 1 .. Len(todo') : todo'[i] = t.program[Called(t)' + i]
<1>1. /\ IsSeq(todo') /\ Len(todo) \in Nat \ {0} /\ Len(todo') = Len(todo) - 1
      /\ \A i \in 1 .. Len(todo) - 1 : todo'[i] = todo[i + 1]
      /\ Head(todo) = todo[1]
  BY TailIsSeq DEF ProgramInv
<1>2. Len(t.program) \in Nat /\ Len(todo) <= Len(t.program)
  BY ProgramType DEF ProgramInv
<1>3. Called(t) \in Nat /\ Called(t)' = Called(t) + 1 /\ Called(t) + 1 \in 1 .. Len(t.program)
  BY <1>1, <1>2 DEF Called
<1>4. Head(todo) = t.program[Called(t) + 1]
  <2>1. 1 \in 1 .. Len(todo)
    BY <1>1
  <2>. QED
    BY <1>1, <2>1 DEF ProgramInv
<1>5. ASSUME NEW i \in 1 .. Len(todo')
      PROVE  todo'[i] = t.program[Called(t)' + i]
  <2>1. i + 1 \in 1 .. Len(todo) /\ i \in 1 .. Len(todo) - 1
    BY <1>1
  <2>2. todo'[i] = t.program[Called(t) + (i + 1)]
    BY <1>1, <2>1 DEF ProgramInv
  <2>3. Called(t) + (i + 1) = Called(t)' + i
    BY <1>3
  <2>. QED
    BY <2>2, <2>3
<1>. QED
  BY <1>1, <1>2, <1>3, <1>4, <1>5

(* After a beat the driver waits, goes on to the next beat, or is through.    *)
LEMMA BeatOut ==
  ASSUME NEW t \in Tests, ProgramInv(t), pc \in {"push", "wait"}, NextBeat
  PROVE  \/ pc' = "wait" /\ pos' = pos /\ bench.wait # "none" /\ ~s_tready'
         \/ /\ pc' = "push" /\ pos' = pos + dw /\ pos' < pkt.size /\ pos' \in Nat
            /\ ~driven.last
         \/ /\ pc' = (IF bench.idle THEN "idle" ELSE "host") /\ pos' = pkt.size
            /\ driven.last /\ pos + dw >= pkt.size
<1>1. pkt.size \in Nat \ {0} /\ pos \in Nat /\ pos < pkt.size /\ dw = 8
  BY PushedType DEF ProgramInv, dw
<1>2. /\ driven.last <=> pos + dw >= pkt.size
      /\ driven.last => driven.keep = pkt.size - pos
      /\ ~driven.last => driven.keep = dw
  BY <1>1, BeatIs DEF driven
<1>3. CASE bench.wait # "none" /\ ~s_tready'
  BY <1>3 DEF NextBeat
<1>4. CASE ~(bench.wait # "none" /\ ~s_tready')
  <2>1. /\ pos' = pos + driven.keep
        /\ pc' = IF ~driven.last THEN "push" ELSE IF bench.idle THEN "idle" ELSE "host"
    BY <1>4 DEF NextBeat
  <2>2. CASE driven.last
    BY <1>1, <1>2, <2>1, <2>2
  <2>3. CASE ~driven.last
    BY <1>1, <1>2, <2>1, <2>3
  <2>. QED
    BY <2>2, <2>3
<1>. QED
  BY <1>3, <1>4

LEMMA ProgramInit ==
  ASSUME Init
  PROVE  \E t \in Tests : ProgramInv(t) /\ todo = t.program
<1>1. PICK t \in Tests : bench = t.driver /\ todo = t.program
  BY DEF Init
<1>2. IsSeq(todo) /\ Len(todo) \in Nat /\ IsSeq(pushed) /\ Len(pushed) = 0
  BY <1>1, ProgramType, EmptyIsSeq DEF Init
<1>3. \A i \in 1 .. Len(todo) : todo[i] = t.program[Called(t) + i]
  BY <1>1, <1>2 DEF Called
<1>. QED
  BY <1>1, <1>2, <1>3 DEF Init, ProgramInv

(* Its size is that of the packet, so pkt and what depends on it are the same *)
(* before and after an edge.                                                  *)
LEMMA SamePacket ==
  ASSUME pushed' = pushed
  PROVE  pkt' = pkt
  BY DEF pkt, Last

LEMMA SameProgram ==
  ASSUME NEW t \in Tests, ProgramInv(t), UNCHANGED <<bench, todo, pushed>>,
         pc' \in {"host", "push", "wait", "idle", "drain", "flush", "return", "done"},
         pos' \in Nat,
         pc' \in {"push", "wait"} => pos' < pkt.size,
         pc' \in {"push", "wait", "idle"} => pushed # <<>>,
         pc' \in {"drain", "flush", "return"} => todo # <<>> /\ Head(todo).op = "drain",
         pc' = "drain" => timeout' \in 1 .. TIMEOUT,
         pc' = "done" => todo = <<>>
  PROVE  ProgramInv(t)'
<1>1. Called(t)' = Called(t) /\ pkt' = pkt /\ Head(todo)' = Head(todo)
  BY SamePacket DEF Called
<1>. QED
  BY <1>1 DEF ProgramInv, IsSeq

LEMMA PushStep ==
  ASSUME NEW t \in Tests, ProgramInv(t), pc \in {"push", "wait"}, NextBeat,
         UNCHANGED <<bench, todo, pushed>>
  PROVE  ProgramInv(t)'
<1>1. pkt.size \in Nat /\ pos \in Nat /\ pos < pkt.size /\ pushed # <<>>
  BY PushedType DEF ProgramInv
<1>2. CASE pc' = "wait" /\ pos' = pos
  BY <1>1, <1>2, SameProgram
<1>3. CASE pc' = "push" /\ pos' < pkt.size /\ pos' \in Nat
  BY <1>1, <1>3, SameProgram
<1>4. CASE pc' = (IF bench.idle THEN "idle" ELSE "host") /\ pos' = pkt.size
  <2>1. pc' \in {"idle", "host"} /\ pos' \in Nat
    BY <1>1, <1>4
  <2>. QED
    BY <1>1, <2>1, SameProgram
<1>. QED
  BY <1>2, <1>3, <1>4, BeatOut

LEMMA DrainStep ==
  ASSUME NEW t \in Tests, ProgramInv(t), pc = "drain", Drain
  PROVE  /\ ProgramInv(t)'
         /\ pc' = "drain" => timeout' = timeout - 1 /\ ~DrainEnds
<1>1. timeout \in 1 .. TIMEOUT /\ TIMEOUT \in Nat
  BY BenchAssumption DEF ProgramInv
<1>2. UNCHANGED <<bench, todo, pushed, pos>> /\ pos \in Nat
  BY DEF Drain, ProgramInv
<1>3. todo # <<>> /\ Head(todo).op = "drain"
  BY DEF ProgramInv
<1>4. CASE ~DrainEnds
  <2>1. timeout' = timeout - 1 /\ pc' = "drain" /\ timeout # 1
    BY <1>4 DEF Drain, DrainEnds
  <2>2. timeout' \in 1 .. TIMEOUT
    BY <1>1, <2>1
  <2>. QED
    BY <1>2, <1>3, <1>4, <2>1, <2>2, SameProgram
<1>5. CASE DrainEnds
  <2>1. pc' \in {"flush", "return"}
    BY <1>5 DEF Drain
  <2>. QED
    BY <1>2, <1>3, <2>1, SameProgram
<1>. QED
  BY <1>4, <1>5

LEMMA ProgramStep ==
  ASSUME NEW t \in Tests, ProgramInv(t), [Next]_vars
  PROVE  ProgramInv(t)'
<1>. USE DEF progVars
<1>1. pos \in Nat
  BY DEF ProgramInv
<1>2. CASE Reset
  BY <1>1, <1>2, SameProgram DEF Reset
<1>3. CASE CallExpect
  <2>1. todo' = Tail(todo) /\ todo # <<>> /\ UNCHANGED <<bench, pushed, pc, pos, timeout>>
    BY <1>3 DEF CallExpect, Calls
  <2>2. pc = "host"
    BY <1>3 DEF CallExpect, Calls
  <2>3. \A j \in 1 .. Len(pushed) : \E i \in 1 .. Called(t)' :
          t.program[i].op = "push" /\ pushed[j] = t.program[i]
    <3>1. Called(t) \in Nat /\ Called(t)' = Called(t) + 1
      BY <2>1, NextCall
    <3>2. \A i \in 1 .. Called(t) : i \in 1 .. Called(t)'
      BY <3>1
    <3>. QED
      BY <3>2 DEF ProgramInv
  <2>. QED
    BY <2>1, <2>2, <2>3, NextCall DEF ProgramInv, IsSeq
<1>4. CASE CallPush
  <2>1. /\ todo' = Tail(todo) /\ todo # <<>> /\ pushed' = Append(pushed, Head(todo))
        /\ bench' = bench /\ pos' = 0 /\ pc' = "push" /\ Head(todo).op = "push"
    BY <1>4 DEF CallPush, Calls
  <2>2. /\ Called(t) \in Nat /\ Called(t)' = Called(t) + 1
        /\ Head(todo) = t.program[Called(t) + 1]
    BY <2>1, NextCall
  <2>3. /\ IsSeq(pushed') /\ Len(pushed) \in Nat /\ Len(pushed') = Len(pushed) + 1
        /\ \A i \in 1 .. Len(pushed) : pushed'[i] = pushed[i]
        /\ pushed'[Len(pushed) + 1] = Head(todo)
    BY <2>1, AppendIsSeq DEF ProgramInv
  <2>4. ASSUME NEW j \in 1 .. Len(pushed')
        PROVE  \E i \in 1 .. Called(t)' : /\ t.program[i].op = "push"
                                          /\ pushed'[j] = t.program[i]
    <3>1. CASE j \in 1 .. Len(pushed)
      <4>1. PICK i \in 1 .. Called(t) : t.program[i].op = "push" /\ pushed[j] = t.program[i]
        BY <3>1 DEF ProgramInv
      <4>2. i \in 1 .. Called(t)'
        BY <2>2
      <4>. QED
        BY <2>3, <3>1, <4>1, <4>2
    <3>2. CASE j = Len(pushed) + 1
      <4>1. Called(t) + 1 \in 1 .. Called(t)'
        BY <2>2
      <4>. QED
        BY <2>1, <2>2, <2>3, <3>2, <4>1
    <3>. QED
      BY <2>3, <3>1, <3>2
  <2>5. pkt' = Head(todo).pkt /\ pushed' # <<>>
    BY <2>3, EmptyIsSeq DEF pkt, Last
  <2>6. Head(todo).pkt.size \in Nat \ {0}
    <3>1. Head(todo) \in Call
      BY <2>1, <2>2, NextCall, ProgramType
    <3>. QED
      BY <3>1 DEF Call, Packet
  <2>7. /\ IsSeq(todo') /\ Len(todo') <= Len(t.program)
        /\ \A i \in 1 .. Len(todo') : todo'[i] = t.program[Called(t)' + i]
    BY <2>1, NextCall
  <2>8. /\ pos' \in Nat /\ (pc' \in {"push", "wait"} => pos' < pkt'.size)
        /\ pc' \notin {"drain", "flush", "return", "done"}
    BY <2>1, <2>5, <2>6
  <2>9. bench' = t.driver
    BY <2>1 DEF ProgramInv
  <2>10. pc' \in {"reset", "host", "push", "wait", "idle", "drain", "flush", "return", "done"}
    BY <2>1
  <2>. QED
    BY <2>1, <2>3, <2>4, <2>5, <2>7, <2>8, <2>9, <2>10 DEF ProgramInv
<1>5. CASE CallDrain
  <2>1. TIMEOUT \in 1 .. TIMEOUT
    BY BenchAssumption
  <2>. QED
    BY <1>1, <1>5, <2>1, SameProgram DEF CallDrain
<1>6. CASE Finish
  BY <1>1, <1>6, SameProgram DEF Finish
<1>7. CASE Push
  BY <1>7, PushStep DEF Push
<1>8. CASE Spin
  BY <1>8, PushStep DEF Spin
<1>9. CASE TakeOne
  BY <1>9, PushStep DEF TakeOne
<1>10. CASE Idle
  BY <1>1, <1>10, SameProgram DEF Idle
<1>11. CASE Drain
  BY <1>11, DrainStep DEF Drain
<1>12. CASE Flush
  <2>1. pc' \in {"flush", "return"}
    BY <1>12 DEF Flush
  <2>2. todo # <<>> /\ Head(todo).op = "drain"
    BY <1>12 DEF Flush, ProgramInv
  <2>. QED
    BY <1>1, <1>12, <2>1, <2>2, SameProgram DEF Flush
<1>13. CASE Return
  <2>1. /\ todo' = Tail(todo) /\ todo # <<>> /\ UNCHANGED <<bench, pushed, pos, timeout>>
        /\ pc' = "host"
    BY <1>13 DEF Return, ProgramInv
  <2>3. \A j \in 1 .. Len(pushed) : \E i \in 1 .. Called(t)' :
          t.program[i].op = "push" /\ pushed[j] = t.program[i]
    <3>1. Called(t) \in Nat /\ Called(t)' = Called(t) + 1
      BY <2>1, NextCall
    <3>2. \A i \in 1 .. Called(t) : i \in 1 .. Called(t)'
      BY <3>1
    <3>. QED
      BY <3>2 DEF ProgramInv
  <2>. QED
    BY <2>1, <2>3, NextCall DEF ProgramInv, IsSeq
<1>14. CASE UNCHANGED vars
  <2>1. UNCHANGED <<bench, todo, pushed, pc, pos, timeout>>
    BY <1>14 DEF vars
  <2>2. Called(t)' = Called(t) /\ pkt' = pkt
    BY <2>1 DEF Called, pkt, Last
  <2>. QED
    BY <2>1, <2>2 DEF ProgramInv, IsSeq
<1>. QED
  BY <1>2, <1>3, <1>4, <1>5, <1>6, <1>7, <1>8, <1>9, <1>10, <1>11, <1>12, <1>13, <1>14
  DEF Next

-----------------------------------------------------------------------------
(* The pipeline.  Every edge moves every register, so of the packet pushed    *)
(* last the registers hold a window: a bubble before its first beat, then k   *)
(* beats, the newest of them its last one if it is closed, then the bubbles   *)
(* of e edges.  What is older than the bubble is not said.                    *)
Shape(line, k, e, closed) ==
  \A i \in 1 .. STAGES :
    /\ STAGES - i < e => line[i] = NoBeat
    /\ e <= STAGES - i /\ STAGES - i < e + k
         => line[i] # NoBeat /\ (line[i].last <=> closed /\ STAGES - i = e)
    /\ STAGES - i = e + k => line[i] = NoBeat

Dry(line) == \A i \in 1 .. STAGES : line[i] = NoBeat

MinBeats(d) == STAGES - (IF d.when_dry = "at once" THEN 1 ELSE 2)

Window(d, line, e) ==
  Dry(line) \/ \E k \in Nat : k >= MinBeats(d) /\ Shape(line, k, e, TRUE)

Shifted(old, new, b) ==
  /\ IsSeq(new) /\ Len(new) = STAGES
  /\ \A i \in 1 .. STAGES : new[i] = IF i < STAGES THEN old[i + 1] ELSE b

LEMMA BubbleShape ==
  ASSUME NEW old, NEW new, NEW k \in Nat, NEW e \in Nat, NEW closed \in BOOLEAN,
         Shifted(old, new, NoBeat), Shape(old, k, e, closed)
  PROVE  Shape(new, k, e + 1, closed)
<1>1. STAGES \in Nat \ {0}
  BY BenchAssumption
<1>. SUFFICES ASSUME NEW i \in 1 .. STAGES
              PROVE  /\ STAGES - i < e + 1 => new[i] = NoBeat
                     /\ e + 1 <= STAGES - i /\ STAGES - i < e + 1 + k
                          => /\ new[i] # NoBeat
                             /\ new[i].last <=> closed /\ STAGES - i = e + 1
                     /\ STAGES - i = e + 1 + k => new[i] = NoBeat
  BY DEF Shape
<1>2. CASE i = STAGES
  <2>1. new[i] = NoBeat
    BY <1>1, <1>2 DEF Shifted
  <2>. QED
    BY <1>1, <1>2, <2>1
<1>3. CASE i # STAGES
  <2>1. new[i] = old[i + 1] /\ i + 1 \in 1 .. STAGES /\ STAGES - (i + 1) = STAGES - i - 1
    BY <1>1, <1>3 DEF Shifted
  <2>2. /\ STAGES - (i + 1) < e => old[i + 1] = NoBeat
        /\ e <= STAGES - (i + 1) /\ STAGES - (i + 1) < e + k
             => /\ old[i + 1] # NoBeat
                /\ old[i + 1].last <=> closed /\ STAGES - (i + 1) = e
        /\ STAGES - (i + 1) = e + k => old[i + 1] = NoBeat
    BY <2>1 DEF Shape
  <2>. DEFINE x == new[i]
  <2>3. /\ STAGES - i < e + 1 => x = NoBeat
        /\ e + 1 <= STAGES - i /\ STAGES - i < e + 1 + k
             => x # NoBeat /\ (x.last <=> closed /\ STAGES - i = e + 1)
        /\ STAGES - i = e + 1 + k => x = NoBeat
    <3>1. x = old[i + 1]
      BY <2>1
    <3>. HIDE DEF x
    <3>. QED
      BY <1>1, <2>1, <2>2, <3>1
  <2>. QED
    BY <2>3
<1>. QED
  BY <1>2, <1>3

LEMMA BubbleWindow ==
  ASSUME NEW d, NEW old, NEW new, NEW e \in Nat,
         Shifted(old, new, NoBeat), Window(d, old, e)
  PROVE  Window(d, new, e + 1)
<1>1. CASE Dry(old)
  <2>1. Dry(new)
    <3>1. STAGES \in Nat \ {0}
      BY BenchAssumption
    <3>. SUFFICES ASSUME NEW i \in 1 .. STAGES PROVE new[i] = NoBeat
      BY DEF Dry
    <3>2. i < STAGES => i + 1 \in 1 .. STAGES
      BY <3>1
    <3>. QED
      BY <1>1, <3>2 DEF Dry, Shifted
  <2>. QED
    BY <2>1 DEF Window
<1>2. CASE ~Dry(old)
  <2>1. PICK k \in Nat : k >= MinBeats(d) /\ Shape(old, k, e, TRUE)
    BY <1>2 DEF Window
  <2>. QED
    BY <2>1, BubbleShape DEF Window
<1>. QED
  BY <1>1, <1>2

(* A beat more of the packet.                                                 *)
LEMMA BeatShape ==
  ASSUME NEW old, NEW new, NEW b, NEW k \in Nat, b # NoBeat,
         b.last \in BOOLEAN, Shifted(old, new, b), Shape(old, k, 0, FALSE)
  PROVE  Shape(new, k + 1, 0, b.last)
<1>1. STAGES \in Nat \ {0}
  BY BenchAssumption
<1>. SUFFICES ASSUME NEW i \in 1 .. STAGES
              PROVE  /\ STAGES - i < 0 => new[i] = NoBeat
                     /\ 0 <= STAGES - i /\ STAGES - i < 0 + (k + 1)
                          => new[i] # NoBeat /\ (new[i].last <=> b.last /\ STAGES - i = 0)
                     /\ STAGES - i = 0 + (k + 1) => new[i] = NoBeat
  BY DEF Shape
<1>2. CASE i = STAGES
  <2>1. new[i] = b
    BY <1>1, <1>2 DEF Shifted
  <2>. QED
    BY <1>1, <1>2, <2>1
<1>3. CASE i # STAGES
  <2>1. new[i] = old[i + 1] /\ i + 1 \in 1 .. STAGES /\ STAGES - (i + 1) = STAGES - i - 1
    BY <1>1, <1>3 DEF Shifted
  <2>2. /\ 0 <= STAGES - (i + 1) /\ STAGES - (i + 1) < 0 + k
             => old[i + 1] # NoBeat /\ ~old[i + 1].last
        /\ STAGES - (i + 1) = 0 + k => old[i + 1] = NoBeat
    BY <2>1 DEF Shape
  <2>3. ~(STAGES - i = 0) /\ 0 <= STAGES - (i + 1)
    BY <1>1, <1>3
  <2>. DEFINE x == new[i]
  <2>4. /\ STAGES - i < 0 => x = NoBeat
        /\ STAGES - i < 0 + (k + 1) => x # NoBeat /\ ~x.last
        /\ STAGES - i = 0 + (k + 1) => x = NoBeat
    <3>1. x = old[i + 1]
      BY <2>1
    <3>. HIDE DEF x
    <3>. QED
      BY <1>1, <2>1, <2>2, <2>3, <3>1
  <2>. QED
    BY <2>3, <2>4
<1>. QED
  BY <1>2, <1>3

(* A drain of a window ends when the registers are empty.                     *)
Ends(d, old, new, e) ==
  \/ e >= STAGES
  \/ old[1] # NoBeat /\ old[1].last
  \/ old[1] = NoBeat /\ (d.when_dry = "at once" \/ new[1] = NoBeat)

LEMMA WindowEnds ==
  ASSUME NEW d, NEW old, NEW new, NEW e \in Nat \ {0},
         Shifted(old, new, NoBeat), Window(d, old, e), Ends(d, old, new, e)
  PROVE  Dry(new)
<1>. DEFINE once == d.when_dry = "at once"
            final == old[1].last
            gap == old[1] = NoBeat
            gap2 == new[1] = NoBeat
<1>0. e >= STAGES \/ (~gap /\ final) \/ (gap /\ (once \/ gap2))
  BY DEF Ends
<1>. HIDE DEF once, final, gap, gap2
<1>1. STAGES \in Nat \ {0} /\ 1 \in 1 .. STAGES
  BY BenchAssumption
<1>2. CASE Dry(old)
  <2>. SUFFICES ASSUME NEW i \in 1 .. STAGES PROVE new[i] = NoBeat
    BY DEF Dry
  <2>2. i < STAGES => i + 1 \in 1 .. STAGES
    BY <1>1
  <2>. QED
    BY <1>2, <2>2 DEF Dry, Shifted
<1>3. CASE ~Dry(old)
  <2>1. PICK k \in Nat : k >= MinBeats(d) /\ Shape(old, k, e, TRUE)
    BY <1>3 DEF Window
  <2>2. Shape(new, k, e + 1, TRUE)
    BY <2>1, BubbleShape
  <2>3. k >= STAGES - 2 /\ (once => k >= STAGES - 1)
    <3>1. MinBeats(d) \in {STAGES - 1, STAGES - 2}
      BY DEF MinBeats
    <3>2. once => MinBeats(d) = STAGES - 1
      BY DEF MinBeats, once
    <3>3. k \in Nat /\ k >= MinBeats(d)
      BY <2>1
    <3>. QED
      BY <1>1, <3>1, <3>2, <3>3
  <2>4. CASE STAGES - 1 <= e
    <3>. SUFFICES ASSUME NEW i \in 1 .. STAGES PROVE new[i] = NoBeat
      BY DEF Dry
    <3>1. STAGES - i < e + 1
      BY <1>1, <2>4
    <3>. QED
      BY <2>2, <3>1 DEF Shape
  <2>5. CASE e < STAGES - 1
    <3>1. STAGES - 1 < e + k => ~gap /\ ~final
      <4>1. STAGES - 1 # e /\ e <= STAGES - 1
        BY <1>1, <2>5
      <4>. QED
        BY <1>1, <2>1, <4>1 DEF Shape, gap, final
    <3>2. STAGES - 1 = e + k => gap
      BY <1>1, <2>1 DEF Shape, gap
    <3>3. e + 1 <= STAGES - 1 /\ STAGES - 1 < e + 1 + k => ~gap2
      BY <1>1, <2>2 DEF Shape, gap2
    <3>. QED
      BY <1>0, <1>1, <2>1, <2>3, <2>5, <3>1, <3>2, <3>3
  <2>. QED
    BY <1>1, <2>4, <2>5
<1>. QED
  BY <1>2, <1>3

PipeInv(t) ==
  /\ ~stalled /\ arb = 0 /\ IsSeq(dut[0]) /\ dut[1] = <<>> /\ dut[2] = <<>>
  /\ pc \notin {"wait", "flush"}
  /\ pc # "reset" => Len(dut[0]) = STAGES
  /\ pc = "push" => \E k \in Nat : pos = dw * k /\ Shape(dut[0], k, 0, FALSE)
  /\ pc = "idle" => \E k \in Nat : k >= MinBeats(t.driver) /\ Shape(dut[0], k, 0, TRUE)
  /\ pc \in {"host", "done"} => Window(t.driver, dut[0], 1)
  /\ pc = "drain" => Window(t.driver, dut[0], 1 + (TIMEOUT - timeout))
  /\ pc = "return" => Dry(dut[0])

(* The first register of the line is the output.                              *)
LEMMA Output ==
  ASSUME IsSeq(dut[arb]), dut[arb] # <<>>
  PROVE  output = dut[arb][1] /\ (m_tvalid <=> dut[arb][1] # NoBeat)
<1>1. Head(dut[arb]) = dut[arb][1]
  BY TailIsSeq
<1>. QED
  BY <1>1 DEF output, m_tvalid

LEMMA PipeEdge ==
  ASSUME NEW b, Edge(b, TRUE), faults \in Nat, faults' = 0,
         bench.device = "pipeline", arb = 0, IsSeq(dut[0]), Len(dut[0]) = STAGES,
         dut[1] = <<>>, dut[2] = <<>>, ~stalled
  PROVE  /\ Shifted(dut[0], dut'[0], b)
         /\ ~stalled' /\ arb' = 0 /\ dut'[1] = <<>> /\ dut'[2] = <<>>
<1>1. STAGES \in Nat \ {0} /\ dut[0] # <<>>
  BY BenchAssumption, EmptyIsSeq
<1>2. s_tready /\ dest = 0
  BY DEF s_tready, dest
<1>3. Loads(b, TRUE, FALSE)
  BY <1>2, GoodEdge
<1>4. Moved(dut[0], dut'[0], 1, 1, b)
  <2>1. 0 \in Queue
    BY DEF Queue
  <2>. QED
    BY <1>1, <1>2, <1>3, <2>1, QueueMoves
<1>5. Shifted(dut[0], dut'[0], b)
  <2>1. IsSeq(dut'[0]) /\ Len(dut'[0]) = STAGES
    BY <1>1, <1>4 DEF Moved
  <2>2. \A i \in 1 .. STAGES - 1 : dut'[0][i] = dut[0][i + 1]
    BY <1>4 DEF Moved
  <2>3. dut'[0][STAGES] = b
    BY <1>4, <2>1 DEF Moved
  <2>. QED
    BY <1>1, <2>1, <2>2, <2>3 DEF Shifted
<1>6. arb' = 0 /\ ~stalled'
  BY <1>3 DEF Loads
<1>7. dut'[1] = <<>> /\ dut'[2] = <<>>
  <2>1. \A q \in {1, 2} : dut'[q] = <<>> \o <<>>
    BY <1>2, <1>3 DEF Loads, Queue
  <2>2. <<>> \o <<>> = <<>>
    BY EmptyIsSeq, ConcatIsSeq
  <2>. QED
    BY <2>1, <2>2
<1>. QED
  BY <1>5, <1>6, <1>7

LEMMA PipeInit ==
  ASSUME NEW t \in Tests, Init
  PROVE  PipeInv(t)
<1>1. IsSeq(dut[0]) /\ dut[1] = <<>> /\ dut[2] = <<>>
  BY EmptyIsSeq DEF Init, Queue
<1>. QED
  BY <1>1 DEF Init, PipeInv

(* The bubbles of the driver's idle edge and of the drain.                    *)
LEMMA PipeDrain ==
  ASSUME NEW t \in Tests, PipelineTest(t.driver, t.program), ProgramInv(t), PipeInv(t),
         Drain, faults \in Nat, faults' = 0
  PROVE  PipeInv(t)'
<1>. DEFINE e == 1 + (TIMEOUT - timeout)
<1>1. /\ t.driver = bench /\ bench.device = "pipeline" /\ bench.idle /\ bench.flush = 0
      /\ bench.when_dry \in {"at once", "still dry"}
  BY DEF ProgramInv, PipelineTest
<1>2. pc = "drain" /\ held = NoBeat /\ Edge(NoBeat, TRUE) /\ pos' = pos
  BY <1>1 DEF Drain, held
<1>3. /\ STAGES \in Nat \ {0} /\ TIMEOUT \in Nat /\ TIMEOUT >= STAGES
      /\ timeout \in 1 .. TIMEOUT
  BY <1>2, BenchAssumption DEF ProgramInv
<1>4. Shifted(dut[0], dut'[0], NoBeat) /\ ~stalled' /\ arb' = 0 /\ dut'[1] = <<>> /\ dut'[2] = <<>>
  BY <1>1, <1>2, PipeEdge DEF PipeInv
<1>5. e \in Nat \ {0} /\ Window(t.driver, dut[0], e)
  BY <1>2, <1>3 DEF PipeInv
<1>6. CASE ~DrainEnds
  <2>1. pc' = "drain" /\ timeout' = timeout - 1
    BY <1>6 DEF Drain
  <2>2. Window(t.driver, dut'[0], e + 1)
    <3>. HIDE DEF e
    <3>. QED
      BY <1>4, <1>5, BubbleWindow
  <2>3. 1 + (TIMEOUT - timeout') = e + 1
    BY <1>3, <2>1
  <2>. HIDE DEF e
  <2>. QED
    BY <1>4, <2>1, <2>2, <2>3 DEF PipeInv, Shifted
<1>7. CASE DrainEnds
  <2>1. pc' = "return"
    <3>1. ~(bench.flush > 0)
      <4>1. bench.flush = 0
        BY <1>1
      <4>. QED
        BY <4>1
    <3>. QED
      BY <1>7, <3>1 DEF Drain
  <2>2. Len(dut[0]) = STAGES /\ dut[arb] = dut[0] /\ dut[0] # <<>> /\ IsSeq(dut[0])
    BY <1>2, <1>3, EmptyIsSeq DEF PipeInv
  <2>3. output = dut[0][1] /\ (m_tvalid <=> dut[0][1] # NoBeat)
    BY <2>2, Output
  <2>4. m_tvalid' <=> dut'[0][1] # NoBeat
    <3>1. IsSeq(dut'[0]) /\ Len(dut'[0]) = STAGES
      BY <1>4 DEF Shifted
    <3>2. dut'[0] # <<>> /\ Head(dut'[0]) = dut'[0][1]
      BY <1>3, <3>1, EmptyIsSeq, TailIsSeq
    <3>. QED
      BY <1>4, <3>2 DEF output, m_tvalid
  <2>5. Ends(t.driver, dut[0], dut'[0], e)
    <3>1. CASE timeout = 1
      <4>1. e >= STAGES
        BY <1>3, <3>1
      <4>. HIDE DEF e
      <4>. QED
        BY <4>1 DEF Ends
    <3>2. CASE m_tvalid /\ output.last
      BY <2>3, <3>2 DEF Ends
    <3>3. CASE ~m_tvalid /\ (bench.when_dry = "at once" \/ ~m_tvalid')
      BY <1>1, <2>3, <2>4, <3>3 DEF Ends
    <3>. QED
      BY <1>7, <3>1, <3>2, <3>3 DEF DrainEnds
  <2>6. Dry(dut'[0])
    <3>. HIDE DEF e
    <3>. QED
      BY <1>4, <1>5, <2>5, WindowEnds
  <2>. QED
    BY <1>4, <2>1, <2>6 DEF PipeInv, Shifted
<1>. QED
  BY <1>6, <1>7

LEMMA PipePush ==
  ASSUME NEW t \in Tests, PipelineTest(t.driver, t.program), ProgramInv(t), PipeInv(t),
         Push, faults \in Nat, faults' = 0
  PROVE  PipeInv(t)'
<1>1. /\ t.driver = bench /\ bench.device = "pipeline" /\ bench.idle /\ bench.m_tready
      /\ \A i \in DOMAIN t.program : t.program[i].op = "push"
           => t.program[i].pkt.size
                > dw * (STAGES - (IF t.driver.when_dry = "at once" THEN 2 ELSE 3))
  BY DEF ProgramInv, PipelineTest
<1>2. bench.m_tready = TRUE
  BY <1>1
<1>3. pc = "push" /\ Edge(driven, TRUE) /\ NextBeat /\ UNCHANGED <<bench, pushed>>
  BY <1>2 DEF Push
<1>4. Shifted(dut[0], dut'[0], driven) /\ ~stalled' /\ arb' = 0 /\ dut'[1] = <<>> /\ dut'[2] = <<>>
  BY <1>1, <1>3, PipeEdge DEF PipeInv
<1>5. PICK k \in Nat : pos = dw * k /\ Shape(dut[0], k, 0, FALSE)
  BY <1>3 DEF PipeInv
<1>6. pkt.size \in Nat \ {0} /\ pos \in Nat /\ pos < pkt.size /\ pushed # <<>>
  BY <1>3, PushedType DEF ProgramInv
<1>7. driven # NoBeat /\ driven.last \in BOOLEAN
  <2>1. driven.last <=> pos + dw >= pkt.size
    BY <1>6, BeatIs DEF driven
  <2>2. driven.last \in BOOLEAN
    BY DEF driven, beat
  <2>. QED
    BY <1>6, <2>2, BeatIs DEF driven
<1>8. Shape(dut'[0], k + 1, 0, driven.last)
  BY <1>4, <1>5, <1>7, BeatShape
<1>9. s_tready'
  BY <1>1, <1>3, <1>4 DEF s_tready
<1>10. CASE ~driven.last
  <2>1. pc' = "push" /\ pos' = pos + dw
    BY <1>3, <1>9, <1>10, BeatOut
  <2>2. pos' = dw * (k + 1)
    BY <1>5, <2>1 DEF dw
  <2>3. Shape(dut'[0], k + 1, 0, FALSE)
    BY <1>7, <1>8, <1>10
  <2>4. \E j \in Nat : pos' = dw * j /\ Shape(dut'[0], j, 0, FALSE)
    <3>1. k + 1 \in Nat
      OBVIOUS
    <3>. QED
      BY <2>2, <2>3, <3>1
  <2>. QED
    BY <1>4, <2>1, <2>4 DEF PipeInv, Shifted
<1>11. CASE driven.last
  <2>1. pc' = "idle" /\ pos + dw >= pkt.size
    BY <1>1, <1>3, <1>9, <1>11, BeatOut
  <2>2. k + 1 >= MinBeats(t.driver)
    <3>. DEFINE short == IF t.driver.when_dry = "at once" THEN 2 ELSE 3
    <3>1. pkt.size > dw * (STAGES - short)
      <4>1. PICK i \in 1 .. Called(t) : /\ t.program[i].op = "push"
                                        /\ pushed[Len(pushed)] = t.program[i]
        BY <1>6, PushedType DEF ProgramInv
      <4>2. i \in DOMAIN t.program
        <5>1. Len(todo) \in Nat
          BY AppendIsSeq DEF ProgramInv
        <5>2. i \in 1 .. Len(t.program)
          BY <5>1, ProgramType DEF Called
        <5>. QED
          BY <5>2, TestAssumption
      <4>3. pkt = t.program[i].pkt
        BY <1>6, <4>1, PushedType
      <4>. QED
        BY <1>1, <4>1, <4>2, <4>3
    <3>2. MinBeats(t.driver) = STAGES - short + 1 /\ short \in {2, 3}
      <4>. DEFINE once == t.driver.when_dry = "at once"
      <4>1. /\ once => MinBeats(t.driver) = STAGES - 1 /\ short = 2
            /\ ~once => MinBeats(t.driver) = STAGES - 2 /\ short = 3
        BY DEF MinBeats
      <4>2. STAGES \in Int
        BY BenchAssumption
      <4>. HIDE DEF once, short
      <4>. QED
        BY <4>1, <4>2
    <3>. HIDE DEF short
    <3>3. STAGES \in Nat
      BY BenchAssumption
    <3>. QED
      BY <1>5, <1>6, <2>1, <3>1, <3>2, <3>3 DEF dw
  <2>3. Shape(dut'[0], k + 1, 0, TRUE)
    BY <1>7, <1>8, <1>11
  <2>4. \E j \in Nat : j >= MinBeats(t.driver) /\ Shape(dut'[0], j, 0, TRUE)
    <3>1. k + 1 \in Nat
      OBVIOUS
    <3>. QED
      BY <2>2, <2>3, <3>1
  <2>. QED
    BY <1>4, <2>1, <2>4 DEF PipeInv, Shifted
<1>. QED
  BY <1>10, <1>11

LEMMA PipeStep ==
  ASSUME NEW t \in Tests, PipelineTest(t.driver, t.program), ProgramInv(t), PipeInv(t),
         [Next]_vars, faults \in Nat, faults' = 0
  PROVE  PipeInv(t)'
<1>. USE DEF dutVars
<1>1. t.driver = bench /\ bench.device = "pipeline" /\ bench.m_tready
  BY DEF ProgramInv, PipelineTest
<1>2. CASE Reset
  <2>1. dut' = EmptyDut /\ arb' = 0 /\ stalled' = FALSE /\ pc' = "host"
    BY <1>2 DEF Reset
  <2>2. dut'[0] = [i \in 1 .. STAGES |-> NoBeat] /\ dut'[1] = <<>> /\ dut'[2] = <<>>
    BY <1>1, <2>1 DEF EmptyDut, Queue
  <2>3. IsSeq(dut'[0]) /\ Len(dut'[0]) = STAGES
    <3>1. STAGES \in Nat
      BY BenchAssumption
    <3>2. [i \in 1 .. STAGES |-> NoBeat] \in Seq({NoBeat})
      BY <3>1
    <3>3. dut'[0] \in Seq({NoBeat}) /\ Len(dut'[0]) = STAGES
      BY <2>2, <3>1, <3>2
    <3>. QED
      BY <3>3 DEF IsSeq
  <2>4. Window(t.driver, dut'[0], 1)
    BY <2>2 DEF Window, Dry
  <2>. QED
    BY <2>1, <2>2, <2>3, <2>4 DEF PipeInv
<1>3. CASE CallExpect \/ Finish
  <2>1. /\ UNCHANGED <<dut, arb, stalled>> /\ pc = "host"
        /\ pc' \in {"host", "done"}
    BY <1>3 DEF CallExpect, Finish, Calls
  <2>. QED
    BY <2>1 DEF PipeInv, IsSeq
<1>4. CASE CallPush
  <2>1. UNCHANGED <<dut, arb, stalled>> /\ pc = "host" /\ pc' = "push" /\ pos' = 0
    BY <1>4 DEF CallPush, Calls
  <2>2. STAGES \in Nat \ {0} /\ Window(t.driver, dut[0], 1)
    BY <2>1, BenchAssumption DEF PipeInv
  <2>3. dut[0][STAGES] = NoBeat
    <3>1. CASE Dry(dut[0])
      BY <2>2, <3>1 DEF Dry
    <3>2. CASE ~Dry(dut[0])
      <4>1. PICK k \in Nat : Shape(dut[0], k, 1, TRUE)
        BY <2>2, <3>2 DEF Window
      <4>. QED
        BY <2>2, <4>1 DEF Shape
    <3>. QED
      BY <3>1, <3>2
  <2>4. Shape(dut[0], 0, 0, FALSE)
    BY <2>2, <2>3 DEF Shape
  <2>5. \E k \in Nat : pos' = dw * k /\ Shape(dut[0], k, 0, FALSE)
    <3>1. dw * 0 = 0
      BY DEF dw
    <3>. QED
      BY <2>1, <2>4, <3>1
  <2>. QED
    BY <2>1, <2>5 DEF PipeInv, IsSeq
<1>5. CASE CallDrain
  <2>1. UNCHANGED <<dut, arb, stalled>> /\ pc = "host" /\ pc' = "drain" /\ timeout' = TIMEOUT
    BY <1>5 DEF CallDrain
  <2>2. 1 + (TIMEOUT - timeout') = 1
    BY <2>1, BenchAssumption
  <2>. QED
    BY <2>1, <2>2 DEF PipeInv, IsSeq
<1>6. CASE Push
  BY <1>6, PipePush
<1>7. CASE Spin \/ TakeOne \/ Flush
  BY <1>7 DEF Spin, TakeOne, Flush, PipeInv
<1>8. CASE Idle
  <2>1. bench.m_tready = TRUE
    BY <1>1
  <2>2. pc = "idle" /\ pc' = "host" /\ Edge(NoBeat, TRUE)
    BY <1>8, <2>1 DEF Idle
  <2>3. Shifted(dut[0], dut'[0], NoBeat) /\ ~stalled' /\ arb' = 0 /\ dut'[1] = <<>> /\ dut'[2] = <<>>
    BY <1>1, <2>2, PipeEdge DEF PipeInv
  <2>4. PICK k \in Nat : k >= MinBeats(t.driver) /\ Shape(dut[0], k, 0, TRUE)
    BY <2>2 DEF PipeInv
  <2>5. Shape(dut'[0], k, 1, TRUE)
    <3>1. Shape(dut'[0], k, 0 + 1, TRUE)
      BY <2>3, <2>4, BubbleShape
    <3>2. 0 + 1 = 1
      OBVIOUS
    <3>. QED
      BY <3>1, <3>2
  <2>6. Window(t.driver, dut'[0], 1)
    BY <2>4, <2>5 DEF Window
  <2>. QED
    BY <2>2, <2>3, <2>6 DEF PipeInv, Shifted
<1>9. CASE Drain
  BY <1>9, PipeDrain
<1>10. CASE Return
  <2>1. UNCHANGED <<dut, arb, stalled>> /\ pc = "return" /\ pc' = "host"
    BY <1>10 DEF Return
  <2>. QED
    BY <2>1 DEF PipeInv, Window, IsSeq
<1>11. CASE UNCHANGED vars
  <2>1. UNCHANGED <<dut, arb, stalled, pc, pos, timeout>>
    BY <1>11 DEF vars, progVars
  <2>. QED
    BY <2>1 DEF PipeInv, IsSeq
<1>. QED
  BY <1>2, <1>3, <1>4, <1>5, <1>6, <1>7, <1>8, <1>9, <1>10, <1>11 DEF Next

LEMMA PipeDry ==
  ASSUME NEW t \in Tests, ProgramInv(t), PipeInv(t), pc = "return"
  PROVE  \A q \in Queue : \A i \in DOMAIN dut[q] : dut[q][i] = NoBeat
<1>1. \A i \in DOMAIN dut[0] : dut[0][i] = NoBeat
  <2>1. DOMAIN dut[0] = 1 .. STAGES
    BY DEF PipeInv, IsSeq
  <2>. QED
    BY <2>1 DEF PipeInv, Dry
<1>2. DOMAIN dut[1] = {} /\ DOMAIN dut[2] = {}
  BY DEF PipeInv
<1>. QED
  BY <1>1, <1>2 DEF Queue

-----------------------------------------------------------------------------
(* A correct device keeps the stream: what its line holds, from its output to *)
(* its input, are the beats from the one captured next to the one driven      *)
(* next.  A place in the stream is a packet, by its position among those      *)
(* pushed, and a byte of it.                                                  *)
IsPlace(ps, x) == x[1] \in 1 .. Len(ps) /\ x[2] \in Nat /\ x[2] < ps[x[1]].pkt.size
BeatAt(ps, x) == beat(ps[x[1]].pkt, x[2])
After(ps, x) == IF BeatAt(ps, x).last THEN <<x[1] + 1, 0>> ELSE <<x[1], x[2] + dw>>

Steps(ps, line, m, at) ==
  /\ \A i \in 1 .. m :
       IF line[i] = NoBeat THEN at[i + 1] = at[i]
       ELSE /\ IsPlace(ps, at[i]) /\ line[i] = BeatAt(ps, at[i])
            /\ at[i + 1] = After(ps, at[i])
  /\ \A i, j \in 1 .. m + 1 :
       i <= j /\ (\A k \in i .. j - 1 : line[k] = NoBeat) => at[i] = at[j]

(* The first m beats of a line lead from place c to place r.                  *)
Chain(ps, line, m, c, r) ==
  \E at : at[1] = c /\ at[m + 1] = r /\ Steps(ps, line, m, at)

LEMMA ChainDry ==
  ASSUME NEW ps, NEW line, NEW m \in Nat, NEW c, NEW r, Chain(ps, line, m, c, r),
         \A i \in 1 .. m : line[i] = NoBeat
  PROVE  c = r
<1>1. PICK at : at[1] = c /\ at[m + 1] = r /\ Steps(ps, line, m, at)
  BY DEF Chain
<1>2. 1 \in 1 .. m + 1 /\ m + 1 \in 1 .. m + 1 /\ 1 <= m + 1
  OBVIOUS
<1>3. \A k \in 1 .. (m + 1) - 1 : line[k] = NoBeat
  OBVIOUS
<1>. QED
  BY <1>1, <1>2, <1>3 DEF Steps

LEMMA ChainEmpty ==
  ASSUME NEW ps, NEW line, NEW c
  PROVE  Chain(ps, line, 0, c, c)
<1>. DEFINE at == [i \in {1} |-> c]
<1>1. at[1] = c /\ at[0 + 1] = c
  OBVIOUS
<1>2. Steps(ps, line, 0, at)
  <2>1. \A i, j \in 1 .. 0 + 1 : at[i] = at[j]
    OBVIOUS
  <2>. QED
    BY <2>1 DEF Steps
<1>. QED
  BY <1>1, <1>2 DEF Chain

LEMMA ChainTake ==
  ASSUME NEW ps, NEW old, NEW new, NEW m \in Nat \ {0}, NEW c, NEW r,
         Chain(ps, old, m, c, r), \A i \in 1 .. m - 1 : new[i] = old[i + 1]
  PROVE  /\ old[1] = NoBeat => Chain(ps, new, m - 1, c, r)
         /\ old[1] # NoBeat => /\ IsPlace(ps, c) /\ old[1] = BeatAt(ps, c)
                               /\ Chain(ps, new, m - 1, After(ps, c), r)
<1>1. PICK at : at[1] = c /\ at[m + 1] = r /\ Steps(ps, old, m, at)
  BY DEF Chain
<1>. DEFINE to == [i \in 1 .. m |-> at[i + 1]]
<1>2. 1 \in 1 .. m /\ m \in 1 .. m /\ (m - 1) + 1 = m
  OBVIOUS
<1>3. /\ old[1] = NoBeat => to[1] = c
      /\ old[1] # NoBeat => /\ IsPlace(ps, c) /\ old[1] = BeatAt(ps, c)
                            /\ to[1] = After(ps, c)
  BY <1>1, <1>2 DEF Steps
<1>4. to[(m - 1) + 1] = r
  BY <1>1, <1>2
<1>5. Steps(ps, new, m - 1, to)
  <2>1. ASSUME NEW i \in 1 .. m - 1
        PROVE  IF new[i] = NoBeat THEN to[i + 1] = to[i]
               ELSE /\ IsPlace(ps, to[i]) /\ new[i] = BeatAt(ps, to[i])
                    /\ to[i + 1] = After(ps, to[i])
    <3>1. i + 1 \in 1 .. m /\ i \in 1 .. m
      OBVIOUS
    <3>2. IF old[i + 1] = NoBeat THEN at[(i + 1) + 1] = at[i + 1]
          ELSE /\ IsPlace(ps, at[i + 1]) /\ old[i + 1] = BeatAt(ps, at[i + 1])
               /\ at[(i + 1) + 1] = After(ps, at[i + 1])
      BY <1>1, <3>1 DEF Steps
    <3>3. to[i] = at[i + 1] /\ to[i + 1] = at[(i + 1) + 1] /\ new[i] = old[i + 1]
      BY <3>1
    <3>. HIDE DEF to
    <3>. QED
      BY <3>2, <3>3
  <2>2. ASSUME NEW i \in 1 .. (m - 1) + 1, NEW j \in 1 .. (m - 1) + 1, i <= j,
               \A k \in i .. j - 1 : new[k] = NoBeat
        PROVE  to[i] = to[j]
    <3>. HIDE DEF to
    <3>1. i + 1 \in 1 .. m + 1 /\ j + 1 \in 1 .. m + 1 /\ i + 1 <= j + 1
      BY <2>2
    <3>2. ASSUME NEW k \in i + 1 .. (j + 1) - 1 PROVE old[k] = NoBeat
      <4>1. k - 1 \in i .. j - 1 /\ k - 1 \in 1 .. m - 1 /\ (k - 1) + 1 = k
        OBVIOUS
      <4>2. new[k - 1] = old[(k - 1) + 1]
        BY <4>1
      <4>. QED
        BY <2>2, <4>1, <4>2
    <3>3. at[i + 1] = at[j + 1]
      BY <1>1, <3>1, <3>2 DEF Steps
    <3>4. i \in 1 .. m /\ j \in 1 .. m
      OBVIOUS
    <3>. QED
      BY <3>3, <3>4 DEF to
  <2>. QED
    BY <2>1, <2>2 DEF Steps
<1>. HIDE DEF to
<1>. QED
  BY <1>3, <1>4, <1>5 DEF Chain

LEMMA ChainAdd ==
  ASSUME NEW ps, NEW old, NEW new, NEW m \in Nat, NEW c, NEW r, NEW b,
         Chain(ps, old, m, c, r), \A i \in 1 .. m : new[i] = old[i], new[m + 1] = b,
         b # NoBeat => IsPlace(ps, r) /\ b = BeatAt(ps, r)
  PROVE  Chain(ps, new, m + 1, c, IF b = NoBeat THEN r ELSE After(ps, r))
<1>1. PICK at : at[1] = c /\ at[m + 1] = r /\ Steps(ps, old, m, at)
  BY DEF Chain
<1>. DEFINE end == IF b = NoBeat THEN r ELSE After(ps, r)
            to == [i \in 1 .. m + 2 |-> IF i = m + 2 THEN end ELSE at[i]]
<1>2. /\ to[1] = c /\ to[m + 1] = r /\ to[m + 2] = end
      /\ \A i \in 1 .. m + 1 : to[i] = at[i]
  BY <1>1
<1>. HIDE DEF to, end
<1>3. Steps(ps, new, m + 1, to)
  <2>1. ASSUME NEW i \in 1 .. m + 1
        PROVE  IF new[i] = NoBeat THEN to[i + 1] = to[i]
               ELSE /\ IsPlace(ps, to[i]) /\ new[i] = BeatAt(ps, to[i])
                    /\ to[i + 1] = After(ps, to[i])
    <3>1. CASE i = m + 1
      <4>1. to[i] = r /\ to[i + 1] = end /\ new[i] = b
        <5>1. i + 1 = m + 2
          BY <3>1
        <5>. QED
          BY <1>2, <3>1, <5>1
      <4>. QED
        BY <4>1 DEF end
    <3>2. CASE i # m + 1
      <4>1. i \in 1 .. m /\ i \in 1 .. m + 1 /\ i + 1 \in 1 .. m + 1
        BY <3>2
      <4>2. to[i] = at[i] /\ to[i + 1] = at[i + 1] /\ new[i] = old[i]
        BY <1>2, <4>1
      <4>. QED
        BY <1>1, <4>1, <4>2 DEF Steps
    <3>. QED
      BY <3>1, <3>2
  <2>2. ASSUME NEW i \in 1 .. (m + 1) + 1, NEW j \in 1 .. (m + 1) + 1, i <= j,
               \A k \in i .. j - 1 : new[k] = NoBeat
        PROVE  to[i] = to[j]
    <3>1. CASE i = m + 2
      <4>1. j = m + 2
        <5>1. j <= m + 2 /\ m + 2 <= j /\ j \in Int
          BY <2>2, <3>1
        <5>. QED
          BY <5>1
      <4>. QED
        BY <3>1, <4>1
    <3>2. CASE i # m + 2
      <4>. DEFINE h == IF j = m + 2 THEN m + 1 ELSE j
      <4>1. i \in 1 .. m + 1 /\ h \in 1 .. m + 1 /\ i <= h /\ h <= j
        <5>1. i \in 1 .. m + 1 /\ i <= j
          BY <2>2, <3>2
        <5>2. CASE j = m + 2
          BY <5>1, <5>2
        <5>3. CASE j # m + 2
          <6>1. j \in 1 .. m + 1
            BY <5>3
          <6>. QED
            BY <5>1, <5>3, <6>1
        <5>. QED
          BY <5>2, <5>3
      <4>2. ASSUME NEW k \in i .. h - 1 PROVE old[k] = NoBeat
        <5>1. k \in 1 .. m /\ k \in i .. j - 1
          BY <4>1
        <5>. QED
          BY <2>2, <5>1
      <4>3. at[i] = at[h]
        BY <1>1, <4>1, <4>2 DEF Steps
      <4>4. to[j] = to[h]
        <5>1. CASE j = m + 2
          <6>1. m + 1 \in i .. j - 1
            BY <3>2, <5>1
          <6>2. b = NoBeat
            BY <2>2, <6>1
          <6>. QED
            BY <1>2, <5>1, <6>2 DEF end
        <5>. QED
          BY <5>1
      <4>. QED
        BY <1>2, <4>1, <4>3, <4>4
    <3>. QED
      BY <3>1, <3>2
  <2>. QED
    BY <2>1, <2>2 DEF Steps
<1>4. to[(m + 1) + 1] = end
  <2>1. (m + 1) + 1 = m + 2
    OBVIOUS
  <2>. QED
    BY <1>2, <2>1
<1>. QED
  BY <1>2, <1>3, <1>4 DEF Chain, end

-----------------------------------------------------------------------------
(* What the invariants of all kinds of test have in common.                   *)
home == IF bench.device = "scheduler" THEN 2 ELSE 0
inside == dut[home]

(* A correct device never stalls, and holds its beats in one queue.           *)
Device == /\ ~stalled /\ IsSeq(inside) /\ arb \in {0, home}
          /\ \A q \in Queue : q # home => dut[q] = <<>>

(* The call made last, and that a drain is to be made next.                   *)
CallInv(t) ==
  /\ pc = "reset" => todo = t.program /\ pushed = <<>> /\ rx = 0 /\ results = <<>>
  /\ pc \in {"push", "wait", "idle"} => Called(t) > 0 /\ t.program[Called(t)].op = "push"
  /\ Called(t) > 0 /\ t.program[Called(t)].op = "push"
       => pushed # <<>> /\ pushed[Len(pushed)] = t.program[Called(t)]
Open == todo # <<>> /\ Head(todo).op = "drain"

(* What was expected and pushed are the calls of the program so far.          *)
AnnounceInv(t) ==
  /\ Len(pushed) = Made(t.program, Called(t), "push")
  /\ \A j \in 1 .. Len(pushed) :
       \E i \in 1 .. Called(t) : /\ t.program[i].op = "push"
                                 /\ Made(t.program, i, "push") = j
                                 /\ pushed[j] = t.program[i]
  /\ Len(wanted) = Made(t.program, Called(t), "expect")
  /\ \A j \in 1 .. Len(wanted) :
       \E i \in 1 .. Called(t) : /\ t.program[i].op = "expect"
                                 /\ Made(t.program, i, "expect") = j
                                 /\ wanted[j] = packet_bytes(t.program[i].pkt)
  /\ pc = "reset" => expected = <<>>

(* A queue of beats without bubbles.                                          *)
QueueInv(t) ==
  /\ Device /\ pc # "flush"
  /\ \A i \in 1 .. Len(inside) : inside[i] # NoBeat
  /\ Len(inside) <= DEPTH /\ (pc # "wait" <=> Len(inside) < DEPTH)
  /\ pc = "drain" => inside = <<>> \/ Len(inside) + (TIMEOUT - timeout) <= DEPTH
  /\ pc \in {"reset", "return"} => inside = <<>>
  /\ Called(t) > 0 /\ t.program[Called(t)].op = "drain" /\ pc \in {"host", "done"}
       => inside = <<>>
  /\ bench.device = "scheduler" =>
       /\ pc = "idle" => inside # <<>>
       /\ pc \in {"host", "drain"} /\ inside # <<>> => arb = 2
       /\ pc = "push" => \A i \in 1 .. Len(inside) : ~inside[i].last
       /\ pc \in {"idle", "host", "drain"}
            => \A i \in 1 .. Len(inside) : inside[i].last => i = Len(inside)
       /\ pc = "host" /\ ~Open => inside = <<>>

(* A test that pushes more than a queue holds stops before it drains.         *)
Filled(t, n) == IF n = 0 THEN 0
                ELSE IF n = 1 THEN beats(t.program[1].pkt)
                ELSE IF n = 2 THEN beats(t.program[1].pkt) + beats(t.program[2].pkt)
                ELSE beats(t.program[1].pkt) + beats(t.program[2].pkt) + beats(t.program[3].pkt)
BlockedInv(t) ==
  /\ Device /\ Len(inside) <= DEPTH /\ (pc # "wait" <=> Len(inside) < DEPTH)
  /\ pc \in {"reset", "host", "idle"} =>
       Called(t) \in 0 .. 2 /\ Len(inside) = Filled(t, Called(t))
  /\ pc \in {"push", "wait"} =>
       /\ Called(t) \in 1 .. 3
       /\ pos = dw * (Len(inside) - Filled(t, Called(t) - 1) - (IF pc = "wait" THEN 1 ELSE 0))
  /\ pc \in {"reset", "host", "push", "wait", "idle"}

(* The captures, as a place in the stream.                                    *)
MonAt(c) ==
  /\ error_count = 0 /\ consumed = Len(received) /\ IsSeq(rx_beats)
  /\ c = <<Len(received) + 1, dw * Len(rx_beats)>>
  /\ \A i \in 1 .. Len(rx_beats) :
       /\ Len(received) + 1 <= Len(pushed)
       /\ rx_beats[i] = packet_bytes(pushed[Len(received) + 1].pkt)[i]

SizeAt(c) ==
  /\ IsSeq(results) /\ rx \in Nat
  /\ \A i \in 1 .. Len(results) : results[i].got = results[i].want
  /\ ~Open => rx = 0 /\ c = <<Len(pushed) + 1, 0>>
  /\ Open => \/ rx < pkt.size /\ c = <<Len(pushed), rx>>
             \/ rx = pkt.size /\ c = <<Len(pushed) + 1, 0>>

ConsumerAt(c) == IF bench.check = "monitor" THEN MonAt(c) ELSE SizeAt(c)

Producer == IF pc = "push" THEN <<Len(pushed), pos>>
            ELSE IF pc = "wait" THEN After(pushed, <<Len(pushed), pos>>)
            ELSE <<Len(pushed) + 1, 0>>

StreamInv(t) ==
  pc # "reset" => \E c : ConsumerAt(c) /\ Chain(pushed, inside, Len(inside), c, Producer)

(* What is offered to the device and taken. *)
Taken(b) == IF s_tready THEN b ELSE NoBeat

LEMMA ArbiterNext ==
  ASSUME Device, bench.device = "scheduler"
  PROVE  Scheduler!strict_next = IF inside = <<>> THEN arb ELSE 2
<1>1. /\ home = 2 /\ IsSeq(dut[2]) /\ inside = dut[2]
      /\ dut[0] = <<>> /\ dut[1] = <<>>
  BY DEF Device, home, inside, Queue
<1>2. Len(dut[0]) = 0 /\ Len(dut[1]) = 0 /\ Len(dut[2]) \in Nat
  BY <1>1, EmptyIsSeq, AppendIsSeq
<1>3. inside = <<>> <=> Len(dut[2]) = 0
  BY <1>1, EmptyIsSeq, TailIsSeq
<1>4. \A q \in Queue : Scheduler!arb_ready(q) <=> q = 2 /\ inside # <<>>
  BY <1>2, <1>3 DEF Queue, Scheduler!arb_ready
<1>5. Scheduler!Queue = Queue
  BY DEF Scheduler!Queue, Scheduler!Q_HIGH, Scheduler!Q_MED, Scheduler!Q_LOW, Queue
<1>6. CASE inside = <<>>
  BY <1>4, <1>5, <1>6 DEF Scheduler!strict_next
<1>7. CASE inside # <<>>
  <2>1. {q \in Scheduler!Queue : Scheduler!arb_ready(q)} = {2}
    BY <1>4, <1>5, <1>7 DEF Queue
  <2>2. 2 \in Queue
    BY DEF Queue
  <2>3. Scheduler!strict_next = Scheduler!Min({2})
    BY <1>4, <1>5, <1>7, <2>1, <2>2 DEF Scheduler!strict_next
  <2>4. Scheduler!Min({2}) = 2
    BY DEF Scheduler!Min
  <2>. QED
    BY <1>7, <2>3, <2>4
<1>. QED
  BY <1>6, <1>7

(* An edge of a correct device. *)
Off(x) == IF arb = home /\ x /\ inside # <<>> THEN 1 ELSE 0
On(b) == IF Taken(b) # NoBeat \/ bench.device = "pipeline" THEN 1 ELSE 0

LEMMA DeviceEdge ==
  ASSUME NEW b, NEW x \in BOOLEAN, Edge(b, x), faults \in Nat, faults' = 0,
         Device, bench' = bench, dest = home
  PROVE  /\ faults = 0 /\ Device' /\ home' = home
         /\ Moved(inside, inside', Off(x), On(b), Taken(b))
         /\ bench.device = "scheduler" => arb' = IF inside = <<>> THEN arb ELSE 2
<1>1. faults = 0 /\ Loads(Taken(b), x, FALSE)
  BY GoodEdge DEF Taken
<1>2. home' = home /\ home \in Queue
  BY DEF home, Queue
<1>3. Moved(inside, inside', Off(x), On(b), Taken(b))
  <2>1. Moved(dut[home], dut'[home],
              IF home = arb /\ x /\ dut[home] # <<>> THEN 1 ELSE 0,
              IF home = dest /\ (Taken(b) # NoBeat \/ bench.device = "pipeline") THEN 1 ELSE 0,
              Taken(b))
    <3>1. IsSeq(dut[home])
      BY DEF Device, inside
    <3>. QED
      BY <1>1, <1>2, <3>1, QueueMoves
  <2>2. inside = dut[home] /\ inside' = dut'[home]
    BY <1>2 DEF inside
  <2>. QED
    BY <2>1, <2>2 DEF Off, On
<1>4. \A q \in Queue : q # home => dut'[q] = <<>>
  <2>. SUFFICES ASSUME NEW q \in Queue, q # home
                PROVE  dut'[q] = <<>>
    OBVIOUS
  <2>1. dut[q] = <<>>
    BY DEF Device
  <2>2. dut'[q] = <<>> \o <<>>
    BY <1>1, <2>1 DEF Loads
  <2>3. <<>> \o <<>> = <<>>
    BY EmptyIsSeq, ConcatIsSeq
  <2>. QED
    BY <2>2, <2>3
<1>5. CASE bench.device = "scheduler"
  <2>1. arb' = IF inside = <<>> THEN arb ELSE 2
    BY <1>1, <1>5, ArbiterNext DEF Loads
  <2>2. arb' \in {0, home}
    BY <1>5, <2>1 DEF Device, home
  <2>. QED
    BY <1>1, <1>2, <1>3, <1>4, <2>1, <2>2 DEF Device, Moved, Loads
<1>6. CASE bench.device # "scheduler"
  <2>1. arb' = arb
    BY <1>1, <1>6 DEF Loads
  <2>. QED
    BY <1>1, <1>2, <1>3, <1>4, <1>6, <2>1 DEF Device, Moved, Loads
<1>. QED
  BY <1>5, <1>6

(* What it offers. *)
LEMMA DeviceOutput ==
  ASSUME Device
  PROVE  /\ m_tvalid => arb = home /\ inside # <<>> /\ output = inside[1]
         /\ arb = home /\ inside # <<>> => output = inside[1]
         /\ arb = home /\ inside # <<>> => (m_tvalid <=> inside[1] # NoBeat)
<1>1. ASSUME arb = home, inside # <<>>
      PROVE  output = inside[1] /\ (m_tvalid <=> inside[1] # NoBeat)
  BY <1>1, Output DEF Device, inside
<1>2. ASSUME ~(arb = home /\ inside # <<>>)
      PROVE  ~m_tvalid
  <2>1. dut[arb] = <<>>
    BY <1>2 DEF Device, inside, home, Queue
  <2>. QED
    BY <2>1 DEF output, m_tvalid
<1>. QED
  BY <1>1, <1>2

(* One queue on its way from a beat to the next. *)
LEMMA ChainBubbles ==
  ASSUME NEW ps, NEW line, NEW m \in Nat, NEW c, \A i \in 1 .. m : line[i] = NoBeat
  PROVE  Chain(ps, line, m, c, c)
<1>. DEFINE at == [i \in 1 .. m + 1 |-> c]
<1>1. \A i \in 1 .. m + 1 : at[i] = c
  OBVIOUS
<1>. HIDE DEF at
<1>2. 1 \in 1 .. m + 1 /\ m + 1 \in 1 .. m + 1
  OBVIOUS
<1>3. \A i \in 1 .. m : i \in 1 .. m + 1 /\ i + 1 \in 1 .. m + 1
  OBVIOUS
<1>4. Steps(ps, line, m, at)
  BY <1>1, <1>3 DEF Steps
<1>. QED
  BY <1>1, <1>2, <1>4 DEF Chain

LEMMA ChainSame ==
  ASSUME NEW ps, NEW old, NEW new, NEW m \in Nat, NEW c, NEW r,
         Chain(ps, old, m, c, r), \A i \in 1 .. m : new[i] = old[i]
  PROVE  Chain(ps, new, m, c, r)
<1>1. PICK at : at[1] = c /\ at[m + 1] = r /\ Steps(ps, old, m, at)
  BY DEF Chain
<1>2. ASSUME NEW i \in 1 .. m
      PROVE  IF new[i] = NoBeat THEN at[i + 1] = at[i]
             ELSE /\ IsPlace(ps, at[i]) /\ new[i] = BeatAt(ps, at[i])
                  /\ at[i + 1] = After(ps, at[i])
  BY <1>1 DEF Steps
<1>3. ASSUME NEW i \in 1 .. m + 1, NEW j \in 1 .. m + 1, i <= j,
             \A k \in i .. j - 1 : new[k] = NoBeat
      PROVE  at[i] = at[j]
  <2>1. \A k \in i .. j - 1 : k \in 1 .. m
    OBVIOUS
  <2>2. \A k \in i .. j - 1 : old[k] = NoBeat
    BY <1>3, <2>1
  <2>. QED
    BY <1>1, <1>3, <2>2 DEF Steps
<1>4. Steps(ps, new, m, at)
  BY <1>2, <1>3 DEF Steps
<1>. QED
  BY <1>1, <1>4 DEF Chain

(* A packet pushed later changes nothing. *)
LEMMA ChainGrows ==
  ASSUME NEW ps, IsSeq(ps), NEW e, NEW line, NEW m \in Nat, NEW c, NEW r,
         Chain(ps, line, m, c, r)
  PROVE  Chain(Append(ps, e), line, m, c, r)
<1>. DEFINE qs == Append(ps, e)
<1>1. PICK at : at[1] = c /\ at[m + 1] = r /\ Steps(ps, line, m, at)
  BY DEF Chain
<1>2. Len(ps) \in Nat /\ Len(qs) = Len(ps) + 1 /\ \A i \in 1 .. Len(ps) : qs[i] = ps[i]
  BY AppendIsSeq
<1>. HIDE DEF qs
<1>3. ASSUME NEW x, IsPlace(ps, x)
      PROVE  IsPlace(qs, x) /\ BeatAt(qs, x) = BeatAt(ps, x) /\ After(qs, x) = After(ps, x)
  <2>1. x[1] \in 1 .. Len(ps) /\ x[1] \in 1 .. Len(qs)
    BY <1>2, <1>3 DEF IsPlace
  <2>2. qs[x[1]] = ps[x[1]]
    BY <1>2, <2>1
  <2>. QED
    BY <1>3, <2>1, <2>2 DEF IsPlace, BeatAt, After
<1>4. Steps(qs, line, m, at)
  BY <1>1, <1>3 DEF Steps
<1>5. Chain(qs, line, m, c, r)
  BY <1>1, <1>4 DEF Chain
<1>. QED
  BY <1>5 DEF qs

(* An edge takes a beat from the front, or none, and adds one, or none. *)
Carried(ps, old, new, off, on, b, c, r) ==
  \E d : /\ Chain(ps, new, Len(new), d, IF on = 1 /\ b # NoBeat THEN After(ps, r) ELSE r)
         /\ IF off = 1 /\ old[1] # NoBeat
            THEN IsPlace(ps, c) /\ old[1] = BeatAt(ps, c) /\ d = After(ps, c)
            ELSE d = c

LEMMA ChainMoved ==
  ASSUME NEW ps, NEW old, NEW new, NEW off \in {0, 1}, NEW on \in {0, 1}, NEW b,
         NEW c, NEW r, Len(old) \in Nat, off = 1 => Len(old) # 0,
         Moved(old, new, off, on, b), Chain(ps, old, Len(old), c, r),
         on = 1 /\ b # NoBeat => IsPlace(ps, r) /\ b = BeatAt(ps, r)
  PROVE  Carried(ps, old, new, off, on, b, c, r)
<1>. DEFINE m == Len(old) - off
            taking == off = 1 /\ old[1] # NoBeat
            d == IF taking THEN After(ps, c) ELSE c
<1>1. m \in Nat /\ Len(new) = m + on /\ \A i \in 1 .. m : new[i] = old[i + off]
  BY DEF Moved
<1>2. Chain(ps, new, m, d, r) /\ (taking => IsPlace(ps, c) /\ old[1] = BeatAt(ps, c))
  <2>1. CASE off = 1
    <3>1. Len(old) \in Nat \ {0} /\ \A i \in 1 .. Len(old) - 1 : new[i] = old[i + 1]
      BY <1>1, <2>1
    <3>2. /\ old[1] = NoBeat => Chain(ps, new, Len(old) - 1, c, r)
          /\ old[1] # NoBeat => /\ IsPlace(ps, c) /\ old[1] = BeatAt(ps, c)
                                /\ Chain(ps, new, Len(old) - 1, After(ps, c), r)
      BY <3>1, ChainTake
    <3>. QED
      BY <2>1, <3>2
  <2>2. CASE off = 0
    <3>1. m = Len(old) /\ \A i \in 1 .. m : new[i] = old[i]
      <4>1. m = Len(old)
        BY <2>2
      <4>2. \A i \in 1 .. m : i + off = i
        BY <2>2
      <4>. QED
        BY <1>1, <4>1, <4>2
    <3>. HIDE DEF m
    <3>2. Chain(ps, new, m, c, r)
      BY <1>1, <3>1, ChainSame
    <3>. QED
      BY <2>2, <3>2
  <2>. QED
    BY <2>1, <2>2
<1>3. Chain(ps, new, Len(new), d, IF on = 1 /\ b # NoBeat THEN After(ps, r) ELSE r)
  <2>. HIDE DEF m, d, taking
  <2>1. CASE on = 1
    <3>1. Len(new) = m + 1 /\ new[m + 1] = b
      BY <1>1, <2>1 DEF Moved
    <3>2. Chain(ps, new, m + 1, d, IF b = NoBeat THEN r ELSE After(ps, r))
      BY <1>1, <1>2, <2>1, <3>1, ChainAdd
    <3>. QED
      BY <2>1, <3>1, <3>2
  <2>2. CASE on = 0
    <3>1. Len(new) = m
      BY <1>1, <2>2
    <3>. QED
      BY <1>2, <2>2, <3>1
  <2>. QED
    BY <2>1, <2>2
<1>. QED
  BY <1>2, <1>3 DEF Carried

-----------------------------------------------------------------------------
(* The call made last.                                                        *)
LEMMA CallInit ==
  ASSUME NEW t \in Tests, Init, todo = t.program
  PROVE  CallInv(t)
<1>1. Called(t) = 0
  BY ProgramType DEF Called
<1>. QED
  BY <1>1 DEF Init, CallInv

LEMMA CallStep ==
  ASSUME NEW t \in Tests, ProgramInv(t), CallInv(t), [Next]_vars
  PROVE  CallInv(t)'
<1>1. CASE \/ Reset \/ CallDrain \/ Finish \/ Push \/ Spin \/ TakeOne \/ Idle
           \/ Drain \/ Flush \/ UNCHANGED vars
  <2>1. UNCHANGED <<todo, pushed>> /\ Called(t)' = Called(t)
    BY <1>1 DEF Reset, CallDrain, Finish, Push, Spin, TakeOne, Idle, Drain, Flush, vars,
                progVars, Called
  <2>2. pc' = "reset" => pc = "reset" /\ UNCHANGED <<rx, results>>
    <3>1. CASE Reset \/ CallDrain \/ Finish
      BY <3>1 DEF Reset, CallDrain, Finish
    <3>2. CASE Push \/ Spin \/ TakeOne
      BY <3>2 DEF Push, Spin, TakeOne, NextBeat
    <3>3. CASE Idle \/ Drain \/ Flush
      BY <3>3 DEF Idle, Drain, Flush
    <3>4. CASE UNCHANGED vars
      BY <3>4 DEF vars, progVars
    <3>. QED
      BY <1>1, <3>1, <3>2, <3>3, <3>4
  <2>3. pc' \in {"push", "wait", "idle"} => pc \in {"push", "wait", "idle"}
    <3>1. CASE Reset \/ CallDrain \/ Finish
      BY <3>1 DEF Reset, CallDrain, Finish
    <3>2. CASE Push \/ Spin \/ TakeOne
      BY <3>2 DEF Push, Spin, TakeOne
    <3>3. CASE Idle \/ Drain \/ Flush
      BY <3>3 DEF Idle, Drain, Flush
    <3>4. CASE UNCHANGED vars
      BY <3>4 DEF vars, progVars
    <3>. QED
      BY <1>1, <3>1, <3>2, <3>3, <3>4
  <2>. QED
    BY <2>1, <2>2, <2>3 DEF CallInv
<1>2. CASE CallExpect \/ Return
  <2>1. /\ todo # <<>> /\ todo' = Tail(todo) /\ pushed' = pushed /\ pc' = "host"
        /\ Head(todo).op # "push"
    BY <1>2 DEF CallExpect, Calls, Return, ProgramInv
  <2>2. Called(t)' = Called(t) + 1 /\ t.program[Called(t) + 1].op # "push"
    BY <2>1, NextCall
  <2>3. t.program[Called(t)'].op # "push"
    BY <2>2
  <2>. QED
    BY <2>1, <2>3 DEF CallInv
<1>3. CASE CallPush
  <2>1. /\ todo # <<>> /\ todo' = Tail(todo) /\ pushed' = Append(pushed, Head(todo))
        /\ pc' = "push" /\ Head(todo).op = "push"
    BY <1>3 DEF CallPush, Calls
  <2>2. /\ Called(t) \in Nat /\ Called(t)' = Called(t) + 1
        /\ Head(todo) = t.program[Called(t) + 1]
    BY <2>1, NextCall
  <2>3. t.program[Called(t)'] = Head(todo) /\ Called(t)' > 0
    BY <2>2
  <2>4. pushed' # <<>> /\ pushed'[Len(pushed')] = Head(todo)
    <3>1. /\ Len(pushed) \in Nat /\ Len(pushed') = Len(pushed) + 1
          /\ pushed'[Len(pushed) + 1] = Head(todo)
      BY <2>1, AppendIsSeq DEF ProgramInv
    <3>. QED
      BY <3>1, EmptyIsSeq
  <2>. QED
    BY <2>1, <2>3, <2>4 DEF CallInv
<1>. QED
  BY <1>1, <1>2, <1>3 DEF Next

(* Where packets are paired with drains, a drain follows a packet of its size. *)
LEMMA PairedCall ==
  ASSUME NEW t \in Tests, ProgramInv(t), CallInv(t), Paired(t.program)
  PROVE  /\ Open => /\ pushed # <<>> /\ Head(todo).pkt.size = pkt.size
                    /\ Called(t) > 0 /\ t.program[Called(t)].op = "push"
         /\ Called(t) > 0 /\ t.program[Called(t)].op = "push" => Open
<1>1. Len(todo) \in Nat /\ Len(t.program) \in Nat /\ Len(todo) <= Len(t.program)
  BY AppendIsSeq, ProgramType DEF ProgramInv
<1>2. DOMAIN t.program = 1 .. Len(t.program)
  BY TestAssumption
<1>3. Called(t) \in 0 .. Len(t.program)
  BY <1>1 DEF Called
<1>4. todo # <<>> => /\ Head(todo) = t.program[Called(t) + 1]
                     /\ Called(t) + 1 \in 1 .. Len(t.program)
  <2>. SUFFICES ASSUME todo # <<>>
                PROVE  /\ Head(todo) = t.program[Called(t) + 1]
                       /\ Called(t) + 1 \in 1 .. Len(t.program)
    OBVIOUS
  <2>1. Head(todo) = todo[1] /\ Len(todo) \in Nat \ {0}
    BY TailIsSeq DEF ProgramInv
  <2>2. 1 \in 1 .. Len(todo)
    BY <2>1
  <2>. QED
    BY <1>1, <2>1, <2>2 DEF ProgramInv, Called
<1>5. ASSUME Open
      PROVE  Called(t) > 0 /\ t.program[Called(t)].op = "push"
  <2>1. Called(t) + 1 > 1 /\ t.program[(Called(t) + 1) - 1].op = "push"
    BY <1>2, <1>4, <1>5 DEF Paired, Open
  <2>2. (Called(t) + 1) - 1 = Called(t)
    BY <1>3
  <2>. QED
    BY <1>3, <2>1, <2>2
<1>6. ASSUME Called(t) > 0, t.program[Called(t)].op = "push"
      PROVE  Open /\ t.program[Called(t) + 1].pkt.size = t.program[Called(t)].pkt.size
  <2>1. Called(t) \in DOMAIN t.program
    BY <1>2, <1>3, <1>6
  <2>2. /\ Called(t) < Len(t.program) /\ t.program[Called(t) + 1].op = "drain"
        /\ t.program[Called(t) + 1].pkt.size = t.program[Called(t)].pkt.size
    BY <1>6, <2>1 DEF Paired
  <2>3. todo # <<>>
    BY <1>1, <2>2, EmptyIsSeq DEF Called
  <2>. QED
    BY <1>4, <2>2, <2>3 DEF Open
<1>7. Open => pushed # <<>> /\ Head(todo).pkt.size = pkt.size
  <2>. SUFFICES ASSUME Open
                PROVE  pushed # <<>> /\ Head(todo).pkt.size = pkt.size
    OBVIOUS
  <2>1. pushed # <<>> /\ pushed[Len(pushed)] = t.program[Called(t)]
    BY <1>5 DEF CallInv
  <2>2. pkt = t.program[Called(t)].pkt
    BY <2>1, PushedType
  <2>. QED
    BY <1>4, <1>5, <1>6, <2>1, <2>2 DEF Open
<1>. QED
  BY <1>5, <1>6, <1>7

-----------------------------------------------------------------------------
(* What is expected is what is pushed.                                        *)
LEMMA MadeNext ==
  ASSUME NEW program, NEW n \in Nat, NEW op
  PROVE  /\ Made(program, n, op) \in Nat /\ Made(program, 0, op) = 0
         /\ Made(program, n + 1, op)
              = Made(program, n, op) + (IF program[n + 1].op = op THEN 1 ELSE 0)
<1>. DEFINE S(k) == {i \in 1 .. k : program[i].op = op}
<1>1. IsFiniteSet(1 .. n) /\ S(n) \subseteq 1 .. n
  BY FS_Interval
<1>2. IsFiniteSet(S(n))
  BY <1>1, FS_Subset
<1>3. Cardinality(S(n)) \in Nat
  BY <1>2, FS_CardinalityType
<1>4. S(0) = {} /\ Cardinality(S(0)) = 0
  BY FS_EmptySet
<1>5. CASE program[n + 1].op = op
  <2>1. S(n + 1) = S(n) \cup {n + 1} /\ n + 1 \notin S(n)
    BY <1>5
  <2>2. Cardinality(S(n + 1)) = Cardinality(S(n)) + 1
    <3>. HIDE DEF S
    <3>. QED
      BY <1>2, <2>1, FS_AddElement
  <2>. QED
    BY <1>3, <1>4, <1>5, <2>2 DEF Made
<1>6. CASE program[n + 1].op # op
  <2>1. S(n + 1) = S(n)
    BY <1>6
  <2>2. Cardinality(S(n + 1)) = Cardinality(S(n))
    <3>. HIDE DEF S
    <3>. QED
      BY <2>1
  <2>. QED
    BY <1>3, <1>4, <1>6, <2>2 DEF Made
<1>. QED
  BY <1>5, <1>6

LEMMA AnnounceInit ==
  ASSUME NEW t \in Tests, Init, todo = t.program
  PROVE  AnnounceInv(t)
<1>1. Called(t) = 0
  BY ProgramType DEF Called
<1>2. Len(pushed) = 0 /\ Len(wanted) = 0 /\ expected = <<>>
  BY EmptyIsSeq DEF Init, MonInit
<1>3. 0 \in Nat /\ Made(t.program, 0, "push") = 0 /\ Made(t.program, 0, "expect") = 0
  BY MadeNext
<1>. QED
  BY <1>1, <1>2, <1>3 DEF AnnounceInv

LEMMA CaptureKeepsWanted ==
  ASSUME NEW looks, Capture(looks)
  PROVE  wanted' = wanted
  BY DEF Capture, push_beat, monVars

(* A list of k items, one for each call with this op among the first n, in    *)
(* their order.                                                               *)
Listed(program, n, op, list, k, item) ==
  /\ k = Made(program, n, op)
  /\ \A j \in 1 .. k : \E i \in 1 .. n : /\ program[i].op = op
                                        /\ Made(program, i, op) = j
                                        /\ list[j] = item[i]

LEMMA ListStep ==
  ASSUME NEW program, NEW n \in Nat, NEW op, NEW list, NEW k \in Nat, NEW item,
         Listed(program, n, op, list, k, item),
         NEW longer, NEW m,
         program[n + 1].op # op => longer = list /\ m = k,
         program[n + 1].op = op => /\ m = k + 1
                                   /\ \A j \in 1 .. k : longer[j] = list[j]
                                   /\ longer[k + 1] = item[n + 1]
  PROVE  Listed(program, n + 1, op, longer, m, item)
<1>. USE DEF Listed
<1>1. Made(program, n + 1, op) = Made(program, n, op) + (IF program[n + 1].op = op THEN 1 ELSE 0)
  BY MadeNext
<1>3. CASE program[n + 1].op # op
  <2>1. \A i \in 1 .. n : i \in 1 .. n + 1
    OBVIOUS
  <2>. QED
    BY <1>1, <1>3, <2>1
<1>4. CASE program[n + 1].op = op
  <2>1. /\ m = k + 1 /\ \A j \in 1 .. k : longer[j] = list[j]
        /\ longer[k + 1] = item[n + 1]
    BY <1>4
  <2>2. m = Made(program, n + 1, op)
    BY <1>1, <1>4, <2>1
  <2>3. ASSUME NEW j \in 1 .. m
        PROVE  \E i \in 1 .. n + 1 : /\ program[i].op = op /\ Made(program, i, op) = j
                                     /\ longer[j] = item[i]
    <3>1. CASE j = k + 1
      <4>1. n + 1 \in 1 .. n + 1 /\ j = Made(program, n + 1, op)
        BY <2>1, <2>2, <3>1
      <4>. QED
        BY <1>4, <2>1, <3>1, <4>1
    <3>2. CASE j # k + 1
      <4>1. j \in 1 .. k
        <5>1. m = k + 1
          BY <2>1
        <5>. QED
          BY <3>2, <5>1
      <4>2. PICK i \in 1 .. n : /\ program[i].op = op /\ Made(program, i, op) = j
                                /\ list[j] = item[i]
        BY <4>1
      <4>3. i \in 1 .. n + 1
        OBVIOUS
      <4>. QED
        BY <2>1, <4>1, <4>2, <4>3
    <3>. QED
      BY <3>1, <3>2
  <2>. QED
    BY <2>2, <2>3
<1>. QED
  BY <1>3, <1>4

LEMMA AnnounceStep ==
  ASSUME NEW t \in Tests, ProgramInv(t), CallInv(t), AnnounceInv(t), MonInv, [Next]_vars
  PROVE  AnnounceInv(t)'
<1>1. CASE Reset
  <2>1. /\ UNCHANGED <<todo, pushed>> /\ pc' = "host" /\ wanted' = expected
        /\ Called(t)' = Called(t)
    BY <1>1 DEF Reset, reset, Called
  <2>2. todo = t.program /\ expected = <<>>
    BY <1>1 DEF Reset, CallInv, AnnounceInv
  <2>3. Called(t) = 0 /\ Len(wanted') = 0
    BY <2>1, <2>2, ProgramType, EmptyIsSeq DEF Called
  <2>4. 0 \in Nat /\ Made(t.program, 0, "expect") = 0
    BY MadeNext
  <2>. QED
    BY <2>1, <2>3, <2>4 DEF AnnounceInv
<1>2. CASE \/ CallDrain \/ Finish \/ Push \/ Spin \/ TakeOne \/ Idle
           \/ Drain \/ Flush \/ UNCHANGED vars
  <2>1. UNCHANGED <<todo, pushed>> /\ Called(t)' = Called(t)
    BY <1>2 DEF CallDrain, Finish, Push, Spin, TakeOne, Idle, Drain, Flush, vars,
                progVars, Called
  <2>2. wanted' = wanted
    <3>1. CASE CallDrain \/ Finish \/ Spin \/ Flush \/ UNCHANGED vars
      BY <3>1 DEF CallDrain, Finish, Spin, Flush, vars, monVars
    <3>2. CASE Push \/ TakeOne \/ Idle \/ Drain
      BY <3>2, CaptureKeepsWanted DEF Push, TakeOne, Idle, Drain
    <3>. QED
      BY <1>2, <3>1, <3>2
  <2>3. pc' = "reset" => pc = "reset" /\ expected' = expected
    <3>1. CASE CallDrain \/ Finish
      BY <3>1 DEF CallDrain, Finish
    <3>2. CASE Push \/ Spin \/ TakeOne
      BY <3>2 DEF Push, Spin, TakeOne, NextBeat
    <3>3. CASE Idle \/ Drain \/ Flush
      BY <3>3 DEF Idle, Drain, Flush
    <3>4. CASE UNCHANGED vars
      BY <3>4 DEF vars, progVars, monVars
    <3>. QED
      BY <1>2, <3>1, <3>2, <3>3, <3>4
  <2>. QED
    BY <2>1, <2>2, <2>3 DEF AnnounceInv
<1>3. CASE CallExpect \/ CallPush \/ Return
  <2>. DEFINE n == Called(t)
              c == t.program[n + 1]
              Bytes == [i \in Nat |-> packet_bytes(t.program[i].pkt)]
              Itself == [i \in Nat |-> t.program[i]]
  <2>1. todo # <<>> /\ todo' = Tail(todo) /\ pc' \in {"host", "push"}
    BY <1>3 DEF CallExpect, CallPush, Calls, Return, ProgramInv
  <2>2. n \in Nat /\ Called(t)' = n + 1 /\ Head(todo) = c
    BY <2>1, NextCall
  <2>0. \A i \in 1 .. n + 1 : i \in Nat
    BY <2>2
  <2>7. n + 1 \in Nat /\ Bytes[n + 1] = packet_bytes(c.pkt) /\ Itself[n + 1] = c
    BY <2>2
  <2>3. /\ pushed' = IF c.op = "push" THEN Append(pushed, Itself[n + 1]) ELSE pushed
        /\ wanted' = IF c.op = "expect" THEN Append(wanted, Bytes[n + 1]) ELSE wanted
    <3>1. CASE CallExpect
      <4>1. c.op = "expect" /\ wanted' = Append(wanted, Bytes[n + 1]) /\ pushed' = pushed
        BY <2>2, <2>7, <3>1 DEF CallExpect, Calls, expect
      <4>. QED
        BY <4>1
    <3>2. CASE CallPush
      <4>1. c.op = "push" /\ pushed' = Append(pushed, Itself[n + 1]) /\ wanted' = wanted
        BY <2>2, <2>7, <3>2 DEF CallPush, Calls, monVars
      <4>. QED
        BY <4>1
    <3>3. CASE Return
      <4>1. c.op = "drain" /\ UNCHANGED <<pushed, wanted>>
        BY <2>2, <3>3 DEF Return, ProgramInv, monVars
      <4>. QED
        BY <4>1
    <3>. QED
      BY <1>3, <3>1, <3>2, <3>3
  <2>4. IsSeq(pushed) /\ IsSeq(wanted)
    BY DEF ProgramInv, MonInv, AllSequences
  <2>5. /\ Len(pushed') = Made(t.program, n + 1, "push")
        /\ \A j \in 1 .. Len(pushed') :
             \E i \in 1 .. n + 1 : /\ t.program[i].op = "push"
                                   /\ Made(t.program, i, "push") = j
                                   /\ pushed'[j] = Itself[i]
    <3>1. /\ Len(pushed) = Made(t.program, n, "push")
          /\ \A j \in 1 .. Len(pushed) :
               \E i \in 1 .. n : /\ t.program[i].op = "push"
                                 /\ Made(t.program, i, "push") = j
                                 /\ pushed[j] = Itself[i]
      <4>1. \A i \in 1 .. n : i \in Nat
        BY <2>2
      <4>. QED
        BY <4>1 DEF AnnounceInv
    <3>2. Len(pushed) \in Nat
      BY <2>4, AppendIsSeq
    <3>3. t.program[n + 1].op # "push" => pushed' = pushed
      BY <2>3
    <3>4. t.program[n + 1].op = "push"
            => /\ Len(pushed') = Len(pushed) + 1
               /\ \A j \in 1 .. Len(pushed) : pushed'[j] = pushed[j]
               /\ pushed'[Len(pushed) + 1] = Itself[n + 1]
      <4>. HIDE DEF n, Itself
      <4>1. t.program[n + 1].op = "push" => pushed' = Append(pushed, Itself[n + 1])
        BY <2>3 DEF n
      <4>. QED
        BY <2>4, <4>1, AppendIsSeq
    <3>5. n \in Nat
      BY <2>2
    <3>. DEFINE k == Len(pushed)
                m == Len(pushed')
    <3>6. k \in Nat /\ Listed(t.program, n, "push", pushed, k, Itself)
      BY <3>1, <3>2 DEF Listed
    <3>7. t.program[n + 1].op # "push" => pushed' = pushed /\ m = k
      BY <3>3
    <3>8. t.program[n + 1].op = "push"
            => /\ m = k + 1 /\ \A j \in 1 .. k : pushed'[j] = pushed[j]
               /\ pushed'[k + 1] = Itself[n + 1]
      BY <3>4
    <3>. HIDE DEF n, Itself, k, m
    <3>9. Listed(t.program, n + 1, "push", pushed', m, Itself)
      BY <3>5, <3>6, <3>7, <3>8, ListStep
    <3>. QED
      BY <3>9 DEF m, Listed
  <2>6. /\ Len(wanted') = Made(t.program, n + 1, "expect")
        /\ \A j \in 1 .. Len(wanted') :
             \E i \in 1 .. n + 1 : /\ t.program[i].op = "expect"
                                   /\ Made(t.program, i, "expect") = j
                                   /\ wanted'[j] = Bytes[i]
    <3>1. /\ Len(wanted) = Made(t.program, n, "expect")
          /\ \A j \in 1 .. Len(wanted) :
               \E i \in 1 .. n : /\ t.program[i].op = "expect"
                                 /\ Made(t.program, i, "expect") = j
                                 /\ wanted[j] = Bytes[i]
      <4>1. \A i \in 1 .. n : i \in Nat
        BY <2>2
      <4>. QED
        BY <4>1 DEF AnnounceInv
    <3>2. Len(wanted) \in Nat
      BY <2>4, AppendIsSeq
    <3>3. t.program[n + 1].op # "expect" => wanted' = wanted
      BY <2>3
    <3>4. t.program[n + 1].op = "expect"
            => /\ Len(wanted') = Len(wanted) + 1
               /\ \A j \in 1 .. Len(wanted) : wanted'[j] = wanted[j]
               /\ wanted'[Len(wanted) + 1] = Bytes[n + 1]
      <4>. HIDE DEF n, Bytes
      <4>1. t.program[n + 1].op = "expect" => wanted' = Append(wanted, Bytes[n + 1])
        BY <2>3 DEF n
      <4>. QED
        BY <2>4, <4>1, AppendIsSeq
    <3>5. n \in Nat
      BY <2>2
    <3>. DEFINE k == Len(wanted)
                m == Len(wanted')
    <3>6. k \in Nat /\ Listed(t.program, n, "expect", wanted, k, Bytes)
      BY <3>1, <3>2 DEF Listed
    <3>7. t.program[n + 1].op # "expect" => wanted' = wanted /\ m = k
      BY <3>3
    <3>8. t.program[n + 1].op = "expect"
            => /\ m = k + 1 /\ \A j \in 1 .. k : wanted'[j] = wanted[j]
               /\ wanted'[k + 1] = Bytes[n + 1]
      BY <3>4
    <3>. HIDE DEF n, Bytes, k, m
    <3>9. Listed(t.program, n + 1, "expect", wanted', m, Bytes)
      BY <3>5, <3>6, <3>7, <3>8, ListStep
    <3>. QED
      BY <3>9 DEF m, Listed
  <2>. QED
    <3>1. \A i \in 1 .. n + 1 : Itself[i] = t.program[i] /\ Bytes[i] = packet_bytes(t.program[i].pkt)
      BY <2>0
    <3>. HIDE DEF n, Itself, Bytes
    <3>2. \A j \in 1 .. Len(pushed') :
            \E i \in 1 .. n + 1 : /\ t.program[i].op = "push"
                                  /\ Made(t.program, i, "push") = j
                                  /\ pushed'[j] = t.program[i]
      BY <2>5, <3>1
    <3>3. \A j \in 1 .. Len(wanted') :
            \E i \in 1 .. n + 1 : /\ t.program[i].op = "expect"
                                  /\ Made(t.program, i, "expect") = j
                                  /\ wanted'[j] = packet_bytes(t.program[i].pkt)
      BY <2>6, <3>1
    <3>. QED
      BY <2>1, <2>2, <2>5, <2>6, <3>2, <3>3 DEF AnnounceInv
<1>. QED
  BY <1>1, <1>2, <1>3 DEF Next

(* So the packet pushed as the j-th is the j-th one expected.                 *)
LEMMA Matching ==
  ASSUME NEW t \in Tests, ProgramInv(t), AnnounceInv(t), Announced(t.program)
  PROVE  /\ Len(pushed) \in Nat /\ Len(wanted) \in Nat /\ Len(pushed) <= Len(wanted)
         /\ \A j \in 1 .. Len(pushed) : wanted[j] = packet_bytes(pushed[j].pkt)
         /\ todo = <<>> => Len(pushed) = Len(wanted)
<1>. DEFINE n == Called(t)
<1>1. Len(todo) \in Nat /\ Len(t.program) \in Nat /\ Len(todo) <= Len(t.program)
  BY AppendIsSeq, ProgramType DEF ProgramInv
<1>2. DOMAIN t.program = 1 .. Len(t.program)
  BY TestAssumption
<1>3. n \in 0 .. Len(t.program)
  BY <1>1 DEF Called
<1>4. Len(pushed) \in Nat /\ Len(wanted) \in Nat
  BY <1>3, MadeNext DEF AnnounceInv
<1>5. Len(pushed) <= Len(wanted)
  <2>1. CASE n = 0
    <3>1. 0 \in Nat /\ Len(pushed) = 0
      BY <2>1, MadeNext DEF AnnounceInv
    <3>. QED
      BY <1>4, <3>1
  <2>2. CASE n # 0
    <3>1. n \in DOMAIN t.program
      BY <1>2, <1>3, <2>2
    <3>. QED
      BY <3>1 DEF Announced, AnnounceInv
  <2>. QED
    BY <2>1, <2>2
<1>6. ASSUME NEW j \in 1 .. Len(pushed)
      PROVE  wanted[j] = packet_bytes(pushed[j].pkt)
  <2>1. PICK i \in 1 .. n : /\ t.program[i].op = "push" /\ Made(t.program, i, "push") = j
                            /\ pushed[j] = t.program[i]
    BY DEF AnnounceInv
  <2>2. j \in 1 .. Len(wanted)
    BY <1>4, <1>5
  <2>3. PICK h \in 1 .. n : /\ t.program[h].op = "expect" /\ Made(t.program, h, "expect") = j
                            /\ wanted[j] = packet_bytes(t.program[h].pkt)
    BY <2>2 DEF AnnounceInv
  <2>4. i \in DOMAIN t.program /\ h \in DOMAIN t.program
    BY <1>2, <1>3
  <2>5. t.program[h].pkt = t.program[i].pkt
    BY <2>1, <2>3, <2>4 DEF Announced
  <2>. QED
    BY <2>1, <2>3, <2>5
<1>7. todo = <<>> => Len(pushed) = Len(wanted)
  <2>1. todo = <<>> => n = Len(t.program)
    BY <1>1, EmptyIsSeq DEF Called
  <2>. QED
    BY <2>1 DEF Announced, AnnounceInv
<1>. QED
  BY <1>4, <1>5, <1>6, <1>7

-----------------------------------------------------------------------------
(* A beat is captured.                                                        *)
LEMMA PacketBytes ==
  ASSUME NEW p, p.size \in Nat \ {0}, NEW k \in Nat, dw * k < p.size
  PROVE  /\ beats(p) \in Nat /\ k + 1 \in 1 .. beats(p)
         /\ <<packet_bytes(p)[k + 1]>> = bytes(beat(p, dw * k))
         /\ beat(p, dw * k).last => beats(p) = k + 1
         /\ IsSeq(packet_bytes(p)) /\ Len(packet_bytes(p)) = beats(p)
<1>. DEFINE n == beats(p)
<1>1. n = (p.size + 7) \div 8
  BY DEF beats, dw
<1>2. n \in Nat /\ 8 * n <= p.size + 7 /\ p.size + 7 < 8 * n + 8
  BY <1>1
<1>3. 8 * k < p.size
  BY DEF dw
<1>. HIDE DEF n
<1>4. k + 1 \in 1 .. n
  BY <1>2, <1>3
<1>5. p.size <= dw * k + dw => n = k + 1
  BY <1>2, <1>3, <1>4 DEF dw
<1>6. beat(p, dw * k).last => n = k + 1
  <2>1. dw * k \in Nat /\ p.size \in Nat
    BY DEF dw
  <2>2. beat(p, dw * k).last <=> dw * k + dw >= p.size
    BY <2>1, BeatIs
  <2>3. dw * k + dw \in Nat
    BY <2>1 DEF dw
  <2>. QED
    BY <1>5, <2>1, <2>2, <2>3
<1>7. packet_bytes(p) = [i \in 1 .. n |-> bytes(beat(p, (i - 1) * dw))[1]]
  BY DEF packet_bytes, n
<1>8. packet_bytes(p)[k + 1] = bytes(beat(p, dw * k))[1]
  <2>1. ((k + 1) - 1) * dw = dw * k
    BY DEF dw
  <2>. QED
    BY <1>4, <1>7, <2>1
<1>9. <<packet_bytes(p)[k + 1]>> = bytes(beat(p, dw * k))
  BY <1>8 DEF bytes
<1>10. IsSeq(packet_bytes(p)) /\ Len(packet_bytes(p)) = n
  <2>. DEFINE Nth(i) == bytes(beat(p, (i - 1) * dw))[1]
              S == {Nth(i) : i \in 1 .. n}
  <2>1. packet_bytes(p) = [i \in 1 .. n |-> Nth(i)] /\ \A i \in 1 .. n : Nth(i) \in S
    BY <1>7
  <2>. HIDE DEF Nth, S
  <2>2. packet_bytes(p) \in [1 .. n -> S]
    BY <2>1
  <2>3. packet_bytes(p) \in Seq(S) /\ Len(packet_bytes(p)) = n
    BY <1>2, <2>2
  <2>. QED
    BY <2>3 DEF IsSeq
<1>. QED
  BY <1>2, <1>4, <1>6, <1>9, <1>10 DEF n

LEMMA SizeCapture ==
  ASSUME NEW t \in Tests, ProgramInv(t), CallInv(t), Paired(t.program), NEW c, NEW d,
         SizeAt(c), IsPlace(pushed, c), output = BeatAt(pushed, c), d = After(pushed, c),
         rx' = rx + output.keep, UNCHANGED <<todo, pushed, results>>
  PROVE  SizeAt(d)'
<1>1. Len(pushed) \in Nat /\ c[1] \in 1 .. Len(pushed)
  BY PushedType DEF IsPlace
<1>2. Open /\ rx < pkt.size /\ c = <<Len(pushed), rx>>
  <2>1. c # <<Len(pushed) + 1, 0>>
    BY <1>1
  <2>. QED
    BY <2>1 DEF SizeAt
<1>3. pushed # <<>> /\ pkt = pushed[Len(pushed)].pkt /\ pkt.size \in Nat \ {0} /\ rx \in Nat
  BY <1>2, PairedCall, PushedType DEF SizeAt
<1>4. output = beat(pkt, rx) /\ BeatAt(pushed, c) = beat(pkt, rx)
  BY <1>2, <1>3 DEF BeatAt
<1>5. /\ output.last <=> rx + dw >= pkt.size
      /\ output.last => output.keep = pkt.size - rx
      /\ ~output.last => output.keep = dw
  <2>1. pkt.size \in Nat
    BY <1>3
  <2>. QED
    BY <1>2, <1>3, <1>4, <2>1, BeatIs
<1>6. pkt' = pkt /\ Open' = Open
  BY SamePacket DEF Open
<1>7. CASE output.last
  <2>1. rx' = pkt.size /\ rx' \in Nat
    BY <1>3, <1>5, <1>7
  <2>2. d = <<Len(pushed) + 1, 0>>
    BY <1>2, <1>4, <1>7 DEF After
  <2>. QED
    BY <1>2, <1>6, <2>1, <2>2 DEF SizeAt, IsSeq
<1>8. CASE ~output.last
  <2>1. rx' = rx + dw /\ rx' \in Nat /\ rx' < pkt.size
    BY <1>3, <1>5, <1>8 DEF dw
  <2>2. d = <<Len(pushed), rx + dw>>
    BY <1>2, <1>4, <1>8 DEF After
  <2>. QED
    BY <1>2, <1>6, <2>1, <2>2 DEF SizeAt, IsSeq
<1>. QED
  BY <1>7, <1>8

LEMMA MonCapture ==
  ASSUME NEW t \in Tests, ProgramInv(t), AnnounceInv(t), Announced(t.program), MonInv,
         NEW c, NEW d,
         MonAt(c), IsPlace(pushed, c), output = BeatAt(pushed, c), d = After(pushed, c),
         push_beat(bytes(output), output.last), pushed' = pushed
  PROVE  MonAt(d)'
<1>. DEFINE n == Len(received)
            k == Len(rx_beats)
            p == pushed[n + 1].pkt
            new == rx_beats \o bytes(output)
<1>1. k \in Nat /\ n \in Nat /\ Len(expected) \in Nat /\ Len(wanted) \in Nat
  BY AppendIsSeq DEF MonAt, MonInv, AllSequences
<1>2. c[1] = n + 1 /\ c[2] = dw * k
  BY DEF MonAt
<1>3. n + 1 \in 1 .. Len(pushed) /\ dw * k < p.size /\ p.size \in Nat \ {0}
  <2>1. n + 1 \in 1 .. Len(pushed)
    BY <1>2 DEF IsPlace
  <2>2. dw * k < p.size
    BY <1>2 DEF IsPlace
  <2>. QED
    BY <2>1, <2>2, PushedType
<1>4. output = beat(p, dw * k)
  BY <1>2 DEF BeatAt
<1>5. /\ beats(p) \in Nat /\ k + 1 \in 1 .. beats(p)
      /\ bytes(output) = <<packet_bytes(p)[k + 1]>>
      /\ output.last => beats(p) = k + 1
      /\ IsSeq(packet_bytes(p)) /\ Len(packet_bytes(p)) = beats(p)
  <2>. HIDE DEF p, k
  <2>. QED
    BY <1>1, <1>3, <1>4, PacketBytes
<1>6. /\ IsSeq(new) /\ Len(new) = k + 1
      /\ \A i \in 1 .. k + 1 : new[i] = packet_bytes(p)[i]
  <2>1. \A i \in 1 .. k : rx_beats[i] = packet_bytes(p)[i]
    BY DEF MonAt
  <2>2. IsSeq(rx_beats)
    BY DEF MonAt
  <2>. DEFINE e == packet_bytes(p)[k + 1]
  <2>3. new = rx_beats \o <<e>>
    BY <1>5
  <2>. HIDE DEF new, e, p
  <2>4. /\ IsSeq(new) /\ Len(new) = k + 1 /\ \A i \in 1 .. k : new[i] = rx_beats[i]
        /\ new[k + 1] = e
    BY <2>2, <2>3, ConcatIsSeq
  <2>5. \A i \in 1 .. k + 1 : i \in 1 .. k \/ i = k + 1
    BY <1>1
  <2>. QED
    BY <2>1, <2>4, <2>5 DEF e
<1>7. Len(pushed)' = Len(pushed) /\ wanted' = wanted
  BY DEF push_beat
<1>8. CASE ~output.last
  <2>1. rx_beats' = new /\ UNCHANGED <<expected, error_count, received>>
    BY <1>8 DEF push_beat
  <2>2. d = <<n + 1, dw * k + dw>> /\ dw * k + dw = dw * (k + 1)
    BY <1>1, <1>2, <1>4, <1>8 DEF After, BeatAt, dw
  <2>3. consumed' = consumed
    BY <1>7, <2>1 DEF consumed
  <2>4. /\ Len(rx_beats') = k + 1 /\ IsSeq(rx_beats')
        /\ \A i \in 1 .. k + 1 : rx_beats'[i] = packet_bytes(p)[i]
    BY <1>6, <2>1
  <2>5. d = <<Len(received') + 1, dw * Len(rx_beats')>>
    BY <2>1, <2>2, <2>4
  <2>6. \A i \in 1 .. Len(rx_beats') :
          /\ Len(received') + 1 <= Len(pushed')
          /\ rx_beats'[i] = packet_bytes(pushed'[Len(received') + 1].pkt)[i]
    BY <1>3, <2>1, <2>4
  <2>. QED
    BY <2>1, <2>3, <2>4, <2>5, <2>6 DEF MonAt
<1>9. CASE output.last
  <2>1. rx_beats' = <<>> /\ process_complete_packet(new)
    BY <1>9 DEF push_beat
  <2>2. new = packet_bytes(p)
    <3>. HIDE DEF new, p, k
    <3>. QED
      BY <1>5, <1>6, <1>9, SameSeq
  <2>3. /\ Len(pushed) <= Len(wanted) /\ wanted[n + 1] = packet_bytes(p)
    BY <1>3, Matching
  <2>4. consumed = n /\ Len(expected) <= Len(wanted)
    BY DEF MonAt, MonInv, QueueIsRest
  <2>5. Len(expected) # 0 /\ consumed + 1 <= Len(wanted)
    <3>1. n + 1 <= Len(wanted)
      BY <1>1, <1>3, <2>3, PushedType
    <3>. QED
      BY <1>1, <2>4, <3>1 DEF consumed
  <2>6. expected # <<>> /\ Head(expected) = expected[1] /\ expected[1] = wanted[n + 1]
    <3>1. expected # <<>>
      BY <2>5, EmptyIsSeq
    <3>2. Head(expected) = expected[1]
      BY <3>1, TailIsSeq DEF MonInv, AllSequences
    <3>3. 1 \in 1 .. Len(expected)
      BY <1>1, <2>5
    <3>4. expected[1] = wanted[consumed + 1]
      BY <3>3 DEF MonInv, QueueIsRest
    <3>. QED
      BY <2>4, <3>1, <3>2, <3>4
  <2>7. /\ error_count' = error_count + 0 /\ expected' = Tail(expected)
        /\ received' = Append(received, new)
    <3>1. new = Head(expected)
      BY <2>2, <2>3, <2>6
    <3>. QED
      BY <2>1, <2>6, <3>1 DEF process_complete_packet, check_next
  <2>8. Len(received') = n + 1 /\ Len(expected') = Len(expected) - 1
    <3>1. IsSeq(received) /\ IsSeq(expected)
      BY DEF MonInv, AllSequences
    <3>. HIDE DEF new
    <3>. QED
      BY <2>6, <2>7, <3>1, AppendIsSeq, TailIsSeq
  <2>9. consumed' = Len(received')
    BY <1>1, <1>7, <2>4, <2>8 DEF consumed
  <2>10. d = <<n + 2, 0>> /\ Len(rx_beats') = 0 /\ IsSeq(rx_beats') /\ dw * 0 = 0
    <3>1. d = <<c[1] + 1, 0>>
      BY <1>2, <1>4, <1>9 DEF After, BeatAt
    <3>2. c[1] + 1 = n + 2
      BY <1>1, <1>2
    <3>. QED
      BY <2>1, <3>1, <3>2, EmptyIsSeq DEF dw
  <2>11. d = <<Len(received') + 1, dw * Len(rx_beats')>>
    <3>1. Len(received') + 1 = n + 2
      BY <1>1, <2>8
    <3>. QED
      BY <2>10, <3>1
  <2>12. error_count' = 0
    BY <2>7 DEF MonAt
  <2>13. \A i \in 1 .. Len(rx_beats') : FALSE
    BY <2>10
  <2>. QED
    BY <2>9, <2>10, <2>11, <2>12, <2>13 DEF MonAt
<1>. QED
  BY <1>8, <1>9

-----------------------------------------------------------------------------
(* The stream, from the captures to the driver.                               *)
StreamTest(t) == \/ t.driver.check = "size" /\ Paired(t.program)
                 \/ /\ t.driver.check = "monitor" /\ Announced(t.program)
                    /\ AnnounceInv(t)

LEMMA CaptureMoves ==
  ASSUME NEW t \in Tests, ProgramInv(t), CallInv(t), MonInv, StreamTest(t), NEW c, NEW d,
         ConsumerAt(c), NEW x \in BOOLEAN, Capture(x),
         UNCHANGED <<bench, todo, pushed, results>>,
         IF x /\ m_tvalid THEN IsPlace(pushed, c) /\ output = BeatAt(pushed, c)
                               /\ d = After(pushed, c)
         ELSE d = c
  PROVE  ConsumerAt(d)'
<1>. DEFINE mon == bench.check = "monitor"
<1>1. /\ t.driver = bench /\ (mon => AnnounceInv(t) /\ Announced(t.program))
      /\ (~mon => Paired(t.program))
  BY DEF ProgramInv, StreamTest
<1>2. CASE ~(x /\ m_tvalid)
  <2>1. UNCHANGED <<rx, monVars>> /\ d = c
    BY <1>2 DEF Capture
  <2>2. pkt' = pkt /\ Open' = Open /\ consumed' = consumed
    BY <2>1, SamePacket DEF Open, consumed, monVars
  <2>3. CASE mon
    BY <2>1, <2>2, <2>3 DEF ConsumerAt, MonAt, monVars, IsSeq
  <2>4. CASE ~mon
    BY <2>1, <2>2, <2>4 DEF ConsumerAt, SizeAt, monVars, IsSeq
  <2>. QED
    BY <2>3, <2>4
<1>3. CASE x /\ m_tvalid
  <2>1. IsPlace(pushed, c) /\ output = BeatAt(pushed, c) /\ d = After(pushed, c)
    BY <1>3
  <2>2. CASE mon
    <3>1. push_beat(bytes(output), output.last)
      BY <1>3, <2>2 DEF Capture
    <3>2. MonAt(c)
      BY <2>2 DEF ConsumerAt
    <3>3. MonAt(d)'
      BY <1>1, <2>1, <2>2, <3>1, <3>2, MonCapture
    <3>. QED
      BY <2>2, <3>3 DEF ConsumerAt
  <2>3. CASE ~mon
    <3>1. rx' = rx + output.keep
      BY <1>3, <2>3 DEF Capture
    <3>2. SizeAt(c)
      BY <2>3 DEF ConsumerAt
    <3>3. SizeAt(d)'
      BY <1>1, <2>1, <2>3, <3>1, <3>2, SizeCapture
    <3>. QED
      BY <2>3, <3>3 DEF ConsumerAt
  <2>. QED
    BY <2>2, <2>3
<1>. QED
  BY <1>2, <1>3

(* An edge at which the bench looks at what it takes.                         *)
LEMMA StreamEdge ==
  ASSUME NEW t \in Tests, ProgramInv(t), CallInv(t), MonInv, StreamTest(t), Device,
         NEW c, NEW r, ConsumerAt(c), Chain(pushed, inside, Len(inside), c, r),
         NEW b, NEW x \in BOOLEAN, Capture(x), Edge(b, x), faults \in Nat, faults' = 0,
         UNCHANGED <<bench, todo, pushed, results>>, dest = home,
         Taken(b) # NoBeat => IsPlace(pushed, r) /\ Taken(b) = BeatAt(pushed, r)
  PROVE  \E d : /\ ConsumerAt(d)'
                /\ Chain(pushed, inside', Len(inside'), d,
                         IF Taken(b) # NoBeat THEN After(pushed, r) ELSE r)
<1>1. Moved(inside, inside', Off(x), On(b), Taken(b))
  BY DeviceEdge
<1>2. /\ Off(x) \in {0, 1} /\ On(b) \in {0, 1} /\ (Taken(b) # NoBeat => On(b) = 1)
      /\ Off(x) = 1 <=> arb = home /\ x /\ inside # <<>>
  BY DEF Off, On
<1>3. Len(inside) \in Nat /\ (Off(x) = 1 => Len(inside) # 0)
  <2>1. IsSeq(inside)
    BY DEF Device
  <2>. QED
    BY <1>2, <2>1, AppendIsSeq, TailIsSeq
<1>4. On(b) = 1 /\ Taken(b) # NoBeat => IsPlace(pushed, r) /\ Taken(b) = BeatAt(pushed, r)
  OBVIOUS
<1>5. Carried(pushed, inside, inside', Off(x), On(b), Taken(b), c, r)
  <2>1. \A old, new, off, on, k :
          /\ off \in {0, 1} /\ on \in {0, 1} /\ Len(old) \in Nat /\ (off = 1 => Len(old) # 0)
          /\ Moved(old, new, off, on, k) /\ Chain(pushed, old, Len(old), c, r)
          /\ on = 1 /\ k # NoBeat => IsPlace(pushed, r) /\ k = BeatAt(pushed, r)
          => Carried(pushed, old, new, off, on, k, c, r)
    BY ChainMoved
  <2>. QED
    BY <1>1, <1>2, <1>3, <1>4, <2>1
<1>6. PICK d : /\ Chain(pushed, inside', Len(inside'), d,
                        IF Taken(b) # NoBeat THEN After(pushed, r) ELSE r)
               /\ IF Off(x) = 1 /\ inside[1] # NoBeat
                  THEN IsPlace(pushed, c) /\ inside[1] = BeatAt(pushed, c)
                       /\ d = After(pushed, c)
                  ELSE d = c
  <2>1. (On(b) = 1 /\ Taken(b) # NoBeat) <=> Taken(b) # NoBeat
    BY <1>2
  <2>. QED
    BY <1>5, <2>1 DEF Carried
<1>7. x /\ m_tvalid <=> Off(x) = 1 /\ inside[1] # NoBeat
  BY <1>2, DeviceOutput
<1>8. x /\ m_tvalid => output = inside[1]
  BY DeviceOutput
<1>9. ConsumerAt(d)'
  <2>1. IF x /\ m_tvalid THEN IsPlace(pushed, c) /\ output = BeatAt(pushed, c)
                              /\ d = After(pushed, c)
        ELSE d = c
    BY <1>6, <1>7, <1>8
  <2>. QED
    BY <2>1, CaptureMoves
<1>. QED
  BY <1>6, <1>9

LEMMA NextProducer ==
  ASSUME NEW t \in Tests, ProgramInv(t), pc \in {"push", "wait"}, NextBeat, pushed' = pushed
  PROVE  /\ Producer' = After(pushed, <<Len(pushed), pos>>)
         /\ IsPlace(pushed, <<Len(pushed), pos>>)
         /\ driven = BeatAt(pushed, <<Len(pushed), pos>>) /\ driven # NoBeat
<1>. DEFINE x == <<Len(pushed), pos>>
<1>1. /\ pushed # <<>> /\ Len(pushed) \in 1 .. Len(pushed) /\ pkt = pushed[Len(pushed)].pkt
      /\ pkt.size \in Nat \ {0} /\ pos \in Nat /\ pos < pkt.size
  BY PushedType DEF ProgramInv
<1>2. IsPlace(pushed, x) /\ driven = BeatAt(pushed, x)
  BY <1>1 DEF IsPlace, BeatAt, driven
<1>3. driven # NoBeat
  <2>1. pkt.size \in Nat
    BY <1>1
  <2>. QED
    BY <1>1, <2>1, BeatIs DEF driven
<1>4. Producer' = After(pushed, x)
  <2>1. CASE pc' = "wait" /\ pos' = pos
    BY <2>1 DEF Producer
  <2>2. CASE pc' = "push" /\ pos' = pos + dw /\ ~driven.last
    BY <1>2, <2>2 DEF Producer, After
  <2>3. CASE pc' = (IF bench.idle THEN "idle" ELSE "host") /\ driven.last
    <3>1. pc' # "push" /\ pc' # "wait"
      BY <2>3
    <3>. QED
      BY <1>2, <2>3, <3>1 DEF Producer, After
  <2>. QED
    BY <2>1, <2>2, <2>3, BeatOut
<1>. QED
  BY <1>2, <1>3, <1>4

(* The next call is a drain just after a push.                                *)
LEMMA OpenNext ==
  ASSUME NEW t \in Tests, ProgramInv(t), Paired(t.program), todo # <<>>, todo' = Tail(todo)
  PROVE  Open' <=> Head(todo).op = "push"
<1>. DEFINE n == Called(t) + 1
<1>1. /\ Called(t) \in Nat /\ n \in 1 .. Len(t.program) /\ Head(todo) = t.program[n]
      /\ IsSeq(todo') /\ Len(todo) \in Nat /\ Len(todo') = Len(todo) - 1
      /\ \A i \in 1 .. Len(todo') : todo'[i] = t.program[Called(t)' + i]
      /\ Called(t)' = n
  BY NextCall, TailIsSeq DEF ProgramInv
<1>2. DOMAIN t.program = 1 .. Len(t.program) /\ Len(t.program) \in Nat
  BY TestAssumption
<1>3. todo' # <<>> => n + 1 \in 1 .. Len(t.program) /\ Head(todo') = t.program[n + 1]
  <2>. SUFFICES ASSUME todo' # <<>>
                PROVE  n + 1 \in 1 .. Len(t.program) /\ Head(todo') = t.program[n + 1]
    OBVIOUS
  <2>1. Head(todo') = todo'[1] /\ Len(todo') \in Nat \ {0}
    BY <1>1, TailIsSeq
  <2>2. 1 \in 1 .. Len(todo')
    BY <2>1
  <2>3. n + 1 \in 1 .. Len(t.program)
    BY <1>1, <1>2, <2>1 DEF Called
  <2>. QED
    BY <1>1, <2>1, <2>2, <2>3
<1>4. n < Len(t.program) => todo' # <<>>
  <2>1. n < Len(t.program) => Len(todo') # 0
    BY <1>1, <1>2 DEF Called
  <2>. QED
    BY <2>1, EmptyIsSeq
<1>5. ASSUME Head(todo).op = "push"
      PROVE  Open'
  <2>1. n < Len(t.program) /\ t.program[n + 1].op = "drain"
    BY <1>1, <1>2, <1>5 DEF Paired
  <2>. QED
    BY <1>3, <1>4, <2>1 DEF Open
<1>6. ASSUME Open'
      PROVE  Head(todo).op = "push"
  <2>1. n + 1 \in DOMAIN t.program /\ t.program[n + 1].op = "drain"
    BY <1>2, <1>3, <1>6 DEF Open
  <2>2. t.program[(n + 1) - 1].op = "push" /\ (n + 1) - 1 = n
    <3>1. t.program[(n + 1) - 1].op = "push"
      BY <2>1 DEF Paired
    <3>. QED
      BY <1>1, <3>1
  <2>. QED
    BY <1>1, <2>2
<1>. QED
  BY <1>5, <1>6

(* What a step of the stream needs from the device and the driver.            *)
StreamReady ==
  /\ Device
  /\ pc \in {"push", "wait", "idle", "drain"} => dest = home
  /\ pc = "push" => s_tready
  /\ pc = "wait" => ~s_tready
  /\ pc = "drain" => bench.idle
  /\ pc # "flush"
  /\ pc = "return" => \A i \in 1 .. Len(inside) : inside[i] = NoBeat
  /\ bench.check # "none"
  /\ \/ bench.m_tready = TRUE /\ bench.captures = TRUE /\ bench.device = "pipeline"
     \/ bench.m_tready = FALSE /\ bench.captures = FALSE

(* Reset leaves bubbles only. *)
LEMMA ResetDevice ==
  ASSUME Reset
  PROVE  /\ Device' /\ home' = home /\ inside' = EmptyDut[home]
         /\ \A i \in 1 .. Len(inside') : inside'[i] = NoBeat
         /\ Len(inside') = IF bench.device = "pipeline" THEN STAGES ELSE 0
<1>. DEFINE pipe == bench.device = "pipeline"
<1>1. /\ dut' = EmptyDut /\ arb' = 0 /\ stalled' = FALSE /\ bench' = bench
  BY DEF Reset
<1>2. home' = home /\ home \in Queue /\ (pipe => home = 0) /\ inside' = EmptyDut[home]
  BY <1>1 DEF home, Queue, inside
<1>3. \A q \in Queue : q # home => EmptyDut[q] = <<>>
  BY DEF EmptyDut, home
<1>4. STAGES \in Nat
  BY BenchAssumption
<1>5. CASE pipe
  <2>1. inside' = [i \in 1 .. STAGES |-> NoBeat]
    BY <1>2, <1>5 DEF EmptyDut
  <2>. DEFINE S == {NoBeat}
  <2>2. NoBeat \in S
    OBVIOUS
  <2>. HIDE DEF S
  <2>3. inside' \in [1 .. STAGES -> S]
    BY <2>1, <2>2
  <2>4. inside' \in Seq(S) /\ Len(inside') = STAGES
    BY <1>4, <2>3
  <2>5. \A i \in 1 .. Len(inside') : inside'[i] = NoBeat
    BY <2>1, <2>4
  <2>. QED
    BY <1>1, <1>2, <1>3, <1>5, <2>4, <2>5 DEF Device, IsSeq
<1>6. CASE ~pipe
  <2>1. inside' = <<>>
    BY <1>2, <1>6 DEF EmptyDut
  <2>2. IsSeq(inside') /\ Len(inside') = 0
    BY <2>1, EmptyIsSeq
  <2>3. \A i \in 1 .. Len(inside') : FALSE
    BY <2>2
  <2>. QED
    BY <1>1, <1>2, <1>3, <1>6, <2>2, <2>3 DEF Device
<1>. QED
  BY <1>5, <1>6

LEMMA StreamReset ==
  ASSUME NEW t \in Tests, ProgramInv(t), CallInv(t), MonInv, StreamTest(t), Reset
  PROVE  StreamInv(t)'
<1>. DEFINE c == <<1, 0>>
            mon == bench.check = "monitor"
<1>1. /\ pc = "reset" /\ pc' = "host" /\ reset
      /\ UNCHANGED <<bench, todo, pushed, rx, results>> /\ t.driver = bench
  BY DEF Reset, ProgramInv
<1>2. todo = t.program /\ pushed = <<>> /\ rx = 0 /\ results = <<>>
  BY <1>1 DEF CallInv
<1>3. Len(pushed) = 0 /\ Called(t) = 0 /\ Producer' = c
  <2>1. Len(pushed) = 0 /\ Called(t) = 0
    BY <1>2, EmptyIsSeq, ProgramType DEF Called
  <2>2. Len(pushed') + 1 = 1
    BY <1>1, <2>1
  <2>. QED
    BY <1>1, <2>1, <2>2 DEF Producer
<1>4. Chain(pushed', inside', Len(inside'), c, c)
  <2>1. Len(inside') \in Nat /\ \A i \in 1 .. Len(inside') : inside'[i] = NoBeat
    BY ResetDevice, BenchAssumption
  <2>. QED
    BY <2>1, ChainBubbles
<1>5. ConsumerAt(c)'
  <2>1. CASE mon
    <3>1. /\ error_count' = 0 /\ rx_beats' = <<>> /\ received' = <<>>
          /\ wanted' = expected' /\ Len(expected') \in Nat
      BY <1>1, AppendIsSeq DEF reset, MonInv, AllSequences
    <3>2. /\ Len(received') = 0 /\ Len(rx_beats') = 0 /\ IsSeq(rx_beats')
          /\ consumed' = 0
      BY <3>1, EmptyIsSeq DEF consumed
    <3>3. c = <<Len(received') + 1, dw * Len(rx_beats')>>
      BY <3>2 DEF dw
    <3>4. \A i \in 1 .. Len(rx_beats') : FALSE
      BY <3>2
    <3>. QED
      BY <1>1, <2>1, <3>1, <3>2, <3>3, <3>4 DEF ConsumerAt, MonAt
  <2>2. CASE ~mon
    <3>1. Paired(t.program)
      BY <1>1, <2>2 DEF StreamTest
    <3>2. ~Open'
      <4>1. ~Open
        BY <1>3, <3>1, PairedCall
      <4>. QED
        BY <1>1, <4>1 DEF Open
    <3>3. IsSeq(results') /\ Len(results') = 0 /\ rx' = 0
      BY <1>1, <1>2, EmptyIsSeq
    <3>4. c = <<Len(pushed') + 1, 0>>
      BY <1>1, <1>3
    <3>5. \A i \in 1 .. Len(results') : FALSE
      BY <3>3
    <3>. QED
      BY <1>1, <2>2, <3>2, <3>3, <3>4, <3>5 DEF ConsumerAt, SizeAt
  <2>. QED
    BY <2>1, <2>2
<1>. QED
  BY <1>3, <1>4, <1>5 DEF StreamInv

(* A packet is expected or pushed.                                            *)
LEMMA StreamCall ==
  ASSUME NEW t \in Tests, ProgramInv(t), CallInv(t), MonInv, StreamTest(t), Device,
         StreamInv(t), CallExpect \/ CallPush
  PROVE  StreamInv(t)'
<1>. DEFINE mon == bench.check = "monitor"
            r == <<Len(pushed) + 1, 0>>
<1>1. /\ pc = "host" /\ todo # <<>> /\ todo' = Tail(todo) /\ pc' \in {"host", "push"}
      /\ UNCHANGED <<bench, rx, results, dut>> /\ t.driver = bench
  BY DEF CallExpect, CallPush, Calls, ProgramInv, dutVars
<1>2. PICK c : ConsumerAt(c) /\ Chain(pushed, inside, Len(inside), c, r)
  BY <1>1 DEF StreamInv, Producer
<1>3. inside' = inside /\ Len(inside) \in Nat
  <2>1. IsSeq(inside)
    BY DEF Device
  <2>. QED
    BY <1>1, <2>1, AppendIsSeq DEF inside, home
<1>4. ~mon => ~Open /\ (Open' <=> Head(todo).op = "push") /\ SizeAt(c)
  <2>1. ~mon => Paired(t.program) /\ SizeAt(c)
    BY <1>1, <1>2 DEF StreamTest, ConsumerAt
  <2>2. ~Open
    BY DEF Open, CallExpect, CallPush, Calls
  <2>. QED
    BY <1>1, <2>1, <2>2, OpenNext
<1>5. CASE CallExpect
  <2>1. pushed' = pushed /\ pc' = "host" /\ Head(todo).op = "expect"
    BY <1>5 DEF CallExpect, Calls
  <2>2. Chain(pushed', inside', Len(inside'), c, Producer')
    BY <1>2, <1>3, <2>1 DEF Producer
  <2>3. ConsumerAt(c)'
    <3>1. CASE mon
      <4>1. UNCHANGED <<rx_beats, error_count, received>>
        BY <1>5 DEF CallExpect, expect
      <4>2. consumed' = consumed
        <5>1. /\ Len(expected') = Len(expected) + 1 /\ Len(expected) \in Nat
              /\ Len(wanted') = Len(wanted) + 1 /\ Len(wanted) \in Nat
          BY <1>5, AppendIsSeq DEF CallExpect, expect, MonInv, AllSequences
        <5>. QED
          BY <5>1 DEF consumed
      <4>. QED
        BY <1>1, <1>2, <2>1, <3>1, <4>1, <4>2 DEF ConsumerAt, MonAt, IsSeq
    <3>2. CASE ~mon
      <4>1. ~Open' /\ ~Open /\ SizeAt(c)
        BY <1>4, <2>1, <3>2
      <4>. QED
        BY <1>1, <2>1, <3>2, <4>1 DEF ConsumerAt, SizeAt, IsSeq
    <3>. QED
      BY <3>1, <3>2
  <2>. QED
    BY <2>2, <2>3 DEF StreamInv
<1>6. CASE CallPush
  <2>1. /\ pushed' = Append(pushed, Head(todo)) /\ pc' = "push" /\ pos' = 0
        /\ Head(todo).op = "push" /\ UNCHANGED monVars
    BY <1>6 DEF CallPush, Calls
  <2>2. /\ IsSeq(pushed) /\ Len(pushed) \in Nat /\ Len(pushed') = Len(pushed) + 1
        /\ \A i \in 1 .. Len(pushed) : pushed'[i] = pushed[i]
        /\ pushed'[Len(pushed) + 1] = Head(todo)
    BY <2>1, AppendIsSeq DEF ProgramInv
  <2>3. Chain(pushed', inside', Len(inside'), c, Producer')
    <3>1. Chain(pushed', inside, Len(inside), c, r)
      BY <1>2, <1>3, <2>1, <2>2, ChainGrows
    <3>2. Producer' = r
      BY <2>1, <2>2 DEF Producer
    <3>. QED
      BY <1>3, <3>1, <3>2
  <2>4. ConsumerAt(c)'
    <3>1. CASE mon
      <4>1. MonAt(c)
        BY <1>2, <3>1 DEF ConsumerAt
      <4>2. \A i \in 1 .. Len(rx_beats) :
              /\ Len(received) + 1 <= Len(pushed')
              /\ rx_beats[i] = packet_bytes(pushed'[Len(received) + 1].pkt)[i]
        <5>. TAKE i \in 1 .. Len(rx_beats)
        <5>1. /\ Len(received) + 1 <= Len(pushed)
              /\ rx_beats[i] = packet_bytes(pushed[Len(received) + 1].pkt)[i]
          BY <4>1 DEF MonAt
        <5>2. Len(received) + 1 \in 1 .. Len(pushed) /\ Len(received) + 1 <= Len(pushed')
          <6>1. Len(received) \in Nat
            BY AppendIsSeq DEF MonInv, AllSequences
          <6>. QED
            BY <2>2, <5>1, <6>1
        <5>3. pushed'[Len(received) + 1] = pushed[Len(received) + 1]
          BY <2>2, <5>2
        <5>. QED
          BY <5>1, <5>2, <5>3
      <4>3. UNCHANGED <<rx_beats, error_count, received, consumed>>
        BY <2>1 DEF monVars, consumed
      <4>. QED
        BY <1>1, <3>1, <4>1, <4>2, <4>3 DEF ConsumerAt, MonAt, IsSeq
    <3>2. CASE ~mon
      <4>1. Open' /\ ~Open /\ SizeAt(c)
        BY <1>4, <2>1, <3>2
      <4>2. rx' = 0 /\ c = <<Len(pushed'), 0>>
        BY <1>1, <2>2, <4>1 DEF SizeAt
      <4>3. rx' < pkt'.size
        <5>1. pkt' = Head(todo).pkt
          BY <2>2 DEF pkt, Last
        <5>2. Head(todo).pkt.size \in Nat \ {0}
          <6>1. Head(todo) \in Call
            BY <1>1, NextCall, ProgramType
          <6>. QED
            BY <6>1 DEF Call, Packet
        <5>. QED
          BY <4>2, <5>1, <5>2
      <4>. QED
        BY <1>1, <3>2, <4>1, <4>2, <4>3 DEF ConsumerAt, SizeAt, IsSeq
    <3>. QED
      BY <3>1, <3>2
  <2>. QED
    BY <2>3, <2>4 DEF StreamInv
<1>. QED
  BY <1>5, <1>6

(* An edge of the clock.                                                      *)
LEMMA StreamClock ==
  ASSUME NEW t \in Tests, ProgramInv(t), CallInv(t), MonInv, StreamTest(t), StreamReady,
         StreamInv(t), faults \in Nat, faults' = 0,
         Push \/ Spin \/ TakeOne \/ Idle \/ Drain
  PROVE  StreamInv(t)'
<1>1. /\ pc \in {"push", "wait", "idle", "drain"}
      /\ UNCHANGED <<bench, todo, pushed, results>> /\ t.driver = bench
      /\ Device /\ dest = home
  BY DEF Push, Spin, TakeOne, Idle, Drain, ProgramInv, StreamReady
<1>. DEFINE r == Producer
            here == <<Len(pushed), pos>>
            next == After(pushed, here)
<1>2. PICK c : ConsumerAt(c) /\ Chain(pushed, inside, Len(inside), c, r)
  BY <1>1 DEF StreamInv
<1>3. pc = "push" => r = here
  BY DEF Producer
<1>4. pc = "wait" => r = next
  BY DEF Producer
<1>5. pc \notin {"push", "wait"} => r = <<Len(pushed) + 1, 0>>
  BY DEF Producer
<1>6. /\ bench.device = "pipeline" => s_tready
      /\ bench.m_tready \in BOOLEAN /\ bench.captures = bench.m_tready
      /\ bench.device # "pipeline" => bench.m_tready = FALSE
  BY <1>1 DEF StreamReady, s_tready, Device
<1>. HIDE DEF r, next, here
<1>7. ASSUME NEW b, NEW x \in BOOLEAN, Capture(x), Edge(b, x),
             Taken(b) # NoBeat => IsPlace(pushed, r) /\ Taken(b) = BeatAt(pushed, r),
             Producer' = IF Taken(b) # NoBeat THEN After(pushed, r) ELSE r
      PROVE  StreamInv(t)'
  <2>1. \E d : /\ ConsumerAt(d)'
               /\ Chain(pushed, inside', Len(inside'), d,
                        IF Taken(b) # NoBeat THEN After(pushed, r) ELSE r)
    BY <1>1, <1>2, <1>7, StreamEdge
  <2>2. PICK d : /\ ConsumerAt(d)'
                 /\ Chain(pushed, inside', Len(inside'), d,
                          IF Taken(b) # NoBeat THEN After(pushed, r) ELSE r)
    BY <2>1
  <2>3. Chain(pushed', inside', Len(inside'), d, Producer')
    BY <1>1, <1>7, <2>2
  <2>. QED
    BY <2>2, <2>3 DEF StreamInv
<1>8. CASE Push
  <2>1. /\ pc = "push" /\ Capture(bench.captures) /\ Edge(driven, bench.m_tready)
        /\ NextBeat /\ r = here
    BY <1>3, <1>8 DEF Push
  <2>2. /\ Producer' = next /\ IsPlace(pushed, here) /\ driven = BeatAt(pushed, here)
        /\ driven # NoBeat
    BY <1>1, <2>1, NextProducer DEF next, here
  <2>3. Taken(driven) = driven
    BY <2>1 DEF Taken, StreamReady
  <2>4. /\ Taken(driven) # NoBeat /\ IsPlace(pushed, r) /\ Taken(driven) = BeatAt(pushed, r)
        /\ Producer' = After(pushed, r)
    BY <2>1, <2>2, <2>3 DEF next
  <2>5. Capture(bench.m_tready) /\ Edge(driven, bench.m_tready) /\ bench.m_tready \in BOOLEAN
    BY <1>6, <2>1
  <2>. QED
    BY <1>7, <2>4, <2>5
<1>9. CASE Spin
  <2>1. /\ pc = "wait" /\ Edge(driven, bench.m_tready) /\ NextBeat /\ r = next
        /\ UNCHANGED <<rx, monVars>>
    BY <1>4, <1>9 DEF Spin
  <2>2. ~s_tready
    BY <2>1 DEF StreamReady
  <2>3. bench.m_tready = FALSE /\ Taken(driven) = NoBeat
    BY <1>6, <2>2 DEF Taken
  <2>4. Producer' = next
    BY <1>1, <2>1, NextProducer DEF next, here
  <2>5. Capture(FALSE) /\ Edge(driven, FALSE)
    BY <2>1, <2>3 DEF Capture
  <2>. QED
    BY <1>7, <2>1, <2>3, <2>4, <2>5
<1>10. CASE TakeOne
  <2>1. /\ pc = "wait" /\ Capture(TRUE) /\ Edge(NoBeat, TRUE) /\ NextBeat /\ r = next
    BY <1>4, <1>10 DEF TakeOne
  <2>2. Taken(NoBeat) = NoBeat
    BY DEF Taken
  <2>3. Producer' = next
    BY <1>1, <2>1, NextProducer DEF next, here
  <2>. QED
    BY <1>7, <2>1, <2>2, <2>3
<1>11. CASE Idle
  <2>1. /\ pc = "idle" /\ Capture(bench.m_tready) /\ Edge(NoBeat, bench.m_tready)
        /\ bench.m_tready \in BOOLEAN /\ pc' = "host"
    BY <1>6, <1>11 DEF Idle
  <2>2. Taken(NoBeat) = NoBeat
    BY DEF Taken
  <2>3. Producer' = r
    BY <1>1, <1>5, <2>1 DEF Producer
  <2>. QED
    BY <1>7, <2>1, <2>2, <2>3
<1>12. CASE Drain
  <2>1. pc = "drain" /\ Capture(bench.check # "none") /\ Edge(held, TRUE)
        /\ pc' \in {"drain", "flush", "return"}
    BY <1>12 DEF Drain
  <2>2. (bench.check # "none") = TRUE /\ held = NoBeat
    BY <2>1 DEF StreamReady, held
  <2>3. Capture(TRUE) /\ Edge(NoBeat, TRUE)
    <3>. DEFINE y == bench.check # "none"
    <3>1. y = TRUE /\ Capture(y)
      BY <2>1, <2>2
    <3>. HIDE DEF y
    <3>. QED
      BY <2>1, <2>2, <3>1
  <2>4. Taken(NoBeat) = NoBeat
    BY DEF Taken
  <2>5. Producer' = r
    BY <1>1, <1>5, <2>1 DEF Producer
  <2>. QED
    BY <1>7, <2>3, <2>4, <2>5
<1>. QED
  BY <1>8, <1>9, <1>10, <1>11, <1>12

(* When the line is dry, everything pushed has been captured.                 *)
LEMMA StreamDry ==
  ASSUME NEW t \in Tests, StreamInv(t), Device, pc \notin {"reset", "push", "wait"},
         \A i \in 1 .. Len(inside) : inside[i] = NoBeat
  PROVE  ConsumerAt(<<Len(pushed) + 1, 0>>)
<1>1. PICK c : ConsumerAt(c) /\ Chain(pushed, inside, Len(inside), c, Producer)
  BY DEF StreamInv
<1>2. Producer = <<Len(pushed) + 1, 0>>
  BY DEF Producer
<1>3. Len(inside) \in Nat
  <2>1. IsSeq(inside)
    BY DEF Device
  <2>. QED
    BY <2>1, AppendIsSeq
<1>4. c = Producer
  BY <1>1, <1>3, ChainDry
<1>. QED
  BY <1>1, <1>2, <1>4

LEMMA StreamReturn ==
  ASSUME NEW t \in Tests, ProgramInv(t), CallInv(t), StreamTest(t), StreamReady,
         StreamInv(t), Return
  PROVE  StreamInv(t)'
<1>. DEFINE mon == bench.check = "monitor"
<1>0. PICK c : c = <<Len(pushed) + 1, 0>>
  OBVIOUS
<1>1. /\ pc = "return" /\ pc' = "host" /\ todo # <<>> /\ todo' = Tail(todo)
      /\ Head(todo).op = "drain" /\ rx' = 0
      /\ results' = Append(results, [want |-> Head(todo).pkt.size, got |-> rx])
      /\ UNCHANGED <<bench, pushed, dut, monVars>> /\ t.driver = bench
  BY DEF Return, ProgramInv, dutVars
<1>2. Device /\ \A i \in 1 .. Len(inside) : inside[i] = NoBeat
  BY <1>1 DEF StreamReady
<1>3. ConsumerAt(c)
  BY <1>0, <1>1, <1>2, StreamDry
<1>4. inside' = inside /\ Len(inside) \in Nat /\ Producer' = c
  <2>1. IsSeq(inside)
    BY <1>2 DEF Device
  <2>. QED
    BY <1>0, <1>1, <2>1, AppendIsSeq DEF inside, home, Producer
<1>5. Chain(pushed', inside', Len(inside'), c, Producer')
  <2>1. Chain(pushed', inside, Len(inside), c, c)
    BY <1>2, <1>4, ChainBubbles
  <2>. QED
    BY <1>4, <2>1
<1>6. ConsumerAt(c)'
  <2>1. CASE mon
    <3>1. MonAt(c) /\ consumed' = consumed
      BY <1>1, <1>3, <2>1 DEF ConsumerAt, monVars, consumed
    <3>. QED
      BY <1>1, <2>1, <3>1 DEF ConsumerAt, MonAt, monVars, IsSeq
  <2>2. CASE ~mon
    <3>1. Paired(t.program) /\ SizeAt(c) /\ Open
      BY <1>1, <1>3, <2>2 DEF ConsumerAt, StreamTest, Open
    <3>2. ~Open'
      BY <1>1, <3>1, OpenNext
    <3>3. rx = pkt.size /\ Head(todo).pkt.size = pkt.size
      <4>1. c # <<Len(pushed), rx>>
        <5>1. Len(pushed) \in Nat
          BY PushedType
        <5>. QED
          BY <1>0, <5>1
      <4>. QED
        BY <3>1, <4>1, PairedCall DEF SizeAt
    <3>4. /\ IsSeq(results') /\ Len(results) \in Nat /\ Len(results') = Len(results) + 1
          /\ \A i \in 1 .. Len(results) : results'[i] = results[i]
          /\ results'[Len(results) + 1] = [want |-> Head(todo).pkt.size, got |-> rx]
      BY <1>1, <3>1, AppendIsSeq DEF SizeAt
    <3>5. \A i \in 1 .. Len(results') : results'[i].got = results'[i].want
      <4>. TAKE i \in 1 .. Len(results')
      <4>1. CASE i \in 1 .. Len(results)
        BY <3>1, <3>4, <4>1 DEF SizeAt
      <4>2. CASE i = Len(results) + 1
        BY <3>3, <3>4, <4>2
      <4>. QED
        BY <3>4, <4>1, <4>2
    <3>. QED
      BY <1>0, <1>1, <2>2, <3>2, <3>4, <3>5 DEF ConsumerAt, SizeAt
  <2>. QED
    BY <2>1, <2>2
<1>. QED
  BY <1>5, <1>6 DEF StreamInv

LEMMA StreamStep ==
  ASSUME NEW t \in Tests, ProgramInv(t), CallInv(t), MonInv, StreamTest(t), StreamReady,
         StreamInv(t), [Next]_vars, faults \in Nat, faults' = 0
  PROVE  StreamInv(t)'
<1>1. CASE Reset
  BY <1>1, StreamReset
<1>2. CASE CallExpect \/ CallPush
  BY <1>2, StreamCall DEF StreamReady
<1>3. CASE CallDrain \/ Finish \/ UNCHANGED vars
  <2>1. /\ UNCHANGED <<bench, todo, pushed, pos, rx, results, dut>> /\ UNCHANGED monVars
        /\ pc' = pc \/ (pc = "host" /\ pc' \in {"drain", "done"})
    <3>1. CASE CallDrain
      BY <3>1 DEF CallDrain, dutVars
    <3>2. CASE Finish
      BY <3>2 DEF Finish, dutVars
    <3>3. CASE UNCHANGED vars
      <4>1. UNCHANGED <<bench, todo, pushed, pos, rx, results, dut, pc>>
        BY <3>3 DEF vars, progVars, dutVars
      <4>2. monVars' = monVars
        BY <3>3 DEF vars
      <4>. QED
        BY <4>1, <4>2
    <3>. QED
      BY <1>3, <3>1, <3>2, <3>3
  <2>2. /\ inside' = inside /\ Producer' = Producer /\ (pc = "reset" <=> pc' = "reset")
        /\ pkt' = pkt /\ Open' = Open /\ consumed' = consumed
    <3>1. After(pushed, <<Len(pushed), pos>>)' = After(pushed, <<Len(pushed), pos>>)
      BY <2>1
    <3>. QED
      BY <2>1, <3>1 DEF inside, home, Producer, pkt, Last, Open, consumed, monVars
  <2>3. \A c : ConsumerAt(c) => ConsumerAt(c)'
    BY <2>1, <2>2 DEF ConsumerAt, MonAt, SizeAt, monVars, IsSeq
  <2>. QED
    BY <2>1, <2>2, <2>3 DEF StreamInv
<1>4. CASE Push \/ Spin \/ TakeOne \/ Idle \/ Drain
  BY <1>4, StreamClock
<1>5. CASE Flush
  BY <1>5 DEF Flush, StreamReady
<1>6. CASE Return
  BY <1>6, StreamReturn
<1>. QED
  BY <1>1, <1>2, <1>3, <1>4, <1>5, <1>6 DEF Next

-----------------------------------------------------------------------------
(* The queues.                                                                *)
QueueTest(t) == \/ FifoTest(t.driver, t.program)
                \/ /\ SchedulerTest(t.driver, t.program)
                   /\ Paired(t.program) /\ t.driver.at_last /\ t.driver.when_dry = "wait"

LEMMA DestHome ==
  ASSUME NEW t \in Tests, ProgramInv(t),
         bench.device = "scheduler" => /\ pushed # <<>>
                                       /\ \A i \in DOMAIN t.program : t.program[i].class = 0
  PROVE  dest = home
<1>1. CASE bench.device = "scheduler"
  <2>1. Len(pushed) \in 1 .. Len(pushed)
    BY <1>1, PushedType
  <2>2. PICK i \in 1 .. Called(t) : pushed[Len(pushed)] = t.program[i]
    BY <2>1 DEF ProgramInv
  <2>3. i \in DOMAIN t.program
    <3>1. Len(todo) \in Nat
      BY AppendIsSeq DEF ProgramInv
    <3>2. i \in 1 .. Len(t.program)
      BY <3>1, ProgramType DEF Called
    <3>. QED
      BY <3>2, TestAssumption
  <2>4. Last(pushed).class = 0
    BY <1>1, <2>2, <2>3 DEF Last
  <2>5. Scheduler!dest_queue(0) = 2
    BY DEF Scheduler!dest_queue, Scheduler!Q_LOW
  <2>. QED
    BY <1>1, <2>4, <2>5 DEF dest, home
<1>2. CASE bench.device # "scheduler"
  BY <1>2 DEF dest, home
<1>. QED
  BY <1>1, <1>2

(* The habits of these benches. *)
LEMMA QueueHabits ==
  ASSUME NEW t \in Tests, ProgramInv(t), QueueTest(t)
  PROVE  /\ bench.device \in {"fifo", "scheduler"} /\ bench.device # "pipeline"
         /\ bench.m_tready = FALSE /\ bench.captures = FALSE
         /\ bench.idle /\ bench.flush = 0 /\ bench.check # "none" /\ bench.wait # "none"
         /\ bench.device = "fifo" => /\ bench.wait = "take" /\ ~bench.at_last
                                     /\ bench.when_dry = "still dry"
         /\ bench.device = "scheduler" => /\ bench.wait = "spin" /\ bench.at_last
                                          /\ bench.when_dry = "wait" /\ Paired(t.program)
<1>1. t.driver = bench
  BY DEF ProgramInv
<1>4. bench.m_tready \in BOOLEAN /\ bench.captures \in BOOLEAN
  BY <1>1, TestAssumption DEF Driver
<1>2. CASE FifoTest(t.driver, t.program)
  <2>1. bench.m_tready = FALSE /\ bench.captures = FALSE
    BY <1>1, <1>2, <1>4 DEF FifoTest
  <2>2. /\ bench.device = "fifo" /\ bench.check = "monitor" /\ bench.wait = "take"
        /\ bench.when_dry = "still dry" /\ bench.flush = 0
    BY <1>1, <1>2 DEF FifoTest
  <2>3. bench.idle /\ ~bench.at_last
    BY <1>1, <1>2, Zenon DEF FifoTest
  <2>. QED
    BY <2>1, <2>2, <2>3
<1>3. CASE /\ SchedulerTest(t.driver, t.program)
           /\ Paired(t.program) /\ t.driver.at_last /\ t.driver.when_dry = "wait"
  <2>1. bench.m_tready = FALSE /\ bench.captures = FALSE
    BY <1>1, <1>3, <1>4 DEF SchedulerTest
  <2>. QED
    BY <1>1, <1>3, <2>1 DEF SchedulerTest
<1>. QED
  BY <1>2, <1>3 DEF QueueTest

LEMMA QueueDest ==
  ASSUME NEW t \in Tests, ProgramInv(t), CallInv(t), QueueTest(t),
         pc \in {"push", "wait", "idle", "drain"}
  PROVE  dest = home
<1>1. bench.device = "scheduler" => \A i \in DOMAIN t.program : t.program[i].class = 0
  BY DEF QueueTest, FifoTest, SchedulerTest, ProgramInv
<1>2. bench.device = "scheduler" => pushed # <<>>
  <2>1. pc \in {"push", "wait", "idle"} => pushed # <<>>
    BY DEF ProgramInv
  <2>2. pc = "drain" => Open
    BY DEF ProgramInv, Open
  <2>. QED
    BY <2>1, <2>2, QueueHabits, PairedCall
<1>. QED
  BY <1>1, <1>2, DestHome

LEMMA QueueRoom ==
  ASSUME NEW t \in Tests, ProgramInv(t), CallInv(t), QueueTest(t),
         pc \in {"push", "wait", "idle", "drain"}, Device
  PROVE  s_tready <=> Len(inside) < DEPTH
BY QueueHabits, QueueDest DEF s_tready, Device, inside

LEMMA QueueReady ==
  ASSUME NEW t \in Tests, ProgramInv(t), CallInv(t), QueueTest(t), QueueInv(t)
  PROVE  StreamReady
<1>1. Device /\ pc # "flush" /\ (pc # "wait" <=> Len(inside) < DEPTH)
  BY DEF QueueInv
<1>2. pc = "return" => \A i \in 1 .. Len(inside) : inside[i] = NoBeat
  <2>1. pc = "return" => Len(inside) = 0
    BY EmptyIsSeq DEF QueueInv
  <2>. QED
    BY <2>1
<1>. QED
  BY <1>1, <1>2, QueueHabits, QueueDest, QueueRoom DEF StreamReady

(* An edge moves the beats of a queue up and adds what was taken.             *)
LEMMA QueueEdge ==
  ASSUME NEW t \in Tests, ProgramInv(t), CallInv(t), QueueTest(t), QueueInv(t),
         NEW b, NEW x \in BOOLEAN, Edge(b, x), faults \in Nat, faults' = 0,
         UNCHANGED <<bench, todo, pushed>>, pc \in {"push", "wait", "idle", "drain"}
  PROVE  /\ Device' /\ IsSeq(inside') /\ Len(inside) \in Nat /\ dest' = home'
         /\ Len(inside') = Len(inside) - Off(x) + (IF Taken(b) # NoBeat THEN 1 ELSE 0)
         /\ Off(x) \in 0 .. 1 /\ Off(x) <= Len(inside)
         /\ \A i \in 1 .. Len(inside) - Off(x) : inside'[i] = inside[i + Off(x)]
         /\ Taken(b) # NoBeat => inside'[Len(inside')] = Taken(b)
         /\ \A i \in 1 .. Len(inside') : inside'[i] # NoBeat
         /\ s_tready' <=> Len(inside') < DEPTH
         /\ bench.device = "scheduler" => arb' = IF inside = <<>> THEN arb ELSE 2
<1>1. Device /\ dest = home /\ bench.device # "pipeline"
  BY QueueDest, QueueHabits DEF QueueInv
<1>2. /\ Device' /\ home' = home
      /\ Moved(inside, inside', Off(x), On(b), Taken(b))
      /\ bench.device = "scheduler" => arb' = IF inside = <<>> THEN arb ELSE 2
  BY <1>1, DeviceEdge
<1>3. On(b) = IF Taken(b) # NoBeat THEN 1 ELSE 0
  BY <1>1 DEF On
<1>4. dest' = home' /\ bench.device' # "pipeline"
  <2>1. dest' = dest
    BY DEF dest
  <2>. QED
    BY <1>1, <1>2, <2>1
<1>5. s_tready' <=> Len(inside') < DEPTH
  BY <1>2, <1>4 DEF s_tready, Device, inside
<1>6. Len(inside) \in Nat /\ Off(x) \in 0 .. 1 /\ Off(x) <= Len(inside)
  <2>1. IsSeq(inside)
    BY <1>1 DEF Device
  <2>2. Len(inside) \in Nat /\ (inside # <<>> => Len(inside) # 0)
    BY <2>1, AppendIsSeq, TailIsSeq
  <2>. QED
    BY <2>2 DEF Off
<1>7. /\ IsSeq(inside')
      /\ Len(inside') = Len(inside) - Off(x) + (IF Taken(b) # NoBeat THEN 1 ELSE 0)
      /\ \A i \in 1 .. Len(inside) - Off(x) : inside'[i] = inside[i + Off(x)]
      /\ Taken(b) # NoBeat => inside'[Len(inside')] = Taken(b)
  BY <1>2, <1>3 DEF Moved
<1>8. ASSUME NEW i \in 1 .. Len(inside')
      PROVE  inside'[i] # NoBeat
  <2>. DEFINE n == Len(inside)
              o == Off(x)
              m == Len(inside')
              on == Taken(b) # NoBeat
  <2>1. /\ n \in Nat /\ o \in 0 .. 1 /\ o <= n /\ m = n - o + (IF on THEN 1 ELSE 0)
        /\ i \in 1 .. m
    BY <1>6, <1>7
  <2>2. i \in 1 .. n - o \/ (on /\ i = m)
    <3>. HIDE DEF n, o, m, on
    <3>. QED
      BY <2>1
  <2>3. CASE i \in 1 .. n - o
    <3>1. i + o \in 1 .. n
      <4>. HIDE DEF n, o, m
      <4>. QED
        BY <2>1, <2>3
    <3>2. inside'[i] = inside[i + o]
      BY <1>7, <2>3
    <3>. QED
      BY <3>1, <3>2 DEF QueueInv
  <2>4. CASE on /\ i = m
    BY <1>7, <2>4
  <2>. QED
    BY <2>2, <2>3, <2>4
<1>. QED
  BY <1>2, <1>4, <1>5, <1>6, <1>7, <1>8

(* A step that leaves the queue alone or finds it empty.                      *)
LEMMA QueueEmpty ==
  ASSUME NEW t, Device', pc' \notin {"wait", "idle", "flush"}, inside' = <<>>
  PROVE  QueueInv(t)'
<1>1. Len(inside') = 0 /\ DEPTH \in Nat \ {0}
  BY EmptyIsSeq, BenchAssumption
<1>2. \A i \in 1 .. Len(inside') : FALSE
  BY <1>1
<1>. QED
  BY <1>1, <1>2 DEF QueueInv

LEMMA QueueHost ==
  ASSUME NEW t \in Tests, ProgramInv(t), CallInv(t), QueueTest(t), QueueInv(t),
         Reset \/ CallExpect \/ CallPush \/ CallDrain \/ Finish \/ Return \/ UNCHANGED vars
  PROVE  QueueInv(t)'
<1>1. CASE Reset
  <2>1. Device' /\ Len(inside') = 0 /\ IsSeq(inside')
    BY <1>1, ResetDevice, QueueHabits DEF Device
  <2>2. inside' = <<>>
    BY <2>1, TailIsSeq
  <2>3. pc' = "host"
    BY <1>1 DEF Reset
  <2>. QED
    BY <2>1, <2>2, <2>3, QueueEmpty
<1>2. ASSUME UNCHANGED <<bench, dut, arb, stalled>>
      PROVE  Device' /\ inside' = inside /\ home' = home
  <2>1. Device
    BY DEF QueueInv
  <2>. QED
    BY <1>2, <2>1 DEF Device, inside, home, IsSeq
<1>3. CASE CallExpect \/ CallPush
  <2>1. /\ pc = "host" /\ todo # <<>> /\ todo' = Tail(todo) /\ pc' \in {"host", "push"}
        /\ UNCHANGED <<bench, dut, arb, stalled>> /\ Head(todo).op # "drain"
    BY <1>3 DEF CallExpect, CallPush, Calls, dutVars
  <2>2. Device' /\ inside' = inside
    BY <1>2, <2>1 DEF QueueInv
  <2>3. CASE bench.device = "scheduler"
    <3>1. inside = <<>>
      BY <2>1, <2>3 DEF QueueInv, Open
    <3>. QED
      BY <2>1, <2>2, <3>1, QueueEmpty
  <2>4. CASE bench.device # "scheduler"
    <3>1. Called(t)' = Called(t) + 1 /\ t.program[Called(t) + 1].op # "drain"
      BY <2>1, NextCall
    <3>2. t.program[Called(t)'].op # "drain"
      BY <3>1
    <3>. QED
      BY <2>1, <2>2, <2>4, <3>2 DEF QueueInv
  <2>. QED
    BY <2>3, <2>4
<1>4. CASE CallDrain \/ Finish
  <2>1. /\ pc = "host" /\ UNCHANGED <<bench, dut, arb, stalled, todo>>
        /\ (pc' = "drain" /\ timeout' = TIMEOUT) \/ pc' = "done"
    BY <1>4 DEF CallDrain, Finish, dutVars
  <2>2. Device' /\ inside' = inside /\ Called(t)' = Called(t) /\ Open' = Open
    BY <1>2, <2>1 DEF QueueInv, Called, Open
  <2>3. Len(inside) \in Nat /\ TIMEOUT \in Nat
    BY <2>2, AppendIsSeq, BenchAssumption DEF Device
  <2>4. pc' = "drain" => Len(inside') + (TIMEOUT - timeout') <= DEPTH
    <3>1. Len(inside) <= DEPTH /\ DEPTH \in Nat
      BY BenchAssumption DEF QueueInv
    <3>2. pc' = "drain" => timeout' = TIMEOUT
      BY <2>1
    <3>. QED
      BY <2>2, <2>3, <3>1, <3>2
  <2>. QED
    BY <2>1, <2>2, <2>4 DEF QueueInv
<1>5. CASE Return
  <2>1. pc = "return" /\ pc' = "host" /\ UNCHANGED <<bench, dut, arb, stalled>>
    BY <1>5 DEF Return, dutVars
  <2>2. Device' /\ inside' = <<>>
    BY <1>2, <2>1 DEF QueueInv
  <2>. QED
    BY <2>1, <2>2, QueueEmpty
<1>6. CASE UNCHANGED vars
  <2>1. UNCHANGED <<bench, todo, pc, timeout, dut, arb, stalled>>
    BY <1>6 DEF vars, progVars, dutVars
  <2>2. Device' /\ inside' = inside /\ Called(t)' = Called(t) /\ Open' = Open
    BY <1>2, <2>1 DEF QueueInv, Called, Open
  <2>. QED
    BY <2>1, <2>2 DEF QueueInv
<1>. QED
  BY <1>1, <1>3, <1>4, <1>5, <1>6

LEMMA QueuePush ==
  ASSUME NEW t \in Tests, ProgramInv(t), CallInv(t), QueueTest(t), QueueInv(t),
         Push, faults \in Nat, faults' = 0
  PROVE  QueueInv(t)'
<1>. DEFINE n == Len(inside)
            m == Len(inside')
            sched == bench.device = "scheduler"
<1>1. /\ pc = "push" /\ UNCHANGED <<bench, todo, pushed, timeout>>
      /\ Edge(driven, FALSE) /\ NextBeat
  <2>1. bench.m_tready = FALSE
    BY QueueHabits
  <2>2. Edge(driven, bench.m_tready)
    BY DEF Push
  <2>. QED
    BY <2>1, <2>2 DEF Push
<1>2. n < DEPTH /\ Device /\ DEPTH \in Nat /\ bench.wait # "none" /\ bench.idle
  BY <1>1, QueueHabits, BenchAssumption DEF QueueInv
<1>3. driven # NoBeat
  <2>1. pkt.size \in Nat \ {0} /\ pos \in Nat /\ pos < pkt.size
    BY <1>1, PushedType DEF ProgramInv
  <2>2. pkt.size \in Nat
    BY <2>1
  <2>. QED
    BY <2>1, <2>2, BeatIs DEF driven
<1>4. Taken(driven) = driven
  BY <1>1, <1>2, QueueRoom DEF Taken
<1>5. PICK o : o = Off(FALSE) /\ o = 0
  BY DEF Off
<1>6. /\ Device' /\ IsSeq(inside') /\ n \in Nat
      /\ m = n - o + (IF Taken(driven) # NoBeat THEN 1 ELSE 0)
      /\ \A i \in 1 .. n - o : inside'[i] = inside[i + o]
      /\ Taken(driven) # NoBeat => inside'[m] = Taken(driven)
      /\ \A i \in 1 .. m : inside'[i] # NoBeat
      /\ s_tready' <=> m < DEPTH
  BY <1>1, <1>5, QueueEdge
<1>7. m = n + 1 /\ inside'[m] = driven /\ \A i \in 1 .. n : inside'[i] = inside[i]
  <2>0. n \in Nat /\ m = n - 0 + 1
    BY <1>3, <1>4, <1>5, <1>6
  <2>1. \A i \in 1 .. n : i \in 1 .. n - o /\ i + o = i
    <3>1. n \in Nat
      BY <2>0
    <3>2. o = 0
      BY <1>5
    <3>. HIDE DEF n
    <3>. QED
      BY <3>1, <3>2
  <2>2. m = n + 1
    <3>. HIDE DEF n, m
    <3>. QED
      BY <2>0
  <2>3. inside'[m] = driven
    BY <1>3, <1>4, <1>6
  <2>. QED
    BY <1>6, <2>1, <2>2, <2>3
<1>8. m <= DEPTH /\ (pc' = "wait" <=> ~(m < DEPTH))
  <2>0. n \in Nat /\ m = n + 1 /\ n < DEPTH /\ DEPTH \in Nat
    BY <1>2, <1>6, <1>7
  <2>1. m <= DEPTH
    <3>. HIDE DEF n, m
    <3>. QED
      BY <2>0
  <2>2. ~s_tready' => pc' = "wait"
    BY <1>1, <1>2 DEF NextBeat
  <2>3. s_tready' => pc' # "wait"
    <3>. SUFFICES ASSUME s_tready'
                  PROVE  pc' # "wait"
      OBVIOUS
    <3>1. pc' = IF ~driven.last THEN "push" ELSE IF bench.idle THEN "idle" ELSE "host"
      BY <1>1 DEF NextBeat
    <3>. QED
      BY <1>2, <3>1
  <2>. QED
    BY <1>6, <2>1, <2>2, <2>3
<1>9. \/ pc' = "wait"
      \/ pc' = "push" /\ ~driven.last
      \/ pc' = "idle" /\ driven.last
  BY <1>1, <1>2, BeatOut
<1>10. inside' # <<>>
  BY <1>6, <1>7, EmptyIsSeq
<1>11. ASSUME sched
       PROVE  /\ pc' = "push" => \A i \in 1 .. m : ~inside'[i].last
              /\ pc' = "idle" => \A i \in 1 .. m : inside'[i].last => i = m
  <2>1. \A i \in 1 .. n : ~inside[i].last
    BY <1>1, <1>11 DEF QueueInv
  <2>2. \A i \in 1 .. n : ~inside'[i].last
    BY <1>7, <2>1
  <2>3. \A i \in 1 .. m : i \in 1 .. n \/ i = m
    <3>1. n \in Nat /\ m = n + 1
      BY <1>6, <1>7
    <3>. HIDE DEF n, m
    <3>. QED
      BY <3>1
  <2>. QED
    BY <1>7, <1>9, <2>2, <2>3
<1>. QED
  BY <1>1, <1>6, <1>8, <1>9, <1>10, <1>11 DEF QueueInv

LEMMA QueueWait ==
  ASSUME NEW t \in Tests, ProgramInv(t), CallInv(t), QueueTest(t), QueueInv(t),
         Spin \/ TakeOne, faults \in Nat, faults' = 0
  PROVE  QueueInv(t)'
<1>. DEFINE n == Len(inside)
            m == Len(inside')
<1>1. /\ pc = "wait" /\ UNCHANGED <<bench, todo, pushed, timeout>> /\ NextBeat
  BY DEF Spin, TakeOne
<1>2. n = DEPTH /\ Device /\ DEPTH \in Nat \ {0} /\ bench.wait # "none" /\ bench.idle
  <2>1. n <= DEPTH /\ ~(n < DEPTH) /\ Device
    BY <1>1 DEF QueueInv
  <2>2. n \in Nat /\ DEPTH \in Nat \ {0}
    BY <2>1, AppendIsSeq, BenchAssumption DEF Device
  <2>3. n = DEPTH
    <3>. HIDE DEF n
    <3>. QED
      BY <2>1, <2>2
  <2>. QED
    BY <2>1, <2>2, <2>3, QueueHabits
<1>3. ~s_tready
  <2>1. ~(n < DEPTH)
    BY <1>1 DEF QueueInv
  <2>. QED
    BY <1>1, <1>2, <2>1, QueueRoom
<1>4. \A b : Taken(b) = NoBeat
  BY <1>3 DEF Taken
<1>5. CASE Spin
  <2>1. bench.device = "scheduler" /\ Edge(driven, FALSE)
    <3>1. bench.wait = "spin" /\ Edge(driven, bench.m_tready) /\ bench.m_tready = FALSE
      BY <1>5, QueueHabits DEF Spin
    <3>2. bench.m_tready = FALSE
      BY <3>1
    <3>. QED
      BY <3>1, <3>2, QueueHabits
  <2>2. Off(FALSE) = 0
    BY DEF Off
  <2>3. /\ Device' /\ n \in Nat
        /\ m = n - Off(FALSE) + (IF Taken(driven) # NoBeat THEN 1 ELSE 0)
        /\ \A i \in 1 .. m : inside'[i] # NoBeat
        /\ s_tready' <=> m < DEPTH
    BY <1>1, <2>1, QueueEdge
  <2>4. m = DEPTH /\ m <= DEPTH /\ ~(m < DEPTH)
    <3>1. m = n - 0 + 0 /\ n = DEPTH /\ DEPTH \in Nat
      BY <1>2, <1>4, <2>2, <2>3
    <3>. HIDE DEF n, m
    <3>. QED
      BY <3>1
  <2>5. pc' = "wait"
    BY <1>1, <1>2, <2>3, <2>4 DEF NextBeat
  <2>. QED
    BY <1>2, <2>3, <2>4, <2>5 DEF QueueInv
<1>6. CASE TakeOne
  <2>1. bench.device # "scheduler" /\ bench.device = "fifo" /\ Edge(NoBeat, TRUE)
    BY <1>6, QueueHabits DEF TakeOne
  <2>2. Off(TRUE) = 1
    <3>1. arb = home
      BY <1>2, <2>1 DEF Device, home
    <3>2. inside # <<>>
      BY <1>2, EmptyIsSeq
    <3>. QED
      BY <3>1, <3>2 DEF Off
  <2>3. /\ Device' /\ n \in Nat
        /\ m = n - Off(TRUE) + (IF Taken(NoBeat) # NoBeat THEN 1 ELSE 0)
        /\ \A i \in 1 .. m : inside'[i] # NoBeat
        /\ s_tready' <=> m < DEPTH
    BY <1>1, <2>1, QueueEdge
  <2>4. m < DEPTH /\ m <= DEPTH
    <3>1. m = n - 1 + 0 /\ n = DEPTH /\ DEPTH \in Nat
      BY <1>2, <1>4, <2>2, <2>3
    <3>. HIDE DEF n, m
    <3>. QED
      BY <3>1
  <2>5. pc' \in {"push", "idle"}
    <3>1. pc' = IF ~driven.last THEN "push" ELSE IF bench.idle THEN "idle" ELSE "host"
      BY <1>1, <2>3, <2>4 DEF NextBeat
    <3>. QED
      BY <1>2, <3>1
  <2>6. bench'.device # "scheduler"
    BY <1>1, <2>1
  <2>. QED
    BY <2>3, <2>4, <2>5, <2>6 DEF QueueInv
<1>. QED
  BY <1>5, <1>6

LEMMA QueueIdle ==
  ASSUME NEW t \in Tests, ProgramInv(t), CallInv(t), QueueTest(t), QueueInv(t),
         Idle, faults \in Nat, faults' = 0
  PROVE  QueueInv(t)'
<1>. DEFINE n == Len(inside)
            m == Len(inside')
            sched == bench.device = "scheduler"
<1>1. /\ pc = "idle" /\ pc' = "host" /\ UNCHANGED <<bench, todo, pushed, timeout>>
      /\ Edge(NoBeat, FALSE)
  <2>1. bench.m_tready = FALSE
    BY QueueHabits
  <2>2. Edge(NoBeat, bench.m_tready)
    BY DEF Idle
  <2>. QED
    BY <2>1, <2>2 DEF Idle
<1>2. Taken(NoBeat) = NoBeat
  BY DEF Taken
<1>3. PICK o : o = Off(FALSE) /\ o = 0
  BY DEF Off
<1>4. /\ Device' /\ IsSeq(inside') /\ n \in Nat
      /\ m = n - o + (IF Taken(NoBeat) # NoBeat THEN 1 ELSE 0)
      /\ \A i \in 1 .. n - o : inside'[i] = inside[i + o]
      /\ \A i \in 1 .. m : inside'[i] # NoBeat
      /\ sched => arb' = IF inside = <<>> THEN arb ELSE 2
  BY <1>1, <1>3, QueueEdge
<1>5. m = n /\ n \in Nat
  <2>1. m = n - o + 0 /\ n \in Nat
    BY <1>2, <1>4
  <2>. HIDE DEF n, m
  <2>. QED
    BY <1>3, <2>1
<1>6. \A i \in 1 .. n : inside'[i] = inside[i]
  <2>1. \A i \in 1 .. n : i \in 1 .. n - o /\ i + o = i
    <3>1. n \in Nat
      BY <1>5
    <3>2. o = 0
      BY <1>3
    <3>. HIDE DEF n
    <3>. QED
      BY <3>1, <3>2
  <2>. QED
    BY <1>4, <2>1
<1>7. n < DEPTH /\ n <= DEPTH
  BY <1>1 DEF QueueInv
<1>8. sched => /\ arb' = 2 /\ Open'
               /\ \A i \in 1 .. m : inside'[i].last => i = m
  <2>. SUFFICES ASSUME sched
                PROVE  /\ arb' = 2 /\ Open'
                       /\ \A i \in 1 .. m : inside'[i].last => i = m
    OBVIOUS
  <2>1. inside # <<>> /\ \A i \in 1 .. n : inside[i].last => i = n
    BY <1>1 DEF QueueInv
  <2>2. Open
    BY <1>1, QueueHabits, PairedCall DEF CallInv
  <2>3. Open'
    BY <1>1, <2>2 DEF Open
  <2>. QED
    BY <1>4, <1>5, <1>6, <2>1, <2>3
<1>9. Called(t)' = Called(t) /\ (Called(t) > 0 => t.program[Called(t)].op # "drain")
  BY <1>1 DEF CallInv, Called
<1>. QED
  BY <1>1, <1>4, <1>5, <1>7, <1>8, <1>9 DEF QueueInv

LEMMA QueueDrain ==
  ASSUME NEW t \in Tests, ProgramInv(t), CallInv(t), QueueTest(t), QueueInv(t),
         Drain, faults \in Nat, faults' = 0
  PROVE  QueueInv(t)'
<1>. DEFINE n == Len(inside)
            m == Len(inside')
            sched == bench.device = "scheduler"
            k == TIMEOUT - timeout
<1>1. /\ pc = "drain" /\ UNCHANGED <<bench, todo, pushed>> /\ Edge(NoBeat, TRUE)
      /\ bench.idle /\ bench.flush = 0
  BY QueueHabits DEF Drain, held
<1>2. Taken(NoBeat) = NoBeat
  BY DEF Taken
<1>3. arb = home \/ inside = <<>>
  <2>1. arb \in {0, home}
    BY DEF QueueInv, Device
  <2>2. CASE sched
    BY <1>1, <2>2 DEF QueueInv, home
  <2>3. CASE ~sched
    BY <2>1, <2>3 DEF home
  <2>. QED
    BY <2>2, <2>3
<1>4. PICK o : o = Off(TRUE) /\ o = IF inside # <<>> THEN 1 ELSE 0
  BY <1>3 DEF Off
<1>5. /\ Device' /\ IsSeq(inside') /\ n \in Nat
      /\ m = n - o + (IF Taken(NoBeat) # NoBeat THEN 1 ELSE 0)
      /\ \A i \in 1 .. n - o : inside'[i] = inside[i + o]
      /\ \A i \in 1 .. m : inside'[i] # NoBeat
      /\ sched => arb' = IF inside = <<>> THEN arb ELSE 2
  BY <1>1, <1>4, QueueEdge
<1>6. /\ inside # <<>> <=> n # 0
      /\ inside' # <<>> <=> m # 0
  <2>1. IsSeq(inside)
    BY DEF QueueInv, Device
  <2>. QED
    BY <1>5, <2>1, EmptyIsSeq, TailIsSeq
<1>7. /\ n = 0 => m = 0
      /\ n # 0 => m = n - 1
      /\ n \in Nat /\ m \in Nat
  <2>1. m = n - o + 0 /\ n \in Nat /\ o = IF n # 0 THEN 1 ELSE 0
    BY <1>2, <1>4, <1>5, <1>6
  <2>. HIDE DEF n, m
  <2>. QED
    BY <2>1
<1>8. /\ timeout \in 1 .. TIMEOUT /\ TIMEOUT \in Nat /\ DEPTH \in Nat \ {0}
      /\ TIMEOUT >= DEPTH /\ n <= DEPTH /\ n < DEPTH
      /\ n = 0 \/ n + k <= DEPTH
  BY <1>1, <1>6, BenchAssumption DEF ProgramInv, QueueInv
<1>9. m <= DEPTH /\ m < DEPTH
  <2>1. n < DEPTH /\ DEPTH \in Nat
    BY <1>8
  <2>. HIDE DEF n, m
  <2>. QED
    BY <1>7, <2>1
<1>10. Open' /\ ProgramInv(t)'
  <2>1. Open
    BY <1>1 DEF ProgramInv, Open
  <2>. QED
    BY <1>1, <2>1, DrainStep DEF Open
<1>11. CASE ~DrainEnds
  <2>1. pc' = "drain" /\ timeout' = timeout - 1
    BY <1>1, <1>11 DEF Drain
  <2>2. m = 0 \/ m + (TIMEOUT - timeout') <= DEPTH
    <3>1. /\ timeout \in Nat /\ TIMEOUT \in Nat /\ DEPTH \in Nat /\ n \in Nat
          /\ n = 0 \/ n + (TIMEOUT - timeout) <= DEPTH
      BY <1>7, <1>8
    <3>. HIDE DEF n, m
    <3>. QED
      BY <1>7, <2>1, <3>1
  <2>3. sched => \A i \in 1 .. m : inside'[i].last => i = m
    <3>. SUFFICES ASSUME sched, NEW i \in 1 .. m, inside'[i].last
                  PROVE  i = m
      OBVIOUS
    <3>1. \A j \in 1 .. n : inside[j].last => j = n
      BY <1>1 DEF QueueInv
    <3>2. n # 0 /\ m = n - 1 /\ o = 1 /\ i \in 1 .. n - o /\ i + o \in 1 .. n
      <4>1. n # 0
        <5>1. m = 0 => 1 .. m = {}
          OBVIOUS
        <5>. QED
          BY <1>7, <5>1
      <4>2. o = 1 /\ m = n - 1 /\ n \in Nat
        BY <1>4, <1>6, <1>7, <4>1
      <4>3. i \in 1 .. m
        OBVIOUS
      <4>. HIDE DEF n, m
      <4>. QED
        BY <4>1, <4>2, <4>3
    <3>3. inside[i + o].last
      BY <1>5, <3>2
    <3>4. i + o = n
      BY <3>1, <3>2, <3>3
    <3>5. n \in Nat
      BY <1>7
    <3>. HIDE DEF n, m
    <3>. QED
      BY <3>2, <3>4, <3>5
  <2>4. sched /\ inside' # <<>> => arb' = 2
    <3>1. inside' # <<>> => inside # <<>>
      BY <1>6, <1>7
    <3>. QED
      BY <1>5, <3>1
  <2>5. inside' = <<>> \/ m + (TIMEOUT - timeout') <= DEPTH
    BY <1>6, <2>2
  <2>. QED
    BY <1>1, <1>5, <1>9, <1>10, <2>1, <2>3, <2>4, <2>5 DEF QueueInv
<1>12. CASE DrainEnds
  <2>1. pc' = "return"
    BY <1>1, <1>12 DEF Drain
  <2>2. inside' = <<>>
    <3>1. CASE timeout = 1
      <4>1. n = 0 \/ n + (TIMEOUT - 1) <= DEPTH
        BY <1>8, <3>1
      <4>2. TIMEOUT \in Nat /\ DEPTH \in Nat /\ TIMEOUT >= DEPTH
        BY <1>8
      <4>3. m = 0
        <5>. HIDE DEF n, m
        <5>. QED
          BY <1>7, <4>1, <4>2
      <4>. QED
        BY <1>6, <4>3
    <3>2. CASE sched /\ m_tvalid /\ output.last
      <4>1. Device
        BY DEF QueueInv
      <4>2. inside # <<>> /\ output = inside[1]
        BY <3>2, <4>1, DeviceOutput
      <4>3. \A i \in 1 .. n : inside[i].last => i = n
        BY <1>1, <3>2 DEF QueueInv
      <4>4. 1 \in 1 .. n
        BY <1>6, <1>7, <4>2
      <4>5. n = 1
        BY <3>2, <4>2, <4>3, <4>4
      <4>. QED
        BY <1>6, <1>7, <4>5
    <3>3. CASE ~sched /\ ~m_tvalid
      <4>1. Device /\ \A i \in 1 .. n : inside[i] # NoBeat
        BY DEF QueueInv
      <4>2. inside = <<>> \/ inside[1] = NoBeat
        BY <1>3, <3>3, <4>1, DeviceOutput
      <4>3. n # 0 => 1 \in 1 .. n
        BY <1>7
      <4>4. n = 0
        BY <1>6, <4>1, <4>2, <4>3
      <4>. QED
        BY <1>6, <1>7, <4>4
    <3>4. \/ timeout = 1 \/ (sched /\ m_tvalid /\ output.last) \/ (~sched /\ ~m_tvalid)
      BY <1>12, QueueHabits DEF DrainEnds
    <3>. QED
      BY <3>1, <3>2, <3>3, <3>4
  <2>. QED
    BY <1>5, <2>1, <2>2, QueueEmpty
<1>. QED
  BY <1>11, <1>12

LEMMA QueueStep ==
  ASSUME NEW t \in Tests, ProgramInv(t), CallInv(t), QueueTest(t), QueueInv(t),
         [Next]_vars, faults \in Nat, faults' = 0
  PROVE  QueueInv(t)'
<1>1. CASE Flush
  BY <1>1 DEF Flush, QueueInv
<1>. QED
  BY <1>1, QueueHost, QueuePush, QueueWait, QueueIdle, QueueDrain DEF Next

LEMMA QueueInit ==
  ASSUME NEW t \in Tests, Init, todo = t.program
  PROVE  QueueInv(t)
<1>1. /\ pc = "reset" /\ inside = <<>> /\ Called(t) = 0 /\ arb = 0 /\ stalled = FALSE
      /\ \A q \in Queue : dut[q] = <<>>
  BY ProgramType DEF Init, inside, home, Queue, Called
<1>2. Len(inside) = 0 /\ IsSeq(inside) /\ DEPTH \in Nat \ {0}
  BY <1>1, EmptyIsSeq, BenchAssumption
<1>3. Device
  BY <1>1, <1>2 DEF Device
<1>4. \A i \in 1 .. Len(inside) : FALSE
  BY <1>2
<1>. QED
  BY <1>1, <1>2, <1>3, <1>4 DEF QueueInv

-----------------------------------------------------------------------------
(* The pipeline carries the stream as well, and a drain that was the last     *)
(* call made has left it dry.                                                 *)
LEMMA PipeReady ==
  ASSUME NEW t \in Tests, ProgramInv(t), PipelineTest(t.driver, t.program), PipeInv(t),
         bench.check # "none"
  PROVE  StreamReady
<1>1. t.driver = bench /\ bench.device = "pipeline"
  BY DEF ProgramInv, PipelineTest
<1>2. home = 0 /\ inside = dut[0] /\ dest = home /\ STAGES \in Nat
  BY <1>1, BenchAssumption DEF home, inside, dest
<1>3. Device
  BY <1>2 DEF Device, PipeInv, Queue
<1>4. s_tready /\ bench.idle /\ pc # "wait" /\ pc # "flush"
  <2>1. s_tready
    BY <1>1 DEF s_tready, PipeInv
  <2>2. bench.idle
    BY <1>1, Zenon DEF PipelineTest
  <2>3. pc # "wait" /\ pc # "flush"
    BY DEF PipeInv
  <2>. QED
    BY <2>1, <2>2, <2>3
<1>5. bench.m_tready = TRUE /\ bench.captures = TRUE
  <2>1. bench.m_tready \in BOOLEAN /\ bench.captures \in BOOLEAN
    BY <1>1, TestAssumption DEF Driver
  <2>2. bench.m_tready /\ bench.captures
    <3>1. bench.m_tready
      BY <1>1, Zenon DEF PipelineTest
    <3>2. (bench.check = "size" /\ bench.captures) \/ (bench.check = "monitor" /\ bench.captures)
      BY <1>1 DEF PipelineTest
    <3>. QED
      BY <3>1, <3>2
  <2>. QED
    BY <2>1, <2>2
<1>6. pc = "return" => \A i \in 1 .. Len(inside) : inside[i] = NoBeat
  BY <1>2 DEF PipeInv, Dry
<1>. QED
  BY <1>1, <1>2, <1>3, <1>4, <1>5, <1>6 DEF StreamReady

DrainedInv(t) ==
  Called(t) > 0 /\ t.program[Called(t)].op = "drain" /\ pc \in {"host", "done"}
    => Dry(dut[0])

LEMMA DrainedStep ==
  ASSUME NEW t \in Tests, PipelineTest(t.driver, t.program), ProgramInv(t), CallInv(t),
         PipeInv(t), DrainedInv(t), [Next]_vars
  PROVE  DrainedInv(t)'
<1>1. CASE Reset
  <2>1. pc = "reset" /\ todo' = todo
    BY <1>1 DEF Reset
  <2>2. todo = t.program
    BY <2>1 DEF CallInv
  <2>3. Called(t)' = 0
    BY <2>1, <2>2, ProgramType DEF Called
  <2>. QED
    BY <2>3 DEF DrainedInv
<1>2. CASE CallExpect \/ CallPush
  <2>1. todo # <<>> /\ todo' = Tail(todo) /\ Head(todo).op # "drain"
    BY <1>2 DEF CallExpect, CallPush, Calls
  <2>2. Called(t)' = Called(t) + 1 /\ t.program[Called(t) + 1].op # "drain"
    BY <2>1, NextCall
  <2>3. t.program[Called(t)'].op # "drain"
    BY <2>2
  <2>. QED
    BY <2>3 DEF DrainedInv
<1>3. CASE CallDrain \/ Drain \/ Flush
  <2>1. pc' \in {"drain", "flush", "return"}
    BY <1>3 DEF CallDrain, Drain, Flush, ProgramInv
  <2>. QED
    BY <2>1 DEF DrainedInv
<1>4. CASE Finish \/ UNCHANGED vars
  <2>1. UNCHANGED <<dut, todo>> /\ (pc' = pc \/ (pc = "host" /\ pc' = "done"))
    BY <1>4 DEF Finish, vars, progVars, dutVars
  <2>2. Called(t)' = Called(t)
    BY <2>1 DEF Called
  <2>. QED
    BY <2>1, <2>2 DEF DrainedInv
<1>5. CASE Push \/ Spin \/ TakeOne \/ Idle
  <2>1. pc \in {"push", "wait", "idle"} /\ todo' = todo
    BY <1>5 DEF Push, Spin, TakeOne, Idle
  <2>2. Called(t)' = Called(t) /\ t.program[Called(t)].op = "push"
    BY <2>1 DEF CallInv, Called
  <2>. QED
    BY <2>2 DEF DrainedInv
<1>6. CASE Return
  <2>1. pc = "return" /\ dut' = dut
    BY <1>6 DEF Return, dutVars
  <2>. QED
    BY <2>1 DEF PipeInv, DrainedInv
<1>. QED
  BY <1>1, <1>2, <1>3, <1>4, <1>5, <1>6 DEF Next

-----------------------------------------------------------------------------
(* The test that pushes more than a queue holds never comes to a drain.       *)
FillingTest(t) ==
  /\ SchedulerTest(t.driver, t.program)
  /\ Len(t.program) >= 3 /\ \A i \in 1 .. 3 : t.program[i].op = "push"
  /\ beats(t.program[1].pkt) + beats(t.program[2].pkt) + beats(t.program[3].pkt) > DEPTH

LEMMA FilledAdds ==
  ASSUME NEW t \in Tests, FillingTest(t), NEW n \in 1 .. 3
  PROVE  /\ Filled(t, n - 1) \in Nat /\ Filled(t, n) \in Nat
         /\ Filled(t, n) = Filled(t, n - 1) + beats(t.program[n].pkt)
         /\ Filled(t, 0) = 0 /\ Filled(t, 3) > DEPTH
         /\ n \in 1 .. Len(t.program) /\ t.program[n].op = "push"
<1>1. Len(t.program) \in Nat /\ Len(t.program) >= 3
  BY ProgramType DEF FillingTest
<1>2. \A i \in 1 .. 3 : i \in 1 .. Len(t.program) /\ beats(t.program[i].pkt) \in Nat
  <2>. TAKE i \in 1 .. 3
  <2>1. i \in 1 .. Len(t.program)
    BY <1>1
  <2>2. t.program[i].pkt.size \in Nat \ {0}
    BY <2>1, ProgramType DEF Call, Packet
  <2>3. beats(t.program[i].pkt) = (t.program[i].pkt.size + 7) \div 8
    BY DEF beats, dw
  <2>. QED
    BY <2>1, <2>2, <2>3
<1>. DEFINE b1 == beats(t.program[1].pkt)
            b2 == beats(t.program[2].pkt)
            b3 == beats(t.program[3].pkt)
<1>3. b1 \in Nat /\ b2 \in Nat /\ b3 \in Nat /\ b1 + b2 + b3 > DEPTH
  BY <1>2 DEF FillingTest
<1>4. /\ Filled(t, 0) = 0 /\ Filled(t, 1) = b1 /\ Filled(t, 2) = b1 + b2
      /\ Filled(t, 3) = b1 + b2 + b3
  BY DEF Filled
<1>5. n \in 1 .. Len(t.program) /\ t.program[n].op = "push"
  BY <1>2 DEF FillingTest
<1>. HIDE DEF b1, b2, b3
<1>6. CASE n = 1
  <2>1. n - 1 = 0 /\ beats(t.program[n].pkt) = b1
    BY <1>6 DEF b1
  <2>. QED
    BY <1>3, <1>4, <1>5, <1>6, <2>1
<1>7. CASE n = 2
  <2>1. n - 1 = 1 /\ beats(t.program[n].pkt) = b2
    BY <1>7 DEF b2
  <2>. QED
    BY <1>3, <1>4, <1>5, <1>7, <2>1
<1>8. CASE n = 3
  <2>1. n - 1 = 2 /\ beats(t.program[n].pkt) = b3
    BY <1>8 DEF b3
  <2>. QED
    BY <1>3, <1>4, <1>5, <1>8, <2>1
<1>. QED
  BY <1>6, <1>7, <1>8

(* The habits that matter for it, and where its beats go. *)
LEMMA FillingDest ==
  ASSUME NEW t \in Tests, ProgramInv(t), FillingTest(t)
  PROVE  /\ bench.device = "scheduler" /\ bench.m_tready = FALSE
         /\ bench.wait # "none" /\ bench.wait # "take" /\ bench.idle
         /\ pushed # <<>> => dest = home
<1>1. t.driver = bench /\ SchedulerTest(t.driver, t.program)
  BY DEF ProgramInv, FillingTest
<1>2. bench.device = "scheduler" /\ bench.wait = "spin"
  BY <1>1 DEF SchedulerTest
<1>3. bench.m_tready = FALSE
  <2>1. bench.m_tready \in BOOLEAN
    BY <1>1, TestAssumption DEF Driver
  <2>. QED
    BY <1>1, <2>1 DEF SchedulerTest
<1>4. \A i \in DOMAIN t.program : t.program[i].class = 0
  BY <1>1 DEF SchedulerTest
<1>5. bench.idle
  BY <1>1, Zenon DEF SchedulerTest
<1>. QED
  BY <1>2, <1>3, <1>4, <1>5, DestHome

(* The first three calls are pushes. *)
LEMMA FillingCall ==
  ASSUME NEW t \in Tests, ProgramInv(t), FillingTest(t), Called(t) \in 0 .. 2
  PROVE  todo # <<>> /\ Head(todo).op = "push"
<1>1. Called(t) + 1 \in 1 .. 3
  OBVIOUS
<1>2. Called(t) + 1 \in 1 .. Len(t.program) /\ t.program[Called(t) + 1].op = "push"
  BY <1>1, FilledAdds
<1>3. IsSeq(todo) /\ Len(todo) \in Nat /\ Len(t.program) \in Nat
  BY AppendIsSeq, ProgramType DEF ProgramInv
<1>4. 1 \in 1 .. Len(todo)
  BY <1>2, <1>3 DEF Called
<1>5. todo # <<>> /\ Head(todo) = todo[1]
  BY <1>3, <1>4, EmptyIsSeq, TailIsSeq
<1>6. todo[1] = t.program[Called(t) + 1]
  BY <1>4 DEF ProgramInv
<1>. QED
  BY <1>2, <1>5, <1>6

LEMMA FillingEdge ==
  ASSUME NEW t \in Tests, ProgramInv(t), FillingTest(t), BlockedInv(t), pushed # <<>>,
         NEW b, b = NoBeat \/ s_tready \/ pc = "wait", Edge(b, FALSE),
         faults \in Nat, faults' = 0, UNCHANGED <<bench, todo, pushed>>
  PROVE  /\ Device' /\ Len(inside) \in Nat
         /\ Len(inside') = Len(inside) + (IF Taken(b) # NoBeat THEN 1 ELSE 0)
         /\ s_tready <=> Len(inside) < DEPTH
         /\ s_tready' <=> Len(inside') < DEPTH
<1>1. Device /\ dest = home /\ bench.device = "scheduler"
  BY FillingDest DEF BlockedInv
<1>2. Device' /\ home' = home /\ Moved(inside, inside', Off(FALSE), On(b), Taken(b))
  BY <1>1, DeviceEdge
<1>3. dest' = dest
  BY DEF dest
<1>4. /\ s_tready <=> Len(inside) < DEPTH
      /\ s_tready' <=> Len(inside') < DEPTH
  BY <1>1, <1>2, <1>3 DEF s_tready, Device, inside
<1>5. Off(FALSE) = 0 /\ On(b) = IF Taken(b) # NoBeat THEN 1 ELSE 0
  BY <1>1 DEF Off, On
<1>6. Len(inside) \in Nat
  BY <1>1, AppendIsSeq DEF Device
<1>7. Len(inside') = Len(inside) - 0 + (IF Taken(b) # NoBeat THEN 1 ELSE 0)
  BY <1>2, <1>5 DEF Moved
<1>8. Len(inside') = Len(inside) + (IF Taken(b) # NoBeat THEN 1 ELSE 0)
  <2>. DEFINE n == Len(inside)
              m == Len(inside')
              on == Taken(b) # NoBeat
  <2>1. n \in Nat /\ m = n - 0 + (IF on THEN 1 ELSE 0)
    BY <1>6, <1>7
  <2>2. m = n + (IF on THEN 1 ELSE 0)
    <3>. HIDE DEF n, m, on
    <3>. QED
      BY <2>1
  <2>. QED
    BY <2>2
<1>. QED
  BY <1>2, <1>4, <1>6, <1>8

LEMMA FillingPush ==
  ASSUME NEW t \in Tests, ProgramInv(t), CallInv(t), FillingTest(t), BlockedInv(t),
         Push, faults \in Nat, faults' = 0
  PROVE  BlockedInv(t)'
<1>. DEFINE n == Len(inside)
            m == Len(inside')
            c == Called(t)
            F == Filled(t, c - 1)
<1>1. /\ pc = "push" /\ UNCHANGED <<bench, todo, pushed>> /\ pushed # <<>>
      /\ Edge(driven, FALSE) /\ NextBeat
  <2>1. bench.m_tready = FALSE /\ Edge(driven, bench.m_tready)
    BY FillingDest DEF Push
  <2>2. pc = "push" /\ pushed # <<>>
    BY DEF Push, ProgramInv
  <2>. QED
    BY <2>1, <2>2 DEF Push
<1>2. n < DEPTH /\ Device /\ DEPTH \in Nat /\ bench.wait # "none" /\ bench.idle
  BY <1>1, FillingDest, BenchAssumption DEF BlockedInv
<1>3. /\ c \in 1 .. 3 /\ F \in Nat /\ Filled(t, c) = F + beats(t.program[c].pkt)
      /\ Filled(t, c) \in Nat /\ Filled(t, 3) > DEPTH
  <2>1. c \in 1 .. 3
    BY <1>1 DEF BlockedInv
  <2>. QED
    BY <2>1, FilledAdds
<1>4. pkt = t.program[c].pkt /\ pkt.size \in Nat \ {0} /\ pos \in Nat /\ pos < pkt.size
  <2>1. pushed[Len(pushed)] = t.program[c]
    BY <1>1 DEF CallInv
  <2>2. pkt = pushed[Len(pushed)].pkt /\ pkt.size \in Nat \ {0}
    BY <1>1, PushedType
  <2>. QED
    BY <1>1, <2>1, <2>2 DEF ProgramInv
<1>5. driven # NoBeat
  <2>1. pkt.size \in Nat
    BY <1>4
  <2>. QED
    BY <1>4, <2>1, BeatIs DEF driven
<1>6. s_tready
  BY <1>1, <1>2, FillingDest DEF s_tready, Device, inside
<1>7. Device' /\ n \in Nat /\ m = n + 1 /\ (s_tready' <=> m < DEPTH)
  BY <1>1, <1>5, <1>6, FillingEdge DEF Taken
<1>8. PICK k : k = n - F /\ pos = dw * k
  <2>1. pos = dw * (n - F - (IF pc = "wait" THEN 1 ELSE 0))
    BY <1>1 DEF BlockedInv
  <2>2. pos = dw * (n - F - 0)
    BY <1>1, <2>1
  <2>3. n - F - 0 = n - F
    <3>1. n \in Nat /\ F \in Nat
      BY <1>3, <1>7
    <3>. HIDE DEF n, F
    <3>. QED
      BY <3>1
  <2>. QED
    BY <2>2, <2>3
<1>9. k \in Nat
  <2>1. k \in Int
    <3>1. n \in Nat /\ F \in Nat
      BY <1>3, <1>7
    <3>. HIDE DEF n, F
    <3>. QED
      BY <1>8, <3>1
  <2>. QED
    BY <1>4, <1>8, <2>1 DEF dw
<1>10. /\ c' = c /\ F' = F /\ m <= DEPTH
       /\ s_tready' => pc' # "wait"
       /\ ~s_tready' => pc' = "wait"
  <2>1. c' = c
    BY <1>1 DEF Called
  <2>2. F' = F
    BY <2>1 DEF Filled
  <2>3. m <= DEPTH
    <3>1. n \in Nat /\ m = n + 1 /\ n < DEPTH /\ DEPTH \in Nat
      BY <1>2, <1>7
    <3>. HIDE DEF n, m
    <3>. QED
      BY <3>1
  <2>4. ~s_tready' => pc' = "wait"
    BY <1>1, <1>2 DEF NextBeat
  <2>5. s_tready' => pc' # "wait"
    <3>. SUFFICES ASSUME s_tready'
                  PROVE  pc' # "wait"
      OBVIOUS
    <3>1. pc' = IF ~driven.last THEN "push" ELSE IF bench.idle THEN "idle" ELSE "host"
      BY <1>1 DEF NextBeat
    <3>. QED
      BY <3>1
  <2>. QED
    BY <2>1, <2>2, <2>3, <2>4, <2>5
<1>11. m - F = k + 1 /\ m - F - 1 = k /\ m - F - 0 = k + 1
  <2>1. n \in Nat /\ F \in Nat /\ m = n + 1 /\ k = n - F
    BY <1>3, <1>7, <1>8
  <2>. HIDE DEF n, F, m
  <2>. QED
    BY <2>1
<1>12. CASE pc' = "wait" /\ pos' = pos
  <2>1. pos' = dw * (m - F' - 1)
    BY <1>8, <1>10, <1>11, <1>12
  <2>. QED
    BY <1>3, <1>7, <1>10, <1>12, <2>1 DEF BlockedInv
<1>13. CASE pc' = "push" /\ pos' = pos + dw
  <2>1. pos' = dw * (m - F' - 0)
    <3>1. pos' = dw * (k + 1)
      BY <1>8, <1>9, <1>13 DEF dw
    <3>. QED
      BY <1>10, <1>11, <3>1
  <2>. QED
    BY <1>3, <1>7, <1>10, <1>13, <2>1 DEF BlockedInv
<1>14. CASE pc' = "idle" /\ driven.last
  <2>1. beats(pkt) = k + 1
    <3>1. \A p : p.size \in Nat \ {0} => \A j \in Nat : dw * j < p.size
            => (beat(p, dw * j).last => beats(p) = j + 1)
      BY PacketBytes
    <3>2. dw * k < pkt.size /\ beat(pkt, dw * k).last
      BY <1>4, <1>8, <1>14 DEF driven
    <3>. QED
      BY <1>4, <1>9, <3>1, <3>2
  <2>2. m = Filled(t, c)
    <3>1. Filled(t, c) = F + (k + 1)
      BY <1>3, <1>4, <2>1
    <3>2. F \in Nat /\ m \in Nat /\ m - F = k + 1
      BY <1>3, <1>7, <1>11
    <3>. HIDE DEF F, m
    <3>. QED
      BY <1>9, <3>1, <3>2
  <2>3. c # 3
    <3>1. c = 3 => m > DEPTH
      BY <1>3, <2>2
    <3>2. m <= DEPTH /\ m \in Nat /\ DEPTH \in Nat
      BY <1>2, <1>7, <1>10
    <3>. HIDE DEF m
    <3>. QED
      BY <3>1, <3>2
  <2>4. c' \in 0 .. 2 /\ Filled(t, c)' = Filled(t, c)
    BY <1>3, <1>10, <2>3 DEF Filled
  <2>5. m = Filled(t, c')
    BY <1>10, <2>2
  <2>. QED
    BY <1>7, <1>10, <1>14, <2>4, <2>5 DEF BlockedInv
<1>15. \/ pc' = "wait" /\ pos' = pos
       \/ pc' = "push" /\ pos' = pos + dw
       \/ pc' = "idle" /\ driven.last
  BY <1>1, <1>2, BeatOut
<1>. QED
  BY <1>12, <1>13, <1>14, <1>15

LEMMA FillingStep ==
  ASSUME NEW t \in Tests, ProgramInv(t), CallInv(t), FillingTest(t), BlockedInv(t),
         [Next]_vars, faults \in Nat, faults' = 0
  PROVE  BlockedInv(t)'
<1>. DEFINE n == Len(inside)
            m == Len(inside')
            c == Called(t)
<1>1. /\ n \in Nat /\ DEPTH \in Nat \ {0} /\ Device /\ n <= DEPTH
      /\ (pc # "wait" <=> n < DEPTH)
      /\ pc \in {"reset", "host", "push", "wait", "idle"}
  <2>1. Device
    BY DEF BlockedInv
  <2>2. n \in Nat
    BY <2>1, AppendIsSeq DEF Device
  <2>. QED
    BY <2>1, <2>2, BenchAssumption DEF BlockedInv
<1>2. ASSUME UNCHANGED <<bench, dut, arb, stalled>>
      PROVE  Device' /\ inside' = inside
  BY <1>1, <1>2 DEF Device, inside, home, IsSeq
<1>3. CASE Reset
  <2>1. pc = "reset" /\ pc' = "host" /\ todo' = todo /\ bench' = bench
    BY <1>3 DEF Reset
  <2>2. c = 0 /\ c' = 0
    <3>1. todo = t.program
      BY <2>1 DEF CallInv
    <3>. QED
      BY <2>1, <3>1, ProgramType DEF Called
  <2>3. Device' /\ m = 0
    BY <1>3, ResetDevice, FillingDest
  <2>4. Filled(t, c') = 0 /\ Filled(t, c)' = 0
    BY <2>2 DEF Filled
  <2>. QED
    BY <1>1, <2>1, <2>2, <2>3, <2>4 DEF BlockedInv
<1>4. CASE CallExpect \/ CallDrain \/ Finish
  <2>1. pc = "host" /\ (todo = <<>> \/ Head(todo).op \in {"expect", "drain"})
    BY <1>4 DEF CallExpect, CallDrain, Finish, Calls
  <2>2. c \in 0 .. 2
    BY <2>1 DEF BlockedInv
  <2>. QED
    BY <2>1, <2>2, FillingCall
<1>5. CASE CallPush
  <2>1. /\ pc = "host" /\ todo # <<>> /\ todo' = Tail(todo) /\ pos' = 0 /\ pc' = "push"
        /\ UNCHANGED <<bench, dut, arb, stalled>>
    BY <1>5 DEF CallPush, Calls, dutVars
  <2>2. c \in 0 .. 2 /\ n = Filled(t, c)
    BY <2>1 DEF BlockedInv
  <2>3. c' = c + 1
    BY <2>1, NextCall
  <2>4. c' \in 1 .. 3 /\ c' - 1 = c
    <3>. HIDE DEF c
    <3>. QED
      BY <2>2, <2>3
  <2>5. Device' /\ inside' = inside
    BY <1>2, <2>1
  <2>6. pos' = dw * (m - Filled(t, c' - 1) - 0)
    <3>1. m = n /\ Filled(t, c' - 1) = n
      BY <2>2, <2>4, <2>5
    <3>2. n - n - 0 = 0 /\ dw * 0 = 0
      <4>1. n \in Nat
        BY <1>1
      <4>. HIDE DEF n
      <4>. QED
        BY <4>1 DEF dw
    <3>. QED
      BY <2>1, <3>1, <3>2
  <2>7. Filled(t, c - 1)' = Filled(t, c' - 1)
    BY DEF Filled
  <2>. QED
    BY <1>1, <2>1, <2>4, <2>5, <2>6, <2>7 DEF BlockedInv
<1>6. CASE Push
  BY <1>6, FillingPush
<1>7. CASE Spin
  <2>1. /\ pc = "wait" /\ Edge(driven, FALSE) /\ NextBeat
        /\ UNCHANGED <<bench, todo, pushed>> /\ pushed # <<>>
    <3>1. bench.m_tready = FALSE /\ Edge(driven, bench.m_tready)
      BY <1>7, FillingDest DEF Spin
    <3>2. pc = "wait" /\ pushed # <<>>
      BY <1>7 DEF Spin, ProgramInv
    <3>. QED
      BY <1>7, <3>1, <3>2 DEF Spin
  <2>2. /\ Device' /\ m = n + (IF Taken(driven) # NoBeat THEN 1 ELSE 0)
        /\ s_tready <=> n < DEPTH
        /\ s_tready' <=> m < DEPTH
    BY <2>1, FillingEdge
  <2>3. Taken(driven) = NoBeat
    BY <1>1, <2>1, <2>2 DEF Taken
  <2>4. m = n
    <3>1. m = n + 0 /\ n \in Nat
      BY <1>1, <2>2, <2>3
    <3>. HIDE DEF m, n
    <3>. QED
      BY <3>1
  <2>5. ~s_tready' /\ bench.wait # "none"
    BY <1>1, <2>1, <2>2, <2>4, FillingDest
  <2>6. pc' = "wait" /\ pos' = pos
    BY <2>1, <2>5 DEF NextBeat
  <2>7. c' = c /\ Filled(t, c - 1)' = Filled(t, c - 1)
    BY <2>1 DEF Called, Filled
  <2>. QED
    BY <1>1, <2>1, <2>2, <2>4, <2>6, <2>7 DEF BlockedInv
<1>8. CASE Idle
  <2>1. /\ pc = "idle" /\ pc' = "host" /\ Edge(NoBeat, FALSE)
        /\ UNCHANGED <<bench, todo, pushed>> /\ pushed # <<>>
    <3>1. bench.m_tready = FALSE /\ Edge(NoBeat, bench.m_tready)
      BY <1>8, FillingDest DEF Idle
    <3>2. pc = "idle" /\ pushed # <<>>
      BY <1>8 DEF Idle, ProgramInv
    <3>. QED
      BY <1>8, <3>1, <3>2 DEF Idle
  <2>2. Device' /\ m = n + (IF Taken(NoBeat) # NoBeat THEN 1 ELSE 0)
    BY <2>1, FillingEdge
  <2>3. Taken(NoBeat) = NoBeat
    BY DEF Taken
  <2>4. m = n
    <3>1. m = n + 0 /\ n \in Nat
      BY <1>1, <2>2, <2>3
    <3>. HIDE DEF m, n
    <3>. QED
      BY <3>1
  <2>5. c' = c /\ Filled(t, c)' = Filled(t, c)
    BY <2>1 DEF Called, Filled
  <2>. QED
    BY <1>1, <2>1, <2>2, <2>4, <2>5 DEF BlockedInv
<1>9. CASE TakeOne \/ Drain \/ Flush \/ Return
  BY <1>1, <1>9, FillingDest DEF TakeOne, Drain, Flush, Return
<1>10. CASE UNCHANGED vars
  <2>1. UNCHANGED <<bench, todo, pc, pos, dut, arb, stalled>>
    BY <1>10 DEF vars, progVars, dutVars
  <2>2. Device' /\ inside' = inside
    BY <1>2, <2>1
  <2>3. c' = c /\ Filled(t, c)' = Filled(t, c) /\ Filled(t, c - 1)' = Filled(t, c - 1)
    BY <2>1 DEF Called, Filled
  <2>. QED
    BY <1>1, <2>1, <2>2, <2>3 DEF BlockedInv
<1>. QED
  BY <1>3, <1>4, <1>5, <1>6, <1>7, <1>8, <1>9, <1>10 DEF Next

LEMMA FillingInit ==
  ASSUME NEW t \in Tests, Init, todo = t.program
  PROVE  BlockedInv(t)
<1>1. /\ pc = "reset" /\ inside = <<>> /\ Called(t) = 0 /\ arb = 0 /\ stalled = FALSE
      /\ \A q \in Queue : dut[q] = <<>>
  BY ProgramType DEF Init, inside, home, Queue, Called
<1>2. Len(inside) = 0 /\ IsSeq(inside) /\ DEPTH \in Nat \ {0}
  BY <1>1, EmptyIsSeq, BenchAssumption
<1>3. Device
  BY <1>1, <1>2 DEF Device
<1>4. Filled(t, Called(t)) = 0
  BY <1>1 DEF Filled
<1>. QED
  BY <1>1, <1>2, <1>3, <1>4 DEF BlockedInv

-----------------------------------------------------------------------------
(* The driver that never lowers s_tvalid.  It pushes one packet; k edges      *)
(* after the first of its beats went in, register i holds the one of number   *)
(* k - STAGES + i - 1, up to the last of them.  What follows that one are its *)
(* copies, which the drain stops short of.                                    *)
OnTheWay(line, p, k) ==
  \A i \in 1 .. STAGES :
    /\ k - STAGES + i - 1 < 0 => line[i] = NoBeat
    /\ k - STAGES + i - 1 >= 0 /\ dw * (k - STAGES + i - 1) < p.size
         => line[i] = beat(p, dw * (k - STAGES + i - 1))
Seen(k) == IF k <= STAGES THEN 0 ELSE dw * (k - STAGES)
Halfway(k) == OnTheWay(dut[0], pkt, k) /\ rx = Seen(k)

(* Everything pushed, the end not captured, after j edges of the drain.       *)
HeldAt(k, j) ==
  dw * (k - j) >= pkt.size /\ dw * (k - STAGES) < pkt.size /\ Halfway(k)

HeldInv(t) ==
  /\ ~stalled /\ arb = 0 /\ IsSeq(dut[0]) /\ dut[1] = <<>> /\ dut[2] = <<>>
  /\ pc # "reset" => Len(dut[0]) = STAGES
  /\ pc \notin {"wait", "idle"}
  /\ IsSeq(results) /\ \A i \in 1 .. Len(results) : results[i].got = results[i].want
  /\ pc = "host" /\ Called(t) = 0 => rx = 0 /\ Dry(dut[0])
  /\ pc = "push" => \E k \in Nat : pos = dw * k /\ Halfway(k)
  /\ pc = "host" /\ Open => \E k \in Nat : HeldAt(k, 0)
  /\ pc = "drain" => \E k, j \in Nat : timeout + j = TIMEOUT /\ HeldAt(k, j)
  /\ pc \in {"flush", "return"} => rx = pkt.size

LEMMA OnTheWayMoves ==
  ASSUME NEW p, NEW old, NEW new, NEW b, NEW k \in Nat, OnTheWay(old, p, k),
         Shifted(old, new, b), dw * k < p.size => b = beat(p, dw * k)
  PROVE  OnTheWay(new, p, k + 1)
<1>1. STAGES \in Nat \ {0}
  BY BenchAssumption
<1>. SUFFICES ASSUME NEW i \in 1 .. STAGES
              PROVE  /\ (k + 1) - STAGES + i - 1 < 0 => new[i] = NoBeat
                     /\ /\ (k + 1) - STAGES + i - 1 >= 0
                        /\ dw * ((k + 1) - STAGES + i - 1) < p.size
                        => new[i] = beat(p, dw * ((k + 1) - STAGES + i - 1))
  BY DEF OnTheWay
<1>2. CASE i = STAGES
  <2>1. (k + 1) - STAGES + i - 1 = k /\ k >= 0
    BY <1>1, <1>2
  <2>2. new[i] = b
    BY <1>2 DEF Shifted
  <2>. QED
    BY <2>1, <2>2
<1>3. CASE i # STAGES
  <2>1. i + 1 \in 1 .. STAGES /\ i < STAGES
    BY <1>1, <1>3
  <2>2. (k + 1) - STAGES + i - 1 = k - STAGES + (i + 1) - 1
    BY <1>1
  <2>3. new[i] = old[i + 1]
    BY <2>1 DEF Shifted
  <2>. QED
    BY <2>1, <2>2, <2>3 DEF OnTheWay
<1>. QED
  BY <1>2, <1>3

LEMMA HeldEdge ==
  ASSUME NEW t \in Tests, ProgramInv(t), pkt.size \in Nat \ {0}, pushed' = pushed,
         arb = 0, IsSeq(dut[0]), Len(dut[0]) = STAGES, bench.check = "size",
         NEW k \in Nat, Halfway(k), dw * (k - STAGES) < pkt.size,
         NEW b, Shifted(dut[0], dut'[0], b), dw * k < pkt.size => b = driven /\ pos = dw * k,
         Capture(TRUE)
  PROVE  IF dw * (k + 1 - STAGES) >= pkt.size
         THEN rx' = pkt.size /\ m_tvalid /\ output.last
         ELSE Halfway(k + 1)' /\ ~(m_tvalid /\ output.last)
<1>. DEFINE z == pkt.size
            j == k - STAGES
<1>1. STAGES \in Nat \ {0} /\ z \in Nat \ {0} /\ 1 \in 1 .. STAGES /\ j \in Int
      /\ k - STAGES + 1 - 1 = j /\ k + 1 - STAGES = j + 1 /\ dw = 8
  BY BenchAssumption DEF dw
<1>2. output = dut[0][1] /\ (m_tvalid <=> dut[0][1] # NoBeat)
  BY <1>1, Output, EmptyIsSeq
<1>3. OnTheWay(dut'[0], pkt, k + 1) /\ pkt' = pkt
  <2>1. dw * k < pkt.size => b = beat(pkt, dw * k)
    BY DEF driven
  <2>2. OnTheWay(dut[0], pkt, k)
    BY DEF Halfway
  <2>. QED
    BY <2>1, <2>2, OnTheWayMoves, SamePacket
<1>4. IF m_tvalid THEN rx' = rx + output.keep ELSE rx' = rx
  BY DEF Capture
<1>5. CASE j < 0
  <2>1. ~m_tvalid
    BY <1>1, <1>2, <1>5 DEF Halfway, OnTheWay
  <2>2. k <= STAGES /\ k + 1 <= STAGES
    BY <1>1, <1>5
  <2>3. rx = 0 /\ rx' = 0 /\ Seen(k + 1) = 0
    BY <1>4, <2>1, <2>2 DEF Halfway, Seen
  <2>4. ~(dw * (k + 1 - STAGES) >= z)
    <3>. HIDE DEF z, j
    <3>. QED
      BY <1>1, <1>5
  <2>. QED
    BY <1>3, <2>1, <2>3, <2>4 DEF Halfway
<1>6. CASE j >= 0
  <2>1. dut[0][1] = beat(pkt, dw * j) /\ dw * j < z
    BY <1>1, <1>6 DEF Halfway, OnTheWay
  <2>2. dw * j \in Nat
    <3>. HIDE DEF z, j
    <3>. QED
      BY <1>1, <1>6
  <2>3. rx = dw * j
    <3>1. k <= STAGES => j = 0
      BY <1>1, <1>6
    <3>2. dw * 0 = 0
      BY <1>1
    <3>. QED
      BY <3>1, <3>2 DEF Halfway, Seen
  <2>. DEFINE e == beat(pkt, dw * j)
  <2>4. /\ e.last <=> dw * j + dw >= z
        /\ e.last => e.keep = z - dw * j
        /\ ~e.last => e.keep = dw
        /\ e # NoBeat
    <3>1. z \in Nat
      BY <1>1
    <3>. QED
      BY <2>1, <2>2, <3>1, BeatIs
  <2>5. m_tvalid /\ output = e /\ rx' = dw * j + e.keep
    BY <1>2, <1>4, <2>1, <2>3, <2>4
  <2>. HIDE DEF e
  <2>6. dw * (j + 1) = dw * j + dw /\ k + 1 > STAGES
    BY <1>1, <1>6
  <2>7. CASE dw * (j + 1) >= z
    <3>1. e.last /\ e.keep = z - dw * j
      BY <2>4, <2>6, <2>7
    <3>2. dw * j + (z - dw * j) = z
      <4>. HIDE DEF z, j
      <4>. QED
        BY <1>1, <2>2
    <3>. QED
      BY <1>1, <2>5, <2>7, <3>1, <3>2
  <2>8. CASE ~(dw * (j + 1) >= z)
    <3>1. ~e.last /\ e.keep = dw
      BY <2>4, <2>6, <2>8
    <3>2. rx' = dw * (j + 1)
      BY <2>5, <2>6, <3>1
    <3>3. Seen(k + 1) = dw * (j + 1)
      <4>1. ~(k + 1 <= STAGES)
        BY <1>1, <2>6
      <4>. QED
        BY <1>1, <4>1 DEF Seen
    <3>. QED
      BY <1>1, <1>3, <2>5, <2>8, <3>1, <3>2, <3>3 DEF Halfway
  <2>. QED
    BY <2>7, <2>8
<1>. QED
  BY <1>1, <1>5, <1>6

LEMMA HeldHabits ==
  ASSUME NEW t \in Tests, ProgramInv(t), HeldTest(t.driver, t.program)
  PROVE  /\ bench.device = "pipeline" /\ bench.m_tready = TRUE /\ bench.captures = TRUE
         /\ ~bench.idle /\ bench.at_last /\ bench.when_dry = "wait"
         /\ bench.wait = "none" /\ bench.check = "size"
         /\ Paired(t.program) /\ Len(t.program) = 2
<1>1. t.driver = bench
  BY DEF ProgramInv
<1>2. bench.m_tready \in BOOLEAN /\ bench.captures \in BOOLEAN
  BY <1>1, TestAssumption DEF Driver
<1>3. bench.m_tready /\ bench.captures /\ ~bench.idle /\ bench.at_last
  BY <1>1, Zenon DEF HeldTest
<1>4. bench.m_tready = TRUE /\ bench.captures = TRUE
  BY <1>2, <1>3
<1>. QED
  BY <1>1, <1>3, <1>4 DEF HeldTest

LEMMA HeldHost ==
  ASSUME NEW t \in Tests, ProgramInv(t), CallInv(t), HeldTest(t.driver, t.program),
         HeldInv(t), Reset \/ CallExpect \/ CallPush \/ CallDrain \/ Finish \/ Return
  PROVE  HeldInv(t)'
<1>1. CASE Reset
  <2>1. /\ pc = "reset" /\ pc' = "host" /\ arb' = 0 /\ ~stalled' /\ dut' = EmptyDut
        /\ UNCHANGED <<bench, todo, pushed, rx, results>>
    BY <1>1 DEF Reset
  <2>2. dut'[1] = <<>> /\ dut'[2] = <<>>
    BY <2>1 DEF EmptyDut, Queue
  <2>3. IsSeq(dut'[0]) /\ Len(dut'[0]) = STAGES /\ Dry(dut'[0])
    <3>1. home = 0 /\ home' = 0
      BY <2>1, HeldHabits DEF home
    <3>2. inside' = dut'[0]
      BY <3>1 DEF inside
    <3>3. /\ Device' /\ Len(inside') = STAGES
          /\ \A i \in 1 .. Len(inside') : inside'[i] = NoBeat
      BY <1>1, ResetDevice, HeldHabits
    <3>. QED
      BY <3>2, <3>3 DEF Device, Dry
  <2>4. todo = t.program /\ rx = 0
    BY <2>1 DEF CallInv
  <2>5. ~Open'
    <3>1. Called(t) = 0
      BY <2>4, ProgramType DEF Called
    <3>2. ~Open
      <4>1. Paired(t.program)
        BY HeldHabits
      <4>2. Open => Called(t) > 0
        BY <4>1, PairedCall
      <4>. QED
        BY <3>1, <4>2
    <3>. QED
      BY <2>1, <3>2 DEF Open
  <2>. QED
    BY <2>1, <2>2, <2>3, <2>4, <2>5 DEF HeldInv, IsSeq
<1>2. CASE CallExpect
  <2>1. /\ pc = "host" /\ pc' = "host" /\ todo # <<>> /\ todo' = Tail(todo)
        /\ Head(todo).op # "push" /\ UNCHANGED <<dut, arb, stalled, results>>
    BY <1>2 DEF CallExpect, Calls, dutVars
  <2>2. ~Open'
    BY <2>1, HeldHabits, OpenNext
  <2>3. Called(t)' # 0
    <3>1. Called(t) \in Nat /\ Called(t)' = Called(t) + 1
      BY <2>1, NextCall
    <3>. QED
      BY <3>1
  <2>. QED
    BY <2>1, <2>2, <2>3 DEF HeldInv, IsSeq
<1>3. CASE CallPush
  <2>1. /\ pc = "host" /\ pc' = "push" /\ todo # <<>> /\ todo' = Tail(todo) /\ pos' = 0
        /\ Head(todo).op = "push" /\ UNCHANGED <<rx, dut, arb, stalled, results>>
    BY <1>3 DEF CallPush, Calls, dutVars
  <2>2. Called(t) = 0
    <3>1. /\ Called(t) \in Nat /\ Called(t) + 1 \in 1 .. Len(t.program)
          /\ t.program[Called(t) + 1].op = "push"
      BY <2>1, NextCall
    <3>2. Called(t) + 1 < Len(t.program) /\ Len(t.program) = 2
      <4>1. Called(t) + 1 \in DOMAIN t.program
        BY <3>1, TestAssumption
      <4>. QED
        BY <3>1, <4>1, HeldHabits DEF Paired
    <3>. QED
      BY <3>1, <3>2
  <2>3. rx = 0 /\ Dry(dut[0])
    BY <2>1, <2>2 DEF HeldInv
  <2>4. STAGES \in Nat \ {0}
    BY BenchAssumption
  <2>5. OnTheWay(dut'[0], pkt', 0) /\ rx' = Seen(0)
    <3>1. rx' = Seen(0)
      BY <2>1, <2>3, <2>4 DEF Seen
    <3>2. ASSUME NEW i \in 1 .. STAGES
          PROVE  0 - STAGES + i - 1 < 0 /\ dut'[0][i] = NoBeat
      BY <2>1, <2>3, <2>4 DEF Dry
    <3>3. OnTheWay(dut'[0], pkt', 0)
      <4>1. \A i \in 1 .. STAGES : ~(0 - STAGES + i - 1 >= 0)
        BY <2>4
      <4>. QED
        BY <3>2, <4>1 DEF OnTheWay
    <3>. QED
      BY <3>1, <3>3
  <2>6. pos' = dw * 0 /\ 0 \in Nat
    BY <2>1 DEF dw
  <2>7. \E k \in Nat : pos' = dw * k /\ Halfway(k)'
    BY <2>5, <2>6 DEF Halfway
  <2>. QED
    BY <2>1, <2>7 DEF HeldInv, IsSeq
<1>4. CASE CallDrain
  <2>1. /\ pc = "host" /\ pc' = "drain" /\ timeout' = TIMEOUT /\ Open
        /\ UNCHANGED <<pushed, rx, dut, arb, stalled, results>>
    BY <1>4 DEF CallDrain, dutVars, Open
  <2>2. PICK k \in Nat : HeldAt(k, 0)
    BY <2>1 DEF HeldInv
  <2>3. TIMEOUT + 0 = TIMEOUT
    BY BenchAssumption
  <2>4. pkt' = pkt
    BY <2>1, SamePacket
  <2>5. HeldAt(k, 0)'
    BY <2>1, <2>2, <2>4 DEF HeldAt, Halfway
  <2>6. \E h, j \in Nat : timeout' + j = TIMEOUT /\ HeldAt(h, j)'
    BY <2>1, <2>3, <2>5
  <2>. QED
    BY <2>1, <2>6 DEF HeldInv, IsSeq
<1>5. CASE Finish
  <2>1. /\ pc = "host" /\ pc' = "done" /\ UNCHANGED <<dut, arb, stalled, results>>
    BY <1>5 DEF Finish, dutVars
  <2>. QED
    BY <2>1 DEF HeldInv, IsSeq
<1>6. CASE Return
  <2>1. /\ pc = "return" /\ pc' = "host" /\ todo # <<>> /\ todo' = Tail(todo)
        /\ Head(todo).op = "drain" /\ UNCHANGED <<dut, arb, stalled>>
        /\ results' = Append(results, [want |-> Head(todo).pkt.size, got |-> rx])
    BY <1>6 DEF Return, dutVars, ProgramInv
  <2>2. rx = Head(todo).pkt.size
    <3>1. Open /\ rx = pkt.size
      BY <2>1 DEF Open, HeldInv
    <3>2. Paired(t.program)
      BY HeldHabits
    <3>3. Head(todo).pkt.size = pkt.size
      BY <3>1, <3>2, PairedCall
    <3>. QED
      BY <3>1, <3>3
  <2>3. /\ IsSeq(results') /\ Len(results) \in Nat /\ Len(results') = Len(results) + 1
        /\ \A i \in 1 .. Len(results) : results'[i] = results[i]
        /\ results'[Len(results) + 1] = [want |-> Head(todo).pkt.size, got |-> rx]
    BY <2>1, AppendIsSeq DEF HeldInv
  <2>4. \A i \in 1 .. Len(results') : results'[i].got = results'[i].want
    <3>. TAKE i \in 1 .. Len(results')
    <3>1. CASE i \in 1 .. Len(results)
      BY <2>3, <3>1 DEF HeldInv
    <3>2. CASE i = Len(results) + 1
      BY <2>2, <2>3, <3>2
    <3>. QED
      BY <2>3, <3>1, <3>2
  <2>5. ~Open'
    BY <2>1, HeldHabits, OpenNext
  <2>6. Called(t)' # 0
    <3>1. Called(t) \in Nat /\ Called(t)' = Called(t) + 1
      BY <2>1, NextCall
    <3>. QED
      BY <3>1
  <2>. QED
    BY <2>1, <2>3, <2>4, <2>5, <2>6 DEF HeldInv, IsSeq
<1>. QED
  BY <1>1, <1>2, <1>3, <1>4, <1>5, <1>6

LEMMA HeldPush ==
  ASSUME NEW t \in Tests, ProgramInv(t), CallInv(t), HeldTest(t.driver, t.program),
         HeldInv(t), Push, faults \in Nat, faults' = 0
  PROVE  HeldInv(t)'
<1>1. /\ pc = "push" /\ UNCHANGED <<bench, todo, pushed, results>>
      /\ Capture(TRUE) /\ Edge(driven, TRUE) /\ NextBeat
  <2>1. bench.m_tready = TRUE /\ bench.captures = TRUE
    BY HeldHabits
  <2>2. Capture(bench.captures) /\ Edge(driven, bench.m_tready)
    BY DEF Push
  <2>. QED
    BY <2>1, <2>2 DEF Push
<1>2. /\ pkt.size \in Nat \ {0} /\ pos < pkt.size /\ STAGES \in Nat \ {0}
  BY <1>1, PushedType, BenchAssumption DEF ProgramInv
<1>3. PICK k \in Nat : pos = dw * k /\ Halfway(k)
  BY <1>1 DEF HeldInv
<1>4. /\ dw * (k - STAGES) < pkt.size /\ ~(dw * (k + 1 - STAGES) >= pkt.size)
      /\ dw * (k + 1) = pos + dw /\ dw * (k + 1 - STAGES) < pkt.size
  <2>. DEFINE z == pkt.size
  <2>1. dw * k < z /\ z \in Nat
    BY <1>2, <1>3
  <2>2. /\ dw * (k - STAGES) < z /\ ~(dw * (k + 1 - STAGES) >= z)
        /\ dw * (k + 1 - STAGES) < z
    <3>. HIDE DEF z
    <3>. QED
      BY <1>2, <2>1 DEF dw
  <2>3. dw * (k + 1) = dw * k + dw
    BY DEF dw
  <2>. QED
    BY <1>3, <2>2, <2>3
<1>5. /\ Shifted(dut[0], dut'[0], driven)
      /\ ~stalled' /\ arb' = 0 /\ dut'[1] = <<>> /\ dut'[2] = <<>>
  <2>1. /\ arb = 0 /\ IsSeq(dut[0]) /\ Len(dut[0]) = STAGES
        /\ dut[1] = <<>> /\ dut[2] = <<>> /\ ~stalled
    BY <1>1 DEF HeldInv
  <2>. QED
    BY <1>1, <2>1, HeldHabits, PipeEdge
<1>6. Halfway(k + 1)'
  <2>1. arb = 0 /\ IsSeq(dut[0]) /\ Len(dut[0]) = STAGES
    BY <1>1 DEF HeldInv
  <2>. QED
    BY <1>1, <1>2, <1>3, <1>4, <1>5, <2>1, HeldHabits, HeldEdge
<1>7. pkt' = pkt /\ k + 1 \in Nat /\ IsSeq(dut'[0]) /\ Len(dut'[0]) = STAGES
  BY <1>1, <1>5, SamePacket DEF Shifted
<1>8. CASE pc' = "push" /\ pos' = pos + dw
  <2>1. \E h \in Nat : pos' = dw * h /\ Halfway(h)'
    BY <1>4, <1>6, <1>7, <1>8
  <2>. QED
    BY <1>1, <1>5, <1>7, <1>8, <2>1 DEF HeldInv, IsSeq
<1>9. CASE pc' = "host" /\ pos + dw >= pkt.size
  <2>1. dw * (k + 1 - 0) >= pkt.size
    <3>1. k + 1 - 0 = k + 1
      OBVIOUS
    <3>. QED
      BY <1>4, <1>9, <3>1
  <2>2. HeldAt(k + 1, 0)'
    BY <1>4, <1>6, <1>7, <2>1 DEF HeldAt
  <2>3. \E h \in Nat : HeldAt(h, 0)'
    BY <1>7, <2>2
  <2>4. Called(t)' = Called(t) /\ Called(t) > 0
    BY <1>1 DEF CallInv, Called
  <2>. QED
    BY <1>1, <1>5, <1>7, <1>9, <2>3, <2>4 DEF HeldInv, IsSeq
<1>. QED
  BY <1>1, <1>8, <1>9, HeldHabits, BeatOut

LEMMA HeldDrain ==
  ASSUME NEW t \in Tests, ProgramInv(t), CallInv(t), HeldTest(t.driver, t.program),
         HeldInv(t), Drain \/ Flush, faults \in Nat, faults' = 0
  PROVE  HeldInv(t)'
<1>1. /\ pc \in {"drain", "flush"} /\ pc' \in {"drain", "flush", "return"}
      /\ UNCHANGED <<bench, todo, pushed, results>> /\ Edge(held, TRUE)
      /\ pc = "flush" => pc' # "drain" /\ rx' = rx
  BY DEF Drain, Flush
<1>2. pushed # <<>> /\ pkt.size \in Nat \ {0} /\ pkt' = pkt
  <2>1. Open
    BY <1>1 DEF ProgramInv, Open
  <2>. QED
    BY <1>1, <2>1, HeldHabits, PairedCall, PushedType, SamePacket
<1>3. /\ arb = 0 /\ IsSeq(dut[0]) /\ Len(dut[0]) = STAGES
      /\ dut[1] = <<>> /\ dut[2] = <<>> /\ ~stalled
  BY <1>1 DEF HeldInv
<1>4. /\ Shifted(dut[0], dut'[0], held)
      /\ ~stalled' /\ arb' = 0 /\ dut'[1] = <<>> /\ dut'[2] = <<>>
  BY <1>1, <1>3, HeldHabits, PipeEdge
<1>5. IsSeq(dut'[0]) /\ Len(dut'[0]) = STAGES
  BY <1>4 DEF Shifted
<1>6. CASE pc = "flush"
  <2>1. rx = pkt.size
    BY <1>6 DEF HeldInv
  <2>. QED
    BY <1>1, <1>2, <1>4, <1>5, <1>6, <2>1 DEF HeldInv, IsSeq
<1>7. CASE pc = "drain"
  <2>. DEFINE z == pkt.size
  <2>1. PICK k \in Nat, j \in Nat : timeout + j = TIMEOUT /\ HeldAt(k, j)
    BY <1>7 DEF HeldInv
  <2>2. /\ z \in Nat \ {0} /\ STAGES \in Nat /\ TIMEOUT \in Nat /\ TIMEOUT >= STAGES
        /\ timeout \in 1 .. TIMEOUT /\ dw * (k - j) >= z /\ dw * (k - STAGES) < z
    BY <1>2, <1>7, <2>1, BenchAssumption DEF ProgramInv, HeldAt
  <2>3. ~(dw * k < z)
    <3>. HIDE DEF z
    <3>. QED
      BY <2>2 DEF dw
  <2>4. Capture(TRUE)
    <3>. DEFINE y == bench.check # "none"
    <3>1. y = TRUE /\ Capture(y)
      BY <1>7, HeldHabits DEF Drain, Flush
    <3>. HIDE DEF y
    <3>. QED
      BY <3>1
  <2>5. IF dw * (k + 1 - STAGES) >= z
        THEN rx' = z /\ m_tvalid /\ output.last
        ELSE Halfway(k + 1)' /\ ~(m_tvalid /\ output.last)
    <3>1. Halfway(k) /\ bench.check = "size"
      BY <2>1, HeldHabits DEF HeldAt
    <3>. QED
      BY <1>1, <1>2, <1>3, <1>4, <2>2, <2>3, <2>4, <3>1, HeldEdge
  <2>6. CASE dw * (k + 1 - STAGES) >= z
    <3>1. DrainEnds /\ rx' = z
      BY <2>5, <2>6, HeldHabits DEF DrainEnds
    <3>2. pc' \in {"flush", "return"}
      BY <1>7, <3>1 DEF Drain, Flush
    <3>. QED
      BY <1>1, <1>2, <1>4, <1>5, <3>1, <3>2 DEF HeldInv, IsSeq
  <2>7. CASE ~(dw * (k + 1 - STAGES) >= z)
    <3>1. timeout # 1
      <4>. SUFFICES ASSUME timeout = 1
                    PROVE  FALSE
        OBVIOUS
      <4>1. 1 + j = TIMEOUT
        BY <2>1
      <4>. HIDE DEF z
      <4>. QED
        BY <2>2, <2>7, <4>1 DEF dw
    <3>2. ~DrainEnds
      BY <2>5, <2>7, <3>1, HeldHabits DEF DrainEnds
    <3>3. pc' = "drain" /\ timeout' = timeout - 1
      BY <1>7, <3>2 DEF Drain, Flush
    <3>4. timeout' + (j + 1) = TIMEOUT /\ (k + 1) - (j + 1) = k - j
      BY <2>1, <2>2, <3>3
    <3>5. dw * (k + 1 - STAGES) < z /\ dw * ((k + 1) - (j + 1)) >= z
      <4>1. dw * (k + 1 - STAGES) < z
        <5>. HIDE DEF z
        <5>. QED
          BY <2>2, <2>7 DEF dw
      <4>. QED
        BY <2>2, <3>4, <4>1
    <3>6. HeldAt(k + 1, j + 1)'
      <4>1. Halfway(k + 1)'
        BY <2>5, <2>7
      <4>2. dw * ((k + 1) - STAGES) < z
        <5>1. (k + 1) - STAGES = k + 1 - STAGES
          BY <2>2
        <5>. QED
          BY <3>5, <5>1
      <4>. QED
        BY <1>2, <3>5, <4>1, <4>2 DEF HeldAt
    <3>7. \E h, i \in Nat : timeout' + i = TIMEOUT /\ HeldAt(h, i)'
      BY <3>4, <3>6
    <3>. QED
      BY <1>1, <1>4, <1>5, <3>3, <3>7 DEF HeldInv, IsSeq
  <2>. QED
    BY <2>6, <2>7
<1>. QED
  BY <1>1, <1>6, <1>7

LEMMA HeldStep ==
  ASSUME NEW t \in Tests, ProgramInv(t), CallInv(t), HeldTest(t.driver, t.program),
         HeldInv(t), [Next]_vars, faults \in Nat, faults' = 0
  PROVE  HeldInv(t)'
<1>1. CASE Spin \/ TakeOne \/ Idle
  BY <1>1 DEF Spin, TakeOne, Idle, HeldInv
<1>2. CASE UNCHANGED vars
  <2>1. UNCHANGED <<bench, todo, pushed, pc, pos, timeout, rx, results, dut, arb, stalled>>
    BY <1>2 DEF vars, progVars, dutVars
  <2>2. pkt' = pkt /\ Open' = Open /\ Called(t)' = Called(t)
    BY <2>1, SamePacket DEF Open, Called
  <2>. QED
    BY <2>1, <2>2 DEF HeldInv, HeldAt, Halfway, IsSeq
<1>. QED
  BY <1>1, <1>2, HeldHost, HeldPush, HeldDrain DEF Next

LEMMA HeldInit ==
  ASSUME NEW t \in Tests, Init
  PROVE  HeldInv(t)
<1>1. /\ pc = "reset" /\ arb = 0 /\ stalled = FALSE /\ results = <<>>
      /\ \A q \in Queue : dut[q] = <<>>
  BY DEF Init
<1>2. dut[0] = <<>> /\ dut[1] = <<>> /\ dut[2] = <<>>
  BY <1>1 DEF Queue
<1>3. IsSeq(results) /\ Len(results) = 0 /\ IsSeq(dut[0])
  BY <1>1, <1>2, EmptyIsSeq
<1>4. \A i \in 1 .. Len(results) : FALSE
  BY <1>3
<1>. QED
  BY <1>1, <1>2, <1>3, <1>4 DEF HeldInv

-----------------------------------------------------------------------------
(* The invariant of the bench.  What holds of a correct device depends on the *)
(* test; a fault is never taken back.                                         *)
CorrectInv(t) ==
  \/ /\ PipelineTest(t.driver, t.program) /\ PipeInv(t) /\ DrainedInv(t)
     /\ bench.check # "none" => StreamInv(t)
  \/ HeldTest(t.driver, t.program) /\ HeldInv(t)
  \/ QueueTest(t) /\ QueueInv(t) /\ StreamInv(t)
  \/ FillingTest(t) /\ BlockedInv(t)

TestInv(t) == /\ ProgramInv(t) /\ CallInv(t) /\ AnnounceInv(t)
              /\ faults = 0 => CorrectInv(t)

BenchInv == faults \in Nat /\ MonInv /\ \E t \in Tests : TestInv(t)

LEMMA BenchInit ==
  ASSUME Init
  PROVE  BenchInv
<1>1. faults \in Nat /\ MonInv
  BY MonInitInv DEF Init
<1>2. PICK t \in Tests : ProgramInv(t) /\ todo = t.program
  BY ProgramInit
<1>3. CallInv(t) /\ AnnounceInv(t)
  BY <1>2, CallInit, AnnounceInit
<1>4. PipeInv(t) /\ HeldInv(t) /\ QueueInv(t) /\ BlockedInv(t)
  BY <1>2, PipeInit, HeldInit, QueueInit, FillingInit
<1>5. StreamInv(t) /\ DrainedInv(t)
  BY DEF Init, StreamInv, DrainedInv
<1>6. \/ PipelineTest(t.driver, t.program) \/ HeldTest(t.driver, t.program)
      \/ QueueTest(t) \/ FillingTest(t)
  <2>1. SchedulerTest(t.driver, t.program) => QueueTest(t) \/ FillingTest(t)
    BY Zenon DEF QueueTest, FillingTest, SchedulerTest
  <2>2. FifoTest(t.driver, t.program) => QueueTest(t)
    BY Zenon DEF QueueTest
  <2>. QED
    BY <2>1, <2>2, TestAssumption
<1>7. CorrectInv(t)
  BY <1>4, <1>5, <1>6 DEF CorrectInv
<1>8. TestInv(t)
  BY <1>2, <1>3, <1>7 DEF TestInv
<1>. QED
  BY <1>1, <1>8 DEF BenchInv

LEMMA FaultsStep ==
  ASSUME faults \in Nat, [Next]_vars
  PROVE  faults' \in Nat /\ (faults' = 0 => faults = 0)
<1>1. ASSUME NEW b, NEW x, Edge(b, x)
      PROVE  faults' = faults \/ faults' = faults + 1
  BY <1>1, Zenon DEF Edge
<1>2. CASE Push \/ Spin
  <2>1. Edge(driven, bench.m_tready)
    BY <1>2 DEF Push, Spin
  <2>. QED
    BY <1>1, <2>1
<1>3. CASE TakeOne \/ Drain \/ Flush \/ Idle
  <2>1. Edge(NoBeat, TRUE) \/ Edge(held, TRUE) \/ Edge(NoBeat, bench.m_tready)
    BY <1>3, Zenon DEF TakeOne, Drain, Flush, Idle
  <2>2. faults' = faults \/ faults' = faults + 1
    BY <1>1, <2>1, Zenon
  <2>. QED
    BY <2>2
<1>4. CASE \/ Reset \/ CallExpect \/ CallPush \/ CallDrain \/ Finish \/ Return
           \/ UNCHANGED vars
  BY <1>4 DEF Reset, CallExpect, CallPush, CallDrain, Finish, Return, vars, dutVars
<1>. QED
  BY <1>2, <1>3, <1>4 DEF Next

LEMMA CorrectStep ==
  ASSUME NEW t \in Tests, ProgramInv(t), CallInv(t), AnnounceInv(t), MonInv, CorrectInv(t),
         [Next]_vars, faults \in Nat, faults' = 0, bench' = bench
  PROVE  CorrectInv(t)'
<1>1. t.driver = bench
  BY DEF ProgramInv
<1>2. CASE /\ PipelineTest(t.driver, t.program) /\ PipeInv(t) /\ DrainedInv(t)
           /\ bench.check # "none" => StreamInv(t)
  <2>1. PipeInv(t)' /\ DrainedInv(t)'
    BY <1>2, PipeStep, DrainedStep
  <2>2. ASSUME bench.check # "none"
        PROVE  StreamInv(t)'
    <3>1. StreamTest(t)
      <4>1. \/ t.driver.check = "size" /\ Paired(t.program)
            \/ t.driver.check = "monitor" /\ Announced(t.program)
        BY <1>1, <1>2, <2>2 DEF PipelineTest
      <4>. QED
        BY <4>1 DEF StreamTest
    <3>2. StreamReady
      BY <1>2, <2>2, PipeReady
    <3>. QED
      BY <1>2, <2>2, <3>1, <3>2, StreamStep
  <2>. QED
    BY <1>2, <2>1, <2>2 DEF CorrectInv
<1>3. CASE HeldTest(t.driver, t.program) /\ HeldInv(t)
  BY <1>3, HeldStep DEF CorrectInv
<1>4. CASE QueueTest(t) /\ QueueInv(t) /\ StreamInv(t)
  <2>1. QueueInv(t)'
    BY <1>4, QueueStep
  <2>2. StreamTest(t)
    <3>1. \/ t.driver.check = "size" /\ Paired(t.program)
          \/ t.driver.check = "monitor" /\ Announced(t.program)
      BY <1>4 DEF QueueTest, FifoTest, SchedulerTest
    <3>. QED
      BY <3>1 DEF StreamTest
  <2>3. StreamInv(t)'
    BY <1>4, <2>2, QueueReady, StreamStep
  <2>. QED
    BY <1>4, <2>1, <2>3 DEF CorrectInv, QueueTest
<1>5. CASE FillingTest(t) /\ BlockedInv(t)
  BY <1>5, FillingStep DEF CorrectInv, FillingTest
<1>. QED
  BY <1>2, <1>3, <1>4, <1>5 DEF CorrectInv

LEMMA BenchStep ==
  ASSUME BenchInv, [Next]_vars
  PROVE  BenchInv'
<1>1. PICK t \in Tests : TestInv(t)
  BY DEF BenchInv
<1>2. ProgramInv(t) /\ CallInv(t) /\ AnnounceInv(t) /\ MonInv /\ faults \in Nat
  BY <1>1 DEF TestInv, BenchInv
<1>3. faults' \in Nat /\ (faults' = 0 => faults = 0) /\ MonInv'
  BY <1>2, FaultsStep, NextStep, StepInv
<1>4. ProgramInv(t)' /\ CallInv(t)' /\ AnnounceInv(t)'
  BY <1>2, ProgramStep, CallStep, AnnounceStep
<1>5. bench' = bench
  BY <1>2, <1>4 DEF ProgramInv
<1>6. faults' = 0 => CorrectInv(t)'
  BY <1>1, <1>2, <1>3, <1>5, CorrectStep DEF TestInv
<1>7. TestInv(t)'
  BY <1>4, <1>6 DEF TestInv
<1>. QED
  BY <1>3, <1>7 DEF BenchInv

(* A drain that has returned left a correct device empty.                     *)
LEMMA InvMeansDry == BenchInv => DrainedDry
<1>. SUFFICES ASSUME BenchInv, pc = "return", faults = 0, bench.idle
              PROVE  \A q \in Queue : \A i \in DOMAIN dut[q] : dut[q][i] = NoBeat
  BY DEF DrainedDry
<1>1. PICK t \in Tests : TestInv(t)
  BY DEF BenchInv
<1>2. ProgramInv(t) /\ CorrectInv(t) /\ t.driver = bench
  BY <1>1 DEF TestInv, ProgramInv
<1>3. CASE PipelineTest(t.driver, t.program) /\ PipeInv(t)
  BY <1>2, <1>3, PipeDry
<1>4. CASE HeldTest(t.driver, t.program)
  BY <1>2, <1>4, HeldHabits
<1>5. CASE QueueTest(t) /\ QueueInv(t)
  <2>1. \A q \in Queue : dut[q] = <<>>
    BY <1>5 DEF QueueInv, Device, inside
  <2>2. DOMAIN <<>> = {}
    OBVIOUS
  <2>. QED
    BY <2>1, <2>2
<1>6. CASE FillingTest(t) /\ BlockedInv(t)
  BY <1>6 DEF BlockedInv
<1>. QED
  BY <1>2, <1>3, <1>4, <1>5, <1>6 DEF CorrectInv

(* When the program ends, a place in the stream that is its end makes every   *)
(* scoreboard pass.                                                           *)
LEMMA SizesPass ==
  ASSUME NEW c, SizeAt(c), bench.check = "size"
  PROVE  Passed
<1>1. DOMAIN results = 1 .. Len(results)
  BY DEF SizeAt, IsSeq
<1>. QED
  BY <1>1 DEF SizeAt, Passed

LEMMA MonitorHasAll ==
  ASSUME NEW t \in Tests, ProgramInv(t), AnnounceInv(t), Announced(t.program), MonInv,
         MonAt(<<Len(pushed) + 1, 0>>), todo = <<>>, bench.check = "monitor"
  PROVE  Passed
<1>1. Len(pushed) = Len(wanted) /\ Len(pushed) \in Nat
  BY Matching
<1>2. Len(received) \in Nat /\ Len(expected) \in Nat
  BY AppendIsSeq DEF MonInv, AllSequences
<1>3. Len(received) + 1 = Len(pushed) + 1 /\ consumed = Len(received) /\ error_count = 0
  BY DEF MonAt
<1>4. Len(expected) = 0
  BY <1>1, <1>2, <1>3 DEF consumed
<1>5. expected = <<>>
  BY <1>4, TailIsSeq DEF MonInv, AllSequences
<1>. QED
  BY <1>3, <1>5 DEF Passed, MonitorPasses

LEMMA InvMeansPassed == BenchInv => CorrectDutPasses
<1>. SUFFICES ASSUME BenchInv, pc = "done", faults = 0
              PROVE  Passed
  BY DEF CorrectDutPasses
<1>1. PICK t \in Tests : TestInv(t)
  BY DEF BenchInv
<1>2. /\ ProgramInv(t) /\ CallInv(t) /\ AnnounceInv(t) /\ CorrectInv(t) /\ MonInv
      /\ t.driver = bench /\ todo = <<>>
  BY <1>1 DEF TestInv, ProgramInv, BenchInv
<1>3. ASSUME StreamInv(t), bench.check = "size"
      PROVE  Passed
  <2>1. PICK c : SizeAt(c)
    BY <1>3 DEF StreamInv, ConsumerAt
  <2>. QED
    BY <1>3, <2>1, SizesPass
<1>4. ASSUME StreamInv(t), bench.check = "monitor", Announced(t.program), Device,
             Called(t) > 0 /\ t.program[Called(t)].op = "drain"
               => \A i \in 1 .. Len(inside) : inside[i] = NoBeat
      PROVE  Passed
  <2>1. Called(t) = Len(t.program) /\ Len(t.program) \in Nat
    BY <1>2, EmptyIsSeq, ProgramType DEF Called
  <2>2. t.program # <<>> /\ t.program[Len(t.program)].op = "drain"
    BY <1>4 DEF Announced, Last
  <2>3. Called(t) > 0
    <3>1. Len(t.program) # 0
      BY <2>2, ProgramType, TailIsSeq
    <3>. QED
      BY <2>1, <3>1
  <2>4. \A i \in 1 .. Len(inside) : inside[i] = NoBeat
    BY <1>4, <2>1, <2>2, <2>3
  <2>5. ConsumerAt(<<Len(pushed) + 1, 0>>)
    BY <1>2, <1>4, <2>4, StreamDry
  <2>6. MonAt(<<Len(pushed) + 1, 0>>)
    BY <1>4, <2>5 DEF ConsumerAt
  <2>. QED
    BY <1>2, <1>4, <2>6, MonitorHasAll
<1>5. CASE bench.check = "none"
  BY <1>5 DEF Passed
<1>6. CASE /\ PipelineTest(t.driver, t.program) /\ PipeInv(t) /\ DrainedInv(t)
           /\ bench.check # "none" => StreamInv(t)
  <2>1. CASE bench.check = "size"
    BY <1>3, <1>6, <2>1
  <2>2. CASE bench.check = "monitor"
    <3>1. Announced(t.program) /\ StreamInv(t)
      BY <1>2, <1>6, <2>2 DEF PipelineTest
    <3>2. Device
      BY <1>2, <1>6, <2>2, PipeReady DEF StreamReady
    <3>3. home = 0 /\ Len(inside) = STAGES /\ inside = dut[0]
      <4>1. home = 0 /\ inside = dut[0]
        BY <1>2, <1>6 DEF PipelineTest, home, inside
      <4>. QED
        BY <1>6, <4>1 DEF PipeInv
    <3>4. Called(t) > 0 /\ t.program[Called(t)].op = "drain"
            => \A i \in 1 .. Len(inside) : inside[i] = NoBeat
      BY <1>6, <3>3 DEF DrainedInv, Dry
    <3>. QED
      BY <1>4, <2>2, <3>1, <3>2, <3>4
  <2>3. \/ bench.check = "none" \/ bench.check = "size" \/ bench.check = "monitor"
    BY <1>2, <1>6 DEF PipelineTest
  <2>. QED
    BY <1>5, <2>1, <2>2, <2>3
<1>7. CASE HeldTest(t.driver, t.program) /\ HeldInv(t)
  <2>1. bench.check = "size"
    BY <1>2, <1>7, HeldHabits
  <2>2. DOMAIN results = 1 .. Len(results)
    BY <1>7 DEF HeldInv, IsSeq
  <2>. QED
    BY <1>7, <2>1, <2>2 DEF HeldInv, Passed
<1>8. CASE QueueTest(t) /\ QueueInv(t) /\ StreamInv(t)
  <2>1. CASE bench.check = "size"
    BY <1>3, <1>8, <2>1
  <2>2. CASE bench.check = "monitor"
    <3>1. Announced(t.program)
      BY <1>2, <1>8, <2>2 DEF QueueTest, FifoTest, SchedulerTest
    <3>2. Device /\ (Called(t) > 0 /\ t.program[Called(t)].op = "drain" => inside = <<>>)
      BY <1>8 DEF QueueInv
    <3>3. inside = <<>> => \A i \in 1 .. Len(inside) : inside[i] = NoBeat
      <4>1. inside = <<>> => Len(inside) = 0
        BY EmptyIsSeq
      <4>. QED
        BY <4>1
    <3>. QED
      BY <1>4, <1>8, <2>2, <3>1, <3>2, <3>3
  <2>3. bench.check = "size" \/ bench.check = "monitor"
    BY <1>2, <1>8 DEF QueueTest, FifoTest, SchedulerTest
  <2>. QED
    BY <2>1, <2>2, <2>3
<1>9. CASE FillingTest(t) /\ BlockedInv(t)
  BY <1>9 DEF BlockedInv
<1>. QED
  BY <1>2, <1>6, <1>7, <1>8, <1>9 DEF CorrectInv

(* The drain loops of the testbenches leave a correct device dry: whichever   *)
(* of their conditions ends them (the end of a packet, one or two edges       *)
(* without a beat, the timeout), nothing is inside (tb_pipeline's, which      *)
(* keeps offering the last beat, aside).                                      *)
THEOREM DrainsLeaveDry == Spec => []DrainedDry
<1>1. Init => BenchInv
  BY BenchInit
<1>2. BenchInv /\ [Next]_vars => BenchInv'
  BY BenchStep
<1>3. BenchInv => DrainedDry
  BY InvMeansDry
<1>. QED
  BY <1>1, <1>2, <1>3, PTL DEF Spec

(* No testbench fails a correct device: of any number and sizes of packets    *)
(* that meet TestAssumption, its captures miss no beat and count none twice,  *)
(* so that its scoreboard or its byte counts agree when the program ends.     *)
THEOREM CorrectDutPassesAlways == Spec => []CorrectDutPasses
<1>1. Init => BenchInv
  BY BenchInit
<1>2. BenchInv /\ [Next]_vars => BenchInv'
  BY BenchStep
<1>3. BenchInv => CorrectDutPasses
  BY InvMeansPassed
<1>. QED
  BY <1>1, <1>2, <1>3, PTL DEF Spec

-----------------------------------------------------------------------------
(* The bench that blocks.  Nothing here asks for a correct device.            *)
QueuesInv == \A q \in Queue : IsSeq(dut[q])

LEMMA LoadsQueues ==
  ASSUME QueuesInv, NEW b, NEW m_tready, NEW x, Loads(b, m_tready, x)
  PROVE  QueuesInv'
<1>. SUFFICES ASSUME NEW q \in Queue
              PROVE  IsSeq(dut'[q])
  BY DEF QueuesInv
<1>. DEFINE left == IF q = arb /\ m_tready /\ dut[q] # <<>> THEN Tail(dut[q]) ELSE dut[q]
            in == q = dest /\ (b # NoBeat \/ bench.device = "pipeline")
<1>1. dut'[q] = left \o (IF in THEN <<b>> ELSE <<>>)
  BY DEF Loads
<1>2. IsSeq(left)
  BY TailIsSeq DEF QueuesInv
<1>. HIDE DEF left, in
<1>3. IsSeq(left \o <<b>>) /\ left \o <<>> = left
  BY <1>2, ConcatIsSeq
<1>. QED
  BY <1>1, <1>2, <1>3

(* Whatever the device does with a beat, it loads something. *)
LEMMA EdgeLoads ==
  ASSUME NEW b, NEW m_tready, Edge(b, m_tready)
  PROVE  \E c, x : Loads(c, m_tready, x)
  BY Zenon DEF Edge

LEMMA QueuesStep ==
  ASSUME QueuesInv, [Next]_vars
  PROVE  QueuesInv'
<1>1. ASSUME NEW b, NEW m_tready, Edge(b, m_tready)
      PROVE  QueuesInv'
  <2>1. PICK c, x : Loads(c, m_tready, x)
    BY <1>1, EdgeLoads
  <2>. QED
    BY <2>1, LoadsQueues
<1>2. CASE Reset
  <2>. SUFFICES ASSUME NEW q \in Queue
                PROVE  IsSeq(EmptyDut[q])
    BY <1>2 DEF Reset, QueuesInv
  <2>1. EmptyDut[q] = <<>> \/ EmptyDut[q] = [i \in 1 .. STAGES |-> NoBeat]
    BY DEF EmptyDut
  <2>2. IsSeq([i \in 1 .. STAGES |-> NoBeat])
    <3>. DEFINE S == {NoBeat}
    <3>1. NoBeat \in S /\ STAGES \in Nat
      BY BenchAssumption
    <3>. HIDE DEF S
    <3>2. [i \in 1 .. STAGES |-> NoBeat] \in Seq(S)
      BY <3>1
    <3>. QED
      BY <3>2 DEF IsSeq
  <2>. QED
    BY <2>1, <2>2, EmptyIsSeq
<1>3. CASE Push \/ Spin
  <2>1. Edge(driven, bench.m_tready)
    BY <1>3 DEF Push, Spin
  <2>. QED
    BY <1>1, <2>1
<1>4. CASE TakeOne \/ Drain \/ Flush \/ Idle
  <2>1. Edge(NoBeat, TRUE) \/ Edge(held, TRUE) \/ Edge(NoBeat, bench.m_tready)
    BY <1>4, Zenon DEF TakeOne, Drain, Flush, Idle
  <2>. QED
    BY <1>1, <2>1
<1>5. CASE CallExpect \/ CallPush \/ CallDrain \/ Finish \/ Return \/ UNCHANGED vars
  BY <1>5 DEF CallExpect, CallPush, CallDrain, Finish, Return, vars, dutVars, QueuesInv
<1>. QED
  BY <1>2, <1>3, <1>4, <1>5 DEF Next

(* A full queue refuses its beat, and an edge that takes nothing keeps it     *)
(* full, whatever else goes wrong.                                            *)
LEMMA FullStaysFull ==
  ASSUME QueuesInv, NEW b, Edge(b, FALSE), dest \in Queue, ~s_tready,
         bench.device = "scheduler", UNCHANGED <<bench, pushed>>
  PROVE  dut'[dest'] = dut[dest]
<1>1. \E x : Loads(NoBeat, FALSE, x)
  <2>1. Mishaps(b) = {}
    BY DEF Mishaps
  <2>. QED
    BY <2>1, Zenon DEF Edge
<1>2. dut'[dest] = dut[dest] \o <<>>
  BY <1>1 DEF Loads
<1>3. IsSeq(dut[dest])
  BY DEF QueuesInv
<1>4. dest' = dest
  BY DEF dest
<1>. QED
  BY <1>2, <1>3, <1>4, ConcatIsSeq

LEMMA BlockedStep ==
  ASSUME BenchInv, QueuesInv, BlocksItself, [Next]_vars
  PROVE  BlocksItself'
<1>1. PICK t \in Tests : ProgramInv(t)
  BY DEF BenchInv, TestInv
<1>2. /\ bench.device = "scheduler" /\ pc = "wait" /\ ~bench.m_tready
      /\ Len(dut[dest]) = DEPTH /\ pushed # <<>>
  BY <1>1 DEF BlocksItself, ProgramInv
<1>3. SchedulerTest(t.driver, t.program)
  BY <1>1, <1>2, TestAssumption DEF ProgramInv, PipelineTest, HeldTest, FifoTest
<1>4. bench.wait = "spin" /\ bench.m_tready = FALSE /\ dest \in Queue
  <2>1. bench.wait = "spin" /\ bench.m_tready \in BOOLEAN
    BY <1>1, <1>3, TestAssumption DEF ProgramInv, SchedulerTest, Driver
  <2>2. \A i \in DOMAIN t.program : t.program[i].class = 0
    BY <1>3 DEF SchedulerTest
  <2>3. dest = home /\ home \in Queue
    BY <1>1, <1>2, <2>2, DestHome DEF home, Queue
  <2>. QED
    BY <1>2, <2>1, <2>3
<1>5. DEPTH \in Nat /\ ~s_tready
  BY <1>2, BenchAssumption DEF s_tready
<1>6. CASE Spin
  <2>1. Edge(driven, FALSE) /\ UNCHANGED <<bench, pushed>> /\ NextBeat
    BY <1>4, <1>6 DEF Spin
  <2>2. dut'[dest'] = dut[dest]
    BY <1>2, <1>4, <1>5, <2>1, FullStaysFull
  <2>3. ~s_tready'
    BY <1>2, <1>5, <2>1, <2>2 DEF s_tready
  <2>4. pc' = "wait"
    BY <1>4, <2>1, <2>3 DEF NextBeat
  <2>. QED
    BY <1>2, <2>1, <2>2, <2>4 DEF BlocksItself
<1>7. CASE UNCHANGED vars
  BY <1>2, <1>7 DEF vars, progVars, dutVars, BlocksItself, dest
<1>8. Spin \/ UNCHANGED vars
  BY <1>2, <1>4 DEF Next, Reset, CallExpect, CallPush, CallDrain, Finish, Calls, Push,
                    TakeOne, Idle, Drain, Flush, Return
<1>. QED
  BY <1>6, <1>7, <1>8

(* A bench of the scheduler that waits for room in a full queue while it      *)
(* refuses all output waits for ever (tb_scheduler.cpp:45), whatever the      *)
(* device does: the loop has no timeout, and nobody else takes a beat.        *)
THEOREM BlockedForEver == Spec => [](BlocksItself => []BlocksItself)
<1>1. Init => BenchInv /\ QueuesInv
  BY BenchInit, EmptyIsSeq DEF Init, QueuesInv
<1>2. BenchInv /\ QueuesInv /\ [Next]_vars => (BenchInv /\ QueuesInv)'
  BY BenchStep, QueuesStep
<1>3. BenchInv /\ QueuesInv /\ BlocksItself /\ [Next]_vars => BlocksItself'
  BY BlockedStep
<1>. QED
  BY <1>1, <1>2, <1>3, PTL DEF Spec

(* And it comes to that: a test that pushes three packets, together more than *)
(* a queue holds, comes to no drain and no end, on a correct device of any    *)
(* depth.  Two tests of tb_scheduler do, since all packets have class 0       *)
(* (tb_scheduler.cpp:43).                                                     *)
THEOREM OverfilledNeverReturns ==
  ASSUME \A t \in Tests : FillingTest(t)
  PROVE  Spec => [](faults = 0 => pc \notin {"drain", "done"})
<1>1. Init => BenchInv
  BY BenchInit
<1>2. BenchInv /\ [Next]_vars => BenchInv'
  BY BenchStep
<1>3. BenchInv => (faults = 0 => pc \notin {"drain", "done"})
  <2>. SUFFICES ASSUME BenchInv, faults = 0
                PROVE  pc \notin {"drain", "done"}
    OBVIOUS
  <2>1. PICK t \in Tests : ProgramInv(t) /\ CorrectInv(t)
    BY DEF BenchInv, TestInv
  <2>2. FillingTest(t) /\ t.driver.device = "scheduler"
    BY DEF FillingTest, SchedulerTest
  <2>3. ~PipelineTest(t.driver, t.program) /\ ~HeldTest(t.driver, t.program)
    BY <2>2 DEF PipelineTest, HeldTest
  <2>4. ~QueueTest(t)
    <3>1. ~FifoTest(t.driver, t.program)
      BY <2>2 DEF FifoTest
    <3>2. /\ 1 \in 1 .. Len(t.program) /\ t.program[1].op = "push"
          /\ 1 + 1 \in 1 .. 3
      BY FilledAdds, <2>2
    <3>3. t.program[1 + 1].op = "push"
      BY <2>2, <3>2 DEF FillingTest
    <3>4. DOMAIN t.program = 1 .. Len(t.program)
      BY TestAssumption
    <3>5. ~Paired(t.program)
      BY <3>2, <3>3, <3>4 DEF Paired
    <3>. QED
      BY <3>1, <3>5 DEF QueueTest
  <2>5. BlockedInv(t)
    BY <2>1, <2>3, <2>4 DEF CorrectInv
  <2>. QED
    BY <2>5 DEF BlockedInv
<1>. QED
  BY <1>1, <1>2, <1>3, PTL DEF Spec
=============================================================================
