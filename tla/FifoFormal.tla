----------------------------- MODULE FifoFormal -----------------------------
(* The SymbiYosys harness around axis_fifo (src/formal/fifo.sv): the same     *)
(* clock edges, and two wrapping counters of accepted and delivered beats the *)
(* assertions compare with the FIFO's flags.                                  *)
EXTENDS AxisFifo

VARIABLES push_count, pop_count   \* logic [3:0]

harnessVars == <<wr_ptr, rd_ptr, m_tvalid, ram, push_count, pop_count>>

CountSpace == 16

Count(c) == (c + 1) % CountSpace

HarnessInit == Init /\ push_count = 0 /\ pop_count = 0

CountedWriteRead(d) == /\ WriteRead(d)
                       /\ push_count' = Count(push_count)
                       /\ pop_count' = Count(pop_count)

CountedWrite(d) == /\ Write(d)
                   /\ push_count' = Count(push_count)
                   /\ UNCHANGED pop_count

BugCountedRead == /\ Read
                  /\ pop_count' = IF full THEN pop_count ELSE Count(pop_count)
                  /\ UNCHANGED push_count
CountedRead == /\ Read
               /\ pop_count' = Count(pop_count)
               /\ UNCHANGED push_count

CountedIdle == Idle /\ UNCHANGED <<push_count, pop_count>>

CountedReset == Reset /\ push_count' = 0 /\ pop_count' = 0

HarnessNext == \/ \E d \in Data : CountedWriteRead(d) \/ CountedWrite(d)
               \/ CountedRead
               \/ CountedIdle
               \/ CountedReset

HarnessSpec == HarnessInit /\ [][HarnessNext]_harnessVars

-----------------------------------------------------------------------------
(* Line 93: used equals push_count - pop_count.  The subtraction is done on   *)
(* four bits, so the assertion is about the difference modulo 16 and survives *)
(* the wrap of either counter.                                                *)
UsedIsOccupancy == used = (push_count - pop_count + CountSpace) % CountSpace

(* Line 97: push_count >= pop_count, "NO_UNDERFLOW ... Proved" in             *)
(* src/docs/verification.md:94.  The counters wrap, the comparison does not.  *)
PushCountGePopCount == push_count >= pop_count
=============================================================================
