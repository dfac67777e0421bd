------------------------------ MODULE AxisFifo ------------------------------
(* axis_fifo (src/rtl/interfaces/axis_fifo.sv): the AXI-Stream FIFO used for  *)
(* each priority queue of the scheduler.  Binary pointers one bit wider than  *)
(* the RAM address, combinational read, and a registered m_tvalid.            *)
(*                                                                            *)
(* One step is one rising clock edge.  s_tvalid, s_tdata and m_tready are     *)
(* free inputs, so each branch of the always_ff is an action whose guard is   *)
(* what that branch needs of the registers.                                   *)
EXTENDS Integers, Sequences

CONSTANTS Data,    \* values of {s_tlast, s_tkeep, s_tdata}
          DEPTH    \* entries of the RAM

(* $clog2(DEPTH) address bits reach exactly DEPTH slots only for a power of   *)
(* two, and a one-entry FIFO would have no address bit: every instance of the *)
(* repository has DEPTH 4 or 16.  The proofs use the first assumption only.   *)
ASSUME DepthAssumption == DEPTH \in Nat /\ DEPTH >= 2
ASSUME DepthIsPowerOfTwo == \E a \in 1..16 : DEPTH = 2^a
ASSUME DataAssumption == Data # {}

VARIABLES wr_ptr, rd_ptr,  \* A_WIDTH+1 bits: they count modulo 2*DEPTH
          m_tvalid,
          ram

vars == <<wr_ptr, rd_ptr, m_tvalid, ram>>

-----------------------------------------------------------------------------
Pointer == 0 .. 2 * DEPTH - 1

(* ptr + 1'b1 on A_WIDTH+1 bits *)
BugNoWrap(ptr) == ptr + 1
Succ(ptr) == IF ptr = 2 * DEPTH - 1 THEN 0 ELSE ptr + 1

(* ptr[A_WIDTH-1:0], the RAM address *)
Slot(ptr) == IF ptr < DEPTH THEN ptr ELSE ptr - DEPTH

(* wr_ptr - rd_ptr on A_WIDTH+1 bits *)
ptr_diff == IF rd_ptr <= wr_ptr THEN wr_ptr - rd_ptr
                                ELSE wr_ptr - rd_ptr + 2 * DEPTH

used == ptr_diff
empty == ptr_diff = 0

BugFullOffByOne == ptr_diff = DEPTH + 1
full == ptr_diff = DEPTH

s_tready == ~full
m_tdata == ram[Slot(rd_ptr)]

-----------------------------------------------------------------------------
(* rst_n has been low; the RAM is not reset and holds anything.               *)
Init == /\ wr_ptr = 0
        /\ rd_ptr = 0
        /\ m_tvalid = FALSE
        /\ ram \in [0 .. DEPTH - 1 -> Data]

BugStoreAtNext(d) == /\ wr_ptr' = Succ(wr_ptr)
                     /\ ram' = [ram EXCEPT ![Slot(Succ(wr_ptr))] = d]
Store(d) == /\ wr_ptr' = Succ(wr_ptr)
            /\ ram' = [ram EXCEPT ![Slot(wr_ptr)] = d]

(* wren && rden *)
WriteRead(d) == /\ s_tready
                /\ m_tvalid
                /\ Store(d)
                /\ rd_ptr' = Succ(rd_ptr)
                /\ UNCHANGED m_tvalid

(* rden alone: either no beat is offered or the FIFO is full *)
BugReadKeepsValid == /\ m_tvalid
                     /\ rd_ptr' = Succ(rd_ptr)
                     /\ m_tvalid' = ~empty
                     /\ UNCHANGED <<wr_ptr, ram>>
Read == /\ m_tvalid
        /\ rd_ptr' = Succ(rd_ptr)
        /\ m_tvalid' = (ptr_diff > 1)
        /\ UNCHANGED <<wr_ptr, ram>>

(* wren alone: the reader is not ready or nothing is on offer *)
Write(d) == /\ s_tready
            /\ Store(d)
            /\ m_tvalid' = TRUE
            /\ UNCHANGED rd_ptr

(* neither: the recovery branch raises m_tvalid over stored data *)
Idle == /\ m_tvalid' = (m_tvalid \/ ~empty)
        /\ UNCHANGED <<wr_ptr, rd_ptr, ram>>

(* rst_n low on the edge *)
Reset == /\ wr_ptr' = 0
         /\ rd_ptr' = 0
         /\ m_tvalid' = FALSE
         /\ UNCHANGED ram

Next == \/ \E d \in Data : WriteRead(d) \/ Write(d)
        \/ Read
        \/ Idle
        \/ Reset

Spec == Init /\ [][Next]_vars

-----------------------------------------------------------------------------
(* Every register holds a value of its width.                                 *)
TypeOK == /\ wr_ptr \in Pointer
          /\ rd_ptr \in Pointer
          /\ m_tvalid \in BOOLEAN
          /\ ram \in [0 .. DEPTH - 1 -> Data]

(* The pointers never run past each other, although wren and rden move them   *)
(* independently of each other and both wrap: no overflow and no underflow.   *)
NoOverflow == ptr_diff <= DEPTH

(* The registered m_tvalid agrees with the combinational empty flag after     *)
(* every edge: the output never offers a stale slot and never hides a stored  *)
(* beat, so the recovery branch (lines 73-76) has nothing to recover.         *)
ValidIffNotEmpty == m_tvalid <=> ~empty

(* AXI-Stream hold rule: a beat offered and not taken stays on offer with the *)
(* same data, whatever is written meanwhile; only a reset withdraws it.       *)
HoldData == [][m_tvalid /\ rd_ptr' = rd_ptr /\ ~Reset
                 => m_tvalid' /\ m_tdata' = m_tdata]_vars

(* The strengthening of the two invariants that is inductive: it is their     *)
(* conjunction with the register widths.                                      *)
Inv == TypeOK /\ NoOverflow /\ ValidIffNotEmpty

(* The FIFO implements the bounded channel: the RAM between the pointers,     *)
(* read in pointer order across both wraps, is the queue.                     *)
Wrap(n) == IF n < 2 * DEPTH THEN n ELSE n - 2 * DEPTH
At(i) == ram[Slot(Wrap(rd_ptr + i - 1))]
Contents == [i \in 1 .. ptr_diff |-> At(i)]

Channel == INSTANCE BoundedFifo WITH Capacity <- DEPTH, q <- Contents
ImplementsChannel == Channel!Spec
=============================================================================
