-------------------------- MODULE FifoFormalProofs --------------------------
(* The harness's occupancy assertion, proved for every depth its four-bit     *)
(* counters can express.                                                      *)
EXTENDS FifoFormal, AxisFifoProofs

(* An edge of the harness is an edge of the FIFO.                             *)
LEMMA HarnessStep == [HarnessNext]_harnessVars => [Next]_vars
BY DEF HarnessNext, harnessVars, vars, Next, CountedWriteRead, CountedWrite,
       CountedRead, CountedIdle, CountedReset

HarnessInv == /\ push_count \in 0 .. CountSpace - 1
              /\ pop_count \in 0 .. CountSpace - 1
              /\ UsedIsOccupancy

(* A counted push or pop moves the wrapped difference by one, like used; the  *)
(* depth must be below CountSpace or a full FIFO would read as an empty one.  *)
LEMMA HarnessInvStep ==
  ASSUME DEPTH < CountSpace, Inv, Inv', HarnessInv, [HarnessNext]_harnessVars
  PROVE  HarnessInv'
<1> USE DepthAssumption DEF CountSpace
<1>0. /\ push_count \in 0 .. 15 /\ pop_count \in 0 .. 15
      /\ ptr_diff = (push_count - pop_count + 16) % 16
      /\ wr_ptr \in Pointer /\ rd_ptr \in Pointer /\ ptr_diff <= DEPTH
      /\ m_tvalid <=> ptr_diff # 0
  BY DEF HarnessInv, UsedIsOccupancy, used, Inv, TypeOK, NoOverflow,
         ValidIffNotEmpty, empty
<1>1. ASSUME NEW d \in Data, CountedWriteRead(d) PROVE HarnessInv'
  <2>1. ptr_diff' = ptr_diff
    BY <1>0, <1>1 DEF CountedWriteRead, WriteRead, Store, Succ, ptr_diff, Pointer
  <2>2. push_count' = (push_count + 1) % 16 /\ pop_count' = (pop_count + 1) % 16
    BY <1>1 DEF CountedWriteRead, Count
  <2> QED BY <1>0, <2>1, <2>2 DEF HarnessInv, UsedIsOccupancy, used
<1>2. ASSUME NEW d \in Data, CountedWrite(d) PROVE HarnessInv'
  <2>1. ptr_diff' = ptr_diff + 1 /\ ptr_diff < DEPTH
    BY <1>0, <1>2 DEF CountedWrite, Write, Store, Succ, ptr_diff, Pointer,
                      s_tready, full
  <2>2. push_count' = (push_count + 1) % 16 /\ pop_count' = pop_count
    BY <1>2 DEF CountedWrite, Count
  <2>3. ptr_diff \in Int
    BY <1>0 DEF ptr_diff, Pointer
  <2> QED BY <1>0, <2>1, <2>2, <2>3 DEF HarnessInv, UsedIsOccupancy, used
<1>3. CASE CountedRead
  <2>1. ptr_diff' = ptr_diff - 1 /\ ptr_diff > 0
    BY <1>0, <1>3 DEF CountedRead, Read, Succ, ptr_diff, Pointer
  <2>2. push_count' = push_count /\ pop_count' = (pop_count + 1) % 16
    BY <1>3 DEF CountedRead, Count
  <2>3. ptr_diff \in Int
    BY <1>0 DEF ptr_diff, Pointer
  <2> QED BY <1>0, <2>1, <2>2, <2>3 DEF HarnessInv, UsedIsOccupancy, used
<1>4. CASE CountedReset
  <2>1. ptr_diff' = 0
    BY <1>4 DEF CountedReset, Reset, ptr_diff
  <2>2. push_count' = 0 /\ pop_count' = 0
    BY <1>4 DEF CountedReset
  <2> QED BY <2>1, <2>2 DEF HarnessInv, UsedIsOccupancy, used
<1>5. CASE CountedIdle \/ UNCHANGED harnessVars
  <2>1. /\ wr_ptr' = wr_ptr /\ rd_ptr' = rd_ptr
        /\ push_count' = push_count /\ pop_count' = pop_count
    BY <1>5 DEF CountedIdle, Idle, harnessVars
  <2> QED BY <1>0, <2>1 DEF HarnessInv, UsedIsOccupancy, used, ptr_diff
<1> QED BY <1>1, <1>2, <1>3, <1>4, <1>5 DEF HarnessNext

(* src/formal/fifo.sv line 93: used is the wrapped difference of the counts.  *)
THEOREM OccupancyCounted ==
  ASSUME DEPTH < CountSpace PROVE HarnessSpec => []UsedIsOccupancy
<1>1. HarnessInit => Inv /\ HarnessInv
  <2> SUFFICES ASSUME HarnessInit PROVE Inv /\ HarnessInv
    OBVIOUS
  <2>1. Inv
    BY InitInv DEF HarnessInit
  <2>2. push_count = 0 /\ pop_count = 0 /\ ptr_diff = 0
    BY DEF HarnessInit, Init, ptr_diff
  <2> QED BY <2>1, <2>2 DEF HarnessInv, UsedIsOccupancy, used, CountSpace
<1>2. Inv /\ HarnessInv /\ [HarnessNext]_harnessVars => (Inv /\ HarnessInv)'
  <2> SUFFICES ASSUME Inv, HarnessInv, [HarnessNext]_harnessVars
               PROVE  Inv' /\ HarnessInv'
    OBVIOUS
  <2>1. Inv'
    BY HarnessStep, NextInv
  <2>2. HarnessInv'
    BY <2>1, HarnessInvStep
  <2> QED BY <2>1, <2>2
<1>3. HarnessInv => UsedIsOccupancy
  BY DEF HarnessInv
<1> QED BY <1>1, <1>2, <1>3, PTL DEF HarnessSpec
=============================================================================
