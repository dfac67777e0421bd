--------------------------- MODULE AxisFifoProofs ---------------------------
(* What TLC checks of axis_fifo at depth 4, proved for every depth and every  *)
(* kind of beat.                                                              *)
EXTENDS AxisFifo, SequenceTheorems, TLAPS

(* Pointer arithmetic: incrementing stays within A_WIDTH+1 bits and the RAM   *)
(* address stays within the RAM.                                              *)
LEMMA PointerArithmetic ==
  ASSUME NEW p \in Pointer
  PROVE  /\ Succ(p) \in Pointer
         /\ Slot(p) \in 0 .. DEPTH - 1
BY DepthAssumption DEF Pointer, Succ, Slot

(* The registers start within their widths, empty and not valid.              *)
LEMMA InitInv == Init => Inv
<1> SUFFICES ASSUME Init PROVE Inv
  OBVIOUS
<1>1. ptr_diff = 0 /\ ~m_tvalid
  <2>1. wr_ptr = 0 /\ rd_ptr = 0 /\ ~m_tvalid
    BY DEF Init
  <2> QED BY <2>1 DEF ptr_diff
<1>2. TypeOK
  <2>1. wr_ptr \in Pointer /\ rd_ptr \in Pointer
    BY DepthAssumption DEF Init, Pointer
  <2>2. m_tvalid \in BOOLEAN /\ ram \in [0 .. DEPTH - 1 -> Data]
    BY Zenon DEF Init
  <2> QED BY <2>1, <2>2 DEF TypeOK
<1>3. NoOverflow
  BY <1>1, DepthAssumption DEF NoOverflow
<1>4. ValidIffNotEmpty
  BY <1>1 DEF ValidIffNotEmpty, empty
<1> QED BY <1>2, <1>3, <1>4 DEF Inv

(* Every clock edge preserves the invariant.                                  *)
LEMMA NextInv == Inv /\ [Next]_vars => Inv'
<1> SUFFICES ASSUME Inv, [Next]_vars PROVE Inv'
  OBVIOUS
<1> USE DepthAssumption
<1>1. ASSUME NEW d \in Data, WriteRead(d) PROVE Inv'
  <2>1. TypeOK'
    BY <1>1, PointerArithmetic DEF Inv, TypeOK, WriteRead, Store
  <2>2. NoOverflow' /\ ValidIffNotEmpty'
    BY <1>1 DEF Inv, TypeOK, NoOverflow, ValidIffNotEmpty, WriteRead, Store,
                Pointer, Succ, ptr_diff, empty, full, s_tready
  <2> QED BY <2>1, <2>2 DEF Inv
<1>2. ASSUME NEW d \in Data, Write(d) PROVE Inv'
  <2>1. TypeOK'
    BY <1>2, PointerArithmetic DEF Inv, TypeOK, Write, Store
  <2>2. NoOverflow' /\ ValidIffNotEmpty'
    BY <1>2 DEF Inv, TypeOK, NoOverflow, ValidIffNotEmpty, Write, Store,
                Pointer, Succ, ptr_diff, empty, full, s_tready
  <2> QED BY <2>1, <2>2 DEF Inv
<1>3. CASE Read
  <2>1. TypeOK'
    BY <1>3, PointerArithmetic DEF Inv, TypeOK, Read
  <2>2. ptr_diff' = ptr_diff - 1
    BY <1>3 DEF Inv, TypeOK, ValidIffNotEmpty, Read, Pointer, Succ, ptr_diff,
                empty
  <2>3. ptr_diff \in Int
    BY DEF Inv, TypeOK, Pointer, ptr_diff
  <2>4. m_tvalid' <=> ptr_diff > 1
    BY <1>3 DEF Read
  <2>5. ptr_diff # 0 /\ ptr_diff >= 0
    BY <1>3 DEF Inv, TypeOK, ValidIffNotEmpty, Read, Pointer, ptr_diff, empty
  <2>6. NoOverflow'
    BY <2>2, <2>3 DEF Inv, NoOverflow
  <2>7. ptr_diff > 1 <=> ~(ptr_diff' = 0)
    BY <2>2, <2>3, <2>5
  <2>8. ValidIffNotEmpty'
    BY <2>4, <2>7 DEF ValidIffNotEmpty, empty
  <2> QED BY <2>1, <2>6, <2>8 DEF Inv
<1>4. CASE Idle
  <2>1. ptr_diff' = ptr_diff
    BY <1>4 DEF Idle, ptr_diff
  <2>2. m_tvalid' <=> m_tvalid \/ ~empty
    BY <1>4 DEF Idle
  <2>3. TypeOK'
    BY <1>4 DEF Inv, TypeOK, Idle
  <2> QED BY <2>1, <2>2, <2>3 DEF Inv, NoOverflow, ValidIffNotEmpty, empty
<1>5. CASE Reset
  <2>1. wr_ptr' \in Pointer /\ rd_ptr' \in Pointer
    BY <1>5 DEF Reset, Pointer
  <2>2. m_tvalid' \in BOOLEAN /\ ~m_tvalid' /\ ram' = ram
    BY <1>5, Zenon DEF Reset
  <2>3. TypeOK'
    BY <2>1, <2>2 DEF Inv, TypeOK
  <2>4. ptr_diff' = 0
    BY <1>5 DEF Reset, ptr_diff
  <2> QED BY <2>2, <2>3, <2>4 DEF Inv, NoOverflow, ValidIffNotEmpty, empty
<1>6. CASE UNCHANGED vars
  BY <1>6 DEF vars, Inv, TypeOK, NoOverflow, ValidIffNotEmpty, ptr_diff, empty
<1> QED BY <1>1, <1>2, <1>3, <1>4, <1>5, <1>6 DEF Next

(* The inductive invariant holds in every reachable state.                    *)
THEOREM Invariance == Spec => []Inv
<1> QED BY InitInv, NextInv, PTL DEF Spec

(* Every register keeps its width, for every DEPTH.                           *)
THEOREM TypeCorrect == Spec => []TypeOK
<1>1. Inv => TypeOK
  BY DEF Inv
<1> QED BY <1>1, Invariance, PTL

(* The FIFO never holds more than DEPTH beats nor fewer than none.            *)
THEOREM NeverOverflows == Spec => []NoOverflow
<1>1. Inv => NoOverflow
  BY DEF Inv
<1> QED BY <1>1, Invariance, PTL

(* m_tvalid is exactly "not empty" after every edge.                          *)
THEOREM ValidMeansNotEmpty == Spec => []ValidIffNotEmpty
<1>1. Inv => ValidIffNotEmpty
  BY DEF Inv
<1> QED BY <1>1, Invariance, PTL

-----------------------------------------------------------------------------
(* The slot a write fills is the one on offer only when the FIFO is empty or  *)
(* full, and a write needs it not to be full.                                 *)
LEMMA WriteMissesHead ==
  ASSUME Inv, m_tvalid, s_tready
  PROVE  Slot(wr_ptr) # Slot(rd_ptr)
BY DepthAssumption DEF Inv, TypeOK, ValidIffNotEmpty, NoOverflow, Pointer, Slot,
                       ptr_diff, empty, full, s_tready

(* A beat on offer and not taken stays on offer, unchanged.                   *)
THEOREM OutputHeld == Spec => HoldData
<1>1. ASSUME Inv, [Next]_vars, m_tvalid, rd_ptr' = rd_ptr, ~Reset
      PROVE  m_tvalid' /\ m_tdata' = m_tdata
  <2> USE DepthAssumption
  <2>1. rd_ptr # Succ(rd_ptr)
    BY <1>1 DEF Inv, TypeOK, Pointer, Succ
  <2>2. ASSUME NEW d \in Data, Write(d) PROVE m_tvalid' /\ m_tdata' = m_tdata
    <3>1. Slot(wr_ptr) # Slot(rd_ptr)
      BY <1>1, <2>2, WriteMissesHead DEF Write
    <3>2. Slot(rd_ptr) \in 0 .. DEPTH - 1
      BY <1>1, PointerArithmetic DEF Inv, TypeOK
    <3> QED BY <1>1, <2>2, <3>1, <3>2 DEF Write, Store, m_tdata, Inv, TypeOK
  <2>3. CASE Idle
    BY <1>1, <2>3 DEF Idle, m_tdata
  <2>4. CASE UNCHANGED vars
    BY <1>1, <2>4 DEF vars, m_tdata
  <2> QED BY <1>1, <2>1, <2>2, <2>3, <2>4 DEF Next, WriteRead, Read
<1>2. Inv /\ [Next]_vars
        => [m_tvalid /\ rd_ptr' = rd_ptr /\ ~Reset
              => m_tvalid' /\ m_tdata' = m_tdata]_vars
  BY <1>1
<1> QED BY <1>2, Invariance, PTL DEF Spec, HoldData
-----------------------------------------------------------------------------
(* Refinement of BoundedFifo.                                                 *)

(* Every entry the mapping reads is a stored beat.                            *)
LEMMA AtIsData ==
  ASSUME Inv, NEW i \in 1 .. ptr_diff
  PROVE  At(i) \in Data
<1>1. Wrap(rd_ptr + i - 1) \in Pointer
  BY DepthAssumption DEF Inv, TypeOK, NoOverflow, Pointer, Wrap, ptr_diff
<1>2. Slot(Wrap(rd_ptr + i - 1)) \in 0 .. DEPTH - 1
  BY <1>1, PointerArithmetic
<1> QED BY <1>2 DEF At, Inv, TypeOK

(* The queue the registers stand for is a sequence as long as `used' says.    *)
ContentsOK == /\ Contents \in Seq(Data)
              /\ Len(Contents) = ptr_diff
              /\ \A i \in 1 .. ptr_diff : Contents[i] = At(i)
              /\ ptr_diff \in 0 .. DEPTH

LEMMA ContentsIsSeq == Inv => ContentsOK
<1> SUFFICES ASSUME Inv PROVE ContentsOK
  OBVIOUS
<1>1. ptr_diff \in 0 .. DEPTH
  BY DepthAssumption DEF Inv, TypeOK, NoOverflow, Pointer, ptr_diff
<1>2. \A i \in 1 .. ptr_diff : At(i) \in Data
  BY AtIsData
<1> QED BY <1>1, <1>2 DEF ContentsOK, Contents

(* Two sequences that agree in length and in every element are the same, put  *)
(* for a queue that grows by one: the step from registers to Append.          *)
LEMMA GrowsByOne ==
  ASSUME NEW s \in Seq(Data), NEW t \in Seq(Data), NEW d \in Data,
         Len(t) = Len(s) + 1,
         \A i \in 1 .. Len(s) : t[i] = s[i],
         t[Len(s) + 1] = d
  PROVE  t = Append(s, d)
<1>1. /\ Append(s, d) \in Seq(Data) /\ Len(Append(s, d)) = Len(s) + 1
      /\ \A i \in 1 .. Len(s) : Append(s, d)[i] = s[i]
      /\ Append(s, d)[Len(s) + 1] = d
  BY AppendProperties
<1>2. \A i \in 1 .. Len(t) : t[i] = Append(s, d)[i]
  BY <1>1
<1> QED BY <1>1, <1>2, SeqEqual

(* The same for a queue whose head leaves.                                    *)
LEMMA LosesItsHead ==
  ASSUME NEW s \in Seq(Data), NEW t \in Seq(Data), s # <<>>,
         Len(t) = Len(s) - 1,
         \A i \in 1 .. Len(t) : t[i] = s[i + 1]
  PROVE  t = Tail(s)
<1>1. /\ Tail(s) \in Seq(Data) /\ Len(Tail(s)) = Len(s) - 1
      /\ \A i \in 1 .. Len(Tail(s)) : Tail(s)[i] = s[i + 1]
  BY HeadTailProperties
<1> QED BY <1>1, SeqEqual

(* The mapping after the step, with the prime pushed down to the registers.   *)
LEMMA AtPrime ==
  ASSUME NEW i \in Int
  PROVE  At(i)' = ram'[Slot(Wrap(rd_ptr' + i - 1))]
BY Zenon DEF At, Slot, Wrap

(* Where the entry that a write stores lands.                                 *)
LEMMA StoreAtTail ==
  ASSUME Inv, NEW d \in Data, s_tready, Store(d),
         NEW k \in 1 .. DEPTH, k = ptr_diff + 1
  PROVE  /\ rd_ptr' = rd_ptr => At(k)' = d
         /\ rd_ptr' = Succ(rd_ptr) /\ m_tvalid => At(k - 1)' = d
<1> USE DepthAssumption
<1>1. wr_ptr \in Pointer /\ rd_ptr \in Pointer
  BY DEF Inv, TypeOK
<1>2. ram'[Slot(wr_ptr)] = d
  BY <1>1, PointerArithmetic DEF Inv, TypeOK, Store
<1>3. Wrap(rd_ptr + k - 1) = wr_ptr
  BY <1>1 DEF Pointer, Wrap, ptr_diff
<1>4. Wrap(Succ(rd_ptr) + (k - 1) - 1) = wr_ptr \/ k = 1
  BY <1>1 DEF Pointer, Wrap, Succ, ptr_diff
<1>5. m_tvalid => k # 1
  <2>1. ptr_diff \in Int
    BY <1>1 DEF Pointer, ptr_diff
  <2>2. m_tvalid => ptr_diff # 0
    BY DEF Inv, ValidIffNotEmpty, empty
  <2> QED BY <2>1, <2>2
<1> QED BY <1>2, <1>3, <1>4, <1>5, AtPrime

(* A write disturbs no stored beat.                                           *)
LEMMA StoreKeepsRest ==
  ASSUME Inv, NEW d \in Data, s_tready, Store(d),
         NEW k \in 1 .. DEPTH, k <= ptr_diff
  PROVE  /\ rd_ptr' = rd_ptr => At(k)' = At(k)
         /\ rd_ptr' = Succ(rd_ptr) /\ k > 1 => At(k - 1)' = At(k)
<1> USE DepthAssumption
<1> DEFINE p == Wrap(rd_ptr + k - 1)
<1>1. wr_ptr \in Pointer /\ rd_ptr \in Pointer /\ p \in Pointer
  BY DEF Inv, TypeOK, Pointer, Wrap
<1>2. Slot(p) # Slot(wr_ptr)
  BY <1>1 DEF Inv, NoOverflow, s_tready, full, ptr_diff, Pointer, Slot, Wrap
<1>3. Slot(p) \in 0 .. DEPTH - 1
  BY <1>1, PointerArithmetic
<1>4. ram'[Slot(p)] = ram[Slot(p)]
  BY <1>2, <1>3 DEF Store, Inv, TypeOK
<1>5. k > 1 => Wrap(Succ(rd_ptr) + (k - 1) - 1) = p
  BY <1>1 DEF Pointer, Wrap, Succ
<1> QED BY <1>4, <1>5, AtPrime DEF At

(* A write without a read appends the beat written.                           *)
LEMMA WriteAppends ==
  ASSUME Inv, Inv', NEW d \in Data, Write(d)
  PROVE  Contents' = Append(Contents, d)
<1> USE DepthAssumption
<1>1. ptr_diff' = ptr_diff + 1 /\ ptr_diff \in 0 .. DEPTH - 1
  BY DEF Inv, TypeOK, NoOverflow, Write, Store, s_tready, full, Pointer, Succ,
         ptr_diff
<1>2. ContentsOK /\ ContentsOK'
  BY ContentsIsSeq, PTL
<1>3. ASSUME NEW i \in 1 .. DEPTH, i <= ptr_diff PROVE Contents'[i] = Contents[i]
  BY <1>1, <1>2, <1>3, StoreKeepsRest DEF ContentsOK, Write
<1>4. ASSUME NEW i \in 1 .. DEPTH, i = ptr_diff + 1 PROVE Contents'[i] = d
  BY <1>1, <1>2, <1>4, StoreAtTail DEF ContentsOK, Write
<1> QED BY <1>1, <1>2, <1>3, <1>4, GrowsByOne DEF ContentsOK

(* A read without a write removes the head.                                   *)
LEMMA ReadRemovesHead ==
  ASSUME Inv, Inv', Read
  PROVE  Contents # <<>> /\ Contents' = Tail(Contents)
<1> USE DepthAssumption
<1>1. wr_ptr \in Pointer /\ rd_ptr \in Pointer /\ ptr_diff # 0
  BY DEF Inv, TypeOK, ValidIffNotEmpty, empty, Read
<1>2. ptr_diff' = ptr_diff - 1 /\ ptr_diff \in 1 .. DEPTH
  BY <1>1 DEF Inv, NoOverflow, Read, Pointer, Succ, ptr_diff
<1>3. ContentsOK /\ ContentsOK'
  BY ContentsIsSeq, PTL
<1>4. ASSUME NEW i \in 1 .. DEPTH, i <= ptr_diff - 1
      PROVE  Contents'[i] = Contents[i + 1]
  <2>1. Wrap(Succ(rd_ptr) + i - 1) = Wrap(rd_ptr + (i + 1) - 1)
    BY <1>1, <1>2, <1>4 DEF Pointer, Wrap, Succ
  <2>2. At(i)' = At(i + 1)
    BY <2>1, AtPrime DEF At, Read
  <2> QED BY <1>2, <1>3, <1>4, <2>2 DEF ContentsOK
<1>5. Contents # <<>>
  BY <1>2, <1>3 DEF ContentsOK
<1> QED BY <1>2, <1>3, <1>4, <1>5, LosesItsHead DEF ContentsOK

(* A simultaneous read and write removes the head and appends the new beat,   *)
(* although the occupancy and m_tvalid do not change.                         *)
LEMMA WriteReadRotates ==
  ASSUME Inv, Inv', NEW d \in Data, WriteRead(d)
  PROVE  Contents # <<>> /\ Contents' = Append(Tail(Contents), d)
<1> USE DepthAssumption
<1>1. wr_ptr \in Pointer /\ rd_ptr \in Pointer /\ ptr_diff # 0
  BY DEF Inv, TypeOK, ValidIffNotEmpty, empty, WriteRead
<1>2. ptr_diff' = ptr_diff /\ ptr_diff \in 1 .. DEPTH - 1
  BY <1>1 DEF Inv, NoOverflow, WriteRead, Store, s_tready, full, Pointer, Succ,
              ptr_diff
<1>3. ContentsOK /\ ContentsOK'
  BY ContentsIsSeq, PTL
<1>4. Contents # <<>>
  BY <1>2, <1>3 DEF ContentsOK
<1>5. /\ Tail(Contents) \in Seq(Data) /\ Len(Tail(Contents)) = ptr_diff - 1
      /\ \A i \in 1 .. ptr_diff - 1 : Tail(Contents)[i] = Contents[i + 1]
  BY <1>3, <1>4, HeadTailProperties DEF ContentsOK
<1>6. ASSUME NEW i \in 1 .. DEPTH, i <= ptr_diff - 1
      PROVE  Contents'[i] = Tail(Contents)[i]
  <2>1. At((i + 1) - 1)' = At(i + 1)
    BY <1>2, <1>6, StoreKeepsRest DEF WriteRead
  <2>2. At(i)' = At(i + 1)
    BY <2>1, AtPrime
  <2> QED BY <1>2, <1>3, <1>5, <1>6, <2>2 DEF ContentsOK
<1>7. ASSUME NEW i \in 1 .. DEPTH, i = ptr_diff PROVE Contents'[i] = d
  <2>1. At((i + 1) - 1)' = d
    BY <1>2, <1>7, StoreAtTail DEF WriteRead
  <2>2. At(i)' = d
    BY <2>1, AtPrime
  <2> QED BY <1>2, <1>3, <1>7, <2>2 DEF ContentsOK
<1> QED BY <1>2, <1>3, <1>4, <1>5, <1>6, <1>7, GrowsByOne DEF ContentsOK

(* axis_fifo implements the bounded channel: beats leave in the order they    *)
(* were accepted, none is lost, none is delivered twice.                      *)
THEOREM Refinement == Spec => ImplementsChannel
<1>1. Init => Channel!Init
  <2> SUFFICES ASSUME Init PROVE Contents = <<>>
    BY DEF Channel!Init
  <2>1. ptr_diff = 0
    <3>1. wr_ptr = 0 /\ rd_ptr = 0
      BY DEF Init
    <3> QED BY <3>1 DEF ptr_diff
  <2> QED BY <2>1 DEF Contents
<1>2. Inv /\ Inv' /\ [Next]_vars => [Channel!Next]_Contents
  <2> SUFFICES ASSUME Inv, Inv', [Next]_vars
               PROVE  Channel!Next \/ Contents' = Contents
    OBVIOUS
  <2> USE DepthAssumption
  <2>1. ASSUME NEW d \in Data, WriteRead(d) PROVE Channel!PushPop(d)
    BY <2>1, WriteReadRotates DEF Channel!PushPop
  <2>2. ASSUME NEW d \in Data, Write(d) PROVE Channel!Push(d)
    <3>1. Len(Contents) < DEPTH
      <4>1. ContentsOK
        BY ContentsIsSeq
      <4> QED BY <2>2, <4>1 DEF ContentsOK, Write, s_tready, full
    <3> QED BY <2>2, <3>1, WriteAppends DEF Channel!Push
  <2>3. ASSUME Read PROVE Channel!Pop
    BY <2>3, ReadRemovesHead DEF Channel!Pop
  <2>4. ASSUME Idle PROVE Contents' = Contents
    BY <2>4 DEF Idle, Contents, At, ptr_diff, Slot, Wrap
  <2>5. ASSUME Reset PROVE Channel!Reset
    <3>1. ptr_diff' = 0
      BY <2>5 DEF Reset, ptr_diff
    <3>2. Contents' = <<>>
      BY <3>1 DEF Contents
    <3> QED BY <3>2 DEF Channel!Reset
  <2>6. ASSUME UNCHANGED vars PROVE Contents' = Contents
    BY <2>6 DEF vars, Contents, At, ptr_diff, Slot, Wrap
  <2> QED BY <2>1, <2>2, <2>3, <2>4, <2>5, <2>6 DEF Next, Channel!Next
<1> QED BY <1>1, <1>2, Invariance, PTL DEF Spec, Channel!Spec, ImplementsChannel
=============================================================================
