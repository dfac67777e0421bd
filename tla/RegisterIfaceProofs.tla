------------------------ MODULE RegisterIfaceProofs ------------------------
(* Safety of register_iface for every register file, counter map, data set    *)
(* and mix of masters.                                                        *)
EXTENDS RegisterIface, TLAPS

(* A write that was stored is not stored again: either both halves have been  *)
(* accepted, or the machine is in W_RESP and about to accept them.  Its       *)
(* register keeps the value.                                                  *)
StoredOnce ==
  wr.taken # 0 =>
    /\ wr.taken = 1
    /\ wr.aw \in {"offered", "accepted"} /\ wr.w \in {"offered", "accepted"}
    /\ \/ Accepted(wr)
       \/ /\ wstate = "W_RESP"
          /\ wr.aw = "offered" => awready
          /\ wr.w = "offered" => wready
    /\ wr.addr \in Reg => regs[wr.addr] = wr.data

(* Offered together, the halves stay together; ready means stored. *)
HalvesTogether ==
  ~master.apart =>
    /\ wr.aw = wr.w /\ wr.aw # "unsent"
    /\ awready <=> wready
    /\ awready => wstate = "W_RESP" /\ wr.aw = "offered" /\ wr.taken = 1
    /\ wr.aw = "accepted" => wr.taken = 1

(* A response on its way belongs to the write now with the master. *)
ResponseIsOwn ==
  ~master.delays =>
    /\ wr.answers <= wr.taken
    /\ wstate = "W_RESP" => wr.taken = 1 /\ wr.answers = 0 /\ ~bvalid
    /\ bvalid => wr.taken = 1 /\ wr.answers = 0 /\ wstate = "W_IDLE" /\ Accepted(wr)

(* R_DATA is the state of a read that was seen and has not been taken. *)
ReadIsOwn ==
  /\ rstate = "R_DATA" <=> ((rd.ar = "offered" /\ arready) \/ rd.ar = "accepted")
  /\ arready => rd.ar = "offered"
  /\ rstate = "R_DATA" => rvalid /\ rdata \in rd.held
  /\ rd.ar # "none" => read_mux(cnt, regs, rd.addr) \in rd.held

Inv == TypeOK /\ StoredOnce /\ HalvesTogether /\ ResponseIsOwn /\ ReadIsOwn

-----------------------------------------------------------------------------
(* What an edge does to the master's write: it goes on, or the next begins.   *)
Continues(bready) ==
  /\ wr'.addr = wr.addr /\ wr'.data = wr.data
  /\ wr'.aw \in May(AfterHandshake(wr.aw, awready))
  /\ wr'.w \in May(AfterHandshake(wr.w, wready))
  /\ wr'.taken = CountTo2(wr.taken, Stores)
  /\ wr'.answers = CountTo2(wr.answers, bvalid /\ bready)

Begins(bready) ==
  /\ Finished(WriteAfter(bready))
  /\ wr' \in NewWrites

LEMMA WriteGoesOnOrBegins ==
  ASSUME TypeOK, NEW bready \in BOOLEAN, MasterWrite(bready)
  PROVE  Continues(bready) \/ Begins(bready)
<1> DEFINE after == WriteAfter(bready)
<1>1. CASE \E a \in May(after.aw), d \in May(after.w) : wr' = [after EXCEPT !.aw = a, !.w = d]
  <2>1. PICK a \in May(after.aw), d \in May(after.w) : wr' = [after EXCEPT !.aw = a, !.w = d]
    BY <1>1
  <2>2. /\ after.aw = AfterHandshake(wr.aw, awready)
        /\ after.w = AfterHandshake(wr.w, wready)
        /\ after.taken = CountTo2(wr.taken, Stores)
        /\ after.answers = CountTo2(wr.answers, bvalid /\ bready)
        /\ after.addr = wr.addr /\ after.data = wr.data
        /\ DOMAIN after = {"addr", "data", "aw", "w", "taken", "answers"}
    BY DEF TypeOK, WriteAfter
  <2> HIDE DEF after
  <2>3. /\ wr'.aw = a /\ wr'.w = d
        /\ wr'.addr = after.addr /\ wr'.data = after.data
        /\ wr'.taken = after.taken /\ wr'.answers = after.answers
    BY <2>1, <2>2
  <2> QED BY <2>1, <2>2, <2>3 DEF Continues
<1>2. CASE Finished(after) /\ wr' \in NewWrites
  BY <1>2 DEF Begins
<1> QED BY <1>1, <1>2 DEF MasterWrite

LEMMA NewWriteIsFresh ==
  ASSUME TypeOK, NEW bready \in BOOLEAN, Begins(bready)
  PROVE  /\ wr' \in [addr : Addr, data : Data, aw : Phase, w : Phase,
                     taken : 0 .. 2, answers : 0 .. 2]
         /\ wr'.taken = 0 /\ wr'.answers = 0
         /\ wr'.aw \in {"offered", "unsent"}
         /\ ~master.apart => wr'.aw = "offered" /\ wr'.w = "offered"
<1>1. PICK a \in Addr, d \in Data, p \in FirstOffer :
        wr' = [addr |-> a, data |-> d, aw |-> p[1], w |-> p[2], taken |-> 0, answers |-> 0]
  BY DEF Begins, NewWrites
<1>2. /\ p[1] \in {"offered", "unsent"} /\ p[2] \in {"offered", "unsent"}
      /\ ~master.apart => p[1] = "offered" /\ p[2] = "offered"
  BY DEF FirstOffer
<1> QED BY <1>1, <1>2 DEF Phase

(* A write begins only when the one before has been accepted and answered.    *)
LEMMA BeginsWhenDone ==
  ASSUME TypeOK, NEW bready \in BOOLEAN, Begins(bready)
  PROVE  \/ wr.aw = "none"
         \/ /\ AfterHandshake(wr.aw, awready) = "accepted"
            /\ AfterHandshake(wr.w, wready) = "accepted"
            /\ CountTo2(wr.answers, bvalid /\ bready) >= 1
<1>1. /\ WriteAfter(bready).aw = AfterHandshake(wr.aw, awready)
      /\ WriteAfter(bready).w = AfterHandshake(wr.w, wready)
      /\ WriteAfter(bready).answers = CountTo2(wr.answers, bvalid /\ bready)
  BY DEF TypeOK, WriteAfter
<1>2. AfterHandshake(wr.aw, awready) = "none" => wr.aw = "none"
  BY DEF AfterHandshake
<1> QED BY <1>1, <1>2 DEF Begins, Finished, Accepted

LEMMA ContinuesType ==
  ASSUME TypeOK, NEW bready \in BOOLEAN, MasterWrite(bready)
  PROVE  wr' \in [addr : Addr, data : Data, aw : Phase, w : Phase,
                  taken : 0 .. 2, answers : 0 .. 2]
<1> DEFINE after == WriteAfter(bready)
<1>1. after \in [addr : Addr, data : Data, aw : Phase, w : Phase,
                 taken : 0 .. 2, answers : 0 .. 2]
  <2>1. /\ AfterHandshake(wr.aw, awready) \in Phase
        /\ AfterHandshake(wr.w, wready) \in Phase
    BY DEF TypeOK, AfterHandshake, Phase
  <2>2. /\ CountTo2(wr.taken, Stores) \in 0 .. 2
        /\ CountTo2(wr.answers, bvalid /\ bready) \in 0 .. 2
    BY DEF TypeOK, CountTo2
  <2> QED BY <2>1, <2>2 DEF TypeOK, WriteAfter
<1>2. May(after.aw) \subseteq Phase /\ May(after.w) \subseteq Phase
  BY <1>1 DEF May, Phase
<1>3. CASE Begins(bready)
  BY <1>3, NewWriteIsFresh
<1>4. CASE \E a \in May(after.aw), d \in May(after.w) : wr' = [after EXCEPT !.aw = a, !.w = d]
  <2> HIDE DEF after
  <2> QED BY <1>1, <1>2, <1>4
<1> QED BY <1>3, <1>4 DEF MasterWrite, Begins

-----------------------------------------------------------------------------
LEMMA NoWriteType == NoWrite \in [addr : Addr, data : Data, aw : Phase, w : Phase,
                                  taken : 0 .. 2, answers : 0 .. 2]
<1>1. (CHOOSE a \in Addr : TRUE) \in Addr
  BY InterfaceAssumption DEF Addr
<1> QED BY <1>1, InterfaceAssumption DEF NoWrite, Phase

LEMMA NoReadType == NoRead \in [addr : Addr, ar : Phase \ {"unsent"}, held : SUBSET Data]
<1>1. (CHOOSE a \in Addr : TRUE) \in Addr
  BY InterfaceAssumption DEF Addr
<1> QED BY <1>1 DEF NoRead, Phase

LEMMA MuxType ==
  ASSUME NEW counters \in [Stat -> Data], NEW file \in [Reg -> Data], NEW a
  PROVE  read_mux(counters, file, a) \in Data
BY InterfaceAssumption DEF read_mux

LEMMA InitInv == Init => Inv
<1> SUFFICES ASSUME Init PROVE Inv OBVIOUS
<1>1. TypeOK
  <2>1. {awready, wready, bvalid, arready, rvalid} \subseteq BOOLEAN
    BY DEF Init
  <2> QED BY <2>1, NoWriteType, NoReadType, InterfaceAssumption DEF Init, TypeOK
<1>2. StoredOnce /\ HalvesTogether /\ ResponseIsOwn
  BY DEF Init, NoWrite, StoredOnce, HalvesTogether, ResponseIsOwn
<1>3. ReadIsOwn
  BY DEF Init, NoRead, ReadIsOwn
<1> QED BY <1>1, <1>2, <1>3 DEF Inv

LEMMA ResetInv == Inv /\ Reset => Inv'
<1> SUFFICES ASSUME Inv, Reset PROVE Inv' OBVIOUS
<1>1. TypeOK'
  <2>1. {awready, wready, bvalid, arready, rvalid}' \subseteq BOOLEAN
    BY DEF Reset
  <2>2. master' \in Masters
    BY DEF Inv, TypeOK, Reset
  <2> QED BY <2>1, <2>2, NoWriteType, NoReadType, InterfaceAssumption DEF Reset, TypeOK
<1>2. (StoredOnce /\ HalvesTogether /\ ResponseIsOwn)'
  BY DEF Reset, NoWrite, StoredOnce, HalvesTogether, ResponseIsOwn
<1>3. ReadIsOwn'
  BY DEF Reset, NoRead, ReadIsOwn
<1> QED BY <1>1, <1>2, <1>3 DEF Inv

-----------------------------------------------------------------------------
LEMMA ReadType ==
  ASSUME TypeOK, cnt' \in [Stat -> Data], regs' \in [Reg -> Data],
         NEW rready \in BOOLEAN, MasterRead(rready)
  PROVE  rd' \in [addr : Addr, ar : Phase \ {"unsent"}, held : SUBSET Data]
<1>1. \A a : read_mux(cnt', regs', a) \in Data
  BY MuxType
<1>2. CASE rd' = NoRead
  BY <1>2, NoReadType
<1>3. CASE \E a \in Addr : rd' = [addr |-> a, ar |-> "offered", held |-> {read_mux(cnt', regs', a)}]
  BY <1>1, <1>3 DEF Phase
<1>4. CASE rd' = [rd EXCEPT !.ar = AfterHandshake(@, arready),
                            !.held = @ \cup {read_mux(cnt', regs', rd.addr)}]
  <2>1. AfterHandshake(rd.ar, arready) \in Phase \ {"unsent"}
    BY DEF TypeOK, AfterHandshake, Phase
  <2> QED BY <1>1, <1>4, <2>1 DEF TypeOK
<1> QED BY <1>2, <1>3, <1>4 DEF MasterRead

LEMMA ClockType ==
  ASSUME TypeOK, NEW bready \in BOOLEAN, NEW rready \in BOOLEAN, Clock(bready, rready)
  PROVE  TypeOK'
<1>1. regs' \in [Reg -> Data]
  BY DEF TypeOK, Clock, WriteMachine, regs_next
<1>2. cnt' \in [Stat -> Data] /\ master' \in Masters
  BY DEF TypeOK, Clock
<1>3. wstate' \in {"W_IDLE", "W_RESP"} /\ rstate' \in {"R_IDLE", "R_DATA"}
  BY DEF TypeOK, Clock, WriteMachine, ReadMachine
<1>4. awready' \in BOOLEAN /\ wready' \in BOOLEAN /\ bvalid' \in BOOLEAN
  BY Zenon DEF Clock, WriteMachine
<1>5. arready' \in BOOLEAN /\ rvalid' \in BOOLEAN
  BY Zenon DEF Clock, ReadMachine, Reads
<1>6. rdata' \in Data
  BY MuxType DEF TypeOK, Clock, ReadMachine, rdata_next
<1>7. wr' \in [addr : Addr, data : Data, aw : Phase, w : Phase,
               taken : 0 .. 2, answers : 0 .. 2]
  BY ContinuesType DEF Clock
<1>8. rd' \in [addr : Addr, ar : Phase \ {"unsent"}, held : SUBSET Data]
  BY <1>1, <1>2, ReadType DEF Clock
<1>9. {awready, wready, bvalid, arready, rvalid}' \subseteq BOOLEAN
  BY <1>4, <1>5, Zenon
<1> QED BY <1>1, <1>2, <1>3, <1>6, <1>7, <1>8, <1>9 DEF TypeOK

-----------------------------------------------------------------------------
(* The flags after an edge, as formulas. *)
LEMMA FlagsAfter ==
  ASSUME NEW bready, NEW rready, Clock(bready, rready)
  PROVE  /\ awready' <=> (wstate = "W_IDLE" /\ awvalid)
         /\ wready' <=> (wstate = "W_IDLE" /\ wvalid)
         /\ bvalid' <=> (wstate = "W_RESP")
         /\ arready' <=> Reads
         /\ rvalid' <=> (Reads \/ rstate = "R_DATA")
BY Zenon DEF Clock, WriteMachine, ReadMachine

(* Without a store the file stays; a store puts the data at its address.      *)
LEMMA FileAfter ==
  ASSUME TypeOK, NEW bready, WriteMachine(bready)
  PROVE  /\ ~Stores => regs' = regs
         /\ Stores /\ wr.addr \in Reg => regs'[wr.addr] = wr.data
BY DEF TypeOK, WriteMachine, regs_next

LEMMA StoredOnceStep ==
  ASSUME Inv, NEW bready \in BOOLEAN, NEW rready \in BOOLEAN, Clock(bready, rready)
  PROVE  StoredOnce'
<1>1. CASE Begins(bready)
  BY <1>1, NewWriteIsFresh DEF Inv, StoredOnce
<1>2. CASE Continues(bready) /\ Stores
  <2>1. wr.taken = 0 /\ wr'.taken = 1
    BY <1>2 DEF Inv, TypeOK, StoredOnce, Continues, Stores, Accepted, CountTo2, awvalid, wvalid
  <2>2. awready' /\ wready' /\ wstate' = "W_RESP"
    BY <1>2, FlagsAfter DEF Clock, WriteMachine, Stores
  <2>3. wr'.aw \in {"offered", "accepted"} /\ wr'.w \in {"offered", "accepted"}
    BY <1>2 DEF Continues, Stores, May, AfterHandshake, awvalid, wvalid
  <2>4. wr'.addr \in Reg => regs'[wr'.addr] = wr'.data
    BY <1>2, FileAfter DEF Inv, Clock, Continues
  <2> QED BY <2>1, <2>2, <2>3, <2>4 DEF StoredOnce
<1>3. CASE Continues(bready) /\ ~Stores /\ wr.taken # 0
  <2>1. wr'.taken = wr.taken /\ regs' = regs /\ wr'.addr = wr.addr /\ wr'.data = wr.data
    BY <1>3, FileAfter DEF Inv, Clock, Continues, CountTo2
  <2>2. wr'.aw = "accepted" /\ wr'.w = "accepted"
    BY <1>3 DEF Inv, StoredOnce, Continues, Accepted, May, AfterHandshake
  <2> QED BY <1>3, <2>1, <2>2 DEF Inv, StoredOnce, Accepted
<1>4. CASE Continues(bready) /\ ~Stores /\ wr.taken = 0
  BY <1>4 DEF Continues, CountTo2, StoredOnce
<1> QED BY <1>1, <1>2, <1>3, <1>4, WriteGoesOnOrBegins DEF Inv, Clock

LEMMA HalvesTogetherStep ==
  ASSUME Inv, NEW bready \in BOOLEAN, NEW rready \in BOOLEAN, Clock(bready, rready)
  PROVE  HalvesTogether'
<1> SUFFICES ASSUME ~master.apart, master' = master
             PROVE  /\ wr'.aw = wr'.w /\ wr'.aw # "unsent"
                    /\ awready' <=> wready'
                    /\ awready' => wstate' = "W_RESP" /\ wr'.aw = "offered" /\ wr'.taken = 1
                    /\ wr'.aw = "accepted" => wr'.taken = 1
  BY DEF Clock, HalvesTogether
<1>1. /\ wr.aw = wr.w /\ wr.aw # "unsent"
      /\ awready <=> wready
      /\ awready => wstate = "W_RESP" /\ wr.aw = "offered" /\ wr.taken = 1
      /\ wr.aw = "accepted" => wr.taken = 1
  BY DEF Inv, HalvesTogether
<1>2. awready' <=> Stores
  BY <1>1, FlagsAfter DEF Stores, awvalid, wvalid
<1>3. wready' <=> Stores
  BY <1>1, FlagsAfter DEF Stores, awvalid, wvalid
<1>4. AfterHandshake(wr.aw, awready) = AfterHandshake(wr.w, wready)
  BY <1>1 DEF AfterHandshake
<1>5. CASE Begins(bready)
  <2>1. ~Stores
    BY <1>1, <1>5, BeginsWhenDone DEF Inv, AfterHandshake, Stores, awvalid
  <2> QED BY <1>2, <1>3, <1>5, <2>1, NewWriteIsFresh DEF Inv
<1>6. CASE Continues(bready)
  <2>1. /\ wr'.aw = wr'.w /\ wr'.aw # "unsent"
        /\ wr'.aw = AfterHandshake(wr.aw, awready)
    BY <1>1, <1>4, <1>6 DEF Continues, May, AfterHandshake
  <2>2. CASE Stores
    <3>1. ~awready /\ wr'.aw = "offered"
      BY <1>1, <2>1, <2>2 DEF Stores, AfterHandshake, awvalid
    <3>2. wr'.taken = 1
      BY <1>6, <2>2 DEF Inv, TypeOK, StoredOnce, Continues, Stores, Accepted, CountTo2, awvalid, wvalid
    <3>3. wstate' = "W_RESP"
      BY <2>2 DEF Clock, WriteMachine
    <3> QED BY <1>2, <1>3, <2>1, <3>1, <3>2, <3>3
  <2>3. CASE ~Stores
    <3>1. wr'.taken = wr.taken
      BY <1>6, <2>3 DEF Continues, CountTo2
    <3>2. wr'.aw = "accepted" => wr.taken = 1
      BY <1>1, <2>1 DEF AfterHandshake
    <3> QED BY <1>2, <1>3, <2>1, <2>3, <3>1, <3>2
  <2> QED BY <2>2, <2>3
<1> QED BY <1>5, <1>6, WriteGoesOnOrBegins DEF Inv, Clock

LEMMA ResponseIsOwnStep ==
  ASSUME Inv, NEW bready \in Readiness, NEW rready \in Readiness, Clock(bready, rready)
  PROVE  ResponseIsOwn'
<1> SUFFICES ASSUME ~master.delays, master' = master, bready = TRUE
             PROVE  /\ wr'.answers <= wr'.taken
                    /\ wstate' = "W_RESP" => wr'.taken = 1 /\ wr'.answers = 0 /\ ~bvalid'
                    /\ bvalid' => /\ wr'.taken = 1 /\ wr'.answers = 0
                                  /\ wstate' = "W_IDLE" /\ Accepted(wr')
  BY DEF Clock, ResponseIsOwn, Readiness
<1>1. /\ wr.answers <= wr.taken
      /\ wstate = "W_RESP" => wr.taken = 1 /\ wr.answers = 0 /\ ~bvalid
      /\ bvalid => wr.taken = 1 /\ wr.answers = 0 /\ wstate = "W_IDLE" /\ Accepted(wr)
  BY DEF Inv, ResponseIsOwn
<1>2. wstate' = IF Stores THEN "W_RESP" ELSE "W_IDLE"
  BY DEF Inv, TypeOK, Clock, WriteMachine, LeavesResponse
<1>3. bvalid' <=> wstate = "W_RESP"
  BY FlagsAfter
<1>4. CASE Begins(bready)
  <2>1. wr.aw = "none" \/ bvalid \/ wr.answers >= 1
    BY <1>4, BeginsWhenDone DEF Inv, CountTo2
  <2>2. wstate # "W_RESP"
    BY <1>1, <2>1 DEF Inv, StoredOnce
  <2>3. ~Stores
    <3>1. CASE wr.aw = "none"
      BY <3>1 DEF Stores, awvalid
    <3>2. CASE bvalid
      BY <1>1, <3>2 DEF Accepted, Stores, awvalid
    <3>3. CASE wr.answers >= 1
      BY <1>1, <2>2, <3>3 DEF Inv, TypeOK, StoredOnce, Accepted, Stores, awvalid
    <3> QED BY <2>1, <3>1, <3>2, <3>3
  <2>4. wr'.taken = 0 /\ wr'.answers = 0
    BY <1>4, NewWriteIsFresh DEF Inv
  <2> QED BY <1>2, <1>3, <2>2, <2>3, <2>4
<1>5. CASE Continues(bready) /\ Stores
  <2>1. wr.taken = 0 /\ wr'.taken = 1
    BY <1>5 DEF Inv, TypeOK, StoredOnce, Continues, Stores, Accepted, CountTo2, awvalid, wvalid
  <2>2. wr.answers = 0 /\ ~bvalid /\ wstate = "W_IDLE"
    BY <1>1, <1>5, <2>1 DEF Inv, TypeOK, Stores
  <2>3. wr'.answers = 0
    BY <1>5, <2>2 DEF Continues, CountTo2
  <2> QED BY <1>2, <1>3, <1>5, <2>1, <2>2, <2>3
<1>6. CASE Continues(bready) /\ ~Stores /\ wstate = "W_RESP"
  <2>1. wr'.taken = 1 /\ wr'.answers = 0
    BY <1>1, <1>6 DEF Continues, CountTo2
  <2>2. Accepted(wr')
    BY <1>1, <1>6 DEF Inv, StoredOnce, Continues, Accepted, May, AfterHandshake
  <2> QED BY <1>2, <1>3, <1>6, <2>1, <2>2
<1>7. CASE Continues(bready) /\ ~Stores /\ wstate # "W_RESP"
  <2>1. wr'.taken = wr.taken
    BY <1>7 DEF Continues, CountTo2
  <2>2. wr'.answers <= wr.taken
    <3>1. CASE bvalid
      BY <1>1, <1>7, <3>1 DEF Continues, CountTo2
    <3>2. CASE ~bvalid
      BY <1>1, <1>7, <3>2 DEF Continues, CountTo2
    <3> QED BY <3>1, <3>2
  <2> QED BY <1>2, <1>3, <1>7, <2>1, <2>2
<1> QED BY <1>4, <1>5, <1>6, <1>7, WriteGoesOnOrBegins DEF Inv, Clock, Readiness

LEMMA ReadIsOwnStep ==
  ASSUME Inv, NEW bready \in BOOLEAN, NEW rready \in BOOLEAN, Clock(bready, rready)
  PROVE  ReadIsOwn'
<1>1. /\ rstate = "R_DATA" <=> ((rd.ar = "offered" /\ arready) \/ rd.ar = "accepted")
      /\ arready => rd.ar = "offered"
      /\ rstate = "R_DATA" => rvalid /\ rdata \in rd.held
      /\ rd.ar # "none" => read_mux(cnt, regs, rd.addr) \in rd.held
  BY DEF Inv, ReadIsOwn
<1>2. arready' <=> Reads
  BY FlagsAfter
<1>3. rvalid' <=> (Reads \/ rstate = "R_DATA")
  BY FlagsAfter
<1>4. rstate' = IF Reads THEN "R_DATA"
                ELSE IF rstate = "R_DATA" /\ rready THEN "R_IDLE" ELSE rstate
  BY DEF Clock, ReadMachine
<1>5. rdata' = IF Reads THEN read_mux(cnt, regs, rd.addr) ELSE rdata
  BY DEF Clock, ReadMachine, rdata_next
<1>6. Takeable <=> rstate = "R_DATA"
  BY <1>1 DEF Takeable, arvalid
<1>7. CASE rd.ar = "none" \/ (Takeable /\ rready)
  <2>1. \/ rd' = NoRead
        \/ \E a \in Addr : rd' = [addr |-> a, ar |-> "offered",
                                  held |-> {read_mux(cnt', regs', a)}]
    BY <1>7 DEF Clock, MasterRead
  <2>2. rd'.ar # "accepted" /\ (rd'.ar # "none" => read_mux(cnt', regs', rd'.addr) \in rd'.held)
    BY <2>1 DEF NoRead
  <2>3. ~Reads /\ rstate' = "R_IDLE"
    BY <1>1, <1>4, <1>6, <1>7 DEF Reads, arvalid, Inv, TypeOK
  <2> QED BY <1>2, <2>2, <2>3 DEF ReadIsOwn
<1>8. CASE ~(rd.ar = "none" \/ (Takeable /\ rready))
  <2>1. /\ rd'.addr = rd.addr /\ rd'.ar = AfterHandshake(rd.ar, arready)
        /\ rd'.held = rd.held \cup {read_mux(cnt', regs', rd.addr)}
    BY <1>8 DEF Clock, MasterRead, Inv, TypeOK
  <2>2. read_mux(cnt', regs', rd'.addr) \in rd'.held
    BY <2>1
  <2>3. CASE Reads
    <3>1. ~arready /\ rd'.ar = "offered"
      BY <1>1, <2>1, <2>3 DEF Reads, arvalid, AfterHandshake
    <3>2. rdata' \in rd'.held
      BY <1>1, <1>5, <2>1, <2>3 DEF Reads, arvalid
    <3> QED BY <1>2, <1>3, <1>4, <2>2, <2>3, <3>1, <3>2 DEF ReadIsOwn
  <2>4. CASE ~Reads
    <3>1. rstate' = rstate /\ rdata' = rdata /\ rstate = "R_DATA"
      BY <1>1, <1>4, <1>5, <1>6, <1>8, <2>4 DEF Reads, arvalid, Inv, TypeOK, Phase
    <3>2. rd'.ar = "accepted"
      BY <1>1, <2>1, <3>1 DEF AfterHandshake
    <3> QED BY <1>1, <1>2, <1>3, <2>1, <2>2, <2>4, <3>1, <3>2 DEF ReadIsOwn
  <2> QED BY <2>3, <2>4
<1> QED BY <1>7, <1>8

LEMMA ClockInv ==
  ASSUME Inv, NEW bready \in Readiness, NEW rready \in Readiness, Clock(bready, rready)
  PROVE  Inv'
<1>1. bready \in BOOLEAN /\ rready \in BOOLEAN
  BY DEF Readiness
<1>2. TypeOK'
  BY <1>1, ClockType DEF Inv
<1>3. StoredOnce'
  BY <1>1, StoredOnceStep
<1>4. HalvesTogether'
  BY <1>1, HalvesTogetherStep
<1>5. ResponseIsOwn'
  BY ResponseIsOwnStep
<1>6. ReadIsOwn'
  BY <1>1, ReadIsOwnStep
<1> QED BY <1>2, <1>3, <1>4, <1>5, <1>6 DEF Inv

LEMMA StutterInv == Inv /\ UNCHANGED vars => Inv'
<1> SUFFICES ASSUME Inv, UNCHANGED vars PROVE Inv' OBVIOUS
<1>1. TypeOK'
  BY DEF Inv, TypeOK, vars
<1>2. (StoredOnce /\ HalvesTogether /\ ResponseIsOwn)'
  BY DEF Inv, vars, StoredOnce, HalvesTogether, ResponseIsOwn, Accepted
<1>3. ReadIsOwn'
  BY DEF Inv, vars, ReadIsOwn, read_mux
<1> QED BY <1>1, <1>2, <1>3 DEF Inv

(* The invariant holds of every reachable state, for every register file,     *)
(* every counter input and every mix of masters.                              *)
THEOREM InvHolds == Spec => []Inv
<1>1. Inv /\ [Next]_vars => Inv'
  BY ClockInv, ResetInv, StutterInv DEF Next
<1> QED BY InitInv, <1>1, PTL DEF Spec

-----------------------------------------------------------------------------
(* Registers, handshake flags and both of the master's operations keep their  *)
(* kinds: in particular regs stays a file over the 64 decoded addresses.      *)
THEOREM TypeCorrect == Spec => []TypeOK
<1>1. Inv => TypeOK
  BY DEF Inv
<1> QED BY InvHolds, <1>1, PTL

(* The write machine never stores a write twice, and one whose halves arrive  *)
(* together is stored by the time both are accepted.                          *)
THEOREM WritesTakenOnce == Spec => []TakenOnce
<1>1. Inv => TakenOnce
  <2> SUFFICES ASSUME Inv PROVE TakenOnce OBVIOUS
  <2>1. wr.taken <= 1
    BY DEF Inv, TypeOK, StoredOnce
  <2> QED BY <2>1 DEF Inv, HalvesTogether, TakenOnce, Accepted
<1> QED BY InvHolds, <1>1, PTL

(* To a master that keeps bready high, bvalid answers a stored write once and *)
(* never the next one.                                                        *)
THEOREM WritesAnsweredOnce == Spec => []AnsweredOnce
<1>1. Inv => AnsweredOnce
  BY DEF Inv, ResponseIsOwn, AnsweredOnce
<1> QED BY InvHolds, <1>1, PTL

(* What was answered is what the file holds at its address.                   *)
THEOREM AnswersAreDurable == Spec => []AnsweredIsReadable
<1>1. Inv => AnsweredIsReadable
  <2> SUFFICES ASSUME Inv, ~master.delays, wr.answers >= 1, wr.addr \in Reg
               PROVE  read_mux(cnt, regs, wr.addr) = wr.data
    BY DEF AnsweredIsReadable
  <2>1. wr.taken # 0
    BY DEF Inv, TypeOK, ResponseIsOwn
  <2> QED BY <2>1, InterfaceAssumption DEF Inv, StoredOnce, read_mux
<1> QED BY InvHolds, <1>1, PTL

(* Reads are linearizable: data on offer is a value the address has held      *)
(* since the read began, for every master.                                    *)
THEOREM ReadsLinearizable == Spec => []ReadReturnsHeld
<1>1. Inv => ReadReturnsHeld
  BY DEF Inv, ReadIsOwn, ReadReturnsHeld, Takeable, arvalid
<1> QED BY InvHolds, <1>1, PTL

-----------------------------------------------------------------------------
(* Liveness.  The prover knows nothing of ENABLED, so each theorem says where *)
(* it needs it: in the states it waits in, an edge with both ready signals    *)
(* high can be taken and changes something.  Clock allows any values of the   *)
(* inputs and assigns every variable once.                                    *)
ReadWaits == arvalid /\ ~Takeable
ReadServed == rd.ar = "none" \/ Takeable

(* One edge is enough, whatever rready does. *)
LEMMA ReadProgress ==
  ASSUME Inv, ReadWaits
  PROVE  /\ \A bready, rready \in BOOLEAN : Clock(bready, rready) => Takeable'
         /\ [Next]_vars => ReadWaits' \/ ReadServed'
<1>1. Reads /\ ~arready
  <2>1. ~arready
    BY DEF Inv, ReadIsOwn, ReadWaits, Takeable, arvalid
  <2>2. rstate = "R_IDLE"
    BY <2>1 DEF Inv, TypeOK, ReadIsOwn, ReadWaits, arvalid
  <2> QED BY <2>1, <2>2 DEF Reads, ReadWaits
<1>2. ASSUME NEW bready \in BOOLEAN, NEW rready \in BOOLEAN, Clock(bready, rready)
      PROVE  Takeable'
  <2>1. arready' /\ rvalid'
    BY <1>1, <1>2, FlagsAfter
  <2>2. rd'.ar = "offered"
    BY <1>1, <1>2 DEF Clock, MasterRead, ReadWaits, arvalid, AfterHandshake, Inv, TypeOK
  <2> QED BY <2>1, <2>2 DEF Takeable, arvalid
<1>3. ASSUME [Next]_vars
      PROVE  ReadWaits' \/ ReadServed'
  <2>1. CASE \E bready, rready \in Readiness : Clock(bready, rready)
    BY <1>2, <2>1 DEF Readiness, ReadServed
  <2>2. CASE Reset
    BY <2>2 DEF Reset, NoRead, ReadServed
  <2>3. CASE UNCHANGED vars
    BY <2>3 DEF vars, ReadWaits, arvalid, Takeable
  <2> QED BY <1>3, <2>1, <2>2, <2>3 DEF Next
<1> QED BY <1>2, <1>3

(* Every read of any master gets its data: the read machine never sits in a   *)
(* state in which it does not see a new request.                              *)
THEOREM ReadsAnswered ==
  FairSpec /\ [](ReadWaits => ENABLED <<Clock(TRUE, TRUE)>>_vars) => ReadAnswered
<1>1. Inv /\ ReadWaits /\ [Next]_vars => ReadWaits' \/ ReadServed'
  BY ReadProgress
<1>2. Inv /\ ReadWaits /\ <<Clock(TRUE, TRUE)>>_vars => ReadServed'
  BY ReadProgress DEF ReadServed
<1>3. arvalid => ReadWaits \/ ReadServed
  BY DEF ReadWaits, ReadServed
<1>4. (arvalid ~> ReadServed) => ReadAnswered
  BY DEF ReadServed, ReadAnswered
<1> QED BY InvHolds, <1>1, <1>2, <1>3, <1>4, PTL DEF FairSpec, Spec

(* A write of the master that is answered: offered, then stored and about to  *)
(* be accepted, then accepted with its response.                              *)
SteadyMaster == ~master.apart /\ ~master.delays
WriteOffered == SteadyMaster /\ awvalid /\ ~awready
WriteStored == SteadyMaster /\ awvalid /\ awready
WriteWaits == WriteOffered \/ WriteStored
WriteServed == wr.aw = "none" \/ (Accepted(wr) /\ bvalid)

LEMMA WriteProgress ==
  ASSUME Inv, NEW bready \in BOOLEAN, NEW rready \in BOOLEAN, Clock(bready, rready)
  PROVE  /\ WriteOffered => WriteStored'
         /\ WriteStored => WriteServed'
<1>1. master' = master
  BY DEF Clock
<1>2. ASSUME WriteOffered
      PROVE  WriteStored'
  <2>1. ~master.apart /\ ~master.delays /\ wr.aw = "offered" /\ ~awready
    BY <1>2 DEF WriteOffered, SteadyMaster, awvalid
  <2>2. wr.w = "offered" /\ ~wready
    BY <2>1 DEF Inv, HalvesTogether
  <2>3. ~Accepted(wr) /\ wr.taken = 0
    BY <2>1 DEF Accepted, Inv, StoredOnce
  <2>4. wstate = "W_IDLE"
    BY <2>1, <2>3 DEF Inv, TypeOK, ResponseIsOwn
  <2>5. awready'
    BY <2>1, <2>4, FlagsAfter DEF awvalid
  <2>6. wr'.aw = "offered"
    <3>1. ~Begins(bready)
      BY <2>1, BeginsWhenDone DEF Inv, AfterHandshake
    <3>2. Continues(bready)
      BY <3>1, WriteGoesOnOrBegins DEF Inv, Clock
    <3> QED BY <2>1, <3>2 DEF Continues, AfterHandshake, May
  <2> QED BY <1>1, <2>1, <2>5, <2>6 DEF WriteStored, SteadyMaster, awvalid
<1>3. ASSUME WriteStored
      PROVE  WriteServed'
  <2>1. ~master.apart /\ ~master.delays /\ wr.aw = "offered" /\ awready
    BY <1>3 DEF WriteStored, SteadyMaster, awvalid
  <2>2. wr.w = "offered" /\ wready /\ wstate = "W_RESP"
    BY <2>1 DEF Inv, HalvesTogether
  <2>3. bvalid'
    BY <2>2, FlagsAfter
  <2>4. ~bvalid /\ wr.answers = 0
    BY <2>1, <2>2 DEF Inv, ResponseIsOwn
  <2>5. ~Begins(bready)
    BY <2>1, <2>4, BeginsWhenDone DEF Inv, CountTo2
  <2>6. Continues(bready)
    BY <2>5, WriteGoesOnOrBegins DEF Inv, Clock
  <2>7. wr'.aw = "accepted" /\ wr'.w = "accepted"
    BY <2>1, <2>2, <2>6 DEF Continues, AfterHandshake, May
  <2> QED BY <2>3, <2>7 DEF WriteServed, Accepted
<1> QED BY <1>2, <1>3

LEMMA WriteWaitsOn ==
  ASSUME Inv, [Next]_vars
  PROVE  /\ WriteOffered => WriteOffered' \/ WriteStored' \/ WriteServed'
         /\ WriteStored => WriteStored' \/ WriteServed'
<1>1. CASE \E bready, rready \in Readiness : Clock(bready, rready)
  BY <1>1, WriteProgress DEF Readiness
<1>2. CASE Reset
  BY <1>2 DEF Reset, NoWrite, WriteServed
<1>3. CASE UNCHANGED vars
  BY <1>3 DEF vars, WriteOffered, WriteStored, SteadyMaster, awvalid
<1> QED BY <1>1, <1>2, <1>3 DEF Next

(* A master that offers both halves of a write at once and keeps bready high  *)
(* gets its response.                                                         *)
THEOREM WritesAnswered ==
  FairSpec /\ [](WriteWaits => ENABLED <<Clock(TRUE, TRUE)>>_vars) => WriteAnswered
<1>1. Inv /\ [Next]_vars => /\ WriteOffered => WriteOffered' \/ WriteStored' \/ WriteServed'
                            /\ WriteStored => WriteStored' \/ WriteServed'
  BY WriteWaitsOn
<1>2. Inv /\ <<Clock(TRUE, TRUE)>>_vars => /\ WriteOffered => WriteStored'
                                           /\ WriteStored => WriteServed'
  BY WriteProgress
<1>3. /\ (~master.apart /\ ~master.delays /\ awvalid) => WriteWaits
      /\ WriteWaits <=> WriteOffered \/ WriteStored
  BY DEF WriteWaits, WriteOffered, WriteStored, SteadyMaster
<1>4. ((~master.apart /\ ~master.delays /\ awvalid) ~> WriteServed) => WriteAnswered
  BY DEF WriteServed, WriteAnswered
<1> QED BY InvHolds, <1>1, <1>2, <1>3, <1>4, PTL DEF FairSpec, Spec
=============================================================================
