--------------------------- MODULE RegisterIface ---------------------------
(* register_iface (src/rtl/top/register_iface.sv): an AXI4-Lite slave over a  *)
(* file of registers, with a write machine and a read machine, and the master *)
(* it is built for.  The repository has no master in hardware; the one here   *)
(* keeps the protocol: it holds a request until it is accepted, has one write *)
(* and one read outstanding, and takes read data only once the address has    *)
(* been accepted.  One step is one rising clock edge of both.                 *)
EXTENDS Integers

CONSTANTS Reg,      \* addresses that select one of the 64 registers
          Stat,     \* addresses that select half of a counter
          Beyond,   \* the other addresses below 0x100
          Data,     \* values of a register and of half a counter
          Masters   \* how the master may behave

Addr == Reg \cup Stat \cup Beyond
Zero == 0

(* apart: it may offer address and data of a write on different edges.        *)
(* delays: it may lower bready and rready at any time.                        *)
ASSUME InterfaceAssumption ==
  /\ Reg \cap Stat = {} /\ Reg \cap Beyond = {} /\ Stat \cap Beyond = {}
  /\ Reg # {} /\ Zero \in Data
  /\ Masters \subseteq [apart : BOOLEAN, delays : BOOLEAN]

VARIABLES regs, wstate, awready, wready, bvalid,   \* the write machine
          rstate, arready, rvalid, rdata,          \* the read machine
          cnt,       \* the counter inputs, by address
          master,    \* the kind of master, fixed from the start
          wr,        \* the master's write, with what became of it
          rd         \* the master's read, with what it might return

vars == <<regs, wstate, awready, wready, bvalid, rstate, arready, rvalid,
          rdata, cnt, master, wr, rd>>

Phase == {"none", "unsent", "offered", "accepted"}

-----------------------------------------------------------------------------
awvalid == wr.aw = "offered"
wvalid == wr.w = "offered"
arvalid == rd.ar = "offered"

(* The write machine stores only an address and data it sees on one edge.     *)
BugStoresInAnyState == awvalid /\ wvalid
Stores == wstate = "W_IDLE" /\ awvalid /\ wvalid

(* regs[addr] <= data.  An index beyond the file is written nowhere and reads *)
(* 0 in the compiled simulation.                                              *)
BugNoIndexCheck == [r \in Reg \cup (IF Stores THEN {wr.addr} ELSE {}) |->
                      IF Stores /\ wr.addr = r THEN wr.data ELSE regs[r]]
BugReadHasPort == [r \in Reg |-> IF Stores /\ ~arvalid /\ wr.addr = r THEN wr.data
                                 ELSE regs[r]]
regs_next == [r \in Reg |-> IF Stores /\ wr.addr = r THEN wr.data ELSE regs[r]]

BugLeavesOnHandshake(bready) == bvalid /\ bready
BugLeavesWhenNotReady(bready) == ~bready
LeavesResponse(bready) == bready

WriteMachine(bready) ==
  /\ regs' = regs_next
  /\ awready' = (wstate = "W_IDLE" /\ awvalid)
  /\ wready' = (wstate = "W_IDLE" /\ wvalid)
  /\ bvalid' = (wstate = "W_RESP")
  /\ wstate' = IF Stores THEN "W_RESP"
               ELSE IF wstate = "W_RESP" /\ LeavesResponse(bready) THEN "W_IDLE"
               ELSE wstate

read_mux(counters, file, a) == IF a \in Stat THEN counters[a]
                               ELSE IF a \in Reg THEN file[a]
                               ELSE Zero

BugReadWaitsForReady == rstate = "R_IDLE" /\ arvalid /\ arready
Reads == rstate = "R_IDLE" /\ arvalid

BugLoadsInData == IF rstate = "R_DATA" THEN read_mux(cnt, regs, rd.addr) ELSE rdata
rdata_next == IF Reads THEN read_mux(cnt, regs, rd.addr) ELSE rdata

ReadMachine(rready) ==
  /\ arready' = Reads
  /\ rvalid' = (Reads \/ rstate = "R_DATA")
  /\ rdata' = rdata_next
  /\ rstate' = IF Reads THEN "R_DATA"
               ELSE IF rstate = "R_DATA" /\ rready THEN "R_IDLE"
               ELSE rstate

-----------------------------------------------------------------------------
(* The master's write: addr and data, how far each half has come, and as a    *)
(* history how often the slave stored it and answered it (2 means more).      *)
NoWrite == [addr |-> CHOOSE a \in Addr : TRUE, data |-> Zero, aw |-> "none",
            w |-> "none", taken |-> 0, answers |-> 0]

CountTo2(n, test) == IF test /\ n < 2 THEN n + 1 ELSE n
AfterHandshake(phase, ready) == IF phase = "offered" /\ ready THEN "accepted" ELSE phase

WriteAfter(bready) ==
  [wr EXCEPT !.aw = AfterHandshake(@, awready),
             !.w = AfterHandshake(@, wready),
             !.taken = CountTo2(@, Stores),
             !.answers = CountTo2(@, bvalid /\ bready)]

Accepted(w) == w.aw = "accepted" /\ w.w = "accepted"
Finished(w) == w.aw = "none" \/ (Accepted(w) /\ w.answers >= 1)

May(phase) == IF phase = "unsent" THEN {"unsent", "offered"} ELSE {phase}
FirstOffer == IF master.apart THEN {<<"offered", "offered">>, <<"offered", "unsent">>,
                                    <<"unsent", "offered">>}
              ELSE {<<"offered", "offered">>}
NewWrites == {[addr |-> a, data |-> d, aw |-> p[1], w |-> p[2], taken |-> 0,
               answers |-> 0] : a \in Addr, d \in Data, p \in FirstOffer}

MasterWrite(bready) ==
  LET after == WriteAfter(bready)
  IN  \/ \E a \in May(after.aw), d \in May(after.w) :
           wr' = [after EXCEPT !.aw = a, !.w = d]
      \/ Finished(after) /\ wr' \in NewWrites

(* The master's read: held collects what its address has held since it began. *)
NoRead == [addr |-> CHOOSE a \in Addr : TRUE, ar |-> "none", held |-> {}]

(* Data on offer to a master that waits for its address to be accepted. *)
Takeable == rvalid /\ (rd.ar = "accepted" \/ (arvalid /\ arready))

MasterRead(rready) ==
  IF rd.ar = "none" \/ (Takeable /\ rready)
  THEN \/ rd' = NoRead
       \/ \E a \in Addr : rd' = [addr |-> a, ar |-> "offered", held |-> {read_mux(cnt', regs', a)}]
  ELSE rd' = [rd EXCEPT !.ar = AfterHandshake(@, arready),
                        !.held = @ \cup {read_mux(cnt', regs', rd.addr)}]

-----------------------------------------------------------------------------
Init == /\ regs = [r \in Reg |-> Zero]
        /\ wstate = "W_IDLE" /\ rstate = "R_IDLE"
        /\ awready = FALSE /\ wready = FALSE /\ bvalid = FALSE
        /\ arready = FALSE /\ rvalid = FALSE /\ rdata = Zero
        /\ cnt = [s \in Stat |-> Zero]
        /\ master \in Masters
        /\ wr = NoWrite /\ rd = NoRead

Readiness == IF master.delays THEN BOOLEAN ELSE {TRUE}

(* A clock edge with rst_n high; the counters may move on any of them. *)
Clock(bready, rready) ==
  /\ cnt' \in [Stat -> Data]
  /\ WriteMachine(bready)
  /\ ReadMachine(rready)
  /\ MasterWrite(bready)
  /\ MasterRead(rready)
  /\ UNCHANGED master

(* A clock edge with rst_n low; the master is under the same reset. *)
Reset == /\ regs' = [r \in Reg |-> Zero]
         /\ wstate' = "W_IDLE" /\ rstate' = "R_IDLE"
         /\ awready' = FALSE /\ wready' = FALSE /\ bvalid' = FALSE
         /\ arready' = FALSE /\ rvalid' = FALSE /\ rdata' = Zero
         /\ cnt' = [s \in Stat |-> Zero]
         /\ wr' = NoWrite /\ rd' = NoRead
         /\ UNCHANGED master

Next == \/ \E bready, rready \in Readiness : Clock(bready, rready)
        \/ Reset

Spec == Init /\ [][Next]_vars

(* The clock never stops and the master is ready again and again. *)
FairSpec == Spec /\ WF_vars(Clock(TRUE, TRUE))

-----------------------------------------------------------------------------
(* Registers and the master's operations hold values of their kind.           *)
TypeOK == /\ regs \in [Reg -> Data]
          /\ wstate \in {"W_IDLE", "W_RESP"} /\ rstate \in {"R_IDLE", "R_DATA"}
          /\ {awready, wready, bvalid, arready, rvalid} \subseteq BOOLEAN
          /\ rdata \in Data
          /\ cnt \in [Stat -> Data]
          /\ master \in Masters
          /\ wr \in [addr : Addr, data : Data, aw : Phase, w : Phase,
                     taken : 0 .. 2, answers : 0 .. 2]
          /\ rd \in [addr : Addr, ar : Phase \ {"unsent"}, held : SUBSET Data]

(* Handshake and effect are on different edges (the machine stores when it    *)
(* sees the request, the master learns of it one edge later), and still a     *)
(* master that offers both halves at once has each write stored exactly once  *)
(* by the time both are accepted.  One that does not may have it accepted on  *)
(* both channels and never stored, but never stored twice.                    *)
TakenOnce == /\ wr.taken <= 1
             /\ ~master.apart /\ Accepted(wr) => wr.taken = 1

(* Responses: to a master that keeps bready high the interface answers a      *)
(* write at most once and only after it was stored, although bvalid trails    *)
(* the state machine by an edge and the next write may already be on offer.   *)
AnsweredOnce == ~master.delays => wr.answers <= wr.taken

(* An answered write to an address that selects a register is what a read of  *)
(* it returns, until the master begins another write; to the same master.     *)
AnsweredIsReadable ==
  ~master.delays /\ wr.answers >= 1 /\ wr.addr \in Reg
    => read_mux(cnt, regs, wr.addr) = wr.data

(* Reads are linearizable for every master: the data on offer with or after   *)
(* the acceptance of the address is a value the address has held since the    *)
(* read began, not what the previous read left on the bus, although rvalid    *)
(* stays up one edge too long and writes and counters go on meanwhile.        *)
ReadReturnsHeld == Takeable => rdata \in rd.held

(* To a master that offers both halves at once and keeps bready high, every   *)
(* write is answered after it was accepted.                                   *)
WriteAnswered ==
  (~master.apart /\ ~master.delays /\ awvalid)
     ~> (wr.aw = "none" \/ (Accepted(wr) /\ bvalid))

(* Every read of any master that keeps becoming ready gets its data.          *)
ReadAnswered == arvalid ~> (rd.ar = "none" \/ Takeable)

=============================================================================
