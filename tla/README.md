# FPGA Network Processing Engine: a TLA+ verification development

The engine is a SystemVerilog packet processor (`src/rtl`). An AXI-Stream of
packet beats runs through a chain of one-register stages that parse headers,
match rules, rewrite the first beat, count, and track flows. Beside the chain
stand a priority scheduler built on an AXI-Stream FIFO, a token-bucket rate
limiter, a register interface and a CRC unit, each a top level of its own with
its own testbench. `parser_pipeline` instantiates the eight stages up to the
flow table and nothing else, although the documents draw the scheduler as its
ninth stage and a register map in front of it.

Everything is one synchronous clock domain. In every module one step of the
model is one rising clock edge; the inputs of that edge (a beat offered or not,
`m_tready`, a configuration write, `rst_n`) are free, so a run of the model is
any pattern of stalls, bubbles and resets.

## 1. Inventory

| Part | State | Operations | Interaction |
|---|---|---|---|
| `axis_fifo` | `wr_ptr`, `rd_ptr`, `m_tvalid`, `ram` | write, read, both, recovery, reset | one per scheduler queue |
| `formal/fifo.sv` | `push_count`, `pop_count` | count accepted and delivered beats | wraps `axis_fifo` |
| parsers (eth, vlan, ipv4, udp, tcp) | pipe register, `pipe_meta`, `first_beat`; eth also `pkt_len` | load, parse on first beat | ready chain; udp and tcp in parallel, joined by `r_ip`, `d_l4`, `m_l4` |
| `match_table` | pipe register, `pipe_meta`, `pipe_mod_action`, `first_beat` | priority match on first beat | feeds the modifier; its metadata also goes to stats and flow |
| `packet_modifier` | pipe register, `prev_tlast` | rewrite the first beat | |
| `stats_engine` | pipe register, 8 counters | count on the last beat | reads `m_match` |
| `flow_table` | pipe register, `flow_ram`, `lru`, `now` | hit, expired hit, miss | reads `m_match` |
| `packet_scheduler` | 3 FIFOs, `arb_state`, `wrr_count` | classify and push, arbitrate, pop | |
| `token_bucket` | `tokens`, `timer` | refill, admit, reconfigure | |
| `register_iface` | `regs`, write and read machines | AXI-Lite write, read | counters in, nothing out |
| `rule_engine`, `packet_classifier`, `axis_register` | pipe register | load | instantiated nowhere |
| `crc32` | `crc_state`, `crc_out`, `crc_valid` | shift in, finish | |
| `control_plane.py` | process handle | rule = 4 register writes, counter = 2 reads | text commands to a simulation |
| `PacketGen` (`packet_gen.h`) | `ip_id_counter_` | make UDP, TCP, ARP | called by the tests |
| `PacketMon` (`packet_mon.h`) | `rx_beats_`, `expected_`, `pkt_count_`, `error_count_` | reset, expect, push_beat | two of the benches |
| testbenches (`tb_*.cpp`) | program counter, beat position, captured bytes | push, wait for room, drain, compare | turn the clock of the device they test |

What is hard here is not data but time. Back-pressure is combinational through
the whole chain while data and metadata are registered; each stage detects the
first beat of a packet by itself; some blocks use a neighbour's register that
has moved on; the arbiter uses last edge's occupancies; two assignments meet in
one register on one edge; pointers, cycle counters and sums wrap. The
`hazards` of `PROJECT.json` list these at their lines with the properties that
watch them. The benches add what sequential programs around such a device
meet: loops that wait for a device that waits for them, loops that give up too
early, and a scoreboard whose errors can cancel out.

What makes each part correct:

* FIFO: order, no loss, no duplication, at most DEPTH beats; `m_tvalid` is
  never wrong; an offer holds.
* Pipeline: the same channel property over eight registers; the metadata in a
  stage is that of the beat in the stage; every packet is counted once, under
  its own metadata, and modified once, on its first beat.
* Scheduler: bounded priority inversion, no lasting idleness, a blocked input
  is released, an offer holds, packets stay whole, weights share the output.
* Token bucket: never more credit than an ideal bucket; refills arrive.
* Flow table: one entry per flow, counters that belong to it, exact timeout,
  eviction of the least recently used.
* Register interface: every accepted write stored once and answered once,
  reads that return a value the register held, no request left waiting.
* Benches: they return, they never fail a correct device, they leave it empty,
  and a PASS means that what was expected arrived.

## 2. Modules

| Module | Models | Notes |
|---|---|---|
| `BoundedFifo` | abstract specification | what an AXI-Stream channel promises; refined twice |
| `AxisFifo` | `axis_fifo.sv` | each branch of the `always_ff` is an action |
| `FifoFormal` | `formal/fifo.sv` | extends `AxisFifo` with the harness's counters |
| `PacketMetadata` | parsers, match table: what a stage writes to the metadata | pure operators |
| `ParserPipeline` | `parser_pipeline.sv` and its nine stages: when a stage loads, and all registers | extends `PacketMetadata`, refines `BoundedFifo` |
| `PacketScheduler` | `packet_scheduler.sv` | queues are beat counts |
| `TokenBucket` | `token_bucket.sv` | |
| `FlowTable` | `flow_table.sv`, table update | |
| `RegisterIface` | `register_iface.sv` | with the AXI4-Lite master it serves |
| `PacketGen` | `packet_gen.h`: packets by kind, arguments, identification, size | pure operators |
| `PacketMon` | `packet_mon.h`: the scoreboard | a module of actions that `StreamBench` calls |
| `BenchPrograms` | what each bench's driver does at each turn, and the calls of each test | pure operators, extends `PacketGen` |
| `StreamBench` | the eight benches that stream packets, at work on a device | extends `PacketMon` and `BenchPrograms`, uses the arbiter of `PacketScheduler` |
| `*Proofs` | theorems about the module they extend | |
| `MC*` | instances for TLC | |

Names follow the source. Operators named `Bug...` stand before the definition
they would replace: each is a plausible coding error that a property must
catch, listed under `mutants` in `PROJECT.json`; no specification uses them.

### AxisFifo

Pointers are one bit wider than the address and count modulo 2*DEPTH. The
branches `rden && wren`, `rden`, `wren` and the recovery branch of lines 73-76
are the actions `WriteRead`, `Read`, `Write` and `Idle`; `Idle` is also the
edge on which nothing happens. `ValidIffNotEmpty` shows the recovery branch
never has anything to recover. `Contents`, the RAM read in pointer order from
`rd_ptr`, is the refinement mapping to `BoundedFifo`. `s_tready` depends on
`full` alone, so a full FIFO does not take a beat on the edge on which it gives
one away: it uses less than the channel allows.

### ParserPipeline

A beat is a record of its number in the stream, its packet's header, its place
in the packet, its tlast, and the three bytes the modifier may rewrite (`ip`:
TTL and checksum, at `ip_off` + 8, + 10 and + 11). A header is the few fields
that a stage reads; `src_mac` tells packets apart. `pipe` is the data register
of every stage; `meta` the metadata registers of the six stages up to the match
table, the last that has one. `Clock` is a whole edge: every `always_ff` of
every stage at once. `Ready` is the ready chain of `m_tready || !pipe_valid`
from the sink back, with `r_ip = r_udp && r_tcp`. `Reset` leaves the metadata
registers alone, as the code does. A header is whole in its packet's first
beat, as the 64-byte bus of `parser_pipeline` makes it.

The statistics engine's counters are those of the source except `cnt_errors`,
whose two inputs nothing sets. They saturate at `CntMax` and `bytes` wraps
there, in units of one beat. `ttl_dec` is the one action a rule asks for,
with its two assignments to one checksum byte. The flow stage is a data
register here, with the metadata it is wired to (`FlowMeta`); its table is
`FlowTable`.

### PacketScheduler

`arb_state` is the registered choice. A queue is its number of beats: the
arbiter looks at nothing else, and `AxisFifoProofs` shows that an `axis_fifo`
is a bounded queue whose `m_tvalid` is not-empty, which is what the occupancy
stands for. The source keeps offering a beat until it is taken, as AXI-Stream
demands. `overtaken` and `bubbled` are history variables.

### TokenBucket

`TokensNext` keeps the order of the two assignments of lines 33-43: an
admission replaces a refill on the same edge. `Refilled` adds on C_WIDTH bits.
`Configure` is a software write of the three inputs between two edges. History
variables: `ideal` is the bucket that would not lose refills, `ceiling` what
bounds the credit left from a larger burst, `quiet` the edges since an
admission or a wrapped refill.

### FlowTable

The set a flow hashes to is a constant function: the properties hold for every
hash. `lru` has NUM_WAYS bits and is indexed by the set; a bit that does not
exist reads 0 and cannot be written, which is what the compiled simulation the
Makefile builds does. A hit writes every way that is live and holds the key
(`HitWays`), and adds to the count that `hit_pkt_cnt` selects by way 0's key
alone; an expired hit writes every way that holds the key (`KeyWays`). That these
are always one way, and the same one, is for the properties to show. The cycle
counter wraps. History variables: `seen`
(packets since the flow last entered), `age` (edges since its last packet, up
to one round of the counter), `touched` (the last access of each set).

### RegisterIface

`WriteMachine` and `ReadMachine` are the two `always_ff` blocks; `Clock` is one
edge of both and of the master. The repository has no master in hardware, so
the module has one that keeps the protocol: a request is held until its ready
is seen, one write and one read are outstanding, data are taken only with or
after the acceptance of the address. `master` says which liberties it takes:
`apart`, address and data of a write on different edges; `delays`, `bready` and
`rready` may fall at any time. `wr` and `rd` are its operations, with what
became of them as history (`taken`, `answers`, `held`).

Addresses are of three sorts: registers, counter halves, and the rest below
0x100 (`Beyond`), which the documents call registers and the file of 64 does
not have. An index beyond the file reads 0 and is written nowhere, which is
what the compiled simulation does. `waddr_q` is written and never read;
`bresp` and `rresp` are constant.

What holds depends on the master:

| | halves together | halves apart |
|---|---|---|
| `bready` always high | stored once, answered once, always answered | never stored or answered twice; may be accepted on both channels and never stored |
| `bready` may fall | stored once; a response may be repeated, and then answer the next write early, or be missed | stored at most once |

Reads return a value held since they began, and are always answered, in all
four cases.

### The benches

`StreamBench` is a testbench and its device. The bench is the C++ program: `pc`
says which loop it is in, `todo` the calls it has yet to make, and each loop
iteration with a rising edge is one action. The benches differ in a few habits
of their drivers (does it capture while it pushes, how does it wait for
`s_tready`, when does its drain loop give up), which `BenchPrograms` writes as
one record each beside the sequence of calls of every test. A run of `Tests`
starts with any of them. `TestAssumption` says what tests may be: programs of
four kinds, `PipelineTest`, `HeldTest` (`tb_pipeline`, which never idles),
`FifoTest` and `SchedulerTest`, with any number of packets of any size that
the drain loop's condition can cope with. TLC evaluates it for the tests the
benches make; the proofs use nothing else about them.

| Actions | Code |
|---|---|
| `Reset` | `Sim::reset` and the monitor's |
| `Push`, `NextBeat` | one turn of a driver's loop over the beats of a packet |
| `Spin`, `TakeOne` | the loops that wait for `s_tready`: with the beat still valid, or taking output beats |
| `Idle` | the edge with `s_tvalid` low after a packet |
| `Drain`, `Flush`, `Return` | the drain loop, the extra edges of `tb_pipeline`, the comparison |
| `CallExpect`, `CallPush`, `CallDrain`, `Finish` | the test's calls and its end |

The device is what the bench can see of it: a row of eight registers for the
pipeline, which with a sink that is always ready moves on every edge, a queue of
16 beats for the FIFO, three such queues behind the arbiter of `PacketScheduler`
for the scheduler. Because a bench is there to
find a broken device, the device may misbehave `MaxFaults` times: lose a beat,
change it, end a packet early or late, send the previous beat again, refuse
input for one edge. The bytes of a packet are one value that tells it from
others; the benches drive 8 bytes of the bus at a time, so the modifier's
offset 22 and above is not in a first beat and what goes in comes out.

`PacketMon` keeps two histories: `wanted`, all that was expected since the last
reset, and `received`, all that was completed.

## 3. Runs

| Run | Distinct states | Question |
|---|---|---|
| `fifo` | 1,280 | is `axis_fifo` a bounded FIFO, and is the harness's counting right |
| `fifo_counters` | violation | the harness's `push_count >= pop_count` |
| `pipeline` | 177,949 | order, metadata, lengths, counting, modification, attribution, delivery |
| `stats_meta` | violation | is a packet counted under its own metadata |
| `modifier_stall` | violation | is a stalled first beat modified |
| `scheduler` | 29,656 | inversion, idleness, turns, blocked input |
| `scheduler_hold` | violation | does an offer hold |
| `bucket` | 1,655 | bounded credit, no over-admission, refills |
| `flow` | 968,250 | lookup, counters, timeout, victim |
| `registers` | 74,436 | are writes stored and answered once, are reads linearizable, who is served |
| `flow_eviction` | violation | is the victim the least recently used |
| `benches` | 888,668 | do benches return, do they pass correct devices and leave them empty, what does PASS mean |

Deadlock is checked in every run of hardware: the clock can always tick. It is
not in `benches`, whose programs end; that they do is `ReturnsUnlessBlocked`.

### Bounds and why they are enough

* `fifo`: DEPTH 4 is the harness's own; two data values tell a wrong slot from
  the right one; pointers wrap at 8 and counters at 16, many times.
* `pipeline`: nine beats against eight registers fill the chain to the source.
  Three packets of one to three beats put a packet, its successor and the one
  after it in the registers at once, which is as far as a metadata register
  can run ahead of the beat that uses it. The header sets cover each parser's
  taken and not-taken case, a VLAN tag, both L4 protocols, a non-IP packet and
  the catch-all rule, with TTL 0, TTL 1, a checksum that survives the rewrite
  and one that does not. CntMax is 2, so that the third packet meets a
  saturated counter. The source stops after the last packet.
* `scheduler`: FIFO_DEPTH 3 (16 in the source) gives empty, one, some and full.
  Weights 0, 1, 2 and 3 are below, at and above what a queue can hold
  without refilling. The classes are the testbench's 0, 2, 3 and a default.
* `bucket`: four-bit tokens; three configurations that raise and lower burst,
  rate and interval against each other, one of which refills on every edge
  with a sum that wraps; lengths 0, below and above a small burst. `quiet` saturates at 12,
  four periods of the longest interval.
* `flow`: three flows in a set of two ways (eviction needs three), two in a
  set without an lru bit; five cycle counts with a timeout of three let both ways
  of a set be live at once (with two, an entry is live for one edge only) and
  make entries expire, stay expired across the wrap, and return to life; MaxCount 2 packets
  of a flow in a row. Flows of a set are symmetric. No liveness in this run.
* `registers`: one address of each sort and two data values. The machines look
  at addresses only in the decoder, so what matters is whether a read and a
  write meet at one address, and whether that one is in the file. All four
  kinds of master run side by side.
* `benches`: 33 tests, every driver with the tests its bench makes, two or
  three packets where the source has hundreds: the second meets what the first
  left behind, the third brings every kind of the mix. The payloads are the
  source's where they are short; long ones are cut to 62 bytes, 13 to 15 beats,
  still longer than the pipeline. STAGES and DEPTH are the source's. TIMEOUT 30
  (10,000 and more in the source) is longer than what a correct device needs to
  give away what is inside, which is all that `BenchAssumption` asks of it. Two faults let a loss and a repetition cancel out.

### Fairness

Four runs check liveness. Those of hardware assume weak fairness of one action:
the clock edge with `m_tready` high, or with `bready` and `rready` high. A clock
does not stop, so some edge always comes; the assumption about the sink is that it is ready again and again, and
without it nothing can promise delivery. No fairness is assumed of the source,
and none of a reset that stays away: a reset empties the pipeline, and what it
discards counts as gone. `benches` assumes weak fairness of `Next`: a program
runs until it returns. Since faults are bounded, a device that refuses input
accepts it again unless it is full. `InputNotBlocked` is about beats for a queue
that has a weight, in every configuration, those with a queue of weight 0 among
them; a beat for a full queue of weight 0, which the source documents as no
service, blocks the input for ever.

## 4. What the code does otherwise than its documents

Each has a run and an entry under `findings`.

* The harness assertion `push_count >= pop_count`, listed as proved, is false
  once the counters wrap; the difference modulo 16 is right and proved.
* Statistics (and the flow table) read the match table's metadata two (three)
  registers upstream of their beat: back-to-back packets are counted under a
  later packet's metadata. A packet that is not directly followed when it is
  counted is counted correctly (`AttributedUnlessFollowed`).
* A first beat that the modifier refuses once passes unmodified. Beats taken
  on their first offer are right (`UnrefusedBeatsModified`).
* The scheduler's output changes while the sink stalls.
* WRR credits never end a backlogged queue's turn
  (`LeavesOnlyWhenDryOrOutranked`, proved).
* The refill period is `cfg_interval + 1` edges (`QuietBucketRefills`).
* A flow-table miss takes the way used last; in sets without an lru bit only
  way 1 is ever used (`MissTakesLastHit`).
* Writes to 0x40-0x4F and 0x60, documented as registers, are answered and
  stored nowhere (`AnsweredIsReadable` holds for the 64 that exist).
* TTL decrement: the checksum's high byte becomes a copy of its low byte and
  the increment is lost (two assignments to one byte); the action is applied to
  packets that are not IPv4 as well (`UnrefusedBeatsModified`).
* A packet of several beats reaches the counters with `pkt_length` 0, because
  the stages copy metadata on its first beat and the length is known on the
  last; a packet of one beat is given the length of the packet before it on top
  of its own, because nothing restarts the parser's counter (`LengthStaysInEth`).
* `tb_scheduler` writes the class of a packet into bits of `dst_mac`, so every
  packet has class 0; two of its tests fill the one queue they use and wait for
  ever (`ReturnsUnlessBlocked`).
* The monitor counts a packet that arrives when none is expected and raises no
  error (`PassMeansReceived` needs the count).

Met while reading, and not behind a run:

* `cnt_bytes` wraps, beside the comment "saturating 48-bit" in
  `stats_engine.sv:22`.
* "0 = no service" (`packet_scheduler.sv:23`): the arbiter starts at the HIGH
  queue, and what it points at is offered whatever its weight, so a HIGH queue of
  weight 0 is served until another queue with a weight holds a beat.
* The catch-all rule allows, so `drop` is never set. The file that rules are
  documented to be written to feeds no other module.
* `verification.md:5` says "compare byte-for-byte"; only `tb_random` and
  `tb_axis_fifo` have a scoreboard, the others compare sizes (`tb_match_action`,
  `tb_stress`, `tb_pipeline`, `tb_scheduler`) or nothing (`tb_perf`, most of
  `tb_flow`). `test_strict_priority` compares packets of equal size.
* "3 consecutive packets" (`verification.md:24`) are three simulations of one
  packet each.
* `validate_packet` returns true whatever it finds (`packet_mon.h:14` says it
  checks). `test_drop_on_empty` and `test_fifo_flags` cannot fail.
* The "TCP (64B)" of `tb_perf` has 76 bytes, and its cycle count includes the
  warm-up; its last drain loop has no timeout.
* `verification.md`, Known Limitations 1, holds for the 8-byte beats the benches
  send and not for first beats that hold the whole header (`MetadataTravels`).
* The generator stores the IPv4 checksum without `htons`; `make_random_packet`,
  which nothing calls, is 12 bytes off for TCP and underflows below 42.

## 5. Proofs

All proofs are checked by TLAPS for every value of the constants that the
named assumptions allow.

**AxisFifo** (`DepthAssumption`: DEPTH at least 2). `Inv` is the register
widths, `ptr_diff <= DEPTH`, and `m_tvalid <=> ~empty`. The last is needed for
the second: without it a read could be enabled on an empty FIFO and drive the
difference below zero. One step per branch. `Refinement` proves that every edge
is a push, a pop, a pop-and-push, a reset or a stutter of `BoundedFifo`, from
lemmas about how `Contents` changes: a store at the tail changes no slot
between the pointers (`StoreKeepsRest`), a read drops the head
(`LosesItsHead`, `ReadRemovesHead`), both rotate (`WriteReadRotates`).
`OutputHeld` rests on `WriteMissesHead`: a write to a FIFO that is not full
and not empty is never to the slot on offer. `OccupancyCounted` proves the
harness's counting assertion modulo 16 for every depth below 16.

**ParserPipeline** (`TrafficAssumption`). `ParsersInLockstep`: the equality of
the two L4 registers is inductive by itself, because equal registers have equal
ready signals (`L4ReadyTogether`). It lets every other argument count them as
one. `TypeInv` adds to the types that the source is where its packet and beat
counts say (`SourceOK`), which bounds the beat numbers.

`MetadataTravels`: when a register is empty its metadata may be of any packet,
so `MetaDescribesBeat` is not inductive. `MetaInv` says for each stage what it
is due to receive, `Due...`: the beat of the register behind, or, through empty
registers, the next beat of the source. If that is a first beat, `first_beat`
is set; if not, the metadata already describes its packet (`HoldsAt`).
`StageEdge` is one stage's edge, used six times; `Describes` says what each
parser makes of a header, and `Classes` that priority matching by rules is
`ClassOf`.

`CountedOnce`: the last beats in the registers (`Ahead`) change by what enters
and what is counted; a conservation law over six registers. `LengthNeverPassedOn`:
`LengthInv` adds that a stage in the middle of a packet holds length 0, and that
the Ethernet stage's counter is the source's and where the last beat taken left
it, be that beat still in the register or already in the next (`LengthBehind`).
`UnrefusedModified`: unless a beat was
refused, the modifier's detector is set exactly when it is due a first beat
(`DetectInv`, with the numbering of beats in the chain, `InOrder`); `SumKept` is the arithmetic of the header sum.
`AttributedWhenAlone`: while the match register is empty, its metadata is that
of the last packet that passed (`LastPassed`).

`ChainRefinesChannel`: the contents are put together from the sink back. What
the registers up to a stage hold, without the beat that leaves, is after an
edge followed by what the register behind passes on (`ChannelEdge`, one link
per register, from the ready chain); `OldestLeaves` and `RoomForOne` give the
pop and the bound of eight.

`EveryBeatLeaves`: an edge on which the sink is ready makes every register
ready, so it moves a beat to the next register (`BeatMoves`), and any other edge
moves it or leaves it where it is; a reset discards it. That is eight steps of
weak fairness of `SinkReady`. Its premise about ENABLED is described below.

**PacketScheduler** (`ConfigAssumption`). The inductive invariant adds
`OvertakenIsNext`: once a beat has been overtaken, the arbiter's choice is
already no lower than its queue, so the next transfer is not of a lower one.
`StrictChoice` and `RoundRobinChoice` say what the arbiter returns and are
used for every other step. `TurnsEndDryOrOutranked` uses the credit bound of
`TypeOK` (`CreditStep`): a credit counter is always below its weight.

**TokenBucket** (`BucketAssumption`). `Inv` adds `ceiling >= cfg.burst`.
`EdgeCredit` is the arithmetic of one edge. `RefillsArrive` has an inductive
invariant of its own: in the quiet time some number of periods has ended, each
has added the rate, and what is left is in the timer (`PeriodsEnded`). A timer
beyond its interval, which a write can leave behind, only occurs when quiet time
begins. `PeriodsIn` and `ProductMonotone` are what it needs of division.

**FlowTable** (`FlowTableAssumption`). `LiveIffRecent` is strengthened to
`AgesAgree`: the wrapped difference between counter and last_seen is the true
age as long as the age is below one round of the counter. `UpdateInv` is the
common argument of the three updates: writing one entry of the right set, when
the other way does not hold its flow, keeps the invariant. `OneWayWritten` turns
the loops over the ways into that one entry, and the multiplexer in front of the
hit's count into the count of that entry; `CountsAttributed` rests on it, and it
on `OneEntryPerFlow`. `MissVictim` rests on
`VictimInv`, which is the property with the types of its history; `AfterSetLru`
is what a write of a bit that may not exist does to the victim of every set.

**RegisterIface** (`InterfaceAssumption`). `TakenOnce` and `AnsweredOnce` speak
of what the master knows, which trails the machines by an edge. `StoredOnce`
says where the handshake of a stored write stands: accepted, or in `W_RESP` with
its ready flags up. That excludes a second store and keeps the stored value.
`HalvesTogether` ties ready flags to the store for masters that offer both
halves at once. `ResponseIsOwn` says a response on its way belongs to the write
now outstanding: `W_RESP` lasts one edge for a master that keeps `bready` high,
and no write can begin between store and response. `ReadIsOwn` says `R_DATA` is
exactly the time between seeing a read and its being taken, so `rvalid`'s extra
edge falls on a request whose address has not been accepted. There is one lemma
per part, with the cases of a write that goes on and one that begins.
`ReadsAnswered` and `WritesAnswered` rest on the same invariant: an edge in which
a read waits always serves it, so no state of the read machine misses a request
(`ReadProgress`); a write offered whole is stored at the next edge, and accepted
with its response at the one after (`WriteProgress`).

**StreamBench**. `PassProvesDelivery` needs no fact about the device or the
test: a bench changes the scoreboard only by `reset`, `expect` and `push_beat`.
`MonInv` says that the queue is the end of what was wanted (`QueueIsRest`), that
no more was taken from it than was counted (`CountsReceived`), and that, while
none was counted beyond it and no error was raised, what was received is paired
with what was wanted by position (`PairedSoFar`).

`CorrectDutPassesAlways` and `DrainsLeaveDry` (`BenchAssumption`,
`TestAssumption`) are the converse, and need to know the test and what is inside
the device at every edge. `BenchInv` has for the test t that runs

* `ProgramInv` and `CallInv`: which calls are behind it, which was the last, and
  that what was pushed are its pushes; `AnnounceInv`: `wanted` and `pushed` are
  the packets of its calls so far, so by `Announced` each packet pushed is the
  one expected at its place (`Matching`);
* while nothing went wrong, one invariant for each kind of device and drain loop:

| Tests | Invariant | What it says |
|---|---|---|
| pipeline, with an idle edge | `PipeInv`, `DrainedInv` | the beats of one packet fill a stretch of registers without gaps (`Shape`), long enough to reach from one end to the other before a drain loop can see a gap; so a gap means empty |
| pipeline, last beat held | `HeldInv` | after k edges register i holds beat k - STAGES + i - 1, from the last one on copies of it (`OnTheWay`) |
| FIFO; scheduler, drained in pairs | `QueueInv` | no gaps; what is inside is never more than the timeout leaves edges for |
| scheduler, overfilled | `BlockedInv` | what is inside is what the pushes so far have put there; there is no room for the rest, so no drain is reached |

`StreamInv` ties input to captures, in all but the second and the last: what is
inside, gaps aside, are consecutive beats of the stream of packets pushed, from
the place the captures have come to up to the place the driver has come to
(`Chain`). `MonCapture` and `SizeCapture` say what a capture makes of the next
beat. When the program ends, the device is empty, so the captures are at the end
of the stream (`StreamDry`), and that is a PASS.

`BlockedForEver` is the safety half of the scheduler bench's deadlock: once it
waits at a full queue it waits for ever, whatever a device does
(`FullStaysFull`). `OverfilledNeverReturns` is that it comes to it.

**Liveness.** The prover treats ENABLED as an unknown formula, so the three
liveness theorems have it as a premise: in the states in which the request or the
beat waits, the edge that fairness is about is enabled. It is the only premise
besides the fair specification. The models satisfy it, because an edge accepts
all values of the inputs, assigns every variable once, and is shown by the lemmas
to change the state. TLC, given the premises as invariants under the constants of
`MCRegisterIface.cfg` and `MCParserPipeline.cfg` (beats 0 to 8), found them true in
all reachable states; the runs check `ReadAnswered` and `WriteAnswered` without
them.

Left to TLC: `Delivered` as it is stated, that in the end the counts meet, which
needs an induction over the beats the source still has; `InputNotBlocked`, whose
argument is an induction over queue lengths; and `ReturnsUnlessBlocked`, one over
the calls of a program. Every other property of a passing run is stated by a
theorem. Facts that need an induction over data, such as the bytes of a whole
packet being the concatenation of its beats, are stated position by position
instead.

## 6. Not modelled

* `packet_modifier`'s other actions (MAC swap, VLAN push and pop, addresses,
  DSCP, ECN): no rule of the match table asks for them and nothing writes rules, so
  no state reaches them. `rule_engine`, `packet_classifier` and `axis_register`
  are instantiated nowhere; each is the register of a pipeline stage.
* `crc32`: a loop over bits behind one register, on which a model checker shows
  no more than its known-vector test.
* Two 32-bit reads of a 48-bit counter in `control_plane.py` can straddle a
  carry. The client speaks commands that no testbench takes, so no modelled
  state is behind it; a hazard without a property.
* `run.py`, synthesis and waveform set-up: no behaviour.
* Of the benches: `tb_axi_lite`, `tb_rate_limiter` and `tb_crc`, straight lines
  of a few edges, whose devices have models with freer environments or none;
  `test_fifo_flags`, whose verdict is a constant; the monitor's CRC, whose result
  nothing reads; the bytes of headers and payloads.
* Compositions: flow table inside the pipeline (their state spaces multiply, and
  they meet only in `FlowMeta`, which is in the pipeline's model); the scheduler
  over three `AxisFifo` instances (the arbiter reads occupancies only, and
  `Refinement` is what makes a count of beats stand for a FIFO).
* Fields that no later stage reads; `almost_full` and `almost_empty`;
  `byte_count` of a flow, which moves with `packet_count`.
