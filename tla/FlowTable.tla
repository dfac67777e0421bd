----------------------------- MODULE FlowTable -----------------------------
(* flow_table (src/rtl/memory/flow_table.sv): a two-way set-associative table *)
(* of the flows seen, updated on the last beat of every packet, with lazy     *)
(* expiry against a wrapping cycle counter.  One step is one rising clock     *)
(* edge.  The data path of the stage is in ParserPipeline; byte_count moves   *)
(* exactly with packet_count and is left out.                                 *)
EXTENDS Integers

CONSTANTS Flow,            \* the 5-tuples that occur
          set_idx,         \* set_idx[f]: the set that f hashes to
          NUM_SETS,
          NowSpace,        \* 2^32: the cycle counter counts modulo this
          TIMEOUT_CYCLES,
          MaxCount         \* packets of one flow the model sends in a row

NUM_WAYS == 2
Way == 0 .. NUM_WAYS - 1
Set == 0 .. NUM_SETS - 1
Now == 0 .. NowSpace - 1

(* The counter must be able to show that an entry has expired.                *)
ASSUME FlowTableAssumption ==
  /\ NUM_SETS \in Nat \ {0}
  /\ set_idx \in [Flow -> Set]
  /\ NowSpace \in Nat /\ TIMEOUT_CYCLES \in Nat
  /\ 0 < TIMEOUT_CYCLES /\ TIMEOUT_CYCLES < NowSpace
  /\ MaxCount \in Nat \ {0}

VARIABLES flow_ram,
          lru,       \* logic [NUM_WAYS-1:0], indexed by set
          now,
          seen,      \* history: packets of each flow since it last entered
          age,       \* history: edges since its last packet, up to NowSpace
          touched    \* history: the way last touched in each set, and how

vars == <<flow_ram, lru, now, seen, age, touched>>

-----------------------------------------------------------------------------
Invalid == [valid |-> FALSE]
Entry(f, count) == [valid |-> TRUE, key |-> f, packet_count |-> count,
                    last_seen |-> now]

(* lru has one bit per way although the set selects the bit.  The compiled    *)
(* simulation reads 0 from a bit that does not exist and writes nothing.      *)
lru_bit(s) == IF s < NUM_WAYS THEN lru[s] ELSE 0

(* now - last_seen and now + 1 on 32 bits *)
BugAgeNotWrapped(w, s) == now - flow_ram[w][s].last_seen
idle(w, s) == LET last_seen == flow_ram[w][s].last_seen
              IN  IF last_seen <= now THEN now - last_seen
                                      ELSE now - last_seen + NowSpace
NextNow == IF now = NowSpace - 1 THEN 0 ELSE now + 1

way_valid(w, s) == /\ flow_ram[w][s].valid
                   /\ idle(w, s) < TIMEOUT_CYCLES

way_hit(w, f) == /\ flow_ram[w][set_idx[f]].valid
                 /\ flow_ram[w][set_idx[f]].key = f

flow_hit(f) == \E w \in Way : way_hit(w, f) /\ way_valid(w, set_idx[f])
expired_hit(f) == \E w \in Way : way_hit(w, f) /\ ~way_valid(w, set_idx[f])

BugVictimIsLru(s) == lru_bit(s)
victim(s) == IF lru_bit(s) = 1 THEN 0 ELSE 1

(* flow_ram[w][s] <= e for each of these ways, and lru[s] <= b if that bit    *)
(* exists                                                                     *)
Put(ways, s, e) ==
  flow_ram' = [w \in Way |-> IF w \in ways THEN [flow_ram[w] EXCEPT ![s] = e]
                             ELSE flow_ram[w]]
SetLru(s, b) == lru' = IF s < NUM_WAYS THEN [lru EXCEPT ![s] = b] ELSE lru
Touch(w, s, how) == touched' = [touched EXCEPT ![s] = [way |-> w, how |-> how]]

-----------------------------------------------------------------------------
(* now and the ages move on every edge; f's packet, if any, ends on this one. *)
Tick(arrivals) ==
  /\ now' = NextNow
  /\ age' = [f \in Flow |-> IF f \in arrivals THEN 1
                            ELSE IF age[f] < NowSpace THEN age[f] + 1
                            ELSE age[f]]

(* The loops over the ways write every way that qualifies; of their writes to *)
(* lru the last stands.                                                       *)
LastOf(ways) == IF 1 \in ways THEN 1 ELSE 0
Rewrite(f, ways, count) ==
  LET s == set_idx[f]
  IN  /\ Put(ways, s, Entry(f, count))
      /\ SetLru(s, 1 - LastOf(ways))
      /\ Touch(LastOf(ways), s, "hit")

(* The count that a hit adds to is selected by the key in way 0 alone, live   *)
(* or not, while the ways it is written to are those that are live.           *)
BugCountOfLiveWay(f) ==
  LET w == IF way_valid(0, set_idx[f]) THEN 0 ELSE 1
  IN  flow_ram[w][set_idx[f]].packet_count
hit_pkt_cnt(f) == LET w == IF way_hit(0, f) THEN 0 ELSE 1
                  IN  flow_ram[w][set_idx[f]].packet_count

HitWays(f) == {w \in Way : way_hit(w, f) /\ way_valid(w, set_idx[f])}

Hit(f) ==
  /\ flow_hit(f)
  /\ seen[f] < MaxCount
  /\ Rewrite(f, HitWays(f), hit_pkt_cnt(f) + 1)
  /\ seen' = [seen EXCEPT ![f] = @ + 1]
  /\ Tick({f})

(* The entry is there but timed out: it starts again in its way. *)
KeyWays(f) == {w \in Way : way_hit(w, f)}

BugExpiredKeepsCount(f) ==
  /\ ~flow_hit(f)
  /\ expired_hit(f)
  /\ Rewrite(f, KeyWays(f), hit_pkt_cnt(f))
  /\ seen' = [seen EXCEPT ![f] = 1]
  /\ Tick({f})
ExpiredHit(f) ==
  /\ ~flow_hit(f)
  /\ expired_hit(f)
  /\ Rewrite(f, KeyWays(f), 1)
  /\ seen' = [seen EXCEPT ![f] = 1]
  /\ Tick({f})

BugExpiredInsertsAgain(f) ==
  LET s == set_idx[f]
      w == victim(s)
  IN  /\ ~flow_hit(f)
      /\ Put({w}, s, Entry(f, 1))
      /\ SetLru(s, 1 - lru_bit(s))
      /\ Touch(w, s, "miss")
      /\ seen' = [seen EXCEPT ![f] = 1]
      /\ Tick({f})
Miss(f) ==
  LET s == set_idx[f]
      w == victim(s)
  IN  /\ ~flow_hit(f)
      /\ ~expired_hit(f)
      /\ Put({w}, s, Entry(f, 1))
      /\ SetLru(s, 1 - lru_bit(s))
      /\ Touch(w, s, "miss")
      /\ seen' = [seen EXCEPT ![f] = 1]
      /\ Tick({f})

(* update_en is low: no packet ends in this stage. *)
NoUpdate == /\ UNCHANGED <<flow_ram, lru, seen, touched>>
            /\ Tick({})

EmptyTable == [w \in Way |-> [s \in Set |-> Invalid]]

(* rst_n low *)
Reset == /\ flow_ram' = EmptyTable
         /\ lru' = [s \in Way |-> 0]
         /\ now' = 0
         /\ seen' = [f \in Flow |-> 0]
         /\ age' = [f \in Flow |-> NowSpace]
         /\ touched' = [s \in Set |-> [way |-> 0, how |-> "never"]]

Init == /\ flow_ram = EmptyTable
        /\ lru = [s \in Way |-> 0]
        /\ now = 0
        /\ seen = [f \in Flow |-> 0]
        /\ age = [f \in Flow |-> NowSpace]
        /\ touched = [s \in Set |-> [way |-> 0, how |-> "never"]]

Next == \/ \E f \in Flow : Hit(f) \/ ExpiredHit(f) \/ Miss(f)
        \/ NoUpdate
        \/ Reset

Spec == Init /\ [][Next]_vars

-----------------------------------------------------------------------------
EntryType == [valid : {TRUE}, key : Flow, packet_count : 1 .. MaxCount,
              last_seen : Now]

(* Every entry is invalid or holds values of its widths. *)
TypeOK == /\ flow_ram \in [Way -> [Set -> EntryType \cup {Invalid}]]
          /\ lru \in [Way -> {0, 1}]
          /\ now \in Now
          /\ seen \in [Flow -> 0 .. MaxCount]
          /\ age \in [Flow -> 1 .. NowSpace]

(* A flow sits in its own set and in one way of it only, whatever was evicted,*)
(* expired and inserted again: a lookup finds one entry or none.              *)
OneEntryPerFlow ==
  \A w \in Way, s \in Set :
    flow_ram[w][s].valid =>
      /\ set_idx[flow_ram[w][s].key] = s
      /\ \A w2 \in Way \ {w} :
           ~(flow_ram[w2][s].valid /\ flow_ram[w2][s].key = flow_ram[w][s].key)

(* The counter of an entry counts the flow's packets since it entered or      *)
(* started again, and none of another flow's.  A hit adds to the count of the *)
(* way chosen by hit_pkt_cnt, which tests less than the write does: the right *)
(* count reaches the right way only as long as a flow is never in both.       *)
CountsItsFlow ==
  \A w \in Way, s \in Set :
    flow_ram[w][s].valid => flow_ram[w][s].packet_count = seen[flow_ram[w][s].key]

(* Idle timeout: until the cycle counter has gone round since the flow's last *)
(* packet, its entry is live exactly while fewer than TIMEOUT_CYCLES edges    *)
(* have passed, across the wrap.  (After that it may come back to life: the   *)
(* counter cannot tell.)                                                      *)
LiveIffRecent ==
  \A w \in Way, s \in Set :
    flow_ram[w][s].valid /\ age[flow_ram[w][s].key] < NowSpace
      => (way_valid(w, s) <=> age[flow_ram[w][s].key] < TIMEOUT_CYCLES)

(* What the proof of the last one needs: the wrapped difference is the age.   *)
AgesAgree ==
  \A w \in Way, s \in Set :
    flow_ram[w][s].valid /\ age[flow_ram[w][s].key] < NowSpace
      => idle(w, s) = age[flow_ram[w][s].key]
Inv == TypeOK /\ OneEntryPerFlow /\ CountsItsFlow /\ AgesAgree

(* Which way a miss takes: in the two sets whose lru bit exists, the way last *)
(* hit, or the other one if the last access was itself a miss; in all other   *)
(* sets way 1, so they hold one flow and way 0 stays empty.                   *)
MissTakesLastHit ==
  \A s \in Set :
    IF s < NUM_WAYS
    THEN CASE touched[s].how = "hit"  -> victim(s) = touched[s].way
           [] touched[s].how = "miss" -> victim(s) = 1 - touched[s].way
           [] OTHER -> victim(s) = 1
    ELSE victim(s) = 1 /\ ~flow_ram[0][s].valid

-----------------------------------------------------------------------------
(* "2-way set-associative, LRU eviction" (src/README.md:37): a miss replaces  *)
(* no entry more recently used than the other way's, and none at all while    *)
(* the other way is free.                                                     *)
MoreRecent(w1, w2, s) ==
  \/ ~flow_ram[w2][s].valid
  \/ age[flow_ram[w1][s].key] < age[flow_ram[w2][s].key]
EvictsLeastRecent ==
  [][ \A f \in Flow :
        LET s == set_idx[f]
        IN  Miss(f) /\ flow_ram[victim(s)][s].valid
              => ~MoreRecent(victim(s), 1 - victim(s), s) ]_vars
=============================================================================
