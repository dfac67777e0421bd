---------------------------- MODULE TokenBucket ----------------------------
(* token_bucket (src/rtl/filters/token_bucket.sv): a rate limiter that adds   *)
(* cfg_rate bytes of credit when its timer expires, up to cfg_burst, and      *)
(* admits a packet if the credit covers it.  One step is one rising clock     *)
(* edge, or a write of the configuration between two edges.                   *)
EXTENDS Integers, FiniteSetsExt

CONSTANTS TokenSpace,  \* 2^C_WIDTH
          Configs,     \* the configurations software writes
          Lengths,     \* pkt_length of the packets that arrive
          MaxQuiet     \* where the history variable quiet stops counting

Token == 0 .. TokenSpace - 1

ASSUME BucketAssumption ==
  /\ TokenSpace \in Nat \ {0}
  /\ Configs \subseteq [rate : Token, burst : Token, interval : Nat]
  /\ Lengths \subseteq Nat
  /\ MaxQuiet \in Nat

VARIABLES cfg,      \* cfg_rate, cfg_burst, cfg_interval
          tokens,
          timer,
          ideal,    \* history: the credit of a bucket that loses no refill
          ceiling,  \* history: what bounds the credit left from earlier writes
          quiet     \* history: edges since an admission or a wrapped refill

vars == <<cfg, tokens, timer, ideal, ceiling, quiet>>

NoPacket == -1

-----------------------------------------------------------------------------
BugExpiresOnlyAtInterval == timer = cfg.interval
Expired == timer >= cfg.interval

(* tokens + cfg_rate is a C_WIDTH-bit sum: it wraps. *)
RefillWraps == Expired /\ tokens + cfg.rate >= TokenSpace
BugNoSaturation == (tokens + cfg.rate) % TokenSpace
Refilled == Min({(tokens + cfg.rate) % TokenSpace, cfg.burst})

BugAllowsOneOver(len) == len # NoPacket /\ tokens + 1 >= len
pkt_allow(len) == len # NoPacket /\ tokens >= len

BugTimerNotRestarted == timer + 1
TimerNext == IF Expired THEN 0 ELSE timer + 1

(* Both assignments to tokens are in one block: that of an admitted packet    *)
(* comes second and replaces that of a refill on the same edge.               *)
BugFreeAdmission(len) == IF Expired THEN Refilled
                         ELSE IF pkt_allow(len) THEN tokens - len
                         ELSE tokens
TokensNext(len) == IF pkt_allow(len) THEN tokens - len
                   ELSE IF Expired THEN Refilled
                   ELSE tokens

-----------------------------------------------------------------------------
(* The bucket a refill and an admission can both reach on one edge. *)
IdealNext(len) ==
  (IF Expired THEN Min({ideal + cfg.rate, cfg.burst}) ELSE ideal)
    - (IF pkt_allow(len) THEN len ELSE 0)

Init == /\ cfg \in Configs
        /\ tokens = cfg.burst
        /\ timer = 0
        /\ ideal = cfg.burst
        /\ ceiling = cfg.burst
        /\ quiet = 0

(* A clock edge with rst_n high; len is NoPacket when pkt_valid is low. *)
Clock(len) ==
  /\ timer' = TimerNext
  /\ tokens' = TokensNext(len)
  /\ ideal' = IF ceiling > cfg.burst THEN tokens' ELSE IdealNext(len)
  /\ ceiling' = IF Expired /\ ~pkt_allow(len) THEN cfg.burst ELSE ceiling
  /\ quiet' = IF pkt_allow(len) \/ RefillWraps THEN 0 ELSE Min({quiet + 1, MaxQuiet})
  /\ UNCHANGED cfg

(* Software writes the configuration ("AXI-Lite writable"): neither register  *)
(* reacts before the next edge.                                               *)
Configure(c) == /\ cfg' = c
                /\ ideal' = tokens
                /\ ceiling' = Max({tokens, c.burst})
                /\ quiet' = 0
                /\ UNCHANGED <<tokens, timer>>

(* A clock edge with rst_n low. *)
Reset == /\ tokens' = cfg.burst
         /\ timer' = 0
         /\ ideal' = cfg.burst
         /\ ceiling' = cfg.burst
         /\ quiet' = 0
         /\ UNCHANGED cfg

Next == \/ \E len \in Lengths \cup {NoPacket} : Clock(len)
        \/ \E c \in Configs : Configure(c)
        \/ Reset

Spec == Init /\ [][Next]_vars

-----------------------------------------------------------------------------
(* The registers hold values of their width, and the timer one it can reach   *)
(* under some configuration, although software lowers the interval below it.  *)
TypeOK == /\ cfg \in Configs
          /\ tokens \in Token
          /\ \E c \in Configs : timer \in 0 .. c.interval
          /\ ideal \in Int
          /\ ceiling \in Token
          /\ quiet \in 0 .. MaxQuiet

(* The credit never exceeds cfg_burst, except what was in the bucket when     *)
(* software lowered cfg_burst, and that only until a timer expiry that no     *)
(* admitted packet shares its edge with.                                      *)
WithinCeiling == tokens <= ceiling

(* Never over-admits: as long as no such surplus is left, the credit is at    *)
(* most that of an ideal bucket fed with the same packets.  The refill lost   *)
(* to a packet on the same edge and the wrap of the sum only withhold credit. *)
NeverOverAdmits == ceiling = cfg.burst => tokens <= ideal

(* The three together with what makes them inductive: ceiling is never below  *)
(* the burst now configured.                                                  *)
Inv == TypeOK /\ WithinCeiling /\ NeverOverAdmits /\ ceiling >= cfg.burst

(* Refills arrive: without admissions for a while, every full timer period,   *)
(* which is cfg_interval + 1 edges, has added cfg_rate, up to cfg_burst,      *)
(* unless the sum no longer fitted C_WIDTH bits.                              *)
QuietBucketRefills ==
  tokens >= Min({cfg.burst, cfg.rate * (quiet \div (cfg.interval + 1))})
=============================================================================
