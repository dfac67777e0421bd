------------------------- MODULE TokenBucketProofs -------------------------
(* Proofs about token_bucket, for every width, every set of configurations    *)
(* and packet lengths, and every reconfiguration while it runs.               *)
EXTENDS TokenBucket, TLAPS

LEMMA MinOfTwo == ASSUME NEW a \in Int, NEW b \in Int
                  PROVE  /\ Min({a, b}) \in {a, b}
                         /\ Min({a, b}) <= a
                         /\ Min({a, b}) <= b
<1>1. CASE a <= b
  <2>1. \E x \in {a, b} : \A y \in {a, b} : x <= y
    BY <1>1
  <2> QED BY <2>1 DEF Min
<1>2. CASE b <= a
  <2>1. \E x \in {a, b} : \A y \in {a, b} : x <= y
    BY <1>2
  <2> QED BY <2>1 DEF Min
<1> QED BY <1>1, <1>2

LEMMA MaxOfTwo == ASSUME NEW a \in Int, NEW b \in Int
                  PROVE  /\ Max({a, b}) \in {a, b}
                         /\ Max({a, b}) >= a
                         /\ Max({a, b}) >= b
<1>1. CASE a >= b
  <2>1. \E x \in {a, b} : \A y \in {a, b} : x >= y
    BY <1>1
  <2> QED BY <2>1 DEF Max
<1>2. CASE b >= a
  <2>1. \E x \in {a, b} : \A y \in {a, b} : x >= y
    BY <1>2
  <2> QED BY <2>1 DEF Max
<1> QED BY <1>1, <1>2

(* A C_WIDTH-bit sum is a token count, and never more than the exact sum.     *)
LEMMA SumWraps == ASSUME NEW a \in Token, NEW b \in Token
                  PROVE  /\ (a + b) % TokenSpace \in Token
                         /\ (a + b) % TokenSpace <= a + b
<1>1. TokenSpace \in Nat /\ TokenSpace > 0
  BY BucketAssumption
<1>2. a + b \in Nat
  BY <1>1 DEF Token
<1>3. ASSUME NEW n \in Nat, NEW m \in Nat, m > 0
      PROVE  n % m \in 0 .. m - 1 /\ n % m <= n
  BY <1>3
<1> QED BY <1>1, <1>2, <1>3 DEF Token

LEMMA ConfigType == ASSUME NEW c \in Configs
                    PROVE  c.rate \in Token /\ c.burst \in Token /\ c.interval \in Nat
BY BucketAssumption

(* What one edge does to the credit: it stays a token count under the ceiling *)
(* of the next state, and a refill never passes that of the ideal bucket.     *)
LEMMA EdgeCredit == ASSUME Inv, NEW len \in Lengths \cup {NoPacket}
                    PROVE  /\ TokensNext(len) \in Token
                           /\ IdealNext(len) \in Int
                           /\ IF Expired /\ ~pkt_allow(len)
                              THEN TokensNext(len) <= cfg.burst
                              ELSE TokensNext(len) <= tokens
                           /\ ceiling = cfg.burst => TokensNext(len) <= IdealNext(len)
<1> DEFINE sum == (tokens + cfg.rate) % TokenSpace
<1>1. /\ tokens \in Token /\ ideal \in Int /\ ceiling \in Token
      /\ cfg.rate \in Token /\ cfg.burst \in Token /\ tokens <= ceiling
      /\ ceiling = cfg.burst => tokens <= ideal
  BY ConfigType DEF Inv, TypeOK, WithinCeiling, NeverOverAdmits
<1>2. /\ sum \in Token /\ sum <= tokens + cfg.rate
  BY <1>1, SumWraps
<1>3. /\ Refilled \in Token /\ Refilled <= cfg.burst /\ Refilled <= sum
      /\ Refilled \in {sum, cfg.burst}
  <2>1. sum \in Int /\ cfg.burst \in Int
    BY <1>1, <1>2 DEF Token
  <2>2. Refilled = Min({sum, cfg.burst})
    BY DEF Refilled
  <2> HIDE DEF sum
  <2>3. Refilled \in {sum, cfg.burst} /\ Refilled <= sum /\ Refilled <= cfg.burst
    BY <2>1, <2>2, MinOfTwo
  <2> QED BY <1>1, <1>2, <2>3
<1>4. ideal + cfg.rate \in Int /\ cfg.burst \in Int
  BY <1>1 DEF Token
<1> DEFINE m == Min({ideal + cfg.rate, cfg.burst})
<1>5. m \in {ideal + cfg.rate, cfg.burst} /\ m \in Int
  BY <1>4, MinOfTwo
<1> HIDE DEF sum, m
<1>6. CASE pkt_allow(len)
  <2>1. len \in Nat /\ tokens >= len
    BY <1>6, BucketAssumption DEF pkt_allow, NoPacket
  <2>2. TokensNext(len) = tokens - len
    BY <1>6 DEF TokensNext
  <2>3. IdealNext(len) = IF Expired THEN m - len ELSE ideal - len
    BY <1>6 DEF IdealNext, m
  <2>4. tokens - len \in Token /\ tokens - len <= tokens
    BY <1>1, <2>1, BucketAssumption DEF Token
  <2>5. IdealNext(len) \in Int
    BY <1>1, <1>5, <2>1, <2>3
  <2>6. ceiling = cfg.burst => tokens - len <= IdealNext(len)
    BY <1>1, <1>5, <2>1, <2>3 DEF Token
  <2> QED BY <1>6, <2>2, <2>4, <2>5, <2>6
<1>7. CASE ~pkt_allow(len)
  <2>1. TokensNext(len) = IF Expired THEN Refilled ELSE tokens
    BY <1>7 DEF TokensNext
  <2>2. IdealNext(len) = IF Expired THEN m - 0 ELSE ideal - 0
    BY <1>7 DEF IdealNext, m
  <2> QED BY <1>1, <1>2, <1>3, <1>5, <1>7, <2>1, <2>2 DEF Token
<1> QED BY <1>6, <1>7

LEMMA InitInv == Init => Inv
<1> SUFFICES ASSUME Init PROVE Inv
  OBVIOUS
<1>1. cfg \in Configs /\ cfg.burst \in Token /\ cfg.interval \in Nat
  BY ConfigType DEF Init
<1>2. MaxQuiet \in Nat /\ TokenSpace \in Nat
  BY BucketAssumption
<1> QED BY <1>1, <1>2 DEF Init, Inv, TypeOK, WithinCeiling, NeverOverAdmits, Token

LEMMA NextInv == Inv /\ [Next]_vars => Inv'
<1> SUFFICES ASSUME Inv, [Next]_vars PROVE Inv'
  OBVIOUS
<1>0. /\ cfg \in Configs /\ cfg.burst \in Token /\ cfg.interval \in Nat
      /\ tokens \in Token /\ ceiling \in Token /\ quiet \in 0 .. MaxQuiet
      /\ MaxQuiet \in Nat /\ TokenSpace \in Nat
  BY ConfigType, BucketAssumption DEF Inv, TypeOK
<1>1. ASSUME NEW len \in Lengths \cup {NoPacket}, Clock(len) PROVE Inv'
  <2>1. /\ tokens' = TokensNext(len) /\ cfg' = cfg
        /\ ideal' = IF ceiling > cfg.burst THEN tokens' ELSE IdealNext(len)
        /\ ceiling' = IF Expired /\ ~pkt_allow(len) THEN cfg.burst ELSE ceiling
    BY <1>1 DEF Clock
  <2>2. \E c \in Configs : timer' \in 0 .. c.interval
    <3>1. timer' \in 0 .. cfg.interval
      BY <1>0, <1>1, ConfigType DEF Clock, TimerNext, Expired, Inv, TypeOK
    <3> QED BY <1>0, <3>1
  <2>3. quiet' \in 0 .. MaxQuiet
    <3>1. /\ Min({quiet + 1, MaxQuiet}) \in {quiet + 1, MaxQuiet}
          /\ Min({quiet + 1, MaxQuiet}) <= MaxQuiet
      <4>1. quiet + 1 \in Int /\ MaxQuiet \in Int
        BY <1>0
      <4> QED BY <4>1, MinOfTwo
    <3>2. quiet' = 0 \/ quiet' = Min({quiet + 1, MaxQuiet})
      BY <1>1 DEF Clock
    <3> QED BY <1>0, <3>1, <3>2
  <2>4. /\ tokens' \in Token /\ IdealNext(len) \in Int
        /\ IF Expired /\ ~pkt_allow(len) THEN tokens' <= cfg.burst
                                         ELSE tokens' <= tokens
        /\ ceiling = cfg.burst => tokens' <= IdealNext(len)
    BY <2>1, EdgeCredit
  <2>5. TypeOK'
    BY <1>0, <2>1, <2>2, <2>3, <2>4 DEF TypeOK, Token
  <2>6. WithinCeiling' /\ (ceiling >= cfg.burst)'
    BY <1>0, <2>1, <2>4 DEF Inv, WithinCeiling, Token
  <2>7. NeverOverAdmits'
    BY <1>0, <2>1, <2>4 DEF Inv, NeverOverAdmits, Token
  <2> QED BY <2>5, <2>6, <2>7 DEF Inv
<1>2. ASSUME NEW c \in Configs, Configure(c) PROVE Inv'
  <2>1. c.burst \in Token
    BY ConfigType
  <2>2. /\ Max({tokens, c.burst}) \in {tokens, c.burst}
        /\ Max({tokens, c.burst}) >= tokens
        /\ Max({tokens, c.burst}) >= c.burst
    <3>1. tokens \in Int /\ c.burst \in Int
      BY <1>0, <2>1 DEF Token
    <3> QED BY <3>1, MaxOfTwo
  <2>3. /\ cfg' = c /\ tokens' = tokens /\ timer' = timer /\ ideal' = tokens
        /\ quiet' = 0 /\ ceiling' = Max({tokens, c.burst})
    BY <1>2 DEF Configure
  <2>4. TypeOK'
    BY <1>0, <2>1, <2>2, <2>3 DEF Inv, TypeOK, Token
  <2> QED BY <1>0, <2>2, <2>3, <2>4 DEF Inv, WithinCeiling, NeverOverAdmits, Token
<1>3. CASE Reset
  BY <1>0, <1>3 DEF Reset, Inv, TypeOK, WithinCeiling, NeverOverAdmits, Token
<1>4. CASE UNCHANGED vars
  BY <1>4 DEF vars, Inv, TypeOK, WithinCeiling, NeverOverAdmits
<1> QED BY <1>1, <1>2, <1>3, <1>4 DEF Next

THEOREM Invariance == Spec => []Inv
<1> QED BY InitInv, NextInv, PTL DEF Spec

(* The registers keep values of their width, whatever software writes.        *)
THEOREM TypeCorrect == Spec => []TypeOK
<1>1. Inv => TypeOK
  BY DEF Inv
<1> QED BY <1>1, Invariance, PTL

(* Surplus credit is bounded by what the bucket held when the burst was last  *)
(* lowered (line 35 is the only way it goes, and line 43 can override that).  *)
THEOREM SurplusBounded == Spec => []WithinCeiling
<1>1. Inv => WithinCeiling
  BY DEF Inv
<1> QED BY <1>1, Invariance, PTL

(* The rate limiter never admits a packet that an ideal bucket with the same  *)
(* configuration and traffic would refuse, unless surplus credit is left over.*)
THEOREM NoOverAdmission == Spec => []NeverOverAdmits
<1>1. Inv => NeverOverAdmits
  BY DEF Inv
<1> QED BY <1>1, Invariance, PTL

-----------------------------------------------------------------------------
LEMMA ProductMonotone == ASSUME NEW a \in Nat, NEW b \in Nat, NEW c \in Nat, a <= b
                         PROVE  c * a <= c * b
<1> DEFINE d == b - a
<1>1. d \in Nat /\ b = a + d
  OBVIOUS
<1>2. c * d \in Nat
  BY <1>1
<1>3. c * (a + d) = c * a + c * d
  BY <1>1
<1>4. c * a \in Nat
  OBVIOUS
<1> HIDE DEF d
<1> QED BY <1>1, <1>2, <1>3, <1>4

(* A time shorter than r + 1 periods has at most r of them.                   *)
LEMMA PeriodsIn == ASSUME NEW q \in Nat, NEW n \in Nat, NEW r \in Nat,
                          q < (n + 1) * (r + 1)
                   PROVE  q \div (n + 1) \in Nat /\ q \div (n + 1) <= r
<1> DEFINE p == n + 1
           k == q \div p
<1>1. p \in Nat /\ p > 0
  OBVIOUS
<1>2. k \in Nat /\ p * k <= q
  <2>1. ASSUME NEW x \in Nat, NEW y \in Nat, y > 0
        PROVE  x \div y \in Nat /\ y * (x \div y) <= x
    BY <2>1
  <2> QED BY <1>1, <2>1
<1>3. k <= r
  <2> SUFFICES ASSUME ~(k <= r) PROVE FALSE
    OBVIOUS
  <2>1. r + 1 \in Nat /\ r + 1 <= k
    BY <1>2
  <2>2. p * (r + 1) <= p * k
    BY <1>1, <1>2, <2>1, ProductMonotone
  <2>3. p * (r + 1) \in Nat /\ p * k \in Nat
    BY <1>1, <1>2, <2>1
  <2>4. q < p * (r + 1)
    OBVIOUS
  <2> HIDE DEF p, k
  <2> QED BY <1>2, <2>2, <2>3, <2>4
<1> QED BY <1>2, <1>3

(* What QuietBucketRefills rests on: in the quiet time some number r of       *)
(* periods has ended, each has added cfg_rate, and what is left of the time   *)
(* is in the timer.  A timer beyond its interval, which software can leave    *)
(* behind by lowering cfg_interval, only occurs at the start of quiet time.   *)
PeriodsEnded(r) == /\ quiet <= (cfg.interval + 1) * r + timer
                   /\ tokens >= Min({cfg.burst, cfg.rate * r})

RefillInv == /\ timer > cfg.interval => quiet = 0
             /\ \E r \in Nat : PeriodsEnded(r)

LEMMA TimerType == ASSUME TypeOK PROVE timer \in Nat
<1>1. PICK c \in Configs : timer \in 0 .. c.interval
  BY DEF TypeOK
<1>2. c.interval \in Nat
  BY ConfigType
<1> QED BY <1>1, <1>2

(* At the start of quiet time nothing has ended and nothing is claimed.       *)
LEMMA QuietStarts == ASSUME TypeOK, quiet = 0 PROVE RefillInv
<1>1. /\ timer \in Nat /\ cfg.burst \in Token /\ cfg.rate \in Token
      /\ cfg.interval \in Nat /\ tokens \in Token
  BY TimerType, ConfigType DEF TypeOK
<1>2. (cfg.interval + 1) * 0 = 0 /\ cfg.rate * 0 = 0
  BY <1>1, BucketAssumption DEF Token
<1>3. Min({cfg.burst, 0}) <= 0
  <2>1. cfg.burst \in Int /\ 0 \in Int
    BY <1>1 DEF Token
  <2> QED BY <2>1, MinOfTwo
<1>4. Min({cfg.burst, 0}) \in Int
  <2>1. cfg.burst \in Int /\ 0 \in Int
    BY <1>1 DEF Token
  <2> QED BY <2>1, MinOfTwo
<1>5. PeriodsEnded(0)
  <2>1. quiet <= (cfg.interval + 1) * 0 + timer
    BY <1>1, <1>2
  <2>2. tokens \in Nat
    BY <1>1 DEF Token
  <2>3. tokens >= Min({cfg.burst, cfg.rate * 0})
    <3> DEFINE m == Min({cfg.burst, 0})
    <3>1. m \in Int /\ m <= 0
      BY <1>3, <1>4
    <3> HIDE DEF m
    <3>2. tokens >= m
      BY <2>2, <3>1
    <3> QED BY <1>2, <3>2 DEF m
  <2> QED BY <2>1, <2>3 DEF PeriodsEnded
<1> QED BY <1>5 DEF RefillInv

LEMMA QuietStartsNext == ASSUME TypeOK', quiet' = 0 PROVE RefillInv'
<1>1. /\ timer' \in Nat /\ cfg'.burst \in Token /\ cfg'.rate \in Token
      /\ cfg'.interval \in Nat /\ tokens' \in Token
  <2>1. PICK c \in Configs : timer' \in 0 .. c.interval
    BY DEF TypeOK
  <2>2. c.interval \in Nat
    BY ConfigType
  <2>3. cfg' \in Configs /\ tokens' \in Token
    BY DEF TypeOK
  <2> QED BY <2>1, <2>2, <2>3, ConfigType
<1>2. (cfg'.interval + 1) * 0 = 0 /\ cfg'.rate * 0 = 0
  BY <1>1, BucketAssumption DEF Token
<1>3. Min({cfg'.burst, 0}) <= 0 /\ Min({cfg'.burst, 0}) \in Int
  <2>1. cfg'.burst \in Int /\ 0 \in Int
    BY <1>1 DEF Token
  <2> QED BY <2>1, MinOfTwo
<1>4. PeriodsEnded(0)'
  BY <1>1, <1>2, <1>3 DEF PeriodsEnded, Token
<1> QED BY <1>4 DEF RefillInv

(* An edge that neither admits nor wraps: the period that ends on it, if one  *)
(* does, has added cfg_rate or filled the bucket.                             *)
LEMMA QuietEdge == ASSUME TypeOK, RefillInv, NEW len \in Lengths \cup {NoPacket},
                          Clock(len), ~pkt_allow(len), ~RefillWraps
                   PROVE  RefillInv'
<1>1. /\ timer \in Nat /\ cfg.burst \in Token /\ cfg.rate \in Token
      /\ cfg.interval \in Nat /\ tokens \in Token /\ quiet \in Nat
      /\ MaxQuiet \in Nat /\ TokenSpace \in Nat
  BY TimerType, ConfigType, BucketAssumption DEF TypeOK
<1>2. PICK r \in Nat : PeriodsEnded(r)
  BY DEF RefillInv
<1>3. cfg' = cfg /\ timer' = TimerNext /\ tokens' = TokensNext(len)
      /\ quiet' \in Nat /\ quiet' <= quiet + 1
  <2>1. quiet' = Min({quiet + 1, MaxQuiet})
    BY DEF Clock
  <2>2. quiet + 1 \in Int /\ MaxQuiet \in Int
    BY <1>1
  <2>3. Min({quiet + 1, MaxQuiet}) \in {quiet + 1, MaxQuiet}
        /\ Min({quiet + 1, MaxQuiet}) <= quiet + 1
    BY <2>2, MinOfTwo
  <2> QED BY <1>1, <2>1, <2>3 DEF Clock
<1>4. CASE Expired
  <2> DEFINE P == cfg.interval + 1
             have == cfg.rate * r
  <2>1. /\ P \in Nat /\ P * r \in Nat /\ P * (r + 1) = P * r + P
        /\ have \in Nat /\ cfg.rate * (r + 1) = have + cfg.rate
    BY <1>1, <1>2 DEF Token
  <2>2. timer' = 0 /\ tokens' = Refilled
    BY <1>3, <1>4 DEF TimerNext, TokensNext
  <2>3. quiet' <= P * (r + 1) + timer'
    <3>1. quiet <= P * r + timer /\ (timer > cfg.interval => quiet = 0)
          /\ timer >= cfg.interval
      BY <1>2, <1>4 DEF PeriodsEnded, RefillInv, Expired
    <3>2. P = cfg.interval + 1
      OBVIOUS
    <3> DEFINE pr == P * r
    <3>3. pr \in Nat /\ quiet <= pr + timer
      BY <2>1, <3>1
    <3> HIDE DEF P, pr
    <3>4. quiet + 1 <= pr + P
      BY <1>1, <3>1, <3>2, <3>3
    <3>5. P * (r + 1) + timer' = pr + P
      BY <2>1, <2>2, <3>3 DEF pr
    <3> QED BY <1>1, <1>3, <2>1, <3>3, <3>4, <3>5
  <2>4. tokens + cfg.rate < TokenSpace
    BY <1>1, <1>4 DEF RefillWraps, Token
  <2>5. (tokens + cfg.rate) % TokenSpace = tokens + cfg.rate
    <3>1. ASSUME NEW x \in Nat, NEW m \in Nat, x < m PROVE x % m = x
      BY <3>1
    <3>2. tokens + cfg.rate \in Nat
      BY <1>1 DEF Token
    <3> QED BY <1>1, <2>4, <3>1, <3>2
  <2>6. tokens' \in {tokens + cfg.rate, cfg.burst} /\ tokens' \in Int
    <3>1. tokens + cfg.rate \in Int /\ cfg.burst \in Int
      BY <1>1 DEF Token
    <3> QED BY <2>2, <2>5, <3>1, MinOfTwo DEF Refilled
  <2>7. tokens >= Min({cfg.burst, have})
    BY <1>2 DEF PeriodsEnded
  <2> HIDE DEF P, have
  <2>8. /\ Min({cfg.burst, have}) \in {cfg.burst, have}
    <3>1. cfg.burst \in Int /\ have \in Int
      BY <1>1, <2>1 DEF Token
    <3> QED BY <3>1, MinOfTwo
  <2>9. /\ Min({cfg.burst, have + cfg.rate}) \in Int
        /\ Min({cfg.burst, have + cfg.rate}) <= cfg.burst
        /\ Min({cfg.burst, have + cfg.rate}) <= have + cfg.rate
    <3>1. cfg.burst \in Int /\ have + cfg.rate \in Int
      BY <1>1, <2>1 DEF Token
    <3> QED BY <3>1, MinOfTwo
  <2>10. tokens' >= Min({cfg.burst, have + cfg.rate})
    BY <1>1, <2>1, <2>6, <2>7, <2>8, <2>9 DEF Token
  <2>11. PeriodsEnded(r + 1)'
    BY <1>3, <2>1, <2>3, <2>10 DEF PeriodsEnded, P
  <2>12. ~(timer' > cfg'.interval)
    BY <1>1, <1>3, <2>2
  <2> QED BY <1>2, <2>11, <2>12 DEF RefillInv
<1>5. CASE ~Expired
  <2>1. timer' = timer + 1 /\ tokens' = tokens /\ timer < cfg.interval
    BY <1>1, <1>3, <1>5 DEF TimerNext, TokensNext, Expired
  <2>2. (cfg.interval + 1) * r \in Nat
    BY <1>1, <1>2
  <2>3. PeriodsEnded(r)'
    BY <1>1, <1>2, <1>3, <2>1, <2>2 DEF PeriodsEnded
  <2> QED BY <1>1, <1>2, <1>3, <2>1, <2>3 DEF RefillInv
<1> QED BY <1>4, <1>5

LEMMA RefillStep == Inv /\ RefillInv /\ [Next]_vars => RefillInv'
<1> SUFFICES ASSUME Inv, RefillInv, [Next]_vars PROVE RefillInv'
  OBVIOUS
<1>1. TypeOK /\ TypeOK'
  BY NextInv DEF Inv
<1>2. ASSUME NEW len \in Lengths \cup {NoPacket}, Clock(len) PROVE RefillInv'
  <2>1. CASE pkt_allow(len) \/ RefillWraps
    <3>1. quiet' = 0
      BY <1>2, <2>1 DEF Clock
    <3> QED BY <1>1, <3>1, QuietStartsNext
  <2>2. CASE ~pkt_allow(len) /\ ~RefillWraps
    BY <1>1, <1>2, <2>2, QuietEdge
  <2> QED BY <2>1, <2>2
<1>3. ASSUME NEW c \in Configs, Configure(c) PROVE RefillInv'
  BY <1>1, <1>3, QuietStartsNext DEF Configure
<1>4. CASE Reset
  BY <1>1, <1>4, QuietStartsNext DEF Reset
<1>5. CASE UNCHANGED vars
  BY <1>5 DEF vars, RefillInv, PeriodsEnded
<1> QED BY <1>2, <1>3, <1>4, <1>5 DEF Next

(* The periods that fit in the quiet time have all ended.                     *)
LEMMA RefillConclusion == ASSUME TypeOK, RefillInv PROVE QuietBucketRefills
<1>1. /\ timer \in Nat /\ cfg.burst \in Token /\ cfg.rate \in Token
      /\ cfg.interval \in Nat /\ tokens \in Token /\ quiet \in Nat
  BY TimerType, ConfigType, BucketAssumption DEF TypeOK
<1>2. PICK r \in Nat : PeriodsEnded(r)
  BY DEF RefillInv
<1> DEFINE P == cfg.interval + 1
           k == quiet \div P
<1>3. quiet < P * (r + 1)
  <2>1. P \in Nat /\ P > 0 /\ P * r \in Nat /\ P * (r + 1) = P * r + P
    BY <1>1, <1>2
  <2>2. quiet <= P * r + timer /\ (timer > cfg.interval => quiet = 0)
    BY <1>2 DEF PeriodsEnded, RefillInv
  <2>3. P = cfg.interval + 1
    OBVIOUS
  <2> HIDE DEF P
  <2>4. quiet < P * r + P
    BY <1>1, <2>1, <2>2, <2>3
  <2> QED BY <2>1, <2>4
<1>4. k \in Nat /\ k <= r
  BY <1>1, <1>2, <1>3, PeriodsIn
<1>5. cfg.rate \in Nat /\ cfg.rate * k <= cfg.rate * r
  <2>1. cfg.rate \in Nat
    BY <1>1 DEF Token
  <2> HIDE DEF k
  <2> QED BY <1>2, <1>4, <2>1, ProductMonotone
<1>6. cfg.rate * k \in Nat /\ cfg.rate * r \in Nat
  <2> HIDE DEF k
  <2> QED BY <1>2, <1>4, <1>5
<1> DEFINE a == cfg.rate * k
           b == cfg.rate * r
<1>7. tokens >= Min({cfg.burst, b})
  BY <1>2 DEF PeriodsEnded
<1>8. a \in Nat /\ b \in Nat /\ a <= b
  BY <1>5, <1>6
<1>9. cfg.burst \in Int /\ tokens \in Int
  BY <1>1 DEF Token
<1> HIDE DEF a, b, k, P
<1>10. Min({cfg.burst, b}) \in {cfg.burst, b}
  <2>1. b \in Int
    BY <1>8
  <2> QED BY <1>9, <2>1, MinOfTwo
<1>11. /\ Min({cfg.burst, a}) \in {cfg.burst, a}
       /\ Min({cfg.burst, a}) <= cfg.burst
       /\ Min({cfg.burst, a}) <= a
  <2>1. a \in Int
    BY <1>8
  <2> QED BY <1>9, <2>1, MinOfTwo
<1>12. tokens >= Min({cfg.burst, a})
  BY <1>7, <1>8, <1>9, <1>10, <1>11
<1> QED BY <1>12 DEF QuietBucketRefills, a, k, P

(* Refills arrive: whatever the configuration, the width and the history of   *)
(* writes, a bucket that admits nothing gains cfg_rate for every whole period *)
(* of cfg_interval + 1 edges, up to cfg_burst (lines 33-40), unless the sum   *)
(* wraps.                                                                     *)
THEOREM RefillsArrive == Spec => []QuietBucketRefills
<1>1. Init => RefillInv
  <2>1. Init => Inv /\ quiet = 0
    BY InitInv DEF Init
  <2> QED BY <2>1, QuietStarts DEF Inv
<1>2. Inv /\ RefillInv /\ [Next]_vars => RefillInv'
  BY RefillStep
<1>3. Inv /\ RefillInv => QuietBucketRefills
  BY RefillConclusion DEF Inv
<1> QED BY <1>1, <1>2, <1>3, Invariance, PTL DEF Spec
=============================================================================
