-------------------------- MODULE RedisStoreProofs --------------------------
(***************************************************************************)
(* The theorems of the Redis store, for every set of callers, ids, tiers,  *)
(* costs and loans, and any number of lost requests and replies: the       *)
(* types, the rate (RateBound), nothing lost (NoTokenLost), every          *)
(* reservation accounted for (Vouched), the agreement with the memory      *)
(* store (MatchesMemory) and the refinement of Ledger.                     *)
(*                                                                         *)
(* The argument has three parts. What a script does to one bucket is       *)
(* LuaStep: it debits d tokens of what a refill at the top budget would    *)
(* hold, and leaves no less than it found but for d. Charges says that a   *)
(* step moves buckets and accounts by the same d; every script does        *)
(* (ScriptEffect). For this the types need TInv: a reservation costs only  *)
(* on the axes its limits name, and a Return that has not run gives back   *)
(* what is still on loan.                                                  *)
(*                                                                         *)
(* The ids need IdInv: a check whose script has run before finds the       *)
(* reservation it wrote, still pending and with its own cost, because no   *)
(* call lasts until a reservation expires (CallTime < TTL). So a repeated  *)
(* check is charged once and leaks once, and the ledger opens an id once.  *)
(*                                                                         *)
(* NoTokenLost needs Covered: what is on loan and held by the pending      *)
(* reservations, a sum over the ids, is within what was charged.           *)
(***************************************************************************)
EXTENDS RedisStore, BucketProofs, SumTheorems, TLAPS

Amount == [Axes -> Nat]

-----------------------------------------------------------------------------
(* What the scripts do to one bucket. *)

\* c is what a script that works with budget `cap' may leave of bucket b when d
\* tokens are debited (credited, if negative): no more than b holds when refilled
\* at the top budget M, and no less than b or a full bucket of `cap'.
LuaStep(b, c, M, cap, now, d) ==
  /\ c \in BucketType
  /\ c.last = now
  /\ c.tokens <= M * Period
  /\ c.tokens + d * Period <= LuaTokens(b, M, now)
  /\ \/ cap * Period <= c.tokens
     \/ cap * Period <= c.tokens + d * Period
     \/ b.last # 0 /\ b.tokens <= c.tokens + d * Period

\* What refill of the scripts returns.
LEMMA LuaFacts ==
  ASSUME NEW M \in Nat, NEW cap \in Nat, cap <= M,
         NEW b \in BucketType, b.tokens <= M * Period,
         NEW now \in Nat \ {0}, b.last <= now
  PROVE  /\ LuaTokens(b, cap, now) \in Nat /\ LuaTokens(b, M, now) \in Nat
         /\ LuaTokens(b, cap, now) <= M * Period
         /\ LuaTokens(b, cap, now) <= LuaTokens(b, M, now)
         /\ \/ cap * Period <= LuaTokens(b, cap, now)
            \/ b.last # 0 /\ b.tokens <= LuaTokens(b, cap, now)
<1>1. /\ Period \in Nat /\ cap * Period \in Nat /\ M * Period \in Nat
      /\ cap * Period <= M * Period
  BY PeriodAssumption, TimesMonotone
<1>2. /\ (now - b.last) \in Nat
      /\ (now - b.last) * cap \in Nat /\ (now - b.last) * M \in Nat
      /\ (now - b.last) * cap <= (now - b.last) * M
  BY TimesMonotone DEF BucketType
<1>3. b.tokens \in Nat /\ b.last \in Nat
  BY DEF BucketType
<1> DEFINE x == (now - b.last) * cap
           y == (now - b.last) * M
           f == cap * Period
           g == M * Period
<1>4. /\ LuaTokens(b, cap, now) = IF b.last = 0 THEN f
                                  ELSE IF now > b.last /\ cap > 0 THEN Lesser(f, b.tokens + x)
                                  ELSE b.tokens
      /\ LuaTokens(b, M, now) = IF b.last = 0 THEN g
                                ELSE IF now > b.last /\ M > 0 THEN Lesser(g, b.tokens + y)
                                ELSE b.tokens
  BY DEF LuaTokens
<1>5. x \in Nat /\ y \in Nat /\ x <= y /\ f \in Nat /\ g \in Nat /\ f <= g /\ b.tokens <= g
  BY <1>1, <1>2
<1> HIDE DEF x, y, f, g
<1>6. /\ LuaTokens(b, cap, now) \in Nat /\ LuaTokens(b, M, now) \in Nat
      /\ LuaTokens(b, cap, now) <= g
      /\ LuaTokens(b, cap, now) <= LuaTokens(b, M, now)
      /\ \/ f <= LuaTokens(b, cap, now)
         \/ b.last # 0 /\ b.tokens <= LuaTokens(b, cap, now)
  BY <1>3, <1>4, <1>5 DEF Lesser
<1> QED BY <1>6 DEF f, g

\* A bucket written at this time is not refilled again.
LEMMA LuaAtOnce ==
  ASSUME NEW M, NEW b \in BucketType, b.last \in Nat \ {0}
  PROVE  LuaTokens(b, M, b.last) = b.tokens
  BY DEF LuaTokens, BucketType

\* One tick refills at most M units.
LEMMA LuaOverTime ==
  ASSUME NEW M \in Nat, NEW b \in BucketType, b.tokens <= M * Period,
         NEW now \in Nat \ {0}, b.last <= now
  PROVE  LuaTokens(b, M, now + 1) <= LuaTokens(b, M, now) + M
<1>1. Period \in Nat /\ M * Period \in Nat
  BY PeriodAssumption, TimesMonotone
<1>2. /\ (now - b.last) * M \in Nat
      /\ ((now + 1) - b.last) * M = (now - b.last) * M + M
  BY TimesMonotone DEF BucketType
<1>3. now = b.last => (now - b.last) * M = 0
  BY DEF BucketType
<1> DEFINE x == (now - b.last) * M
           y == ((now + 1) - b.last) * M
           g == M * Period
<1>4. /\ LuaTokens(b, M, now) = IF b.last = 0 THEN g
                                ELSE IF now > b.last /\ M > 0 THEN Lesser(g, b.tokens + x)
                                ELSE b.tokens
      /\ LuaTokens(b, M, now + 1) = IF b.last = 0 THEN g
                                    ELSE IF now + 1 > b.last /\ M > 0
                                    THEN Lesser(g, b.tokens + y)
                                    ELSE b.tokens
  BY DEF LuaTokens
<1>5. x \in Nat /\ y = x + M /\ g \in Nat /\ b.tokens <= g /\ (now = b.last => x = 0)
  BY <1>1, <1>2, <1>3
<1>6. b.tokens \in Nat /\ b.last \in Nat
  BY DEF BucketType
<1> HIDE DEF x, y, g
<1> QED BY <1>4, <1>5, <1>6 DEF Lesser

\* A debit of what is there.
LEMMA LuaDebitStep ==
  ASSUME NEW M \in Nat, NEW cap \in Nat, cap <= M,
         NEW b \in BucketType, b.tokens <= M * Period,
         NEW now \in Nat \ {0}, b.last <= now,
         NEW n \in Nat, n * Period <= LuaTokens(b, cap, now),
         NEW c, c = [tokens |-> LuaTokens(b, cap, now) - n * Period, last |-> now]
  PROVE  LuaStep(b, c, M, cap, now, n)
<1> DEFINE t == LuaTokens(b, cap, now)
           u == LuaTokens(b, M, now)
           m == n * Period
           f == cap * Period
           g == M * Period
<1>1. t \in Nat /\ u \in Nat /\ t <= u /\ t <= g /\ (f <= t \/ (b.last # 0 /\ b.tokens <= t))
  BY LuaFacts
<1>2. m \in Nat /\ m <= t /\ f \in Nat /\ g \in Nat
  BY PeriodAssumption, TimesMonotone
<1>3. c.tokens = t - m /\ c.last = now
  OBVIOUS
<1>4. c \in BucketType
  BY <1>1, <1>2 DEF BucketType
<1>5. b.tokens \in Nat
  BY DEF BucketType
<1> HIDE DEF t, u, m, f, g
<1>6. /\ c.tokens <= g /\ c.tokens + m <= u
      /\ f <= c.tokens + m \/ (b.last # 0 /\ b.tokens <= c.tokens + m)
  BY <1>1, <1>2, <1>3, <1>5
<1> QED BY <1>3, <1>4, <1>6 DEF LuaStep, t, u, m, f, g

\* A credit up to the budget.
LEMMA LuaCreditStep ==
  ASSUME NEW M \in Nat, NEW cap \in Nat, cap <= M,
         NEW b \in BucketType, b.tokens <= M * Period,
         NEW now \in Nat \ {0}, b.last <= now,
         NEW n \in Nat,
         NEW c, c = [tokens |-> LuaTokens(b, cap, now) + LuaCredit(LuaTokens(b, cap, now), cap, n),
                     last |-> now]
  PROVE  LuaStep(b, c, M, cap, now, -n)
<1> DEFINE t == LuaTokens(b, cap, now)
           u == LuaTokens(b, M, now)
           m == n * Period
           f == cap * Period
           g == M * Period
<1>1. t \in Nat /\ u \in Nat /\ t <= u /\ t <= g /\ (f <= t \/ (b.last # 0 /\ b.tokens <= t))
  BY LuaFacts
<1>2. m \in Nat /\ f \in Nat /\ g \in Nat /\ f <= g /\ (-n) * Period = -m
  BY PeriodAssumption, TimesMonotone
<1>3. c.tokens = t + (Lesser(f, t + m) - t) /\ c.last = now
  BY DEF LuaCredit
<1>5. b.tokens \in Nat
  BY DEF BucketType
<1>4. c \in BucketType
  <2>1. c.tokens \in Nat
    <3> HIDE DEF t, m, f
    <3> QED BY <1>1, <1>2, <1>3 DEF Lesser
  <2>2. c = [tokens |-> c.tokens, last |-> c.last]
    OBVIOUS
  <2> HIDE DEF t
  <2> QED BY <1>3, <2>1, <2>2 DEF BucketType
<1> HIDE DEF t, u, m, f, g
<1>6. /\ c.tokens <= g /\ c.tokens + (-m) <= u
      /\ f <= c.tokens \/ f <= c.tokens + (-m) \/ (b.last # 0 /\ b.tokens <= c.tokens + (-m))
  BY <1>1, <1>2, <1>3, <1>5 DEF Lesser
<1>7. c.tokens + (-n) * Period = c.tokens + (-m)
  BY <1>2
<1> QED BY <1>3, <1>4, <1>6, <1>7 DEF LuaStep, t, u, f, g

-----------------------------------------------------------------------------
(* What the scripts do to the buckets. *)

BucketsOK ==
  /\ clock \in Nat \ {0}
  /\ bucket \in [Axes -> BucketType]
  /\ \A a \in Axes : bucket[a].tokens <= MaxCap[a] * Period /\ bucket[a].last <= clock

\* d tokens are debited on axis a, with the budget of some tier.
AxisMoves(a, d) ==
  \/ bucket'[a] = bucket[a] /\ d = 0
  \/ \E l \in Tiers : /\ a \in UsedAxes(Split(l))
                      /\ LuaStep(bucket[a], bucket'[a], MaxCap[a], l[a], clock, d)

Moves(d) ==
  /\ bucket' \in [Axes -> BucketType]
  /\ \A a \in Axes : AxisMoves(a, d[a])

\* The tiers and the axes they use.
LEMMA TierFacts ==
  ASSUME NEW l \in Tiers
  PROVE  /\ l \in Amount /\ MaxCap \in Amount
         /\ \A a \in Axes : l[a] \in Nat /\ MaxCap[a] \in Nat /\ l[a] <= MaxCap[a]
         /\ UsedAxes(Split(l)) \subseteq Axes /\ TokenAxes(Split(l)) \subseteq UsedAxes(Split(l))
<1>1. l \in Amount /\ MaxCap \in Amount
  BY RedisAssumption DEF Amount
<1>2. \A a \in Axes : l[a] <= MaxCap[a]
  BY RedisAssumption
<1>3. UsedAxes(Split(l)) \subseteq Axes /\ TokenAxes(Split(l)) \subseteq UsedAxes(Split(l))
  BY DEF UsedAxes, TokenAxes, Axes
<1> QED BY <1>1, <1>2, <1>3 DEF Amount

\* What the scripts load of a bucket, in units and in whole tokens.
LEMMA LoadFacts ==
  ASSUME BucketsOK, NEW l \in Tiers, NEW a \in Axes
  PROVE  /\ LuaTokens(bucket[a], l[a], clock) \in Nat
         /\ LuaLoad(bucket, l, clock)[a] \in BucketType
         /\ LuaLoad(bucket, l, clock)[a].tokens = LuaTokens(bucket[a], l[a], clock)
         /\ RemainingInt(LuaLoad(bucket, l, clock)[a]) \in Nat
         /\ RemainingInt(LuaLoad(bucket, l, clock)[a]) * Period
              <= LuaTokens(bucket[a], l[a], clock)
<1>1. LuaTokens(bucket[a], l[a], clock) \in Nat
  BY TierFacts, LuaFacts DEF BucketsOK
<1>2. LuaLoad(bucket, l, clock)[a] = [tokens |-> LuaTokens(bucket[a], l[a], clock), last |-> clock]
  BY DEF LuaLoad
<1>3. LuaLoad(bucket, l, clock)[a] \in BucketType
  BY <1>1, <1>2 DEF BucketsOK, BucketType
<1>4. LuaLoad(bucket, l, clock)[a].tokens = LuaTokens(bucket[a], l[a], clock)
  BY <1>2
<1> QED BY <1>1, <1>3, <1>4, WholeTokens

\* LuaSave writes the axes in use.
LEMMA SaveMoves ==
  ASSUME BucketsOK, NEW l \in Tiers, NEW change, NEW d,
         bucket' = LuaSave(bucket, l, change, clock),
         \A a \in UsedAxes(Split(l)) :
           LuaStep(bucket[a],
                   [tokens |-> LuaTokens(bucket[a], l[a], clock) + change[a], last |-> clock],
                   MaxCap[a], l[a], clock, d[a]),
         \A a \in Axes \ UsedAxes(Split(l)) : d[a] = 0
  PROVE  Moves(d)
<1> DEFINE new(a) == [tokens |-> LuaTokens(bucket[a], l[a], clock) + change[a], last |-> clock]
<1>1. bucket' = [a \in Axes |-> IF a \in UsedAxes(Split(l)) THEN new(a) ELSE bucket[a]]
  BY TierFacts DEF LuaSave, Save
<1>2. \A a \in UsedAxes(Split(l)) :
        LuaStep(bucket[a], new(a), MaxCap[a], l[a], clock, d[a])
  OBVIOUS
<1> HIDE DEF new
<1>3. \A a \in UsedAxes(Split(l)) : new(a) \in BucketType
  BY <1>2 DEF LuaStep
<1>4. bucket' \in [Axes -> BucketType]
  BY <1>1, <1>3 DEF BucketsOK
<1>5. ASSUME NEW a \in Axes
      PROVE  AxisMoves(a, d[a])
  <2>1. CASE a \in UsedAxes(Split(l))
    BY <1>1, <1>2, <2>1 DEF AxisMoves
  <2>2. CASE a \notin UsedAxes(Split(l))
    BY <1>1, <2>2 DEF AxisMoves
  <2> QED BY <2>1, <2>2
<1> QED BY <1>4, <1>5 DEF Moves

\* OnUsed keeps an amount on the axes in use.
LEMMA OnUsedFacts ==
  ASSUME NEW l, NEW x \in Amount
  PROVE  /\ OnUsed(l, x) \in Amount
         /\ \A a \in Axes : a \in UsedAxes(Split(l)) => OnUsed(l, x)[a] = x[a]
         /\ \A a \in Axes : a \notin UsedAxes(Split(l)) => OnUsed(l, x)[a] = 0
  BY DEF OnUsed, Amount

\* Clamping twice is clamping once.
LEMMA ClampFacts ==
  ASSUME NEW x \in [Axes -> Int]
  PROVE  /\ Clamped(x) \in Amount
         /\ x \in Amount => Clamped(x) = x
  BY DEF Clamped, NonNeg, Amount

\* A debit of n tokens that are there, on an axis in use.
LEMMA AxisDebits ==
  ASSUME BucketsOK, NEW l \in Tiers, NEW a \in UsedAxes(Split(l)),
         NEW n \in Nat, n * Period <= LuaTokens(bucket[a], l[a], clock),
         NEW x, x = -(n * Period)
  PROVE  LuaStep(bucket[a], [tokens |-> LuaTokens(bucket[a], l[a], clock) + x, last |-> clock],
                 MaxCap[a], l[a], clock, n)
<1> DEFINE t == LuaTokens(bucket[a], l[a], clock)
           c == [tokens |-> t + x, last |-> clock]
<1>1. a \in Axes
  BY TierFacts
<1>2. n * Period \in Nat /\ t \in Nat
  BY <1>1, PeriodAssumption, TimesMonotone, LoadFacts
<1>3. t + x = t - n * Period
  BY <1>2
<1>4. c = [tokens |-> t - n * Period, last |-> clock]
  BY <1>3
<1>5. /\ l[a] \in Nat /\ MaxCap[a] \in Nat /\ l[a] <= MaxCap[a] /\ bucket[a] \in BucketType
      /\ bucket[a].tokens <= MaxCap[a] * Period /\ bucket[a].last <= clock
      /\ clock \in Nat \ {0}
  BY <1>1, TierFacts DEF BucketsOK
<1> HIDE DEF c
<1>6. LuaStep(bucket[a], c, MaxCap[a], l[a], clock, n)
  BY <1>4, <1>5, LuaDebitStep
<1> QED BY <1>6 DEF c

\* A credit of n tokens, on an axis in use.
LEMMA AxisCredits ==
  ASSUME BucketsOK, NEW l \in Tiers, NEW a \in UsedAxes(Split(l)), NEW n \in Nat,
         NEW x, x = LuaCredit(LuaTokens(bucket[a], l[a], clock), l[a], n)
  PROVE  LuaStep(bucket[a], [tokens |-> LuaTokens(bucket[a], l[a], clock) + x, last |-> clock],
                 MaxCap[a], l[a], clock, -n)
<1> DEFINE c == [tokens |-> LuaTokens(bucket[a], l[a], clock) + x, last |-> clock]
<1>1. a \in Axes
  BY TierFacts
<1>2. c = [tokens |-> LuaTokens(bucket[a], l[a], clock)
                        + LuaCredit(LuaTokens(bucket[a], l[a], clock), l[a], n),
           last |-> clock]
  OBVIOUS
<1>3. /\ l[a] \in Nat /\ MaxCap[a] \in Nat /\ l[a] <= MaxCap[a] /\ bucket[a] \in BucketType
      /\ bucket[a].tokens <= MaxCap[a] * Period /\ bucket[a].last <= clock
      /\ clock \in Nat \ {0}
  BY <1>1, TierFacts DEF BucketsOK
<1> HIDE DEF c
<1>4. LuaStep(bucket[a], c, MaxCap[a], l[a], clock, -n)
  BY <1>2, <1>3, LuaCreditStep
<1> QED BY <1>4 DEF c

\* A granted check debits its cost.
LEMMA CheckMoves ==
  ASSUME BucketsOK, NEW l \in Tiers, NEW cost \in Amount,
         \E reply \in LuaCheckReplies(bucket, inexact, l, cost, clock) : reply.allowed,
         bucket' = LuaCheckDebit(bucket, l, cost, clock)
  PROVE  Moves(OnUsed(l, cost))
<1> DEFINE change == [a \in Axes |-> -Clamped(cost)[a] * Period]
           d == OnUsed(l, cost)
<1>1. Clamped(cost) = cost
  BY ClampFacts DEF Amount
<1>2. PICK short : LuaCheckDenies(bucket, l, cost, short, clock) = {}
  BY DEF LuaCheckReply, LuaCheckReplies
<1>3. ASSUME NEW a \in UsedAxes(Split(l))
      PROVE  LuaStep(bucket[a],
                     [tokens |-> LuaTokens(bucket[a], l[a], clock) + change[a], last |-> clock],
                     MaxCap[a], l[a], clock, d[a])
  <2>1. a \in Axes
    BY TierFacts
  <2>2. CanConsume(LuaLoad(bucket, l, clock)[a], l[a], cost[a])
    BY <1>1, <1>2 DEF LuaCheckDenies
  <2>3. cost[a] * Period <= LuaTokens(bucket[a], l[a], clock)
    BY <2>1, <2>2, LoadFacts DEF CanConsume
  <2>4. change[a] = -(cost[a] * Period) /\ d[a] = cost[a] /\ cost[a] \in Nat
    BY <1>1, <2>1, OnUsedFacts DEF Amount
  <2> HIDE DEF change, d
  <2> QED BY <2>3, <2>4, AxisDebits
<1>4. bucket' = LuaSave(bucket, l, change, clock)
  BY DEF LuaCheckDebit
<1>5. \A a \in Axes \ UsedAxes(Split(l)) : d[a] = 0
  BY OnUsedFacts
<1> HIDE DEF change, d
<1>6. Moves(d)
  BY <1>3, <1>4, <1>5, SaveMoves
<1> QED BY <1>6 DEF d

\* What a settlement adds to the charge of a reservation.
Used(l, reserved, actual) ==
  [a \in Axes |-> IF a \in TokenAxes(Split(l))
                  THEN actual[a] - LuaOvershoot(bucket, l, reserved, actual, clock)[a] - reserved[a]
                  ELSE 0]

\* The overshoot is what the bucket cannot pay of the excess.
LEMMA OvershootFacts ==
  ASSUME BucketsOK, NEW l \in Tiers, NEW reserved \in Amount, NEW actual \in Amount,
         NEW a \in TokenAxes(Split(l))
  PROVE  /\ LuaOvershoot(bucket, l, reserved, actual, clock)[a] \in Nat
         /\ Used(l, reserved, actual)[a] \in Int
         /\ reserved[a] > actual[a] => Used(l, reserved, actual)[a] = -(reserved[a] - actual[a])
         /\ reserved[a] <= actual[a] =>
              /\ Used(l, reserved, actual)[a] \in Nat
              /\ Used(l, reserved, actual)[a] * Period <= LuaTokens(bucket[a], l[a], clock)
              /\ reserved[a] - actual[a] + LuaOvershoot(bucket, l, reserved, actual, clock)[a]
                   = -Used(l, reserved, actual)[a]
<1> DEFINE r == reserved[a]
           n == actual[a]
           whole == RemainingInt(LuaLoad(bucket, l, clock)[a])
           t == LuaTokens(bucket[a], l[a], clock)
           over == LuaOvershoot(bucket, l, reserved, actual, clock)[a]
           u == Used(l, reserved, actual)[a]
<1>1. a \in Axes /\ r \in Nat /\ n \in Nat
  BY TierFacts DEF Amount
<1>2. whole \in Nat /\ whole * Period <= t /\ t \in Nat
  BY <1>1, LoadFacts
<1>3. over = NonNeg(n - r - whole) /\ u = n - over - r
  BY <1>1 DEF LuaOvershoot, Used
<1> HIDE DEF r, n, whole, t, over, u
<1>4. /\ over \in Nat /\ u \in Int
      /\ r > n => u = -(r - n)
      /\ r <= n => u \in Nat /\ u <= whole /\ r - n + over = -u
  BY <1>1, <1>2, <1>3 DEF NonNeg
<1>5. ASSUME r <= n PROVE u * Period <= t
  <2>1. u \in Nat /\ u <= whole
    BY <1>4, <1>5
  <2>2. u * Period \in Nat /\ u * Period <= whole * Period /\ whole * Period \in Nat
    BY <1>2, <2>1, PeriodAssumption, TimesMonotone
  <2> QED BY <1>2, <2>2
<1> QED BY <1>4, <1>5 DEF r, n, t, over, u

\* A settlement debits or credits what it adds to the charge.
LEMMA SettleMoves ==
  ASSUME BucketsOK, NEW l \in Tiers, NEW reserved \in Amount, NEW actual \in Amount,
         bucket' = LuaSettleSave(bucket, l, reserved, actual, clock)
  PROVE  /\ Moves(Used(l, reserved, actual))
         /\ LuaOvershoot(bucket, l, reserved, actual, clock) \in Amount
         /\ \A a \in Axes : /\ Used(l, reserved, actual)[a] \in Int
                            /\ -reserved[a] <= Used(l, reserved, actual)[a]
<1> DEFINE over == LuaOvershoot(bucket, l, reserved, actual, clock)
           d == Used(l, reserved, actual)
           change == [a \in Axes |->
                        IF a \notin TokenAxes(Split(l)) THEN 0
                        ELSE IF reserved[a] > actual[a]
                             THEN LuaCredit(LuaTokens(bucket[a], l[a], clock), l[a],
                                            reserved[a] - actual[a])
                        ELSE (reserved[a] - actual[a] + over[a]) * Period]
<1>1. bucket' = LuaSave(bucket, l, change, clock)
  BY DEF LuaSettleSave
<1>2. \A a \in Axes \ UsedAxes(Split(l)) : d[a] = 0
  BY TierFacts DEF Used
<1>3. ASSUME NEW a \in UsedAxes(Split(l))
      PROVE  LuaStep(bucket[a],
                     [tokens |-> LuaTokens(bucket[a], l[a], clock) + change[a], last |-> clock],
                     MaxCap[a], l[a], clock, d[a])
  <2>1. a \in Axes /\ reserved[a] \in Nat /\ actual[a] \in Nat
    BY TierFacts DEF Amount
  <2>2. CASE a \notin TokenAxes(Split(l))
    <3>1. change[a] = -(0 * Period) /\ d[a] = 0
      BY <2>1, <2>2, PeriodAssumption DEF Used
    <3>2. 0 * Period <= LuaTokens(bucket[a], l[a], clock)
      BY <2>1, LoadFacts, PeriodAssumption
    <3> HIDE DEF change, d
    <3> QED BY <3>1, <3>2, AxisDebits
  <2>3. CASE a \in TokenAxes(Split(l)) /\ reserved[a] > actual[a]
    <3>1. /\ change[a] = LuaCredit(LuaTokens(bucket[a], l[a], clock), l[a],
                                   reserved[a] - actual[a])
          /\ d[a] = -(reserved[a] - actual[a])
      BY <2>1, <2>3, OvershootFacts
    <3>2. reserved[a] - actual[a] \in Nat
      BY <2>1, <2>3
    <3> HIDE DEF change, d
    <3> QED BY <3>1, <3>2, AxisCredits
  <2>4. CASE a \in TokenAxes(Split(l)) /\ reserved[a] <= actual[a]
    <3>1. change[a] = (reserved[a] - actual[a] + over[a]) * Period
      BY <2>1, <2>4
    <3>2. /\ d[a] \in Nat /\ d[a] * Period <= LuaTokens(bucket[a], l[a], clock)
          /\ reserved[a] - actual[a] + over[a] = -d[a]
      BY <2>4, OvershootFacts
    <3> HIDE DEF change, d, over
    <3>3. change[a] = -(d[a] * Period)
      BY <3>1, <3>2, PeriodAssumption
    <3> QED BY <3>2, <3>3, AxisDebits
  <2> QED BY <2>1, <2>2, <2>3, <2>4
<1>4. Moves(d)
  <2> HIDE DEF d, change
  <2> QED BY <1>1, <1>2, <1>3, SaveMoves
<1>5. over \in Amount
  <2>1. \A a \in Axes : over[a] \in Nat
    <3>1. \A a \in Axes : a \notin TokenAxes(Split(l)) => over[a] = 0
      BY DEF LuaOvershoot
    <3> QED BY <3>1, OvershootFacts
  <2>2. over = [a \in Axes |-> over[a]]
    BY DEF LuaOvershoot
  <2> HIDE DEF over
  <2> QED BY <2>1, <2>2 DEF Amount
<1>6. ASSUME NEW a \in Axes PROVE d[a] \in Int /\ -reserved[a] <= d[a]
  <2>1. reserved[a] \in Nat /\ actual[a] \in Nat
    BY DEF Amount
  <2>2. a \notin TokenAxes(Split(l)) => d[a] = 0
    BY DEF Used
  <2>3. a \in TokenAxes(Split(l)) =>
          /\ d[a] \in Int
          /\ reserved[a] > actual[a] => d[a] = -(reserved[a] - actual[a])
          /\ reserved[a] <= actual[a] => d[a] \in Nat
    BY OvershootFacts
  <2> HIDE DEF d
  <2> QED BY <2>1, <2>2, <2>3
<1> QED BY <1>4, <1>5, <1>6

\* A refund or a Return credits its amount.
LEMMA CreditMoves ==
  ASSUME BucketsOK, NEW l \in Tiers, NEW amount \in Amount,
         \A a \in Axes \ UsedAxes(Split(l)) : amount[a] = 0,
         bucket' = LuaCreditSave(bucket, l, amount, clock)
  PROVE  Moves([a \in Axes |-> -amount[a]])
<1> DEFINE d == [a \in Axes |-> -amount[a]]
           change == [a \in Axes |-> LuaCredit(LuaTokens(bucket[a], l[a], clock), l[a], amount[a])]
<1>1. bucket' = LuaSave(bucket, l, change, clock)
  BY DEF LuaCreditSave
<1>2. \A a \in Axes \ UsedAxes(Split(l)) : d[a] = 0
  OBVIOUS
<1>3. ASSUME NEW a \in UsedAxes(Split(l))
      PROVE  LuaStep(bucket[a],
                     [tokens |-> LuaTokens(bucket[a], l[a], clock) + change[a], last |-> clock],
                     MaxCap[a], l[a], clock, d[a])
  <2>1. a \in Axes /\ amount[a] \in Nat
    BY TierFacts DEF Amount
  <2>2. /\ change[a] = LuaCredit(LuaTokens(bucket[a], l[a], clock), l[a], amount[a])
        /\ d[a] = -amount[a]
    BY <2>1
  <2> HIDE DEF change, d
  <2> QED BY <2>1, <2>2, AxisCredits
<1> HIDE DEF change, d
<1>4. Moves(d)
  BY <1>1, <1>2, <1>3, SaveMoves
<1> QED BY <1>4 DEF d

\* A loan debits what it grants.
LEMMA BorrowMoves ==
  ASSUME BucketsOK, NEW l \in Tiers, NEW spec \in BorrowSpecs,
         bucket' = LuaBorrowDebit(bucket, l, spec, clock)
  PROVE  /\ Moves(LuaBorrowGot(bucket, l, spec, clock))
         /\ LuaBorrowGot(bucket, l, spec, clock) \in Amount
<1> DEFINE d == LuaBorrowGot(bucket, l, spec, clock)
           change == [a \in Axes |-> -d[a] * Period]
<1>1. bucket' = LuaSave(bucket, l, change, clock)
  BY DEF LuaBorrowDebit
<1>2. \A a \in Axes \ UsedAxes(Split(l)) : d[a] = 0
  BY DEF LuaBorrowGot
<1>3. ASSUME NEW a \in UsedAxes(Split(l))
      PROVE  d[a] \in Nat /\ d[a] * Period <= LuaTokens(bucket[a], l[a], clock)
  <2> DEFINE whole == RemainingInt(LuaLoad(bucket, l, clock)[a])
             min == NonNeg(spec.min[a])
             chunk == NonNeg(spec.chunk[a])
  <2>1. a \in Axes
    BY TierFacts
  <2>2. spec.min[a] \in Int /\ spec.chunk[a] \in Int
    BY <2>1, RedisAssumption
  <2>3. min \in Nat /\ chunk \in Nat
    BY <2>2 DEF NonNeg
  <2>4. whole \in Nat /\ whole * Period <= LuaTokens(bucket[a], l[a], clock)
        /\ LuaTokens(bucket[a], l[a], clock) \in Nat
    BY <2>1, LoadFacts
  <2>5. d[a] = WantGot(whole, min, chunk)
    BY <2>1 DEF LuaBorrowGot
  <2> HIDE DEF whole, min, chunk, d
  <2>6. d[a] \in Nat /\ d[a] <= whole
    BY <2>3, <2>4, <2>5 DEF WantGot, Lesser
  <2>7. d[a] * Period <= whole * Period /\ whole * Period \in Nat /\ d[a] * Period \in Nat
    BY <2>4, <2>6, PeriodAssumption, TimesMonotone
  <2> QED BY <2>4, <2>6, <2>7
<1>4. ASSUME NEW a \in UsedAxes(Split(l))
      PROVE  LuaStep(bucket[a],
                     [tokens |-> LuaTokens(bucket[a], l[a], clock) + change[a], last |-> clock],
                     MaxCap[a], l[a], clock, d[a])
  <2>1. a \in Axes
    BY TierFacts
  <2> HIDE DEF d
  <2>2. change[a] = -(d[a] * Period)
    BY <2>1
  <2> HIDE DEF change
  <2> QED BY <1>3, <2>2, AxisDebits
<1>5. d \in Amount
  <2>1. d = [a \in Axes |-> d[a]]
    BY DEF LuaBorrowGot
  <2> HIDE DEF d
  <2> QED BY <1>2, <1>3, <2>1 DEF Amount
<1>6. Moves(d)
  <2> HIDE DEF change, d
  <2> QED BY <1>1, <1>2, <1>4, SaveMoves
<1> QED BY <1>5, <1>6

-----------------------------------------------------------------------------
(* Calls and reservations. *)

Closing == {"settle", "settleIO", "refund"}

Told == {"none", "asked", "allowed", "denied", "failed", "admitted"}

\* What a call carries.
LEMMA CallFacts ==
  ASSUME NEW c \in Calls
  PROVE  /\ c # Idle /\ c.op \in Closing \union {"check", "borrow", "return"}
         /\ c.op \in Closing \union {"check"} => c.id \in Ids /\ c.arg \in Amount
         /\ c.op \in {"check", "borrow", "return"} => c.limits \in Tiers /\ c.step = "script"
         /\ c.op = "borrow" => c.arg \in BorrowSpecs
         /\ c.op = "return" => c.arg \in Amount
         /\ c.since \in Nat /\ c.ran \in BOOLEAN
<1>1. c.op # "none"
  BY DEF Calls
<1>2. c # Idle
  BY <1>1 DEF Idle
<1> QED BY <1>2 DEF Calls, Closing, Amount

\* A call stays one when an attempt fails or its lookup is answered.
LEMMA CallGoesOn ==
  ASSUME NEW c \in Calls
  PROVE  /\ [c EXCEPT !.failed = TRUE] \in Calls
         /\ [c EXCEPT !.failed = TRUE, !.ran = TRUE] \in Calls
         /\ c.op \in Closing =>
              \A l \in Tiers : [c EXCEPT !.step = "script", !.limits = l] \in Calls
<1>1. [c EXCEPT !.failed = TRUE] \in Calls
  BY DEF Calls
<1>2. [c EXCEPT !.failed = TRUE, !.ran = TRUE] \in Calls
  BY DEF Calls
<1>3. ASSUME c.op \in Closing, NEW l \in Tiers
      PROVE  [c EXCEPT !.step = "script", !.limits = l] \in Calls
  BY <1>3 DEF Calls, Closing
<1> QED BY <1>1, <1>2, <1>3

\* A reservation is never mistaken for a missing one.
LEMMA ReservationFacts ==
  ASSUME NEW r \in Reservation
  PROVE  /\ r # NoRes
         /\ r.limits \in Tiers /\ r.cost \in Amount /\ r.expires \in Nat
         /\ r.status \in {"pending", "settled", "refunded"} /\ r.overshoot \in Amount
<1>1. r.status # "none"
  BY DEF Reservation
<1>2. r # NoRes
  BY <1>1 DEF NoRes
<1> QED BY <1>2 DEF Reservation, Amount

\* The cost of a reservation is on the axes its limits use.
CostsUsed ==
  \A id \in Ids : res[id] # NoRes =>
    \A a \in Axes \ UsedAxes(Split(res[id].limits)) : res[id].cost[a] = 0

\* So is what a Return gives back; it is on loan until the script has run, and
\* there is one Return at a time.
ReturnsLent ==
  \A w \in Workers : call[w].op = "return" =>
    /\ \A a \in Axes \ UsedAxes(Split(call[w].limits)) : call[w].arg[a] = 0
    /\ ~call[w].ran => \A a \in Axes : call[w].arg[a] <= lent[a]
    /\ \A v \in Workers : call[v].op = "return" => v = w

\* No bucket is dated in the future: the server's clock advances.
Timely == \A a \in Axes : bucket[a].last <= clock

\* Buckets move by d and the accounts with them; what is debited twice or for
\* nobody is not lost sight of.
Charges(d) ==
  /\ Moves(d)
  /\ spent' \in [Axes -> Int] /\ leaked' \in Amount /\ minted' \in Amount
  /\ \A a \in Axes :
       /\ spent'[a] + leaked'[a] - minted'[a] = spent[a] + leaked[a] - minted[a] + d[a]
       /\ spent'[a] + leaked'[a] >= spent[a] + leaked[a] + d[a]
       /\ leaked'[a] >= leaked[a]

\* What a script does to the state, whether or not its reply arrives.
ScriptEffect ==
  /\ \E d \in [Axes -> Int] : Charges(d)
  /\ res' \in [Ids -> Reservation \union {NoRes}] /\ CostsUsed'
  /\ lent' \in Amount
  /\ told' \in [Ids -> Told] /\ unheard' \subseteq Ids /\ opened' \subseteq Ids

TInv == TypeOK /\ Timely /\ CostsUsed /\ ReturnsLent

\* The parts of the types the scripts rely on.
LEMMA TypeFacts ==
  ASSUME TInv
  PROVE  /\ BucketsOK
         /\ spent \in [Axes -> Int] /\ lent \in Amount /\ leaked \in Amount /\ minted \in Amount
         /\ told \in [Ids -> Told] /\ unheard \subseteq Ids /\ opened \subseteq Ids
         /\ res \in [Ids -> Reservation \union {NoRes}]
         /\ call \in [Workers -> Calls \union {Idle}] /\ inexact \subseteq Axes
  BY RedisAssumption DEF TInv, TypeOK, Timely, BucketsOK, BucketType, Told, Amount

\* Sums and differences of amounts.
LEMMA PlusFacts ==
  ASSUME NEW x \in [Axes -> Int], NEW y \in [Axes -> Int]
  PROVE  /\ Plus(x, y) \in [Axes -> Int] /\ Minus(x, y) \in [Axes -> Int]
         /\ \A a \in Axes : Plus(x, y)[a] = x[a] + y[a] /\ Minus(x, y)[a] = x[a] - y[a]
         /\ x \in Amount /\ y \in Amount => Plus(x, y) \in Amount
  BY DEF Plus, Minus, Amount

\* Nothing moves.
LEMMA NothingMoves ==
  ASSUME TInv, UNCHANGED <<bucket, spent, leaked, minted>>
  PROVE  \E d \in [Axes -> Int] : Charges(d)
<1>1. Zero \in [Axes -> Int] /\ \A a \in Axes : Zero[a] = 0
  BY DEF Zero
<1>2. Moves(Zero)
  BY <1>1, TypeFacts DEF Moves, AxisMoves, BucketsOK
<1>3. Charges(Zero)
  BY <1>1, <1>2, TypeFacts DEF Charges, Amount
<1> QED BY <1>1, <1>3

\* The reservation a check writes.
LEMMA ReserveFacts ==
  ASSUME TInv, NEW c \in Calls, c.op = "check", res' = Reserve(c)
  PROVE  /\ res' \in [Ids -> Reservation \union {NoRes}]
         /\ res'[c.id] \in Reservation
         /\ res'[c.id].status = "pending" /\ res'[c.id].expires = clock + TTL
         /\ res'[c.id].limits = c.limits /\ res'[c.id].cost = OnUsed(c.limits, c.arg)
         /\ \A id \in Ids \ {c.id} : res'[id] = res[id]
         /\ CostsUsed'
<1> DEFINE r == [limits |-> c.limits, cost |-> OnUsed(c.limits, c.arg), status |-> "pending",
                 expires |-> clock + TTL, overshoot |-> Zero]
<1>1. c.id \in Ids /\ c.limits \in Tiers /\ c.arg \in Amount
  BY CallFacts
<1>2. OnUsed(c.limits, c.arg) \in Amount /\ Zero \in Amount
  BY <1>1, OnUsedFacts DEF Zero, Amount
<1>3. clock + TTL \in Nat
  BY TypeFacts, RedisAssumption DEF BucketsOK
<1>4. r \in Reservation
  BY <1>1, <1>2, <1>3 DEF Reservation, Amount
<1>5. res' = [res EXCEPT ![c.id] = r]
  BY DEF Reserve
<1>6. /\ r.status = "pending" /\ r.expires = clock + TTL
      /\ r.limits = c.limits /\ r.cost = OnUsed(c.limits, c.arg)
  OBVIOUS
<1> HIDE DEF r
<1>7. res' \in [Ids -> Reservation \union {NoRes}] /\ res'[c.id] = r
  BY <1>1, <1>4, <1>5, TypeFacts
<1>8. \A id \in Ids \ {c.id} : res'[id] = res[id]
  BY <1>1, <1>5, TypeFacts
<1>9. CostsUsed'
  <2> SUFFICES ASSUME NEW id \in Ids, res'[id] # NoRes,
                      NEW a \in Axes \ UsedAxes(Split(res'[id].limits))
               PROVE  res'[id].cost[a] = 0
    BY DEF CostsUsed
  <2>1. CASE id = c.id
    BY <1>1, <1>6, <1>7, <2>1, OnUsedFacts
  <2>2. CASE id # c.id
    BY <1>8, <2>2 DEF TInv, CostsUsed
  <2> QED BY <2>1, <2>2
<1> QED BY <1>4, <1>6, <1>7, <1>8, <1>9

\* The reservation a closing script writes.
LEMMA ClosedFacts ==
  ASSUME TInv, NEW id \in Ids, Closable(id), NEW status \in {"settled", "refunded"},
         NEW over \in Amount, res' = Closed(id, status, over)
  PROVE  /\ res[id] \in Reservation /\ res[id].status = "pending"
         /\ res' \in [Ids -> Reservation \union {NoRes}]
         /\ res'[id] \in Reservation /\ res'[id].status = status
         /\ res'[id].limits = res[id].limits /\ res'[id].cost = res[id].cost
         /\ \A i \in Ids \ {id} : res'[i] = res[i]
         /\ CostsUsed'
<1> DEFINE r == [res[id] EXCEPT !.status = status, !.overshoot = over, !.expires = clock + TTL]
<1>1. res[id] \in Reservation /\ res[id].status = "pending"
  BY TypeFacts DEF Closable
<1>2. clock + TTL \in Nat
  BY TypeFacts, RedisAssumption DEF BucketsOK
<1>3. r \in Reservation /\ r.status = status /\ r.limits = res[id].limits /\ r.cost = res[id].cost
  BY <1>1, <1>2 DEF Reservation, Amount
<1>4. res' = [res EXCEPT ![id] = r]
  BY <1>1, TypeFacts DEF Closed
<1> HIDE DEF r
<1>5. res' \in [Ids -> Reservation \union {NoRes}] /\ res'[id] = r
  BY <1>3, <1>4, TypeFacts
<1>6. \A i \in Ids \ {id} : res'[i] = res[i]
  BY <1>4, TypeFacts
<1>7. CostsUsed'
  <2> SUFFICES ASSUME NEW i \in Ids, res'[i] # NoRes,
                      NEW a \in Axes \ UsedAxes(Split(res'[i].limits))
               PROVE  res'[i].cost[a] = 0
    BY DEF CostsUsed
  <2>1. res[i] # NoRes /\ res'[i].limits = res[i].limits /\ res'[i].cost = res[i].cost
    BY <1>1, <1>3, <1>5, <1>6, ReservationFacts
  <2> QED BY <2>1 DEF TInv, CostsUsed
<1> QED BY <1>1, <1>3, <1>5, <1>6, <1>7

\* A denied check.
LEMMA DeniedEffect ==
  ASSUME TInv, NEW c \in Calls, c.op = "check", NEW heard \in BOOLEAN, CheckDenied(c, heard)
  PROVE  ScriptEffect
<1>1. c.id \in Ids
  BY CallFacts
<1>2. \E d \in [Axes -> Int] : Charges(d)
  BY NothingMoves DEF CheckDenied, hashes, books
<1>3. told' \in [Ids -> Told] /\ unheard' \subseteq Ids
  BY <1>1, TypeFacts DEF CheckDenied, Tell, Told
<1>4. CostsUsed'
  BY DEF CheckDenied, CostsUsed, TInv, hashes
<1> QED BY <1>2, <1>3, <1>4, TypeFacts DEF ScriptEffect, CheckDenied, hashes, books

\* A granted check is charged, or leaks when it runs again.
LEMMA GrantedEffect ==
  ASSUME TInv, NEW c \in Calls, c.op = "check", NEW heard \in BOOLEAN, CheckGranted(c, heard)
  PROVE  ScriptEffect
<1> DEFINE d == OnUsed(c.limits, c.arg)
<1>1. c.id \in Ids /\ c.limits \in Tiers /\ c.arg \in Amount
  BY CallFacts
<1>2. Moves(d)
  BY <1>1, TypeFacts, CheckMoves DEF CheckGranted, CheckReplies
<1>3. d \in Amount
  BY <1>1, OnUsedFacts
<1>4. /\ \/ spent' = Plus(spent, d) /\ leaked' = leaked
         \/ leaked' = Plus(leaked, d) /\ spent' = spent
      /\ minted' = minted /\ lent' = lent
  BY DEF CheckGranted
<1> HIDE DEF d
<1>5. d \in [Axes -> Int]
  BY <1>3 DEF Amount
<1>6. Charges(d)
  <2>1. /\ spent' \in [Axes -> Int] /\ leaked' \in Amount /\ minted' \in Amount
    BY <1>3, <1>4, <1>5, TypeFacts, PlusFacts DEF Amount
  <2>2. \A a \in Axes : /\ spent[a] \in Int /\ leaked[a] \in Nat /\ minted[a] \in Nat
                        /\ d[a] \in Nat
    BY <1>3, TypeFacts DEF Amount
  <2>3. \A a \in Axes : \/ spent'[a] = spent[a] + d[a] /\ leaked'[a] = leaked[a]
                        \/ leaked'[a] = leaked[a] + d[a] /\ spent'[a] = spent[a]
    BY <1>4 DEF Plus
  <2> QED BY <1>2, <1>4, <2>1, <2>2, <2>3 DEF Charges
<1>7. res' \in [Ids -> Reservation \union {NoRes}] /\ CostsUsed'
  BY ReserveFacts DEF CheckGranted
<1>8. told' \in [Ids -> Told] /\ unheard' \subseteq Ids /\ opened' \subseteq Ids
  BY <1>1, TypeFacts DEF CheckGranted, Tell, Told
<1>9. lent' \in Amount
  BY <1>4, TypeFacts
<1> QED BY <1>5, <1>6, <1>7, <1>8, <1>9 DEF ScriptEffect

\* A settlement charges the difference.
LEMMA SettleEffect ==
  ASSUME TInv, NEW c \in Calls, SettleScript(c)
  PROVE  ScriptEffect
<1>1. c.op \in {"settle", "settleIO"} /\ c.id \in Ids /\ c.arg \in Amount
  BY CallFacts DEF SettleScript, Closing
<1>2. /\ lent' \in Amount /\ told' \in [Ids -> Told] /\ unheard' \subseteq Ids /\ opened' \subseteq Ids
      /\ UNCHANGED <<lent, leaked, minted>>
  BY TypeFacts DEF SettleScript, ids
<1>3. CASE ~Closable(c.id)
  <2>1. UNCHANGED <<bucket, res, spent>>
    BY <1>3 DEF SettleScript, hashes
  <2>2. \E d \in [Axes -> Int] : Charges(d)
    BY <1>2, <2>1, NothingMoves
  <2>3. CostsUsed'
    BY <2>1 DEF CostsUsed, TInv
  <2> QED BY <1>2, <2>1, <2>2, <2>3, TypeFacts DEF ScriptEffect
<1>4. CASE Closable(c.id)
  <2> DEFINE l == res[c.id].limits
             r == res[c.id].cost
             over == LuaOvershoot(bucket, l, r, c.arg, clock)
             d == Used(l, r, c.arg)
  <2>1. /\ bucket' = LuaSettleSave(bucket, l, r, c.arg, clock)
        /\ res' = Closed(c.id, "settled", over)
        /\ spent' = Adjusted(c.id, d)
    BY <1>4 DEF SettleScript, Used
  <2>2. res[c.id] \in Reservation /\ res[c.id].status = "pending"
    BY <1>1, <1>4, TypeFacts DEF Closable
  <2>3. l \in Tiers /\ r \in Amount
    BY <2>2, ReservationFacts
  <2>4. spent' = Plus(spent, d)
    BY <2>1, <2>2 DEF Adjusted
  <2> HIDE DEF l, r
  <2>5. Moves(d) /\ over \in Amount /\ \A a \in Axes : d[a] \in Int
    BY <1>1, <2>1, <2>3, TypeFacts, SettleMoves
  <2>6. d \in [Axes -> Int]
    <3>1. d = [a \in Axes |-> d[a]]
      BY DEF Used
    <3> HIDE DEF d
    <3> QED BY <2>5, <3>1
  <2> HIDE DEF over, d
  <2>7. Charges(d)
    <3>1. spent' \in [Axes -> Int] /\ leaked' \in Amount /\ minted' \in Amount
      BY <1>2, <2>4, <2>6, TypeFacts, PlusFacts
    <3>2. \A a \in Axes : /\ spent[a] \in Int /\ leaked[a] \in Nat /\ minted[a] \in Nat
                          /\ d[a] \in Int /\ spent'[a] = spent[a] + d[a]
      BY <2>4, <2>6, TypeFacts DEF Amount, Plus
    <3> QED BY <1>2, <2>5, <3>1, <3>2 DEF Charges
  <2>8. res' \in [Ids -> Reservation \union {NoRes}] /\ CostsUsed'
    BY <1>1, <1>4, <2>1, <2>5, ClosedFacts
  <2> QED BY <1>2, <2>6, <2>7, <2>8 DEF ScriptEffect
<1> QED BY <1>3, <1>4

\* A refund takes the charge back.
LEMMA RefundEffect ==
  ASSUME TInv, NEW c \in Calls, RefundScript(c)
  PROVE  ScriptEffect
<1>1. c.op = "refund" /\ c.id \in Ids
  BY CallFacts DEF RefundScript, Closing
<1>2. /\ lent' \in Amount /\ told' \in [Ids -> Told] /\ unheard' \subseteq Ids /\ opened' \subseteq Ids
      /\ UNCHANGED <<lent, leaked, minted>>
  BY TypeFacts DEF RefundScript, ids
<1>3. CASE ~Closable(c.id)
  <2>1. UNCHANGED <<bucket, res, spent>>
    BY <1>3 DEF RefundScript, hashes
  <2>2. \E d \in [Axes -> Int] : Charges(d)
    BY <1>2, <2>1, NothingMoves
  <2>3. CostsUsed'
    BY <2>1 DEF CostsUsed, TInv
  <2> QED BY <1>2, <2>1, <2>2, <2>3, TypeFacts DEF ScriptEffect
<1>4. CASE Closable(c.id)
  <2> DEFINE l == res[c.id].limits
             r == res[c.id].cost
             d == [a \in Axes |-> -r[a]]
  <2>1. /\ bucket' = LuaCreditSave(bucket, l, r, clock)
        /\ res' = Closed(c.id, "refunded", Zero)
        /\ spent' = Adjusted(c.id, Minus(Zero, r))
    BY <1>4 DEF RefundScript
  <2>2. res[c.id] \in Reservation /\ res[c.id].status = "pending"
    BY <1>1, <1>4, TypeFacts DEF Closable
  <2>3. l \in Tiers /\ r \in Amount
    BY <2>2, ReservationFacts
  <2>4. spent' = Plus(spent, Minus(Zero, r))
    BY <2>1, <2>2 DEF Adjusted
  <2>5. \A a \in Axes \ UsedAxes(Split(l)) : r[a] = 0
    BY <1>1, <2>2, ReservationFacts DEF TInv, CostsUsed
  <2> HIDE DEF l, r
  <2>6. Moves(d) /\ d \in [Axes -> Int]
    BY <2>1, <2>3, <2>5, TypeFacts, CreditMoves DEF Amount
  <2>7. Charges(d)
    <3>1. \A a \in Axes : /\ spent[a] \in Int /\ leaked[a] \in Nat /\ minted[a] \in Nat
                          /\ d[a] \in Int /\ spent'[a] = spent[a] + d[a]
      <4>1. \A a \in Axes : spent'[a] = spent[a] + (0 - r[a]) /\ r[a] \in Nat /\ d[a] = -r[a]
        BY <2>3, <2>4 DEF Plus, Minus, Zero, Amount
      <4>2. \A a \in Axes : spent[a] \in Int /\ leaked[a] \in Nat /\ minted[a] \in Nat
        BY TypeFacts DEF Amount
      <4> HIDE DEF d
      <4> QED BY <4>1, <4>2
    <3>2. spent' \in [Axes -> Int]
      <4>1. spent' = [a \in Axes |-> spent'[a]]
        BY <2>4 DEF Plus
      <4> HIDE DEF d
      <4> QED BY <3>1, <4>1
    <3> HIDE DEF d
    <3> QED BY <1>2, <2>6, <3>1, <3>2, TypeFacts DEF Charges
  <2>8. Zero \in Amount
    BY DEF Zero, Amount
  <2>9. res' \in [Ids -> Reservation \union {NoRes}] /\ CostsUsed'
    BY <1>1, <1>4, <2>1, <2>8, ClosedFacts
  <2> HIDE DEF d
  <2> QED BY <1>2, <2>6, <2>7, <2>9 DEF ScriptEffect
<1> QED BY <1>3, <1>4

\* A loan is charged to its caller, or to nobody when the reply is lost.
LEMMA BorrowEffect ==
  ASSUME TInv, NEW c \in Calls, NEW heard \in BOOLEAN, BorrowScript(c, heard)
  PROVE  ScriptEffect
<1>1. c.op = "borrow" /\ c.limits \in Tiers /\ c.arg \in BorrowSpecs
  BY CallFacts DEF BorrowScript
<1>2. /\ told' \in [Ids -> Told] /\ unheard' \subseteq Ids /\ opened' \subseteq Ids
      /\ res' \in [Ids -> Reservation \union {NoRes}] /\ CostsUsed'
      /\ minted' = minted
  BY TypeFacts DEF BorrowScript, ids, TInv, CostsUsed
<1>3. CASE UNCHANGED <<bucket, spent, lent, leaked>>
  <2>1. \E d \in [Axes -> Int] : Charges(d)
    BY <1>2, <1>3, NothingMoves
  <2> QED BY <1>2, <1>3, <2>1, TypeFacts DEF ScriptEffect
<1>4. CASE ~UNCHANGED <<bucket, spent, lent, leaked>>
  <2> DEFINE d == LuaBorrowGot(bucket, c.limits, c.arg, clock)
  <2>1. /\ bucket' = LuaBorrowDebit(bucket, c.limits, c.arg, clock)
        /\ \/ spent' = Plus(spent, d) /\ lent' = Plus(lent, d) /\ leaked' = leaked
           \/ leaked' = Plus(leaked, d) /\ spent' = spent /\ lent' = lent
    BY <1>4 DEF BorrowScript
  <2>2. Moves(d) /\ d \in Amount
    BY <1>1, <2>1, TypeFacts, BorrowMoves
  <2> HIDE DEF d
  <2>3. d \in [Axes -> Int]
    BY <2>2 DEF Amount
  <2>4. Charges(d) /\ lent' \in Amount
    <3>1. /\ spent' \in [Axes -> Int] /\ leaked' \in Amount /\ minted' \in Amount
          /\ lent' \in Amount
      BY <1>2, <2>1, <2>2, <2>3, TypeFacts, PlusFacts DEF Amount
    <3>2. \A a \in Axes : /\ spent[a] \in Int /\ leaked[a] \in Nat /\ minted[a] \in Nat
                          /\ d[a] \in Nat
      BY <2>2, TypeFacts DEF Amount
    <3>3. \A a \in Axes : \/ spent'[a] = spent[a] + d[a] /\ leaked'[a] = leaked[a]
                          \/ leaked'[a] = leaked[a] + d[a] /\ spent'[a] = spent[a]
      BY <2>1 DEF Plus
    <3> QED BY <1>2, <2>2, <3>1, <3>2, <3>3 DEF Charges
  <2> QED BY <1>2, <2>3, <2>4 DEF ScriptEffect
<1> QED BY <1>3, <1>4

\* A Return gives back what is on loan, or mints when it runs again.
LEMMA ReturnEffect ==
  ASSUME TInv, NEW w \in Workers, call[w] # Idle, ReturnScript(call[w])
  PROVE  ScriptEffect
<1> DEFINE c == call[w]
           d == [a \in Axes |-> -c.arg[a]]
<1>1. c \in Calls
  BY TypeFacts
<1>2. c.op = "return" /\ c.limits \in Tiers /\ c.arg \in Amount /\ c.ran \in BOOLEAN
  BY <1>1, CallFacts DEF ReturnScript
<1>3. /\ told' \in [Ids -> Told] /\ unheard' \subseteq Ids /\ opened' \subseteq Ids
      /\ res' \in [Ids -> Reservation \union {NoRes}] /\ CostsUsed'
      /\ leaked' = leaked
  BY TypeFacts DEF ReturnScript, ids, TInv, CostsUsed
<1>4. /\ \A a \in Axes \ UsedAxes(Split(c.limits)) : c.arg[a] = 0
      /\ ~c.ran => \A a \in Axes : c.arg[a] <= lent[a]
  BY <1>2 DEF TInv, ReturnsLent
<1>5. \/ bucket' = bucket /\ c.arg = Zero
      \/ bucket' = LuaCreditSave(bucket, c.limits, c.arg, clock)
  BY DEF ReturnScript
<1>6. \/ c.ran /\ minted' = Plus(minted, c.arg) /\ spent' = spent /\ lent' = lent
      \/ /\ ~c.ran /\ minted' = minted
         /\ spent' = Minus(spent, c.arg) /\ lent' = Minus(lent, c.arg)
  BY DEF ReturnScript
<1> HIDE DEF c
<1>7. d \in [Axes -> Int] /\ \A a \in Axes : d[a] = -c.arg[a] /\ c.arg[a] \in Nat
  BY <1>2 DEF Amount
<1>8. Moves(d)
  <2>1. CASE bucket' = bucket /\ c.arg = Zero
    <3> HIDE DEF d
    <3>2. \A a \in Axes : c.arg[a] = 0
      BY <2>1 DEF Zero
    <3>1. \A a \in Axes : d[a] = 0
      BY <1>7, <3>2
    <3> QED BY <2>1, <3>1, TypeFacts DEF Moves, AxisMoves, BucketsOK
  <2>2. CASE bucket' = LuaCreditSave(bucket, c.limits, c.arg, clock)
    BY <1>2, <1>4, <2>2, TypeFacts, CreditMoves
  <2> QED BY <1>5, <2>1, <2>2
<1> HIDE DEF d
<1>9. \A a \in Axes : spent[a] \in Int /\ lent[a] \in Nat /\ leaked[a] \in Nat /\ minted[a] \in Nat
  BY TypeFacts DEF Amount
<1>10. \A a \in Axes :
         \/ /\ c.ran /\ minted'[a] = minted[a] + c.arg[a]
            /\ spent'[a] = spent[a] /\ lent'[a] = lent[a]
         \/ /\ ~c.ran /\ minted'[a] = minted[a]
            /\ spent'[a] = spent[a] - c.arg[a] /\ lent'[a] = lent[a] - c.arg[a]
  BY <1>6 DEF Plus, Minus
<1>11. lent' \in Amount /\ spent' \in [Axes -> Int] /\ minted' \in Amount
  <2>1. \A a \in Axes : lent'[a] \in Nat /\ spent'[a] \in Int /\ minted'[a] \in Nat
    BY <1>4, <1>7, <1>9, <1>10
  <2>2. /\ lent' = [a \in Axes |-> lent'[a]] /\ spent' = [a \in Axes |-> spent'[a]]
        /\ minted' = [a \in Axes |-> minted'[a]]
    BY <1>6, TypeFacts DEF Plus, Minus, Amount
  <2> QED BY <2>1, <2>2 DEF Amount
<1>12. Charges(d)
  <2>1. \A a \in Axes :
       /\ spent'[a] + leaked'[a] - minted'[a] = spent[a] + leaked[a] - minted[a] + d[a]
       /\ spent'[a] + leaked'[a] >= spent[a] + leaked[a] + d[a]
       /\ leaked'[a] >= leaked[a]
    BY <1>3, <1>7, <1>9, <1>10
  <2> QED BY <1>3, <1>8, <1>11, <2>1, TypeFacts DEF Charges
<1> QED BY <1>3, <1>7, <1>11, <1>12 DEF ScriptEffect

\* Every script keeps the accounts.
LEMMA ScriptHasEffect ==
  ASSUME TInv, NEW w \in Workers, NEW heard \in BOOLEAN, Script(w, heard)
  PROVE  ScriptEffect
<1>1. call[w] \in Calls
  BY TypeFacts DEF Script
<1>2. CASE CheckScript(call[w], heard)
  BY <1>1, <1>2, DeniedEffect, GrantedEffect DEF CheckScript
<1>3. CASE SettleScript(call[w])
  BY <1>1, <1>3, SettleEffect
<1>4. CASE RefundScript(call[w])
  BY <1>1, <1>4, RefundEffect
<1>5. CASE BorrowScript(call[w], heard)
  BY <1>1, <1>5, BorrowEffect
<1>6. CASE ReturnScript(call[w])
  BY <1>6, ReturnEffect DEF Script
<1> QED BY <1>2, <1>3, <1>4, <1>5, <1>6 DEF Script

-----------------------------------------------------------------------------
(* The types are an invariant. *)

\* The buckets stay within the budgets, and what they hold with what is debited
\* is what they held.
LEMMA ChargesBuckets ==
  ASSUME TInv, clock' = clock, NEW d \in [Axes -> Int], Charges(d)
  PROVE  /\ bucket' \in [Axes -> BucketType]
         /\ \A a \in Axes : bucket'[a].tokens <= MaxCap[a] * Period
         /\ Timely'
         /\ \A a \in Axes : /\ Refilled(a) \in Nat /\ Refilled(a)' \in Nat
                            /\ Refilled(a)' + d[a] * Period <= Refilled(a)
<1>1. bucket' \in [Axes -> BucketType] /\ BucketsOK
  BY TypeFacts DEF Charges, Moves
<1>2. ASSUME NEW a \in Axes
      PROVE  /\ bucket'[a].tokens <= MaxCap[a] * Period /\ bucket'[a].last <= clock
             /\ Refilled(a) \in Nat /\ Refilled(a)' \in Nat
             /\ Refilled(a)' + d[a] * Period <= Refilled(a)
  <2>1. /\ MaxCap[a] \in Nat /\ bucket[a] \in BucketType /\ clock \in Nat \ {0}
        /\ bucket[a].tokens <= MaxCap[a] * Period /\ bucket[a].last <= clock
    BY <1>1, RedisAssumption DEF BucketsOK
  <2>2. Refilled(a) \in Nat /\ Refilled(a) = LuaTokens(bucket[a], MaxCap[a], clock)
    BY <2>1, LuaFacts DEF Refilled
  <2>3. Refilled(a)' = LuaTokens(bucket'[a], MaxCap[a], clock)
    BY DEF Refilled
  <2>4. CASE bucket'[a] = bucket[a] /\ d[a] = 0
    <3>1. d[a] * Period = 0
      BY <2>4, PeriodAssumption
    <3> QED BY <2>1, <2>2, <2>3, <2>4, <3>1
  <2>5. CASE bucket'[a] # bucket[a] \/ d[a] # 0
    <3>1. PICK l \in Tiers : LuaStep(bucket[a], bucket'[a], MaxCap[a], l[a], clock, d[a])
      BY <2>5 DEF Charges, Moves, AxisMoves
    <3>2. /\ bucket'[a] \in BucketType /\ bucket'[a].last = clock
          /\ bucket'[a].tokens <= MaxCap[a] * Period
          /\ bucket'[a].tokens + d[a] * Period <= LuaTokens(bucket[a], MaxCap[a], clock)
      BY <3>1 DEF LuaStep
    <3>3. Refilled(a)' = bucket'[a].tokens /\ bucket'[a].tokens \in Nat
      BY <2>1, <2>3, <3>2, LuaAtOnce DEF BucketType
    <3> QED BY <2>1, <2>2, <3>2, <3>3
  <2> QED BY <2>4, <2>5
<1> QED BY <1>1, <1>2 DEF Timely

\* A call that begins, goes on or ends is a call.
LEMMA CallsTyped ==
  ASSUME TInv, NEW w \in Workers, NEW c \in Calls \union {Idle}, call' = [call EXCEPT ![w] = c]
  PROVE  call' \in [Workers -> Calls \union {Idle}] /\ call'[w] = c
         /\ \A v \in Workers \ {w} : call'[v] = call[v]
  BY TypeFacts

\* Idle is in no call.
LEMMA IdleFacts == Idle.op = "none"
  BY DEF Idle

\* A step that begins no Return keeps the Returns on loan.
LEMMA ReturnsKept ==
  ASSUME TInv, NEW w \in Workers, NEW c \in Calls \union {Idle}, call' = [call EXCEPT ![w] = c],
         \/ c.op # "return"
         \/ /\ call[w].op = "return" /\ c.limits = call[w].limits /\ c.arg = call[w].arg
            /\ c.ran \/ c.ran = call[w].ran,
         \/ \A a \in Axes : lent[a] <= lent'[a]
         \/ call[w].op = "return" /\ (c.op = "return" => c.ran),
         lent' \in Amount
  PROVE  ReturnsLent'
<1> SUFFICES ASSUME NEW v \in Workers, call'[v].op = "return"
             PROVE  /\ \A a \in Axes \ UsedAxes(Split(call'[v].limits)) : call'[v].arg[a] = 0
                    /\ ~call'[v].ran => \A a \in Axes : call'[v].arg[a] <= lent'[a]
                    /\ \A u \in Workers : call'[u].op = "return" => u = v
  BY DEF ReturnsLent
<1>1. call'[w] = c /\ \A u \in Workers \ {w} : call'[u] = call[u]
  BY CallsTyped
<1>2. call[v].op = "return" /\ call'[v].limits = call[v].limits /\ call'[v].arg = call[v].arg
      /\ (call'[v].ran \/ call'[v].ran = call[v].ran)
  BY <1>1
<1>3. \A u \in Workers : call'[u].op = "return" => call[u].op = "return"
  BY <1>1
<1>4. \A u \in Workers : call[u].op = "return" => u = v
  BY <1>2 DEF TInv, ReturnsLent
<1>5. ASSUME ~call'[v].ran PROVE \A a \in Axes : call'[v].arg[a] <= lent'[a]
  <2>1. ~call[v].ran
    BY <1>2, <1>5
  <2>2. \A a \in Axes : call[v].arg[a] <= lent[a]
    BY <1>2, <2>1 DEF TInv, ReturnsLent
  <2>3. \A a \in Axes : lent[a] <= lent'[a]
    BY <1>1, <1>4, <1>5
  <2>4. call[v] \in Calls
    BY <1>2, TypeFacts, IdleFacts
  <2>5. \A a \in Axes : call[v].arg[a] \in Nat /\ lent[a] \in Nat /\ lent'[a] \in Nat
    BY <1>2, <2>4, TypeFacts, CallFacts DEF Amount
  <2> QED BY <1>2, <2>2, <2>3, <2>5
<1>6. \A a \in Axes \ UsedAxes(Split(call'[v].limits)) : call'[v].arg[a] = 0
  BY <1>2 DEF TInv, ReturnsLent
<1> QED BY <1>3, <1>4, <1>5, <1>6

\* Only a Return takes off what is on loan.
LEMMA LentGrows ==
  ASSUME TInv, NEW w \in Workers, NEW heard \in BOOLEAN, Script(w, heard),
         call[w].op # "return"
  PROVE  \A a \in Axes : lent[a] <= lent'[a]
<1> SUFFICES ASSUME NEW a \in Axes PROVE lent[a] <= lent'[a]
  OBVIOUS
<1>1. lent[a] \in Nat /\ call[w] \in Calls
  BY TypeFacts DEF Amount, Script
<1>2. CASE lent' = lent
  BY <1>1, <1>2
<1>3. CASE BorrowScript(call[w], heard) /\ lent' # lent
  <2> DEFINE d == LuaBorrowGot(bucket, call[w].limits, call[w].arg, clock)
  <2>1. lent' = Plus(lent, d) /\ bucket' = LuaBorrowDebit(bucket, call[w].limits, call[w].arg, clock)
    BY <1>3 DEF BorrowScript
  <2>2. call[w].limits \in Tiers /\ call[w].arg \in BorrowSpecs
    BY <1>1, <1>3, CallFacts DEF BorrowScript
  <2>3. d \in Amount
    BY <2>1, <2>2, TypeFacts, BorrowMoves
  <2> HIDE DEF d
  <2> QED BY <1>1, <2>1, <2>3 DEF Plus, Amount
<1> QED BY <1>2, <1>3 DEF Script, CheckScript, CheckDenied, CheckGranted, SettleScript,
             RefundScript, ReturnScript, books

\* What TInv leaves to show when a step is described as the scripts are.
LEMMA TypedStep ==
  ASSUME TInv, ScriptEffect, inexact' \subseteq Axes,
         clock' = clock, calls' \in 0..MaxCalls, faults' \in 0..MaxFaults,
         call' \in [Workers -> Calls \union {Idle}], ReturnsLent'
  PROVE  TInv'
<1>1. PICK d \in [Axes -> Int] : Charges(d)
  BY DEF ScriptEffect
<1>2. /\ bucket' \in [Axes -> BucketType]
      /\ \A a \in Axes : bucket'[a].tokens <= MaxCap[a] * Period
      /\ Timely'
  BY <1>1, ChargesBuckets
<1>3. spent' \in [Axes -> Int] /\ leaked' \in Amount /\ minted' \in Amount
  BY <1>1 DEF Charges
<1>4. TypeOK'
  BY <1>2, <1>3 DEF TypeOK, TInv, ScriptEffect, BucketType, Told, Amount
<1> QED BY <1>2, <1>4 DEF TInv, ScriptEffect

\* Steps that leave the hashes and the accounts alone.
LEMMA QuietEffect ==
  ASSUME TInv, UNCHANGED <<hashes, books, unheard, opened>>, told' \in [Ids -> Told]
  PROVE  ScriptEffect /\ inexact' \subseteq Axes
<1>1. \E d \in [Axes -> Int] : Charges(d)
  BY NothingMoves DEF hashes, books
<1>2. CostsUsed'
  BY DEF TInv, CostsUsed, hashes
<1> QED BY <1>1, <1>2, TypeFacts DEF ScriptEffect, hashes, books

\* The marks of inexact balances stay marks of axes.
LEMMA MarksTyped ==
  ASSUME TInv, NEW w \in Workers, NEW heard \in BOOLEAN, Script(w, heard)
  PROVE  inexact' \subseteq Axes
<1>1. inexact \subseteq Axes
  BY TypeFacts
<1>2. \A l, filled : StillInexact(l, filled) \subseteq Axes
  BY <1>1 DEF StillInexact, LuaStillInexact, LuaInexact
<1>3. inexact' = inexact \/ \E l, filled : inexact' = StillInexact(l, filled)
  BY DEF Script, CheckScript, CheckDenied, CheckGranted, SettleScript, RefundScript,
         BorrowScript, ReturnScript, hashes
<1> QED BY <1>1, <1>2, <1>3

\* The calls that begin.
LEMMA CommandTyped ==
  ASSUME TInv
  PROVE  /\ \A id \in Ids, l \in Tiers, n \in Costs :
              Command("check", id, l, Clamped(n)) \in Calls
         /\ \A op \in Closing, id \in Ids, n \in Actuals \union {Zero} :
              [Command(op, id, Zero, Clamped(n)) EXCEPT !.step = "lookup"] \in Calls
         /\ \A l \in Tiers, s \in BorrowSpecs : Command("borrow", "-", l, s) \in Calls
         /\ \A l \in Tiers, n \in Returns :
              /\ OnUsed(l, Clamped(n)) \in Amount
              /\ Command("return", "-", l, OnUsed(l, Clamped(n))) \in Calls
<1>1. \A n \in Costs \union Actuals \union Returns \union {Zero} : Clamped(n) \in Amount
  <2>1. \A n \in Costs \union Actuals \union Returns : n \in [Axes -> Int]
    BY RedisAssumption
  <2>2. Zero \in [Axes -> Int]
    BY DEF Zero
  <2> QED BY <2>1, <2>2, ClampFacts
<1>2. clock \in Nat
  BY TypeFacts DEF BucketsOK
<1>3. \A id \in Ids, l \in Tiers, n \in Costs : Command("check", id, l, Clamped(n)) \in Calls
  BY <1>1, <1>2 DEF Command, Calls, Amount
<1>4. \A op \in Closing, id \in Ids, n \in Actuals \union {Zero} :
        [Command(op, id, Zero, Clamped(n)) EXCEPT !.step = "lookup"] \in Calls
  BY <1>1, <1>2 DEF Command, Calls, Amount, Closing
<1>5. \A l \in Tiers, s \in BorrowSpecs : Command("borrow", "-", l, s) \in Calls
  BY <1>2 DEF Command, Calls
<1>6. \A l \in Tiers, n \in Returns : OnUsed(l, Clamped(n)) \in Amount
  BY <1>1, OnUsedFacts
<1>7. \A l \in Tiers, n \in Returns : Command("return", "-", l, OnUsed(l, Clamped(n))) \in Calls
  BY <1>2, <1>6 DEF Command, Calls, Amount
<1> QED BY <1>3, <1>4, <1>5, <1>6, <1>7

\* The counters a call or a failure moves.
LEMMA Counters ==
  ASSUME TInv
  PROVE  /\ calls \in 0..MaxCalls /\ faults \in 0..MaxFaults
         /\ \A w, c : Begin(w, c) => calls' \in 0..MaxCalls /\ call' = [call EXCEPT ![w] = c]
         /\ faults < MaxFaults /\ faults' = faults + 1 => faults' \in 0..MaxFaults
         /\ \A a \in Axes : lent[a] <= lent[a]
  BY RedisAssumption DEF TInv, TypeOK, Begin

\* A call begins.
LEMMA BeginTyped ==
  ASSUME TInv, NEW w \in Workers, NEW c \in Calls, Begin(w, c), c.op # "return",
         UNCHANGED <<hashes, clock, faults, unheard, opened, books>>, told' \in [Ids -> Told]
  PROVE  TInv'
<1>1. calls' \in 0..MaxCalls /\ faults' \in 0..MaxFaults /\ call' = [call EXCEPT ![w] = c]
  BY Counters
<1>2. ReturnsLent'
  BY <1>1, Counters, TypeFacts, ReturnsKept DEF books
<1> QED BY <1>1, <1>2, QuietEffect, CallsTyped, TypedStep

\* A Return begins.
LEMMA ReturnTyped ==
  ASSUME TInv, NEW w \in Workers, NEW l \in Tiers, NEW n \in Returns, ReturnStart(w, l, n)
  PROVE  TInv'
<1> DEFINE x == OnUsed(l, Clamped(n))
           c == Command("return", "-", l, x)
<1>1. c \in Calls /\ x \in Amount
  BY CommandTyped
<1>2. calls' \in 0..MaxCalls /\ faults' \in 0..MaxFaults /\ call' = [call EXCEPT ![w] = c]
  BY Counters DEF ReturnStart
<1>3. /\ UNCHANGED <<hashes, clock, ids, books>>
      /\ \A a \in Axes : NonNeg(n[a]) <= lent[a]
      /\ \A v \in Workers : call[v].op # "return"
  BY DEF ReturnStart
<1>4. c.op = "return" /\ c.limits = l /\ c.arg = x
  BY DEF Command
<1>5. \A a \in Axes : x[a] <= lent'[a]
  <2>1. \A a \in Axes : x[a] = NonNeg(n[a]) \/ x[a] = 0
    BY DEF OnUsed, Clamped
  <2>2. \A a \in Axes : lent[a] \in Nat
    BY TypeFacts DEF Amount
  <2> HIDE DEF x
  <2> QED BY <1>3, <2>1, <2>2 DEF books
<1>6. \A a \in Axes \ UsedAxes(Split(l)) : x[a] = 0
  BY DEF OnUsed
<1> HIDE DEF c, x
<1>7. call' \in [Workers -> Calls \union {Idle}] /\ call'[w] = c
      /\ \A v \in Workers \ {w} : call'[v] = call[v]
  BY <1>1, <1>2, CallsTyped
<1>8. ReturnsLent'
  BY <1>3, <1>4, <1>5, <1>6, <1>7 DEF ReturnsLent
<1>9. ScriptEffect /\ inexact' \subseteq Axes
  BY <1>3, QuietEffect, TypeFacts DEF ids
<1> QED BY <1>2, <1>3, <1>7, <1>8, <1>9, TypedStep

\* A call goes on or ends without running its script.
LEMMA CallMovesTyped ==
  ASSUME TInv, NEW w \in Workers, call[w] # Idle,
         NEW c \in Calls \union {Idle}, call' = [call EXCEPT ![w] = c],
         \/ c.op # "return"
         \/ /\ call[w].op = "return" /\ c.limits = call[w].limits /\ c.arg = call[w].arg
            /\ c.ran = call[w].ran,
         calls' = calls, faults' \in 0..MaxFaults,
         UNCHANGED <<hashes, clock, unheard, opened, books>>, told' \in [Ids -> Told]
  PROVE  TInv'
<1>1. ReturnsLent'
  BY Counters, TypeFacts, ReturnsKept DEF books
<1> QED BY <1>1, QuietEffect, CallsTyped, TypedStep, Counters

\* A script runs, and its call ends or is left in doubt.
LEMMA ScriptTyped ==
  ASSUME TInv, NEW w \in Workers, NEW heard \in BOOLEAN, Script(w, heard),
         NEW c \in Calls \union {Idle}, call' = [call EXCEPT ![w] = c],
         \/ c = Idle
         \/ c.op = call[w].op /\ c.limits = call[w].limits /\ c.arg = call[w].arg /\ c.ran,
         clock' = clock, calls' = calls, faults' \in 0..MaxFaults
  PROVE  TInv'
<1>1. ScriptEffect
  BY ScriptHasEffect
<1>2. lent' \in Amount
  BY <1>1 DEF ScriptEffect
<1>3. (\A a \in Axes : lent[a] <= lent'[a]) \/ call[w].op = "return"
  BY LentGrows
<1>4. c = Idle => c.op # "return"
  BY IdleFacts
<1>5. ReturnsLent'
  BY <1>2, <1>3, <1>4, ReturnsKept
<1>6. inexact' \subseteq Axes
  BY MarksTyped
<1> QED BY <1>1, <1>5, <1>6, CallsTyped, TypedStep, Counters

\* Time passes and reservations expire.
LEMMA TickTyped ==
  ASSUME TInv, Tick
  PROVE  TInv'
<1>1. clock' = clock + 1 /\ clock' \in 1..MaxTime /\ clock \in Nat
  BY RedisAssumption DEF Tick, TInv, TypeOK
<1>2. /\ res' \in [Ids -> Reservation \union {NoRes}]
      /\ \A id \in Ids : res'[id] = res[id] \/ res'[id] = NoRes
  BY TypeFacts DEF Tick
<1>3. UNCHANGED <<bucket, inexact, call, calls, faults, told, unheard, opened, spent, lent, leaked, minted>>
  BY DEF Tick, ids, books
<1>4. TypeOK'
  BY <1>1, <1>2, <1>3 DEF TInv, TypeOK
<1>5. Timely'
  <2>1. \A a \in Axes : bucket[a].last \in Nat
    BY TypeFacts DEF BucketsOK, BucketType
  <2> QED BY <1>1, <1>3, <2>1 DEF TInv, Timely
<1>6. CostsUsed'
  BY <1>2 DEF TInv, CostsUsed
<1>7. ReturnsLent'
  BY <1>3 DEF TInv, ReturnsLent
<1> QED BY <1>4, <1>5, <1>6, <1>7 DEF TInv

\* Every step keeps the types.
LEMMA TInvStep ==
  ASSUME TInv, [Next]_vars
  PROVE  TInv'
<1>1. ASSUME NEW w \in Workers, NEW l \in Tiers, NEW n \in Costs, NEW id \in Ids,
             CheckStart(w, l, n, id)
      PROVE  TInv'
  <2> DEFINE c == Command("check", id, l, Clamped(n))
  <2>1. c \in Calls
    BY CommandTyped
  <2>2. c.op # "return"
    BY DEF Command
  <2>3. told' \in [Ids -> Told]
    BY <1>1, TypeFacts DEF CheckStart, Told
  <2>4. Begin(w, c) /\ UNCHANGED <<hashes, clock, faults, unheard, opened, books>>
    BY <1>1 DEF CheckStart
  <2> HIDE DEF c
  <2> QED BY <2>1, <2>2, <2>3, <2>4, BeginTyped
<1>2. ASSUME NEW w \in Workers, NEW op \in Closing, NEW id \in Ids,
             NEW n \in Actuals \union {Zero}, CloseStart(w, op, id, n)
      PROVE  TInv'
  <2> DEFINE c == [Command(op, id, Zero, Clamped(n)) EXCEPT !.step = "lookup"]
  <2>1. c \in Calls
    BY CommandTyped
  <2>2. c.op # "return"
    BY DEF Command, Closing
  <2>3. told' \in [Ids -> Told]
    BY <1>2, TypeFacts DEF CloseStart, ids
  <2>4. Begin(w, c) /\ UNCHANGED <<hashes, clock, faults, unheard, opened, books>>
    BY <1>2 DEF CloseStart, ids
  <2> HIDE DEF c
  <2> QED BY <2>1, <2>2, <2>3, <2>4, BeginTyped
<1>3. ASSUME NEW w \in Workers, NEW l \in Tiers, NEW s \in BorrowSpecs, BorrowStart(w, l, s)
      PROVE  TInv'
  <2> DEFINE c == Command("borrow", "-", l, s)
  <2>1. c \in Calls
    BY CommandTyped
  <2>2. c.op # "return"
    BY DEF Command
  <2>3. told' \in [Ids -> Told]
    BY <1>3, TypeFacts DEF BorrowStart, ids
  <2>4. Begin(w, c) /\ UNCHANGED <<hashes, clock, faults, unheard, opened, books>>
    BY <1>3 DEF BorrowStart, ids
  <2> HIDE DEF c
  <2> QED BY <2>1, <2>2, <2>3, <2>4, BeginTyped
<1>4. ASSUME NEW w \in Workers, Lookup(w)
      PROVE  TInv'
  <2> DEFINE r == res[call[w].id]
             c == IF r # NoRes /\ ModeFits(call[w].op, Split(r.limits))
                  THEN [call[w] EXCEPT !.step = "script", !.limits = r.limits]
                  ELSE Idle
  <2>1. /\ call[w] # Idle /\ call[w].step = "lookup" /\ call' = [call EXCEPT ![w] = c]
        /\ UNCHANGED <<hashes, clock, calls, faults, ids, books>>
    BY <1>4 DEF Lookup
  <2>2. call[w] \in Calls /\ call[w].op \in Closing /\ call[w].id \in Ids
    BY <2>1, TypeFacts, CallFacts
  <2>3. r # NoRes => r.limits \in Tiers
    BY <2>2, TypeFacts, ReservationFacts
  <2>4. c \in Calls \union {Idle}
    BY <2>2, <2>3, CallGoesOn
  <2>5. c.op # "return"
    <3>1. [call[w] EXCEPT !.step = "script", !.limits = r.limits].op = call[w].op
      BY <2>2 DEF Calls
    <3> QED BY <2>2, <3>1, IdleFacts DEF Closing
  <2> HIDE DEF c
  <2> QED BY <2>1, <2>4, <2>5, CallMovesTyped, Counters, TypeFacts DEF ids
<1>5. ASSUME NEW w \in Workers, Answered(w)
      PROVE  TInv'
  BY <1>5, ScriptTyped, Counters DEF Answered
<1>6. ASSUME NEW w \in Workers, RequestLost(w)
      PROVE  TInv'
  <2> DEFINE c == [call[w] EXCEPT !.failed = TRUE]
  <2>1. /\ call[w] # Idle /\ call' = [call EXCEPT ![w] = c]
        /\ UNCHANGED <<hashes, clock, calls, ids, books>>
        /\ faults < MaxFaults /\ faults' = faults + 1
    BY <1>6 DEF RequestLost
  <2>2. call[w] \in Calls
    BY <2>1, TypeFacts
  <2>3. c \in Calls /\ c.op = call[w].op /\ c.limits = call[w].limits /\ c.arg = call[w].arg
        /\ c.ran = call[w].ran
    BY <2>2, CallGoesOn DEF Calls
  <2> HIDE DEF c
  <2> QED BY <2>1, <2>3, CallMovesTyped, Counters, TypeFacts DEF ids
<1>7. ASSUME NEW w \in Workers, ReplyLost(w)
      PROVE  TInv'
  <2> DEFINE c == [call[w] EXCEPT !.failed = TRUE, !.ran = TRUE]
  <2>1. /\ Script(w, FALSE) /\ call' = [call EXCEPT ![w] = c]
        /\ UNCHANGED <<clock, calls>>
        /\ faults < MaxFaults /\ faults' = faults + 1
    BY <1>7 DEF ReplyLost
  <2>2. call[w] \in Calls
    BY <2>1, TypeFacts DEF Script
  <2>3. c \in Calls /\ c.op = call[w].op /\ c.limits = call[w].limits /\ c.arg = call[w].arg
        /\ c.ran
    BY <2>2, CallGoesOn DEF Calls
  <2> HIDE DEF c
  <2> QED BY <2>1, <2>3, ScriptTyped, Counters
<1>8. ASSUME NEW w \in Workers, GiveUp(w)
      PROVE  TInv'
  <2>1. /\ call[w] # Idle /\ call' = [call EXCEPT ![w] = Idle]
        /\ UNCHANGED <<hashes, clock, calls, faults, unheard, opened, books>>
    BY <1>8 DEF GiveUp
  <2>2. told' \in [Ids -> Told]
    <3>1. call[w] \in Calls
      BY <2>1, TypeFacts
    <3>2. OnStoreErr \in Told
      BY DEF OnStoreErr, Told
    <3>3. call[w].op = "check" => call[w].id \in Ids
      BY <3>1, CallFacts
    <3> QED BY <1>8, <3>2, <3>3, TypeFacts DEF GiveUp
  <2>3. Idle.op # "return"
    BY IdleFacts
  <2> QED BY <2>1, <2>2, <2>3, CallMovesTyped, Counters
<1>9. ASSUME NEW id \in Ids, CheckRefused(id)
      PROVE  TInv'
  <2>1. UNCHANGED <<hashes, clock, call, calls, faults, unheard, opened, books>>
    BY <1>9 DEF CheckRefused
  <2>2. told' \in [Ids -> Told]
    BY <1>9, TypeFacts DEF CheckRefused, OnStoreErr, Told
  <2>3. ReturnsLent'
    BY <2>1 DEF TInv, ReturnsLent, books
  <2> QED BY <2>1, <2>2, <2>3, QuietEffect, TypedStep, Counters, TypeFacts
<1>10. CASE UNCHANGED vars
  <2>1. ReturnsLent'
    BY <1>10 DEF TInv, ReturnsLent, vars, books
  <2> QED BY <1>10, <2>1, QuietEffect, TypedStep, Counters, TypeFacts DEF vars, ids
<1> QED BY <1>1, <1>2, <1>3, <1>4, <1>5, <1>6, <1>7, <1>8, <1>9, <1>10, ReturnTyped, TickTyped
        DEF Next, Closing

\* The types hold at the start.
LEMMA TInvInit ==
  ASSUME Init
  PROVE  TInv
<1>1. /\ Zero \in Amount /\ Zero \in [Axes -> Int] /\ Cold \in BucketType
      /\ Cold.tokens = 0 /\ Cold.last = 0
  BY DEF Zero, Amount, Cold, BucketType
<1>2. \A a \in Axes : 0 <= MaxCap[a] * Period
  BY RedisAssumption, PeriodAssumption, TimesMonotone
<1>3. TypeOK
  BY <1>1, <1>2, RedisAssumption DEF Init, TypeOK, Amount, BucketType
<1>4. Timely /\ CostsUsed /\ ReturnsLent
  BY <1>1, IdleFacts DEF Init, Timely, CostsUsed, ReturnsLent
<1> QED BY <1>3, <1>4 DEF TInv

\* In every reachable state the hashes and the accounts have their types: no
\* balance goes below empty or above the most generous budget, and no Return takes
\* off more than is on loan, whatever is lost, repeated or overtaken.
THEOREM TypeCorrect == Spec => []TypeOK
<1>1. Init => TInv
  BY TInvInit
<1>2. TInv /\ [Next]_vars => TInv'
  BY TInvStep
<1>3. TInv => TypeOK
  BY DEF TInv
<1> QED BY <1>1, <1>2, <1>3, PTL DEF Spec

-----------------------------------------------------------------------------
(* The rate. *)

\* Every step but a tick moves buckets and accounts together, or neither.
LEMMA StepCharges ==
  ASSUME TInv, [Next]_vars
  PROVE  Tick \/ (clock' = clock /\ \E d \in [Axes -> Int] : Charges(d))
<1>1. ASSUME NEW w \in Workers, Answered(w) \/ ReplyLost(w)
      PROVE  clock' = clock /\ \E d \in [Axes -> Int] : Charges(d)
  BY <1>1, ScriptHasEffect DEF Answered, ReplyLost, ScriptEffect
<1>2. ASSUME UNCHANGED <<hashes, clock, books>>
      PROVE  clock' = clock /\ \E d \in [Axes -> Int] : Charges(d)
  BY <1>2, NothingMoves DEF hashes, books
<1>3. ASSUME NEW w \in Workers,
             \/ \E l \in Tiers, n \in Costs, id \in Ids : CheckStart(w, l, n, id)
             \/ \E op \in {"settle", "settleIO"}, id \in Ids, n \in Actuals :
                  CloseStart(w, op, id, n)
             \/ \E id \in Ids : CloseStart(w, "refund", id, Zero)
             \/ \E l \in Tiers, s \in BorrowSpecs : BorrowStart(w, l, s)
             \/ \E l \in Tiers, n \in Returns : ReturnStart(w, l, n)
             \/ Lookup(w) \/ RequestLost(w) \/ GiveUp(w)
      PROVE  UNCHANGED <<hashes, clock, books>>
  BY <1>3 DEF CheckStart, CloseStart, BorrowStart, ReturnStart, Lookup, RequestLost, GiveUp
<1>4. (\E id \in Ids : CheckRefused(id)) \/ UNCHANGED vars => UNCHANGED <<hashes, clock, books>>
  BY DEF CheckRefused, vars
<1> QED BY <1>1, <1>2, <1>3, <1>4 DEF Next

\* The bound on one axis.
RateOn(a) ==
  Refilled(a) + (spent[a] + leaked[a] - minted[a]) * Period
    <= MaxCap[a] * (Period + clock - 1)

\* No step but a tick adds to the claims on an axis, and a tick adds the rate.
LEMMA RateStep ==
  ASSUME TInv, [Next]_vars, NEW a \in Axes, RateOn(a)
  PROVE  RateOn(a)'
<1> DEFINE M == MaxCap[a]
           n == spent[a] + leaked[a] - minted[a]
           m == spent'[a] + leaked'[a] - minted'[a]
<1>1. M \in Nat /\ n \in Int /\ clock \in Nat \ {0}
  BY RedisAssumption, TypeFacts DEF Amount, BucketsOK
<1>2. CASE Tick
  <2>1. clock' = clock + 1 /\ n' = n /\ bucket' = bucket
    BY <1>2 DEF Tick, books
  <2>2. /\ bucket[a] \in BucketType /\ bucket[a].tokens <= M * Period /\ bucket[a].last <= clock
    BY TypeFacts DEF BucketsOK
  <2>3. Refilled(a)' <= Refilled(a) + M /\ Refilled(a) \in Nat
    BY <1>1, <2>1, <2>2, LuaOverTime, LuaFacts DEF Refilled
  <2>4. Refilled(a)' \in Nat
    <3>1. clock + 1 \in Nat \ {0} /\ bucket[a].last <= clock + 1 /\ M <= M
      BY <1>1, <2>2 DEF BucketType
    <3>2. LuaTokens(bucket[a], M, clock + 1) \in Nat
      BY <1>1, <2>2, <3>1, LuaFacts
    <3> QED BY <2>1, <3>2 DEF Refilled
  <2>5. M * (Period + (clock + 1) - 1) = M * (Period + clock - 1) + M
        /\ M * (Period + clock - 1) \in Int /\ n * Period \in Int
    BY <1>1, PeriodAssumption
  <2>6. Refilled(a) + n * Period <= M * (Period + clock - 1)
    BY DEF RateOn
  <2> DEFINE x == M * (Period + clock - 1)
             y == M * (Period + (clock + 1) - 1)
             z == n * Period
             s == Refilled(a)
             t == Refilled(a)'
  <2> HIDE DEF x, y, z, s, t
  <2>7. t + z <= y
    BY <1>1, <2>3, <2>4, <2>5, <2>6 DEF x, y, z, s, t
  <2> QED BY <2>1, <2>7 DEF RateOn, y, z, t
<1>3. CASE clock' = clock /\ \E d \in [Axes -> Int] : Charges(d)
  <2>1. PICK d \in [Axes -> Int] : Charges(d)
    BY <1>3
  <2>2. m = n + d[a] /\ d[a] \in Int
    BY <2>1 DEF Charges
  <2>3. Refilled(a) \in Nat /\ Refilled(a)' \in Nat /\ Refilled(a)' + d[a] * Period <= Refilled(a)
    BY <1>3, <2>1, ChargesBuckets
  <2> HIDE DEF n, m
  <2>4. m * Period = n * Period + d[a] * Period /\ n * Period \in Int /\ d[a] * Period \in Int
    BY <1>1, <2>2, PeriodAssumption
  <2>5. M * (Period + clock - 1) \in Int
    BY <1>1, PeriodAssumption
  <2>6. Refilled(a) + n * Period <= M * (Period + clock - 1)
    BY DEF RateOn, n
  <2> DEFINE x == M * (Period + clock - 1)
             z == n * Period
             u == m * Period
             v == d[a] * Period
             s == Refilled(a)
             t == Refilled(a)'
  <2>7. t + u <= x
    <3> HIDE DEF x, z, u, v, s, t
    <3> QED BY <2>3, <2>4, <2>5, <2>6 DEF x, z, u, v, s, t
  <2> QED BY <1>3, <2>7 DEF RateOn, m
<1> QED BY <1>2, <1>3, StepCharges

\* In every reachable state, what was debited and what is left on an axis is within
\* a full bucket of the top budget and the refill of the time that passed, however
\* requests and replies are lost and scripts repeated.
THEOREM RateBoundHolds == Spec => []RateBound
<1> DEFINE I == TInv /\ RateBound
<1>1. Init => I
  <2> SUFFICES ASSUME Init, NEW a \in Axes PROVE RateOn(a)
    BY TInvInit DEF RateBound, RateOn
  <2>1. Refilled(a) = MaxCap[a] * Period
    BY DEF Init, Refilled, LuaTokens, Cold
  <2>2. spent[a] = 0 /\ leaked[a] = 0 /\ minted[a] = 0 /\ clock = 1 /\ MaxCap[a] \in Nat
    BY RedisAssumption DEF Init, Zero
  <2>3. (0 + 0 - 0) * Period = 0 /\ Period + 1 - 1 = Period /\ MaxCap[a] * Period \in Nat
    BY <2>2, PeriodAssumption, TimesMonotone
  <2> QED BY <2>1, <2>2, <2>3 DEF RateOn
<1>2. I /\ [Next]_vars => I'
  <2> SUFFICES ASSUME I, [Next]_vars PROVE RateBound'
    BY TInvStep
  <2>1. \A a \in Axes : RateOn(a)'
    BY RateStep DEF RateBound, RateOn
  <2> QED BY <2>1 DEF RateBound, RateOn
<1>3. I => RateBound
  OBVIOUS
<1> QED BY <1>1, <1>2, <1>3, PTL DEF Spec

-----------------------------------------------------------------------------
(* Ids, and who is told what. *)

\* The reservation that an earlier run of check c's script has written.
WrittenBy(c) ==
  /\ res[c.id] # NoRes /\ res[c.id].status = "pending"
  /\ res[c.id].cost = OnUsed(c.limits, c.arg)
  /\ res[c.id].expires >= c.since + TTL

\* A check in progress has its id to itself, and if its script has run before, the
\* reservation it wrote is still there.
AskedIds ==
  \A w \in Workers : call[w].op = "check" =>
    /\ told[call[w].id] = "asked"
    /\ \A v \in Workers : call[v].op = "check" /\ call[v].id = call[w].id => v = w
    /\ call[w].id \in opened => WrittenBy(call[w])

\* A closing call is for what its caller was granted.
GrantedIds == \A w \in Workers : call[w].op \in Closing => told[call[w].id] = "allowed"

\* No call outlasts CallTime.
InTime ==
  \A w \in Workers : call[w] # Idle =>
    call[w].since <= clock /\ clock <= call[w].since + CallTime

\* What is stored was opened, what was granted was opened, and what no caller was
\* granted had a reply lost.
Written ==
  \A id \in Ids :
    /\ res[id] # NoRes => id \in opened
    /\ told[id] = "none" => id \notin opened
    /\ told[id] = "allowed" => id \in opened
    /\ res[id] # NoRes /\ told[id] # "allowed" => id \in unheard

IdInv == AskedIds /\ GrantedIds /\ InTime /\ Written

\* Caller w's call goes on as it is, or ends.
Onward(w) ==
  /\ \A v \in Workers \ {w} : call'[v] = call[v]
  /\ \/ call'[w] = Idle
     \/ /\ call[w] # Idle
        /\ call'[w].op = call[w].op /\ call'[w].id = call[w].id
        /\ call'[w].since = call[w].since
        /\ call[w].op = "check" => call'[w].arg = call[w].arg /\ call'[w].limits = call[w].limits

\* What Onward says of every call.
LEMMA OnwardFacts ==
  ASSUME NEW w \in Workers, Onward(w), NEW v \in Workers
  PROVE  /\ call'[v].op # "none" =>
              /\ call'[v].op = call[v].op /\ call'[v].id = call[v].id
         /\ call'[v] # Idle => call[v] # Idle /\ call'[v].since = call[v].since
         /\ call'[v].op = "check" =>
              /\ call[v].op = "check" /\ call'[v].id = call[v].id
              /\ call'[v].arg = call[v].arg /\ call'[v].limits = call[v].limits
              /\ call'[v].since = call[v].since
  BY IdleFacts DEF Onward

\* Time stands still while a call goes on.
LEMMA OnwardInTime ==
  ASSUME InTime, NEW w \in Workers, Onward(w), clock' = clock
  PROVE  InTime'
  BY OnwardFacts DEF InTime

\* The types of what the ids are about.
LEMMA IdTypes ==
  ASSUME TInv, NEW w \in Workers
  PROVE  /\ call[w] # Idle => call[w] \in Calls
         /\ call[w].op \in Closing \union {"check"} =>
              call[w] \in Calls /\ call[w].id \in Ids /\ call[w].since \in Nat
  BY TypeFacts, CallFacts, IdleFacts DEF Closing

\* A call goes on or ends; nobody is told anything and no reservation is touched.
LEMMA QuietIds ==
  ASSUME TInv, IdInv, NEW w \in Workers, Onward(w),
         UNCHANGED <<res, clock, told, unheard, opened>>
  PROVE  IdInv'
<1>1. InTime' /\ Written'
  BY OnwardInTime DEF IdInv, Written
<1>2. GrantedIds'
  BY OnwardFacts DEF IdInv, GrantedIds, Closing
<1>3. AskedIds'
  BY OnwardFacts DEF IdInv, AskedIds, WrittenBy
<1> QED BY <1>1, <1>2, <1>3 DEF IdInv

\* A call begins that is no check.
LEMMA BeginIds ==
  ASSUME TInv, IdInv, NEW w \in Workers, NEW c \in Calls, Begin(w, c), c.op # "check",
         c.op \in Closing => told[c.id] = "allowed", c.since = clock,
         UNCHANGED <<res, clock, told, unheard, opened>>
  PROVE  IdInv'
<1>1. call'[w] = c /\ \A v \in Workers \ {w} : call'[v] = call[v]
  BY CallsTyped DEF Begin
<1>2. clock \in Nat /\ CallTime \in Nat
  BY TypeFacts, RedisAssumption DEF BucketsOK
<1>3. InTime' /\ Written'
  BY <1>1, <1>2 DEF IdInv, InTime, Written
<1>4. GrantedIds'
  BY <1>1 DEF IdInv, GrantedIds
<1>5. AskedIds'
  BY <1>1 DEF IdInv, AskedIds, WrittenBy
<1> QED BY <1>3, <1>4, <1>5 DEF IdInv

\* A check begins: its id is nobody else's.
LEMMA AskIds ==
  ASSUME TInv, IdInv, NEW w \in Workers, NEW l \in Tiers, NEW n \in Costs, NEW id \in Ids,
         CheckStart(w, l, n, id)
  PROVE  IdInv'
<1> DEFINE c == Command("check", id, l, Clamped(n))
<1>1. c \in Calls
  BY CommandTyped
<1>2. c.op = "check" /\ c.id = id /\ c.since = clock
  BY DEF Command
<1>3. Begin(w, c) /\ told[id] = "none" /\ told' = [told EXCEPT ![id] = "asked"]
      /\ UNCHANGED <<res, clock, unheard, opened>>
  BY DEF CheckStart, hashes
<1> HIDE DEF c
<1>4. call'[w] = c /\ \A v \in Workers \ {w} : call'[v] = call[v]
  BY <1>1, <1>3, CallsTyped DEF Begin
<1>5. clock \in Nat /\ CallTime \in Nat
  BY TypeFacts, RedisAssumption DEF BucketsOK
<1>6. told'[id] = "asked" /\ \A i \in Ids \ {id} : told'[i] = told[i]
  BY <1>3, TypeFacts
<1>7. InTime'
  BY <1>2, <1>3, <1>4, <1>5 DEF IdInv, InTime
<1>8. Written'
  BY <1>3, <1>6 DEF IdInv, Written
<1>9. id \notin opened
  BY <1>3 DEF IdInv, Written
<1>10. GrantedIds'
  <2> SUFFICES ASSUME NEW v \in Workers, call'[v].op \in Closing
               PROVE  told'[call'[v].id] = "allowed"
    BY DEF GrantedIds
  <2>1. v # w
    BY <1>2, <1>4 DEF Closing
  <2>2. told[call[v].id] = "allowed" /\ call'[v] = call[v]
    BY <1>4, <2>1 DEF IdInv, GrantedIds
  <2>3. call[v].id \in Ids
    BY <2>2, IdTypes
  <2> QED BY <1>3, <1>6, <2>2, <2>3
<1>11. AskedIds'
  <2>1. \A v \in Workers \ {w} :
          call'[v].op = "check" => call'[v].id \in Ids /\ call'[v].id # id
                                   /\ told[call'[v].id] = "asked"
    BY <1>3, <1>4, IdTypes DEF IdInv, AskedIds
  <2>2. \A v \in Workers \ {w} : call'[v].op = "check" =>
          /\ \A u \in Workers \ {w} : call'[u].op = "check" /\ call'[u].id = call'[v].id => u = v
          /\ call'[v].id \in opened => WrittenBy(call'[v])
    BY <1>4 DEF IdInv, AskedIds
  <2>3. \A v \in Workers : WrittenBy(call'[v]) => WrittenBy(call[v])' \/ v = w
    BY <1>3, <1>4 DEF WrittenBy
  <2> SUFFICES ASSUME NEW v \in Workers, call'[v].op = "check"
               PROVE  /\ told'[call'[v].id] = "asked"
                      /\ \A u \in Workers : call'[u].op = "check" /\ call'[u].id = call'[v].id
                                            => u = v
                      /\ call'[v].id \in opened' => WrittenBy(call[v])'
    BY DEF AskedIds
  <2>4. CASE v = w
    BY <1>2, <1>3, <1>4, <1>6, <1>9, <2>1, <2>4
  <2>5. CASE v # w
    BY <1>2, <1>3, <1>4, <1>6, <2>1, <2>2, <2>3, <2>5
  <2> QED BY <2>4, <2>5
<1> QED BY <1>7, <1>8, <1>10, <1>11 DEF IdInv

\* A check that was never stored is refused.
LEMMA RefusedIds ==
  ASSUME TInv, IdInv, NEW id \in Ids, CheckRefused(id)
  PROVE  IdInv'
<1>1. told[id] = "none" /\ UNCHANGED <<res, clock, call, unheard, opened>>
  BY DEF CheckRefused, hashes
<1>2. told'[id] \in {"admitted", "failed"} /\ \A i \in Ids \ {id} : told'[i] = told[i]
  BY TypeFacts DEF CheckRefused, OnStoreErr
<1>3. InTime' /\ Written'
  BY <1>1, <1>2 DEF IdInv, InTime, Written
<1>4. GrantedIds'
  BY <1>1, <1>2, IdTypes DEF IdInv, GrantedIds
<1>5. AskedIds'
  BY <1>1, <1>2, IdTypes DEF IdInv, AskedIds, WrittenBy
<1> QED BY <1>3, <1>4, <1>5 DEF IdInv

\* The caller of a check hears how it ended, or goes on not knowing.  What it is
\* told is a grant only if the reservation was opened, and if it is told otherwise
\* although a reservation is stored, a reply was lost.
LEMMA ToldIds ==
  ASSUME TInv, IdInv, NEW w \in Workers, call[w].op = "check", Onward(w), clock' = clock,
         NEW id \in Ids, id = call[w].id,
         told' \in [Ids -> Told], \A i \in Ids \ {id} : told'[i] = told[i],
         told'[id] # "none", call'[w] # Idle => told'[id] = "asked",
         \A i \in Ids \ {id} : res'[i] = res[i] /\ (i \in opened' <=> i \in opened)
                               /\ (i \in unheard => i \in unheard'),
         res'[id] # NoRes \/ told'[id] = "allowed" => id \in opened',
         res'[id] # NoRes /\ told'[id] # "allowed" => id \in unheard',
         call'[w] # Idle /\ id \in opened' => WrittenBy(call[w])'
  PROVE  IdInv'
<1>1. told[id] = "asked"
  BY DEF IdInv, AskedIds
<1>2. InTime'
  BY OnwardInTime DEF IdInv
<1>3. Written'
  BY DEF IdInv, Written
<1>4. \A v \in Workers \ {w} : call'[v] = call[v]
  BY DEF Onward
<1>5. GrantedIds'
  <2> SUFFICES ASSUME NEW v \in Workers, call'[v].op \in Closing
               PROVE  told'[call'[v].id] = "allowed"
    BY DEF GrantedIds
  <2>1. call'[v].op = call[v].op /\ call'[v].id = call[v].id
    BY OnwardFacts DEF Closing
  <2>2. told[call[v].id] = "allowed" /\ call[v].id \in Ids
    BY <2>1, IdTypes DEF IdInv, GrantedIds
  <2> QED BY <1>1, <2>1, <2>2
<1>6. AskedIds'
  <2> SUFFICES ASSUME NEW v \in Workers, call'[v].op = "check"
               PROVE  /\ told'[call'[v].id] = "asked"
                      /\ \A u \in Workers : call'[u].op = "check" /\ call'[u].id = call'[v].id
                                            => u = v
                      /\ call'[v].id \in opened' => WrittenBy(call[v])'
    BY DEF AskedIds
  <2>1. /\ call[v].op = "check" /\ call'[v].id = call[v].id /\ call'[v].arg = call[v].arg
        /\ call'[v].limits = call[v].limits /\ call'[v].since = call[v].since
    BY OnwardFacts
  <2>2. /\ told[call[v].id] = "asked" /\ call[v].id \in Ids
        /\ \A u \in Workers : call[u].op = "check" /\ call[u].id = call[v].id => u = v
        /\ call[v].id \in opened => WrittenBy(call[v])
    BY <2>1, IdTypes DEF IdInv, AskedIds
  <2>3. \A u \in Workers : call'[u].op = "check" => call[u].op = "check" /\ call'[u].id = call[u].id
    BY OnwardFacts
  <2>4. CASE v = w
    <3>1. call'[w] # Idle
      BY <2>4, IdleFacts
    <3> QED BY <2>1, <2>2, <2>3, <2>4, <3>1
  <2>5. CASE v # w
    <3>1. call[v].id # id
      BY <2>2, <2>5
    <3>2. WrittenBy(call[v]) => WrittenBy(call[v])'
      BY <1>4, <2>2, <2>5, <3>1 DEF WrittenBy
    <3> QED BY <2>1, <2>2, <2>3, <3>1, <3>2
  <2> QED BY <2>4, <2>5
<1> QED BY <1>2, <1>3, <1>5, <1>6 DEF IdInv

\* A closing script keeps or closes the reservation of its call.
LEMMA ClosingIds ==
  ASSUME TInv, IdInv, NEW w \in Workers, call[w].op \in Closing, Onward(w),
         UNCHANGED <<clock, told, unheard, opened>>,
         \A i \in Ids : i # call[w].id => res'[i] = res[i],
         res[call[w].id] = NoRes => res'[call[w].id] = NoRes
  PROVE  IdInv'
<1>1. InTime' /\ Written'
  BY OnwardInTime DEF IdInv, Written
<1>2. GrantedIds'
  BY OnwardFacts DEF IdInv, GrantedIds, Closing
<1>3. told[call[w].id] = "allowed"
  BY DEF IdInv, GrantedIds
<1>4. AskedIds'
  <2> SUFFICES ASSUME NEW v \in Workers, call'[v].op = "check"
               PROVE  /\ told'[call'[v].id] = "asked"
                      /\ \A u \in Workers : call'[u].op = "check" /\ call'[u].id = call'[v].id
                                            => u = v
                      /\ call'[v].id \in opened' => WrittenBy(call[v])'
    BY DEF AskedIds
  <2>1. /\ call[v].op = "check" /\ call'[v].id = call[v].id /\ call'[v].arg = call[v].arg
        /\ call'[v].limits = call[v].limits /\ call'[v].since = call[v].since
    BY OnwardFacts
  <2>2. /\ told[call[v].id] = "asked" /\ call[v].id \in Ids
        /\ \A u \in Workers : call[u].op = "check" /\ call[u].id = call[v].id => u = v
        /\ call[v].id \in opened => WrittenBy(call[v])
    BY <2>1, IdTypes DEF IdInv, AskedIds
  <2>3. res'[call[v].id] = res[call[v].id]
    BY <1>3, <2>2
  <2>4. WrittenBy(call[v]) => WrittenBy(call[v])'
    BY <2>1, <2>3 DEF WrittenBy
  <2>5. \A u \in Workers : call'[u].op = "check" => call[u].op = "check" /\ call'[u].id = call[u].id
    BY OnwardFacts
  <2> QED BY <2>1, <2>2, <2>4, <2>5
<1> QED BY <1>1, <1>2, <1>4 DEF IdInv

\* A check that is in progress expires no reservation: CallTime < TTL.
LEMMA TickIds ==
  ASSUME TInv, IdInv, Tick
  PROVE  IdInv'
<1>1. /\ clock' = clock + 1 /\ clock \in Nat /\ CallTime \in Nat /\ TTL \in Nat /\ CallTime < TTL
      /\ UNCHANGED <<call, told, unheard, opened>>
  BY TypeFacts, RedisAssumption DEF Tick, BucketsOK, ids
<1>2. \A id \in Ids : /\ res'[id] = res[id] \/ res'[id] = NoRes
                      /\ res[id] # NoRes /\ clock' <= res[id].expires => res'[id] = res[id]
  <2>1. ASSUME NEW id \in Ids
        PROVE  res'[id] = IF res[id] # NoRes /\ clock' > res[id].expires THEN NoRes ELSE res[id]
    BY DEF Tick
  <2>2. \A id \in Ids : res[id] # NoRes => res[id].expires \in Nat
    BY TypeFacts, ReservationFacts
  <2> QED BY <1>1, <2>1, <2>2
<1>3. InTime'
  <2> SUFFICES ASSUME NEW w \in Workers, call[w] # Idle
               PROVE  call[w].since <= clock + 1 /\ clock + 1 <= call[w].since + CallTime
    BY <1>1 DEF InTime
  <2>1. clock < call[w].since + CallTime /\ call[w].since <= clock
    BY DEF Tick, IdInv, InTime
  <2>2. call[w].since \in Nat
    BY TypeFacts, CallFacts
  <2> QED BY <1>1, <2>1, <2>2
<1>4. Written'
  BY <1>1, <1>2 DEF IdInv, Written
<1>5. GrantedIds'
  BY <1>1 DEF IdInv, GrantedIds
<1>6. AskedIds'
  <2> SUFFICES ASSUME NEW w \in Workers, call[w].op = "check", call[w].id \in opened,
                      WrittenBy(call[w])
               PROVE  WrittenBy(call[w])'
    BY <1>1 DEF IdInv, AskedIds
  <2>1. call[w] \in Calls /\ call[w].id \in Ids /\ call[w].since \in Nat /\ call[w] # Idle
    BY IdTypes, IdleFacts
  <2>2. clock + 1 <= call[w].since + CallTime
    BY <1>1, <1>3, <2>1 DEF InTime
  <2>3. res[call[w].id] # NoRes /\ res[call[w].id].expires >= call[w].since + TTL
    BY DEF WrittenBy
  <2>4. res[call[w].id].expires \in Nat
    BY <2>1, <2>3, TypeFacts, ReservationFacts
  <2>5. clock' <= res[call[w].id].expires
    BY <1>1, <2>1, <2>2, <2>3, <2>4
  <2>6. res'[call[w].id] = res[call[w].id]
    BY <1>2, <2>1, <2>3, <2>5
  <2> QED BY <1>1, <2>6 DEF WrittenBy
<1> QED BY <1>3, <1>4, <1>5, <1>6 DEF IdInv

\* Answered and ReplyLost move the call on.
LEMMA ScriptOnward ==
  ASSUME TInv, NEW w \in Workers, NEW heard \in BOOLEAN, Script(w, heard),
         \/ heard /\ call' = [call EXCEPT ![w] = Idle]
         \/ ~heard /\ call' = [call EXCEPT ![w].failed = TRUE, ![w].ran = TRUE]
  PROVE  Onward(w) /\ (heard <=> call'[w] = Idle)
<1>1. call[w] \in Calls /\ call[w] # Idle
  BY TypeFacts DEF Script
<1>2. CASE heard
  BY <1>2, TypeFacts DEF Onward
<1>3. CASE ~heard
  <2> DEFINE c == [call[w] EXCEPT !.failed = TRUE, !.ran = TRUE]
  <2>1. call' = [call EXCEPT ![w] = c]
    BY <1>3
  <2>2. c \in Calls /\ c.op = call[w].op /\ c.limits = call[w].limits /\ c.arg = call[w].arg
        /\ c.id = call[w].id /\ c.since = call[w].since
    BY <1>1, CallGoesOn DEF Calls
  <2> HIDE DEF c
  <2>3. c # Idle
    BY <2>2, CallFacts
  <2> QED BY <1>1, <1>3, <2>1, <2>2, <2>3, CallsTyped DEF Onward
<1> QED BY <1>2, <1>3

\* A script runs, heard of or not.
LEMMA ScriptIds ==
  ASSUME TInv, IdInv, NEW w \in Workers, NEW heard \in BOOLEAN, Script(w, heard),
         \/ heard /\ call' = [call EXCEPT ![w] = Idle]
         \/ ~heard /\ call' = [call EXCEPT ![w].failed = TRUE, ![w].ran = TRUE],
         clock' = clock
  PROVE  IdInv'
<1> DEFINE c == call[w]
           id == call[w].id
<1>1. Onward(w) /\ (heard <=> call'[w] = Idle)
  BY ScriptOnward
<1>2. c \in Calls /\ c # Idle
  BY TypeFacts DEF Script
<1>3. CASE c.op = "check"
  <2>1. id \in Ids /\ told[id] = "asked" /\ (id \in opened => WrittenBy(c))
    BY <1>2, <1>3, CallFacts DEF IdInv, AskedIds
  <2>2. CheckDenied(c, heard) \/ CheckGranted(c, heard)
    BY <1>3 DEF Script, CheckScript, SettleScript, RefundScript, BorrowScript, ReturnScript
  <2>3. told' \in [Ids -> Told]
    BY ScriptHasEffect DEF ScriptEffect
  <2>4. ~heard => /\ call'[w].op = "check" /\ call'[w].id = id /\ call'[w].arg = c.arg
                  /\ call'[w].limits = c.limits /\ call'[w].since = c.since
    BY <1>1, <1>3 DEF Onward
  <2>5. CASE CheckDenied(c, heard)
    <3>1. /\ UNCHANGED <<res, opened>> /\ \A i \in Ids \ {id} : told'[i] = told[i]
          /\ heard => told'[id] = "denied" /\ unheard' = unheard
          /\ ~heard => told'[id] = told[id] /\ unheard' = unheard \union {id}
      BY <2>1, <2>5, TypeFacts DEF CheckDenied, Tell, hashes
    <3>2. ~heard /\ id \in opened => WrittenBy(c)'
      BY <2>1, <2>4, <3>1 DEF WrittenBy
    <3>3. res'[id] # NoRes => id \in opened' /\ id \in unheard'
      BY <2>1, <3>1 DEF IdInv, Written
    <3> QED BY <1>1, <1>3, <2>1, <2>3, <3>1, <3>2, <3>3, ToldIds
  <2>6. CASE CheckGranted(c, heard)
    <3>1. /\ opened' = opened \union {id} /\ \A i \in Ids \ {id} : told'[i] = told[i]
          /\ heard => told'[id] = "allowed" /\ unheard' = unheard
          /\ ~heard => told'[id] = told[id] /\ unheard' = unheard \union {id}
          /\ res' = Reserve(c)
      BY <2>1, <2>6, TypeFacts DEF CheckGranted, Tell
    <3>2. /\ res'[id] \in Reservation
          /\ res'[id].status = "pending" /\ res'[id].expires = clock + TTL
          /\ res'[id].cost = OnUsed(c.limits, c.arg)
          /\ \A i \in Ids \ {id} : res'[i] = res[i]
      BY <1>2, <1>3, <3>1, ReserveFacts
    <3>3. clock + TTL >= c.since + TTL
      <4>1. c.since <= clock /\ c.since \in Nat /\ clock \in Nat /\ TTL \in Nat
        BY <1>2, CallFacts, TypeFacts, RedisAssumption DEF IdInv, InTime, BucketsOK
      <4> QED BY <4>1
    <3>4. ~heard => WrittenBy(c)'
      BY <2>4, <3>2, <3>3, ReservationFacts DEF WrittenBy
    <3> QED BY <1>1, <1>3, <2>1, <2>3, <3>1, <3>2, <3>4, ToldIds
  <2> QED BY <2>2, <2>5, <2>6
<1>4. CASE c.op \in Closing
  <2>1. id \in Ids
    BY <1>2, <1>4, CallFacts
  <2>2. UNCHANGED <<told, unheard, opened>> /\ (SettleScript(c) \/ RefundScript(c))
    BY <1>4 DEF Script, CheckScript, SettleScript, RefundScript, BorrowScript, ReturnScript,
                Closing, ids
  <2>3. \/ UNCHANGED res
        \/ Closable(id) /\ \E status, over : res' = Closed(id, status, over)
    BY <2>2 DEF SettleScript, RefundScript, hashes
  <2>4. /\ \A i \in Ids : i # id => res'[i] = res[i]
        /\ res[id] = NoRes => res'[id] = NoRes
    BY <2>1, <2>3, TypeFacts DEF Closed, Closable
  <2> QED BY <1>1, <1>4, <2>2, <2>4, ClosingIds
<1>5. CASE c.op \in {"borrow", "return"}
  <2>1. UNCHANGED <<res, told, unheard, opened>>
    BY <1>5 DEF Script, CheckScript, SettleScript, RefundScript, BorrowScript, ReturnScript, ids
  <2> QED BY <1>1, <2>1, QuietIds
<1> QED BY <1>2, <1>3, <1>4, <1>5, CallFacts

\* A Check that ends without an answer is told what onStoreErr decides.
LEMMA GiveUpIds ==
  ASSUME TInv, IdInv, NEW w \in Workers, GiveUp(w)
  PROVE  IdInv'
<1>1. /\ call[w] # Idle /\ call' = [call EXCEPT ![w] = Idle]
      /\ UNCHANGED <<res, clock, unheard, opened>>
  BY DEF GiveUp, hashes
<1>2. Onward(w) /\ call'[w] = Idle
  BY <1>1, TypeFacts DEF Onward
<1>3. CASE call[w].op # "check"
  BY <1>1, <1>2, <1>3, QuietIds DEF GiveUp
<1>4. CASE call[w].op = "check"
  <2> DEFINE id == call[w].id
  <2>1. id \in Ids /\ told[id] = "asked"
    BY <1>4, IdTypes DEF IdInv, AskedIds
  <2>2. /\ told' \in [Ids -> Told] /\ told'[id] \in {"admitted", "failed"}
        /\ \A i \in Ids \ {id} : told'[i] = told[i]
    BY <1>4, <2>1, TypeFacts DEF GiveUp, OnStoreErr, Told
  <2>3. res'[id] # NoRes => id \in opened' /\ id \in unheard'
    BY <1>1, <2>1 DEF IdInv, Written
  <2> QED BY <1>1, <1>2, <1>4, <2>1, <2>2, <2>3, ToldIds
<1> QED BY <1>3, <1>4

\* Every step keeps what is known of ids.
LEMMA IdInvStep ==
  ASSUME TInv, IdInv, [Next]_vars
  PROVE  IdInv'
<1>1. ASSUME NEW w \in Workers, NEW op \in Closing, NEW id \in Ids,
             NEW n \in Actuals \union {Zero}, CloseStart(w, op, id, n)
      PROVE  IdInv'
  <2> DEFINE c == [Command(op, id, Zero, Clamped(n)) EXCEPT !.step = "lookup"]
  <2>1. c \in Calls
    BY CommandTyped
  <2>2. c.op = op /\ c.id = id /\ c.since = clock
    BY DEF Command
  <2>3. Begin(w, c) /\ told[id] = "allowed" /\ UNCHANGED <<res, clock, told, unheard, opened>>
    BY <1>1 DEF CloseStart, hashes, ids
  <2> HIDE DEF c
  <2> QED BY <2>1, <2>2, <2>3, BeginIds DEF Closing
<1>2. ASSUME NEW w \in Workers, NEW l \in Tiers, NEW s \in BorrowSpecs, BorrowStart(w, l, s)
      PROVE  IdInv'
  <2> DEFINE c == Command("borrow", "-", l, s)
  <2>1. c \in Calls
    BY CommandTyped
  <2>2. c.op = "borrow" /\ c.since = clock
    BY DEF Command
  <2>3. Begin(w, c) /\ UNCHANGED <<res, clock, told, unheard, opened>>
    BY <1>2 DEF BorrowStart, hashes, ids
  <2> HIDE DEF c
  <2> QED BY <2>1, <2>2, <2>3, BeginIds DEF Closing
<1>3. ASSUME NEW w \in Workers, NEW l \in Tiers, NEW n \in Returns, ReturnStart(w, l, n)
      PROVE  IdInv'
  <2> DEFINE c == Command("return", "-", l, OnUsed(l, Clamped(n)))
  <2>1. c \in Calls
    BY CommandTyped
  <2>2. c.op = "return" /\ c.since = clock
    BY DEF Command
  <2>3. Begin(w, c) /\ UNCHANGED <<res, clock, told, unheard, opened>>
    BY <1>3 DEF ReturnStart, hashes, ids
  <2> HIDE DEF c
  <2> QED BY <2>1, <2>2, <2>3, BeginIds DEF Closing
<1>4. ASSUME NEW w \in Workers, Lookup(w)
      PROVE  IdInv'
  <2> DEFINE r == res[call[w].id]
             d == [call[w] EXCEPT !.step = "script", !.limits = r.limits]
  <2>1. /\ call[w] # Idle /\ call[w].step = "lookup"
        /\ \/ call' = [call EXCEPT ![w] = d] /\ r # NoRes
           \/ call' = [call EXCEPT ![w] = Idle]
        /\ UNCHANGED <<res, clock, told, unheard, opened>>
    BY <1>4 DEF Lookup, hashes, ids
  <2>2. call[w] \in Calls /\ call[w].op \in Closing /\ call[w].id \in Ids
    BY <2>1, TypeFacts, CallFacts
  <2>3. d.op = call[w].op /\ d.id = call[w].id /\ d.since = call[w].since
    BY <2>2 DEF Calls
  <2>4. r # NoRes => d \in Calls
    BY <2>2, TypeFacts, ReservationFacts, CallGoesOn
  <2> HIDE DEF d
  <2>5. Onward(w)
    BY <2>1, <2>2, <2>3, <2>4, CallsTyped DEF Onward, Closing
  <2> QED BY <2>1, <2>5, QuietIds
<1>5. ASSUME NEW w \in Workers, RequestLost(w)
      PROVE  IdInv'
  <2> DEFINE c == [call[w] EXCEPT !.failed = TRUE]
  <2>1. /\ call[w] # Idle /\ call' = [call EXCEPT ![w] = c]
        /\ UNCHANGED <<res, clock, told, unheard, opened>>
    BY <1>5 DEF RequestLost, hashes, ids
  <2>2. call[w] \in Calls
    BY <2>1, TypeFacts
  <2>3. c \in Calls /\ c.op = call[w].op /\ c.limits = call[w].limits /\ c.arg = call[w].arg
        /\ c.id = call[w].id /\ c.since = call[w].since
    BY <2>2, CallGoesOn DEF Calls
  <2> HIDE DEF c
  <2>4. Onward(w)
    BY <2>1, <2>3, CallsTyped DEF Onward
  <2> QED BY <2>1, <2>4, QuietIds
<1>6. ASSUME NEW w \in Workers, Answered(w)
      PROVE  IdInv'
  BY <1>6, ScriptIds DEF Answered
<1>7. ASSUME NEW w \in Workers, ReplyLost(w)
      PROVE  IdInv'
  BY <1>7, ScriptIds DEF ReplyLost
<1>8. CASE UNCHANGED vars
  BY <1>8 DEF IdInv, AskedIds, WrittenBy, GrantedIds, InTime, Written, vars, hashes, ids
<1> QED BY <1>1, <1>2, <1>3, <1>4, <1>5, <1>6, <1>7, <1>8, AskIds, RefusedIds, GiveUpIds, TickIds
        DEF Next, Closing

\* Nothing is asked, stored or told at the start.
LEMMA IdInvInit ==
  ASSUME Init
  PROVE  IdInv
<1>1. \A w \in Workers : call[w] = Idle /\ call[w].op = "none"
  BY IdleFacts DEF Init
<1>2. AskedIds /\ GrantedIds /\ InTime
  BY <1>1 DEF AskedIds, GrantedIds, InTime, Closing
<1>3. Written
  BY DEF Init, Written
<1> QED BY <1>2, <1>3 DEF IdInv

\* Only a lost reply leaves a reservation that no caller knows of, and what a caller
\* was granted was written and charged, in every interleaving of callers, retries,
\* failures and expiries.
THEOREM VouchedHolds == Spec => []Vouched
<1>1. Init => TInv /\ IdInv
  BY TInvInit, IdInvInit
<1>2. TInv /\ IdInv /\ [Next]_vars => (TInv /\ IdInv)'
  BY TInvStep, IdInvStep
<1>3. IdInv => Vouched
  BY DEF IdInv, Written, Vouched
<1> QED BY <1>1, <1>2, <1>3, PTL DEF Spec

-----------------------------------------------------------------------------
(* The ledger. *)

\* A reservation as the ledger sees it.
Status(id) ==
  IF res[id] # NoRes THEN res[id].status
  ELSE IF id \in opened THEN "forgotten" ELSE "none"

\* No account gains by a step that charges what it moves.
LEMMA Conserves ==
  ASSUME TInv, clock' = clock, NEW d \in [Axes -> Int], Charges(d)
  PROVE  Ledger!Conserved
<1> SUFFICES ASSUME NEW a \in Axes
             PROVE  (Refilled(a)' - minted'[a] * Period) + spent'[a] * Period
                      <= (Refilled(a) - minted[a] * Period) + spent[a] * Period
  BY DEF Ledger!Conserved, Ledger!Value
<1>1. /\ spent[a] \in Int /\ leaked[a] \in Nat /\ minted[a] \in Nat /\ d[a] \in Int
      /\ spent'[a] \in Int /\ leaked'[a] \in Nat /\ minted'[a] \in Nat
  BY TypeFacts DEF Amount, Charges
<1>2. /\ spent'[a] + leaked'[a] - minted'[a] = spent[a] + leaked[a] - minted[a] + d[a]
      /\ leaked'[a] >= leaked[a]
  BY DEF Charges
<1>3. Refilled(a) \in Nat /\ Refilled(a)' \in Nat /\ Refilled(a)' + d[a] * Period <= Refilled(a)
  BY ChargesBuckets
<1> DEFINE n == spent[a] - minted[a]
           m == spent'[a] - minted'[a]
           s == Refilled(a)
           t == Refilled(a)'
<1>4. n \in Int /\ m \in Int /\ m <= n + d[a]
  BY <1>1, <1>2
<1>5. /\ spent[a] * Period - minted[a] * Period = n * Period
      /\ spent'[a] * Period - minted'[a] * Period = m * Period
      /\ spent[a] * Period \in Int /\ minted[a] * Period \in Int
      /\ spent'[a] * Period \in Int /\ minted'[a] * Period \in Int
  BY <1>1, PeriodAssumption
<1> HIDE DEF n, m
<1>6. m * Period <= n * Period + d[a] * Period
  <2>1. n + d[a] - m \in Nat
    BY <1>1, <1>4
  <2>2. (n + d[a] - m) * Period \in Nat
    BY <2>1, PeriodAssumption, TimesMonotone
  <2>3. (n + d[a] - m) * Period = n * Period + d[a] * Period - m * Period
        /\ n * Period \in Int /\ m * Period \in Int /\ d[a] * Period \in Int
    BY <1>1, <1>4, PeriodAssumption
  <2> DEFINE x == (n + d[a] - m) * Period
             y == n * Period
             z == d[a] * Period
             u == m * Period
  <2> HIDE DEF x, y, z, u
  <2>4. u <= y + z
    BY <2>2, <2>3 DEF x, y, z, u
  <2> QED BY <2>4 DEF y, z, u
<1>7. n * Period \in Int /\ m * Period \in Int /\ d[a] * Period \in Int
  BY <1>1, <1>4, PeriodAssumption
<1> DEFINE N == n * Period
           X == m * Period
           D == d[a] * Period
           p == spent[a] * Period
           q == minted[a] * Period
           pp == spent'[a] * Period
           qq == minted'[a] * Period
<1>8. (t - qq) + pp <= (s - q) + p
  <2>1. /\ p - q = N /\ pp - qq = X /\ X <= N + D /\ t + D <= s
        /\ p \in Int /\ q \in Int /\ pp \in Int /\ qq \in Int /\ N \in Int /\ X \in Int /\ D \in Int
        /\ s \in Nat /\ t \in Nat
    BY <1>3, <1>5, <1>6, <1>7
  <2> HIDE DEF N, X, D, p, q, pp, qq, s, t
  <2> QED BY <2>1
<1> QED BY <1>8

\* Reservations that stay as they are or are forgotten.
LEMMA OthersKept ==
  ASSUME NEW S, \A id \in Ids \ S : \/ Status(id)' = Status(id)
                                    \/ Status(id) # "none" /\ Status(id)' = "forgotten"
  PROVE  Ledger!Others(S)
  BY DEF Ledger!Others, Status

\* Tokens are lent, come back, or leak.
LEMMA LedgerLend ==
  ASSUME TInv, clock' = clock, \E d \in [Axes -> Int] : Charges(d),
         \A a \in Axes : spent'[a] - spent[a] = lent'[a] - lent[a],
         lent' \in Amount, \A id \in Ids : Status(id)' = Status(id)
  PROVE  Ledger!Next
<1>1. Ledger!Conserved
  BY Conserves
<1>2. Ledger!Others({})
  BY OthersKept
<1>3. \A a \in Axes : lent'[a] >= 0
  BY DEF Amount
<1>4. Ledger!Lend
  BY <1>1, <1>2, <1>3 DEF Ledger!Lend
<1> QED BY <1>4 DEF Ledger!Next

\* A granted check opens its reservation, or leaks when it runs again.
LEMMA LedgerCheck ==
  ASSUME TInv, IdInv, NEW w \in Workers, call[w] # Idle, call[w].op = "check", clock' = clock,
         NEW c \in Calls, c = call[w],
         NEW heard \in BOOLEAN, CheckGranted(c, heard), ScriptEffect
  PROVE  Ledger!Next
<1> DEFINE d == OnUsed(c.limits, c.arg)
<1>1. c \in Calls /\ c.id \in Ids /\ c.limits \in Tiers /\ c.arg \in Amount
  BY TypeFacts, CallFacts
<1>2. d \in Amount
  BY <1>1, OnUsedFacts
<1>3. /\ opened' = opened \union {c.id} /\ lent' = lent
      /\ c.id \in opened => spent' = spent
      /\ c.id \notin opened => spent' = Plus(spent, d)
  BY DEF CheckGranted
<1>4. /\ res'[c.id] \in Reservation /\ res'[c.id].status = "pending"
      /\ \A id \in Ids \ {c.id} : res'[id] = res[id]
  BY <1>1, ReserveFacts DEF CheckGranted
<1>5. Status(c.id)' = "pending" /\ \A id \in Ids \ {c.id} : Status(id)' = Status(id)
  BY <1>3, <1>4, ReservationFacts DEF Status
<1>6. \A a \in Axes : spent[a] \in Int /\ lent[a] \in Nat /\ d[a] \in Nat
  BY <1>2, TypeFacts DEF Amount
<1>7. CASE c.id \in opened
  <2>1. Status(c.id) = "pending"
    BY <1>7 DEF IdInv, AskedIds, WrittenBy, Status
  <2>2. \A a \in Axes : spent'[a] - spent[a] = lent'[a] - lent[a]
    BY <1>3, <1>6, <1>7
  <2> QED BY <1>3, <1>5, <2>1, <2>2, TypeFacts, LedgerLend DEF ScriptEffect
<1>8. CASE c.id \notin opened
  <2>1. Status(c.id) = "none"
    BY <1>1, <1>8 DEF IdInv, Written, Status
  <2>2. Ledger!Conserved
    BY Conserves DEF ScriptEffect
  <2>3. Ledger!Others({c.id})
    BY <1>5, OthersKept
  <2>4. \A a \in Axes : spent'[a] >= spent[a]
    BY <1>3, <1>6, <1>8 DEF Plus
  <2>5. Ledger!Open(c.id)
    BY <1>1, <1>3, <1>5, <2>1, <2>2, <2>3, <2>4 DEF Ledger!Open, Status
  <2> QED BY <1>1, <2>5 DEF Ledger!Next
<1> QED BY <1>7, <1>8

\* A closing script closes a pending reservation, once.
LEMMA LedgerClose ==
  ASSUME TInv, NEW c \in Calls, clock' = clock, ScriptEffect,
         SettleScript(c) \/ RefundScript(c), Closable(c.id)
  PROVE  Ledger!Next
<1>1. c.id \in Ids /\ c.arg \in Amount
  BY CallFacts DEF SettleScript, RefundScript, Closing
<1>2. opened' = opened /\ lent' = lent
  BY DEF SettleScript, RefundScript, ids
<1>3. Ledger!Conserved
  BY Conserves DEF ScriptEffect
<1>4. res[c.id] \in Reservation /\ res[c.id].status = "pending"
  BY <1>1, TypeFacts DEF Closable
<1>5. res[c.id].limits \in Tiers /\ res[c.id].cost \in Amount
  BY <1>4, ReservationFacts
<1>6. Status(c.id) = "pending"
  BY <1>4, ReservationFacts DEF Status
<1>7. CASE SettleScript(c)
  <2> DEFINE over == LuaOvershoot(bucket, res[c.id].limits, res[c.id].cost, c.arg, clock)
  <2>1. /\ bucket' = LuaSettleSave(bucket, res[c.id].limits, res[c.id].cost, c.arg, clock)
        /\ res' = Closed(c.id, "settled", over)
    BY <1>7 DEF SettleScript
  <2>2. over \in Amount
    BY <1>1, <1>5, <2>1, TypeFacts, SettleMoves
  <2> HIDE DEF over
  <2>3. /\ res'[c.id] \in Reservation /\ res'[c.id].status = "settled"
        /\ \A i \in Ids \ {c.id} : res'[i] = res[i]
    BY <1>1, <2>1, <2>2, ClosedFacts
  <2>4. Status(c.id)' = "settled" /\ \A id \in Ids \ {c.id} : Status(id)' = Status(id)
    BY <1>2, <2>3, ReservationFacts DEF Status
  <2>5. Ledger!Others({c.id})
    BY <2>4, OthersKept
  <2>6. Ledger!Settle(c.id)
    BY <1>1, <1>2, <1>3, <1>6, <2>4, <2>5 DEF Ledger!Settle, Status
  <2> QED BY <1>1, <2>6 DEF Ledger!Next
<1>8. CASE RefundScript(c)
  <2>1. /\ res' = Closed(c.id, "refunded", Zero)
        /\ spent' = Plus(spent, Minus(Zero, res[c.id].cost))
    BY <1>4, <1>8 DEF RefundScript, Adjusted
  <2>2. Zero \in Amount
    BY DEF Zero, Amount
  <2>3. /\ res'[c.id] \in Reservation /\ res'[c.id].status = "refunded"
        /\ \A i \in Ids \ {c.id} : res'[i] = res[i]
    BY <1>1, <2>1, <2>2, ClosedFacts
  <2>4. Status(c.id)' = "refunded" /\ \A id \in Ids \ {c.id} : Status(id)' = Status(id)
    BY <1>2, <2>3, ReservationFacts DEF Status
  <2>5. Ledger!Others({c.id})
    BY <2>4, OthersKept
  <2>6. \A a \in Axes : spent'[a] <= spent[a]
    <3>1. \A a \in Axes : spent[a] \in Int /\ res[c.id].cost[a] \in Nat
      BY <1>5, TypeFacts DEF Amount
    <3>2. \A a \in Axes : spent'[a] = spent[a] + (0 - res[c.id].cost[a])
      BY <2>1 DEF Plus, Minus, Zero
    <3> QED BY <3>1, <3>2
  <2>7. Ledger!Refund(c.id)
    BY <1>1, <1>2, <1>3, <1>6, <2>4, <2>5, <2>6 DEF Ledger!Refund, Status
  <2> QED BY <1>1, <2>7 DEF Ledger!Next
<1> QED BY <1>7, <1>8

\* Loans and Returns.
LEMMA LedgerLoan ==
  ASSUME TInv, NEW w \in Workers, NEW heard \in BOOLEAN, call[w] # Idle, clock' = clock,
         ScriptEffect, BorrowScript(call[w], heard) \/ ReturnScript(call[w])
  PROVE  Ledger!Next
<1>1. call[w] \in Calls
  BY TypeFacts
<1>2. \A id \in Ids : Status(id)' = Status(id)
  BY DEF BorrowScript, ReturnScript, ids, Status
<1>3. \A a \in Axes : spent[a] \in Int /\ lent[a] \in Nat
  BY TypeFacts DEF Amount
<1>4. CASE spent' = spent /\ lent' = lent
  <2>1. \A a \in Axes : spent'[a] - spent[a] = lent'[a] - lent[a]
    BY <1>3, <1>4
  <2> QED BY <1>2, <2>1, LedgerLend DEF ScriptEffect
<1>5. CASE /\ BorrowScript(call[w], heard) /\ ~(spent' = spent /\ lent' = lent)
  <2> DEFINE d == LuaBorrowGot(bucket, call[w].limits, call[w].arg, clock)
  <2>1. /\ spent' = Plus(spent, d) /\ lent' = Plus(lent, d)
        /\ bucket' = LuaBorrowDebit(bucket, call[w].limits, call[w].arg, clock)
    BY <1>5 DEF BorrowScript
  <2>2. d \in Amount
    BY <1>1, <1>5, <2>1, TypeFacts, CallFacts, BorrowMoves DEF BorrowScript
  <2> HIDE DEF d
  <2>3. \A a \in Axes : spent'[a] = spent[a] + d[a] /\ lent'[a] = lent[a] + d[a] /\ d[a] \in Nat
    BY <2>1, <2>2 DEF Plus, Amount
  <2>4. \A a \in Axes : spent'[a] - spent[a] = lent'[a] - lent[a]
    BY <1>3, <2>3
  <2> QED BY <1>2, <2>4, LedgerLend DEF ScriptEffect
<1>6. CASE /\ ReturnScript(call[w]) /\ ~(spent' = spent /\ lent' = lent)
  <2>1. spent' = Minus(spent, call[w].arg) /\ lent' = Minus(lent, call[w].arg)
    BY <1>6 DEF ReturnScript
  <2>2. call[w].arg \in Amount
    BY <1>1, <1>6, CallFacts DEF ReturnScript
  <2>3. \A a \in Axes : /\ spent'[a] = spent[a] - call[w].arg[a]
                        /\ lent'[a] = lent[a] - call[w].arg[a] /\ call[w].arg[a] \in Nat
    BY <2>1, <2>2 DEF Minus, Amount
  <2>4. \A a \in Axes : spent'[a] - spent[a] = lent'[a] - lent[a]
    BY <1>3, <2>3
  <2> QED BY <1>2, <2>4, LedgerLend DEF ScriptEffect
<1> QED BY <1>4, <1>5, <1>6

\* A step that leaves the hashes and accounts alone is none of the ledger.
LEMMA LedgerQuiet ==
  ASSUME UNCHANGED <<hashes, clock, opened, books>>
  PROVE  UNCHANGED Ledger!vars
<1>1. UNCHANGED <<bucket, res, clock, opened, spent, lent, minted>>
  BY DEF hashes, books
<1>2. \A a \in Axes : Refilled(a)' = Refilled(a)
  BY <1>1 DEF Refilled
<1> QED BY <1>1, <1>2 DEF Ledger!vars

\* The scripts.
LEMMA LedgerScript ==
  ASSUME TInv, IdInv, NEW w \in Workers, NEW heard \in BOOLEAN, Script(w, heard), clock' = clock
  PROVE  Ledger!Next \/ UNCHANGED Ledger!vars
<1>1. ScriptEffect /\ call[w] \in Calls /\ call[w] # Idle
  BY ScriptHasEffect, TypeFacts DEF Script
<1>2. CASE CheckScript(call[w], heard)
  <2>1. CASE CheckGranted(call[w], heard)
    BY <1>1, <1>2, <2>1, LedgerCheck DEF CheckScript
  <2>2. CASE CheckDenied(call[w], heard)
    BY <2>2, LedgerQuiet DEF CheckDenied, hashes
  <2> QED BY <1>2, <2>1, <2>2 DEF CheckScript
<1>3. CASE SettleScript(call[w]) \/ RefundScript(call[w])
  <2>1. CASE Closable(call[w].id)
    BY <1>1, <1>3, <2>1, LedgerClose
  <2>2. CASE ~Closable(call[w].id)
    <3>1. UNCHANGED <<hashes, clock, opened, books>>
      BY <1>3, <2>2 DEF SettleScript, RefundScript, hashes, books, ids
    <3> QED BY <3>1, LedgerQuiet
  <2> QED BY <2>1, <2>2
<1>4. CASE BorrowScript(call[w], heard) \/ ReturnScript(call[w])
  BY <1>1, <1>4, LedgerLoan
<1> QED BY <1>2, <1>3, <1>4 DEF Script

\* Time adds at most the rate; a reservation past its expiry is forgotten.
LEMMA LedgerTick ==
  ASSUME TInv, IdInv, Tick
  PROVE  Ledger!Next
<1>1. /\ clock' = clock + 1 /\ clock \in Nat \ {0}
      /\ UNCHANGED <<bucket, opened, spent, lent, minted>>
  BY TypeFacts DEF Tick, BucketsOK, ids, books
<1>2. \A id \in Ids : res'[id] = res[id] \/ res'[id] = NoRes
  BY DEF Tick
<1>3. \A id \in Ids : \/ Status(id)' = Status(id)
                      \/ Status(id) # "none" /\ Status(id)' = "forgotten"
  <2> SUFFICES ASSUME NEW id \in Ids, res'[id] # res[id]
               PROVE  Status(id) # "none" /\ Status(id)' = "forgotten"
    BY <1>1 DEF Status
  <2>1. res[id] # NoRes /\ res'[id] = NoRes /\ res[id] \in Reservation
    BY <1>2, TypeFacts
  <2>2. id \in opened
    BY <2>1 DEF IdInv, Written
  <2>3. res[id].status # "none"
    BY <2>1, ReservationFacts
  <2> QED BY <1>1, <2>1, <2>2, <2>3 DEF Status
<1>4. Ledger!Others({})
  BY <1>3, OthersKept
<1>5. ASSUME NEW a \in Axes
      PROVE  Refilled(a)' - minted'[a] * Period <= (Refilled(a) - minted[a] * Period) + MaxCap[a]
  <2>1. /\ MaxCap[a] \in Nat /\ bucket[a] \in BucketType
        /\ bucket[a].tokens <= MaxCap[a] * Period /\ bucket[a].last <= clock
    BY RedisAssumption, TypeFacts DEF BucketsOK
  <2>2. Refilled(a)' <= Refilled(a) + MaxCap[a] /\ Refilled(a) \in Nat
    BY <1>1, <2>1, LuaOverTime, LuaFacts DEF Refilled
  <2>3. clock + 1 \in Nat \ {0} /\ bucket[a].last <= clock + 1 /\ MaxCap[a] <= MaxCap[a]
    BY <1>1, <2>1 DEF BucketType
  <2>4. LuaTokens(bucket[a], MaxCap[a], clock + 1) \in Nat
    BY <2>1, <2>3, LuaFacts
  <2>5. Refilled(a)' \in Nat
    BY <1>1, <2>4 DEF Refilled
  <2>6. minted[a] * Period \in Int /\ minted' = minted
    BY <1>1, TypeFacts, PeriodAssumption DEF Amount
  <2> DEFINE s == Refilled(a)
             t == Refilled(a)'
             q == minted[a] * Period
  <2>7. t - q <= (s - q) + MaxCap[a]
    <3> HIDE DEF s, t, q
    <3> QED BY <2>1, <2>2, <2>5, <2>6 DEF s, t, q
  <2> QED BY <2>6, <2>7
<1>6. Ledger!Earn
  BY <1>1, <1>4, <1>5 DEF Ledger!Earn
<1> QED BY <1>6 DEF Ledger!Next

\* Every step of the store is one of the ledger or none.
LEMMA LedgerStep ==
  ASSUME TInv, IdInv, [Next]_vars
  PROVE  [Ledger!Next]_Ledger!vars
<1>1. ASSUME NEW w \in Workers, Answered(w) \/ ReplyLost(w)
      PROVE  [Ledger!Next]_Ledger!vars
  BY <1>1, LedgerScript DEF Answered, ReplyLost
<1>2. ASSUME UNCHANGED <<hashes, clock, opened, books>>
      PROVE  [Ledger!Next]_Ledger!vars
  BY <1>2, LedgerQuiet
<1>3. ASSUME NEW w \in Workers,
             \/ \E l \in Tiers, n \in Costs, id \in Ids : CheckStart(w, l, n, id)
             \/ \E op \in {"settle", "settleIO"}, id \in Ids, n \in Actuals :
                  CloseStart(w, op, id, n)
             \/ \E id \in Ids : CloseStart(w, "refund", id, Zero)
             \/ \E l \in Tiers, s \in BorrowSpecs : BorrowStart(w, l, s)
             \/ \E l \in Tiers, n \in Returns : ReturnStart(w, l, n)
             \/ Lookup(w) \/ RequestLost(w) \/ GiveUp(w)
      PROVE  UNCHANGED <<hashes, clock, opened, books>>
  BY <1>3 DEF CheckStart, CloseStart, BorrowStart, ReturnStart, Lookup, RequestLost, GiveUp, ids
<1>4. (\E id \in Ids : CheckRefused(id)) \/ UNCHANGED vars
        => UNCHANGED <<hashes, clock, opened, books>>
  BY DEF CheckRefused, vars, ids
<1> QED BY <1>1, <1>2, <1>3, <1>4, LedgerTick DEF Next

\* Redis implements the ledger: with lost, repeated and overtaken commands, and
\* reservations that expire between a call's lookup and its script, every
\* reservation is opened once, closed at most once and charged once, and no step
\* but the passing of time adds to what callers can draw.
THEOREM RedisImplementsLedger == Spec => ImplementsLedger
<1>1. Init => TInv /\ IdInv
  BY TInvInit, IdInvInit
<1>2. TInv /\ IdInv /\ [Next]_vars => (TInv /\ IdInv)'
  BY TInvStep, IdInvStep
<1>3. Init => Ledger!Init
  BY DEF Init, Ledger!Init, Zero
<1>4. TInv /\ IdInv /\ [Next]_vars => [Ledger!Next]_Ledger!vars
  BY LedgerStep
<1> QED BY <1>1, <1>2, <1>3, <1>4, PTL DEF Spec, ImplementsLedger, Ledger!Spec

-----------------------------------------------------------------------------
(* The two stores compared, one bucket at a time.                          *)

\* Where the stores decide alike on an axis (the conjuncts of Comparable).
AxisComparable(b, cap, now) ==
  /\ cap \in Nat \ {0} /\ now \in Nat \ {0}
  /\ b \in BucketType /\ b.last <= now
  /\ b.last = 0 \/ b.last < now \/ b.tokens <= cap * Period

\* The bucket a script loads.
Loaded(b, cap, now) == [tokens |-> LuaTokens(b, cap, now), last |-> now]

\* Both refills return the same bucket, within its budget, and refilling it again
\* changes nothing.
LEMMA SameRefill ==
  ASSUME NEW b, NEW cap, NEW now, AxisComparable(b, cap, now)
  PROVE  /\ Refill(b, cap, now) = Loaded(b, cap, now)
         /\ Refill(Loaded(b, cap, now), cap, now) = Loaded(b, cap, now)
         /\ Loaded(b, cap, now) \in BucketType
         /\ LuaTokens(b, cap, now) \in Nat /\ LuaTokens(b, cap, now) <= cap * Period
<1>1. /\ cap \in Nat \ {0} /\ now \in Nat \ {0} /\ b.last \in Nat /\ b.tokens \in Nat
      /\ b.last <= now
      /\ b.last = 0 \/ b.last < now \/ b.tokens <= cap * Period
  BY DEF AxisComparable, BucketType
<1> DEFINE f == cap * Period
           x == (now - b.last) * cap
           t == LuaTokens(b, cap, now)
<1>2. f \in Nat
  BY <1>1, PeriodAssumption, TimesMonotone
<1>3. x \in Nat
  BY <1>1, TimesMonotone
<1>4. b.last = now => x = 0
  BY <1>1
<1>5. t = IF b.last = 0 THEN f ELSE IF now > b.last /\ cap > 0 THEN Lesser(f, b.tokens + x)
          ELSE b.tokens
  BY DEF LuaTokens
<1>6. Refill(b, cap, now) = IF cap <= 0 THEN [tokens |-> 0, last |-> now]
                            ELSE IF b.last = 0 THEN [tokens |-> f, last |-> now]
                            ELSE IF now < b.last THEN [tokens |-> b.tokens, last |-> now]
                            ELSE [tokens |-> Lesser(f, b.tokens + x), last |-> now]
  BY DEF Refill
<1>7. b.last = 0 \/ b.last < now \/ b.tokens <= f
  BY <1>1
<1> HIDE DEF f, x, t
<1>8. t \in Nat /\ t <= f
  BY <1>1, <1>2, <1>3, <1>4, <1>5, <1>7 DEF Lesser
<1>9. Refill(b, cap, now) = [tokens |-> t, last |-> now]
  <2>1. b.last # 0 => Lesser(f, b.tokens + x) = t
    BY <1>1, <1>2, <1>3, <1>4, <1>5, <1>7 DEF Lesser
  <2>2. b.last = 0 => t = f
    BY <1>5
  <2>3. ~(cap <= 0) /\ ~(now < b.last)
    BY <1>1
  <2> QED BY <1>6, <2>1, <2>2, <2>3
<1>10. Refill([tokens |-> t, last |-> now], cap, now) = [tokens |-> t, last |-> now]
  <2>1. (now - now) * cap = 0
    BY <1>1
  <2>2. Lesser(cap * Period, t + (now - now) * cap) = t
    BY <1>2, <1>8, <2>1 DEF Lesser, f
  <2> QED BY <1>1, <2>2 DEF Refill
<1>11. [tokens |-> t, last |-> now] \in BucketType
  BY <1>1, <1>8 DEF BucketType
<1> QED BY <1>8, <1>9, <1>10, <1>11 DEF Loaded, t, f

\* A debit that TryConsume accepts.
LEMMA SameDebit ==
  ASSUME NEW b, NEW cap, NEW now, AxisComparable(b, cap, now), NEW n \in Int,
         CanConsume(Loaded(b, cap, now), cap, NonNeg(n))
  PROVE  TryConsume(Refill(b, cap, now), cap, now, n)
           = [tokens |-> LuaTokens(b, cap, now) + (-(NonNeg(n) * Period)), last |-> now]
<1> DEFINE r == Loaded(b, cap, now)
           m == NonNeg(n) * Period
<1>1. Refill(b, cap, now) = r /\ Refill(r, cap, now) = r /\ LuaTokens(b, cap, now) \in Nat
  BY SameRefill
<1>2. TryConsume(r, cap, now, n) = [r EXCEPT !.tokens = @ - m]
  BY <1>1 DEF TryConsume
<1>3. r = [tokens |-> LuaTokens(b, cap, now), last |-> now]
  BY DEF Loaded
<1>4. m \in Int
  BY PeriodAssumption DEF NonNeg
<1>5. LuaTokens(b, cap, now) - m = LuaTokens(b, cap, now) + (-m)
  BY <1>1, <1>4
<1> HIDE DEF r, m
<1>6. [r EXCEPT !.tokens = @ - m] = [tokens |-> LuaTokens(b, cap, now) - m, last |-> now]
  BY <1>3
<1> QED BY <1>1, <1>2, <1>5, <1>6 DEF m

\* A credit.
LEMMA SameCredit ==
  ASSUME NEW b, NEW cap, NEW now, AxisComparable(b, cap, now), NEW n \in Nat
  PROVE  Credit(Refill(b, cap, now), cap, now, n)
           = [tokens |-> LuaTokens(b, cap, now) + LuaCredit(LuaTokens(b, cap, now), cap, n),
              last |-> now]
<1> DEFINE r == Loaded(b, cap, now)
           t == LuaTokens(b, cap, now)
           m == n * Period
           f == cap * Period
<1>1. Refill(b, cap, now) = r /\ Refill(r, cap, now) = r /\ t \in Nat /\ t <= f
  BY SameRefill
<1>2. Credit(r, cap, now, n) = IF n <= 0 THEN r ELSE [r EXCEPT !.tokens = Lesser(f, @ + m)]
  BY <1>1 DEF Credit
<1>3. r = [tokens |-> t, last |-> now]
  BY DEF Loaded
<1>4. m \in Nat /\ (n <= 0 => m = 0) /\ f \in Nat
  BY PeriodAssumption, TimesMonotone DEF AxisComparable
<1>5. LuaCredit(t, cap, n) = Lesser(f, t + m) - t
  BY DEF LuaCredit
<1> HIDE DEF r, t, m, f
<1>6. /\ t + (Lesser(f, t + m) - t) = Lesser(f, t + m)
      /\ n <= 0 => Lesser(f, t + m) = t
  BY <1>1, <1>4 DEF Lesser
<1>7. [r EXCEPT !.tokens = Lesser(f, @ + m)] = [tokens |-> Lesser(f, t + m), last |-> now]
  BY <1>3
<1>8. Credit(r, cap, now, n) = [tokens |-> Lesser(f, t + m), last |-> now]
  BY <1>2, <1>3, <1>6, <1>7
<1> QED BY <1>1, <1>5, <1>6, <1>8 DEF t

\* What a settlement beyond the reservation cannot collect.
Unpaid(b, cap, now, reserved, actual) ==
  NonNeg(actual - reserved - RemainingInt(Loaded(b, cap, now)))

\* A settlement: the bucket that is saved and the overshoot.
LEMMA SameSettle ==
  ASSUME NEW b, NEW cap, NEW now, AxisComparable(b, cap, now),
         NEW reserved \in Nat, NEW actual \in Nat
  PROVE  /\ SettleAxis(b, cap, now, reserved, actual)
              = [tokens |-> LuaTokens(b, cap, now)
                              + (IF reserved > actual
                                 THEN LuaCredit(LuaTokens(b, cap, now), cap, reserved - actual)
                                 ELSE (reserved - actual + Unpaid(b, cap, now, reserved, actual))
                                        * Period),
                 last |-> now]
         /\ actual - SettleCharge(b, cap, now, reserved, actual)
              = Unpaid(b, cap, now, reserved, actual)
<1> DEFINE r == Loaded(b, cap, now)
           t == LuaTokens(b, cap, now)
           whole == RemainingInt(r)
           u == Unpaid(b, cap, now, reserved, actual)
           d == Debited(r, cap, now, actual - reserved)
<1>1. Refill(b, cap, now) = r /\ Refill(r, cap, now) = r /\ t \in Nat /\ r \in BucketType
  BY SameRefill
<1>2. whole \in Nat
  BY <1>1, WholeTokens
<1>3. u = NonNeg(actual - reserved - whole)
  BY DEF Unpaid
<1>4. d = Lesser(NonNeg(actual - reserved), whole)
  BY <1>1 DEF Debited
<1>5. SettleCharge(b, cap, now, reserved, actual) = IF reserved >= actual THEN actual ELSE reserved + d
  BY <1>1 DEF SettleCharge
<1>6. r = [tokens |-> t, last |-> now]
  BY DEF Loaded
<1>7. DebitFloor(r, cap, now, actual - reserved) = [r EXCEPT !.tokens = @ - d * Period]
  BY <1>1 DEF DebitFloor
<1> HIDE DEF r, t, whole, u, d
<1>8. /\ u \in Nat /\ d \in Nat
      /\ reserved >= actual => u = 0
      /\ reserved < actual => actual - (reserved + d) = u /\ reserved - actual + u = -d
  BY <1>2, <1>3, <1>4 DEF NonNeg, Lesser
<1>9. actual - SettleCharge(b, cap, now, reserved, actual) = u
  BY <1>5, <1>8
<1>10. CASE reserved > actual
  <2>1. reserved - actual \in Nat
    BY <1>10
  <2>2. SettleAxis(b, cap, now, reserved, actual) = Credit(r, cap, now, reserved - actual)
    BY <1>1, <1>10 DEF SettleAxis
  <2>3. SettleAxis(b, cap, now, reserved, actual)
          = [tokens |-> t + LuaCredit(t, cap, reserved - actual), last |-> now]
    BY <1>1, <2>1, <2>2, SameCredit DEF t
  <2> QED BY <1>9, <1>10, <2>3 DEF t, u
<1>11. CASE reserved < actual
  <2>1. SettleAxis(b, cap, now, reserved, actual) = [r EXCEPT !.tokens = @ - d * Period]
    BY <1>1, <1>7, <1>11 DEF SettleAxis
  <2>2. [r EXCEPT !.tokens = @ - d * Period] = [tokens |-> t - d * Period, last |-> now]
    BY <1>6
  <2>3. (reserved - actual + u) * Period = -(d * Period)
    BY <1>8, <1>11, PeriodAssumption
  <2>4. t - d * Period = t + (-(d * Period))
    BY <1>1, <1>8, PeriodAssumption
  <2>5. ~(reserved > actual)
    BY <1>11
  <2> QED BY <1>9, <2>1, <2>2, <2>3, <2>4, <2>5 DEF t, u
<1>12. CASE reserved = actual
  <2>1. SettleAxis(b, cap, now, reserved, actual) = r
    BY <1>1, <1>12 DEF SettleAxis
  <2>2. (reserved - actual + u) * Period = 0
    BY <1>8, <1>12, PeriodAssumption
  <2>3. t + 0 = t /\ ~(reserved > actual)
    BY <1>1, <1>12
  <2> QED BY <1>6, <1>9, <2>1, <2>2, <2>3 DEF t, u
<1> QED BY <1>10, <1>11, <1>12

-----------------------------------------------------------------------------
(* The two stores compared, call by call. *)

\* On an axis in use the stores load the same bucket, and the memory store's
\* second refill finds nothing to do.
LEMMA SameLoad ==
  ASSUME BucketsOK, NEW l \in Tiers, Comparable(l), NEW a \in UsedAxes(Split(l))
  PROVE  /\ a \in Axes /\ l[a] \in Nat \ {0} /\ AxisComparable(bucket[a], l[a], clock)
         /\ LuaLoad(bucket, l, clock)[a] = Loaded(bucket[a], l[a], clock)
         /\ Load(bucket, l, clock)[a] = Loaded(bucket[a], l[a], clock)
         /\ Reloaded(bucket, l, clock)[a] = Loaded(bucket[a], l[a], clock)
         /\ Refill(bucket[a], l[a], clock) = Loaded(bucket[a], l[a], clock)
<1>1. a \in Axes
  BY TierFacts
<1>2. l[a] \in Nat \ {0}
  BY <1>1, TierFacts DEF Comparable
<1>3. AxisComparable(bucket[a], l[a], clock)
  BY <1>1, <1>2 DEF AxisComparable, Comparable, BucketsOK
<1>4. /\ Refill(bucket[a], l[a], clock) = Loaded(bucket[a], l[a], clock)
      /\ Refill(Loaded(bucket[a], l[a], clock), l[a], clock) = Loaded(bucket[a], l[a], clock)
  BY <1>3, SameRefill
<1>5. Load(bucket, l, clock)[a] = Refill(bucket[a], l[a], clock)
  BY <1>1 DEF Load
<1>6. Reloaded(bucket, l, clock)[a] = Refill(Load(bucket, l, clock)[a], l[a], clock)
  BY <1>1 DEF Reloaded, Load
<1>7. LuaLoad(bucket, l, clock)[a] = Loaded(bucket[a], l[a], clock)
  BY <1>1 DEF LuaLoad, Loaded
<1> QED BY <1>1, <1>2, <1>3, <1>4, <1>5, <1>6, <1>7

\* What a script saves, axis by axis.
LEMMA SavedAxes ==
  ASSUME NEW l \in Tiers, NEW change, NEW a \in Axes
  PROVE  /\ a \in UsedAxes(Split(l)) =>
              LuaSave(bucket, l, change, clock)[a]
                = [tokens |-> LuaTokens(bucket[a], l[a], clock) + change[a], last |-> clock]
         /\ a \notin UsedAxes(Split(l)) => LuaSave(bucket, l, change, clock)[a] = bucket[a]
  BY DEF LuaSave, Save

\* Check: the same verdict, axis and wait, unless the first axis to deny is one that
\* rounding leaves short; and the same balances.
LEMMA SameCheck ==
  ASSUME BucketsOK, NEW l \in Tiers, Comparable(l), NEW n \in [Axes -> Int]
  PROVE  /\ \A reply \in LuaCheckReplies(bucket, inexact, l, n, clock) :
              \/ reply = CheckDecision(bucket, l, n, clock)
              \/ ~reply.allowed /\ reply.limit \in LuaShort(bucket, inexact, l, n, clock)
         /\ CheckDecision(bucket, l, n, clock).allowed =>
              Alike(LuaCheckDebit(bucket, l, n, clock), CheckDebit(bucket, l, n, clock), Axes)
<1> DEFINE denies == CheckDenies(bucket, l, n, clock)
           shorts == LuaShort(bucket, inexact, l, n, clock)
<1>1. \A short : LuaCheckDenies(bucket, l, n, short, clock) = denies \union short
  BY SameLoad DEF LuaCheckDenies, CheckDenies
<1>2. /\ denies \in SUBSET UsedAxes(Split(l)) /\ Split(l) \in BOOLEAN
      /\ shorts \in SUBSET UsedAxes(Split(l))
  BY DEF CheckDenies, Split, LuaShort
<1>3. ASSUME NEW short \in SUBSET shorts
      PROVE  LET reply == LuaCheckReply(bucket, l, n, short, clock)
             IN  \/ reply = CheckDecision(bucket, l, n, clock)
                 \/ ~reply.allowed /\ reply.limit \in shorts
  <2> DEFINE all == denies \union short
             axis == FirstOf(Split(l), all)
  <2>1. CASE all = {}
    BY <1>1, <2>1 DEF LuaCheckReply, CheckDecision
  <2>2. CASE all # {} /\ axis \in short
    <3>1. LuaCheckReply(bucket, l, n, short, clock) = [allowed |-> FALSE, limit |-> axis, retry |-> 1]
      BY <1>1, <2>2 DEF LuaCheckReply
    <3> HIDE DEF axis, shorts
    <3> QED BY <2>2, <3>1
  <2>3. CASE all # {} /\ axis \notin short
    <3>1. all \in SUBSET UsedAxes(Split(l))
      BY <1>2
    <3> HIDE DEF denies, shorts, all
    <3>2. axis \in all
      BY <1>2, <2>3, <3>1, FirstDenies
    <3>3. axis \in denies /\ denies \in SUBSET all
      BY <2>3, <3>2 DEF all
    <3>4. FirstOf(Split(l), denies) = axis
      BY <1>2, <2>3, <3>1, <3>3, FirstOfFewer
    <3>5. LuaLoad(bucket, l, clock)[axis] = Reloaded(bucket, l, clock)[axis]
      BY <1>2, <3>3, SameLoad
    <3>6. LuaCheckReply(bucket, l, n, short, clock)
            = [allowed |-> FALSE, limit |-> axis,
               retry |-> RetryAfter(LuaLoad(bucket, l, clock)[axis], l[axis], Clamped(n)[axis])]
      BY <1>1, <2>3 DEF LuaCheckReply, all
    <3>7. CheckDecision(bucket, l, n, clock)
            = [allowed |-> FALSE, limit |-> axis,
               retry |-> RetryAfter(Reloaded(bucket, l, clock)[axis], l[axis], Clamped(n)[axis])]
      <4>1. denies # {}
        BY <3>3
      <4> QED BY <3>4, <4>1 DEF CheckDecision, denies
    <3> QED BY <3>5, <3>6, <3>7
  <2> QED BY <2>1, <2>2, <2>3
<1>4. ASSUME denies = {}, NEW a \in Axes
      PROVE  LuaCheckDebit(bucket, l, n, clock)[a] = CheckDebit(bucket, l, n, clock)[a]
  <2>1. CASE a \in UsedAxes(Split(l))
    <3>1. Clamped(n)[a] = NonNeg(n[a]) /\ n[a] \in Int
      BY DEF Clamped
    <3>2. CanConsume(Loaded(bucket[a], l[a], clock), l[a], NonNeg(n[a]))
      BY <1>4, <2>1, <3>1, SameLoad DEF CheckDenies
    <3>3. CheckDebit(bucket, l, n, clock)[a]
            = TryConsume(Refill(bucket[a], l[a], clock), l[a], clock, n[a])
      BY <2>1 DEF CheckDebit, Save, Load
    <3>4. LuaCheckDebit(bucket, l, n, clock)[a]
            = [tokens |-> LuaTokens(bucket[a], l[a], clock) + (-(NonNeg(n[a]) * Period)),
               last |-> clock]
      BY <2>1, <3>1, SavedAxes DEF LuaCheckDebit
    <3> QED BY <2>1, <3>1, <3>2, <3>3, <3>4, SameDebit, SameLoad
  <2>2. CASE a \notin UsedAxes(Split(l))
    BY <2>2, SavedAxes DEF LuaCheckDebit, CheckDebit, Save
  <2> QED BY <2>1, <2>2
<1>5. CheckDecision(bucket, l, n, clock).allowed => denies = {}
  BY DEF CheckDecision
<1> QED BY <1>3, <1>4, <1>5 DEF Alike, LuaCheckReplies

\* Borrow: the same verdict, the same loan, the same balances.
LEMMA SameBorrow ==
  ASSUME BucketsOK, NEW l \in Tiers, Comparable(l), NEW s \in BorrowSpecs
  PROVE  /\ LuaBorrowReply(bucket, l, s, clock) = BorrowDecision(bucket, l, s, clock)
         /\ LuaBorrowGot(bucket, l, s, clock) = BorrowGot(bucket, l, s, clock)
         /\ Alike(LuaBorrowDebit(bucket, l, s, clock), BorrowDebit(bucket, l, s, clock), Axes)
<1> DEFINE denies == BorrowDenies(bucket, l, s, clock)
           got == BorrowGot(bucket, l, s, clock)
<1>1. LuaBorrowDenies(bucket, l, s, clock) = denies
  BY SameLoad DEF LuaBorrowDenies, BorrowDenies
<1>2. denies # {} => FirstOf(Split(l), denies) \in UsedAxes(Split(l))
  <2>1. denies \in SUBSET UsedAxes(Split(l)) /\ Split(l) \in BOOLEAN
    BY DEF BorrowDenies, Split
  <2> HIDE DEF denies
  <2> QED BY <2>1, FirstDenies
<1>3. LuaBorrowReply(bucket, l, s, clock) = BorrowDecision(bucket, l, s, clock)
  <2>1. CASE denies = {}
    BY <1>1, <2>1 DEF LuaBorrowReply, BorrowDecision
  <2>2. CASE denies # {}
    <3> DEFINE axis == FirstOf(Split(l), denies)
    <3>1. LuaLoad(bucket, l, clock)[axis] = Reloaded(bucket, l, clock)[axis]
      BY <1>2, <2>2, SameLoad
    <3>2. /\ LuaBorrowReply(bucket, l, s, clock)
               = [allowed |-> FALSE, limit |-> axis,
                  retry |-> RetryAfter(LuaLoad(bucket, l, clock)[axis], l[axis],
                                       NonNeg(s.min[axis]))]
          /\ BorrowDecision(bucket, l, s, clock)
               = [allowed |-> FALSE, limit |-> axis,
                  retry |-> RetryAfter(Reloaded(bucket, l, clock)[axis], l[axis],
                                       NonNeg(s.min[axis]))]
      BY <1>1, <2>2 DEF LuaBorrowReply, BorrowDecision
    <3> QED BY <3>1, <3>2
  <2> QED BY <2>1, <2>2
<1>4. LuaBorrowGot(bucket, l, s, clock) = got
  BY SameLoad DEF LuaBorrowGot, BorrowGot
<1>5. ASSUME NEW a \in Axes
      PROVE  LuaBorrowDebit(bucket, l, s, clock)[a] = BorrowDebit(bucket, l, s, clock)[a]
  <2>1. CASE a \in UsedAxes(Split(l))
    <3> DEFINE r == Loaded(bucket[a], l[a], clock)
               m == got[a]
    <3>1. /\ AxisComparable(bucket[a], l[a], clock) /\ Load(bucket, l, clock)[a] = r
          /\ l[a] \in Nat
      BY <2>1, SameLoad
    <3>2. r \in BucketType /\ r.tokens <= l[a] * Period
      BY <3>1, SameRefill DEF Loaded
    <3>3. RemainingInt(r) \in Nat /\ RemainingInt(r) * Period <= r.tokens
      BY <3>2, WholeTokens
    <3>4. s.min[a] \in Int /\ s.chunk[a] \in Int
      BY RedisAssumption
    <3>5. m = WantGot(RemainingInt(r), NonNeg(s.min[a]), NonNeg(s.chunk[a]))
      BY <2>1, <3>1 DEF BorrowGot
    <3> HIDE DEF m, r
    <3>6. m \in Nat /\ m <= RemainingInt(r)
      BY <3>3, <3>4, <3>5 DEF WantGot, Lesser, NonNeg
    <3>7. m * Period <= RemainingInt(r) * Period /\ m * Period \in Nat
      BY <3>3, <3>6, PeriodAssumption, TimesMonotone
    <3>8. m * Period <= r.tokens /\ m * Period <= l[a] * Period
      <4>1. r.tokens \in Nat /\ RemainingInt(r) * Period \in Nat /\ l[a] * Period \in Nat
        BY <3>1, <3>2, <3>3, PeriodAssumption, TimesMonotone DEF BucketType
      <4> QED BY <3>2, <3>3, <3>7, <4>1
    <3>9. NonNeg(m) = m /\ CanConsume(r, l[a], m)
      BY <3>1, <3>6, <3>8, TimesCancel DEF NonNeg, CanConsume
    <3>10. TryConsume(Refill(bucket[a], l[a], clock), l[a], clock, m)
             = [tokens |-> LuaTokens(bucket[a], l[a], clock) + (-(m * Period)), last |-> clock]
      BY <3>1, <3>6, <3>9, SameDebit DEF r
    <3>11. BorrowDebit(bucket, l, s, clock)[a]
             = TryConsume(Refill(bucket[a], l[a], clock), l[a], clock, m)
      BY <2>1 DEF BorrowDebit, Save, Load, m
    <3>12. LuaBorrowDebit(bucket, l, s, clock)[a]
             = [tokens |-> LuaTokens(bucket[a], l[a], clock) + (-(m * Period)), last |-> clock]
      BY <1>4, <2>1, SavedAxes DEF LuaBorrowDebit, m
    <3> QED BY <3>10, <3>11, <3>12
  <2>2. CASE a \notin UsedAxes(Split(l))
    BY <2>2, SavedAxes DEF LuaBorrowDebit, BorrowDebit, Save
  <2> QED BY <2>1, <2>2
<1> QED BY <1>3, <1>4, <1>5 DEF Alike

\* Refund: the same balances.
LEMMA SameRefund ==
  ASSUME BucketsOK, NEW l \in Tiers, Comparable(l), NEW cost \in Amount
  PROVE  Alike(LuaCreditSave(bucket, l, cost, clock), CreditSave(bucket, l, cost, clock), Axes)
<1> SUFFICES ASSUME NEW a \in Axes
             PROVE  LuaCreditSave(bucket, l, cost, clock)[a] = CreditSave(bucket, l, cost, clock)[a]
  BY DEF Alike
<1>1. cost[a] \in Nat
  BY DEF Amount
<1>2. CASE a \in UsedAxes(Split(l))
  <2>1. CreditSave(bucket, l, cost, clock)[a]
          = Credit(Refill(bucket[a], l[a], clock), l[a], clock, cost[a])
    BY <1>2 DEF CreditSave, Save
  <2>2. LuaCreditSave(bucket, l, cost, clock)[a]
          = [tokens |-> LuaTokens(bucket[a], l[a], clock)
                          + LuaCredit(LuaTokens(bucket[a], l[a], clock), l[a], cost[a]),
             last |-> clock]
    BY <1>2, SavedAxes DEF LuaCreditSave
  <2> QED BY <1>1, <1>2, <2>1, <2>2, SameCredit, SameLoad
<1>3. CASE a \notin UsedAxes(Split(l))
  BY <1>3, SavedAxes DEF LuaCreditSave, CreditSave, Save
<1> QED BY <1>2, <1>3

\* Settle: the same overshoot and the same balances of the token buckets.
LEMMA SameSettlement ==
  ASSUME BucketsOK, NEW l \in Tiers, Comparable(l), NEW cost \in Amount, NEW n \in Amount
  PROVE  /\ Alike(LuaSettleSave(bucket, l, cost, n, clock), SettleSave(bucket, l, cost, n, clock),
                  TokenAxes(Split(l)))
         /\ LuaOvershoot(bucket, l, cost, n, clock) = SettleOvershoot(bucket, l, cost, n, clock)
<1>1. ASSUME NEW a \in TokenAxes(Split(l))
      PROVE  /\ a \in UsedAxes(Split(l)) /\ a \in Axes
             /\ cost[a] \in Nat /\ n[a] \in Nat /\ AxisComparable(bucket[a], l[a], clock)
  BY TierFacts, SameLoad DEF Amount
<1>2. ASSUME NEW a \in TokenAxes(Split(l))
      PROVE  LuaOvershoot(bucket, l, cost, n, clock)[a]
               = Unpaid(bucket[a], l[a], clock, cost[a], n[a])
  BY <1>1, SameLoad DEF LuaOvershoot, Unpaid
<1>3. LuaOvershoot(bucket, l, cost, n, clock) = SettleOvershoot(bucket, l, cost, n, clock)
  <2>1. ASSUME NEW a \in TokenAxes(Split(l))
        PROVE  n[a] - SettleCharge(bucket[a], l[a], clock, cost[a], n[a])
                 = LuaOvershoot(bucket, l, cost, n, clock)[a]
    BY <1>1, <1>2, SameSettle
  <2>2. LuaOvershoot(bucket, l, cost, n, clock)
          = [a \in Axes |-> IF a \in TokenAxes(Split(l))
                            THEN LuaOvershoot(bucket, l, cost, n, clock)[a] ELSE 0]
    BY DEF LuaOvershoot
  <2> QED BY <2>1, <2>2 DEF SettleOvershoot
<1>4. ASSUME NEW a \in TokenAxes(Split(l))
      PROVE  LuaSettleSave(bucket, l, cost, n, clock)[a] = SettleSave(bucket, l, cost, n, clock)[a]
  <2> DEFINE t == LuaTokens(bucket[a], l[a], clock)
             x == IF cost[a] > n[a] THEN LuaCredit(t, l[a], cost[a] - n[a])
                  ELSE (cost[a] - n[a] + Unpaid(bucket[a], l[a], clock, cost[a], n[a])) * Period
  <2>1. SettleSave(bucket, l, cost, n, clock)[a]
          = SettleAxis(bucket[a], l[a], clock, cost[a], n[a])
    BY <1>1, <1>4 DEF SettleSave, Save
  <2>2. LuaSettleSave(bucket, l, cost, n, clock)[a] = [tokens |-> t + x, last |-> clock]
    <3> DEFINE change == [i \in Axes |->
                            IF i \notin TokenAxes(Split(l)) THEN 0
                            ELSE IF cost[i] > n[i]
                                 THEN LuaCredit(LuaTokens(bucket[i], l[i], clock), l[i],
                                                cost[i] - n[i])
                            ELSE (cost[i] - n[i] + LuaOvershoot(bucket, l, cost, n, clock)[i])
                                   * Period]
    <3>1. change[a] = x
      BY <1>1, <1>2
    <3>2. LuaSettleSave(bucket, l, cost, n, clock) = LuaSave(bucket, l, change, clock)
      BY DEF LuaSettleSave
    <3> HIDE DEF change, x
    <3> QED BY <1>1, <3>1, <3>2, SavedAxes
  <2>3. SettleAxis(bucket[a], l[a], clock, cost[a], n[a]) = [tokens |-> t + x, last |-> clock]
    BY <1>1, <1>4, SameSettle
  <2> QED BY <2>1, <2>2, <2>3
<1> QED BY <1>3, <1>4 DEF Alike

\* In every state the types allow, the two stores agree wherever they are comparable.
LEMMA StoresAgree ==
  ASSUME TInv
  PROVE  MatchesMemory
<1> SUFFICES ASSUME NEW l \in Tiers, Comparable(l)
             PROVE  /\ \A n \in Costs :
                         /\ \A reply \in LuaCheckReplies(bucket, inexact, l, n, clock) :
                              \/ reply = CheckDecision(bucket, l, n, clock)
                              \/ /\ ~reply.allowed
                                 /\ reply.limit \in LuaShort(bucket, inexact, l, n, clock)
                         /\ CheckDecision(bucket, l, n, clock).allowed =>
                              Alike(LuaCheckDebit(bucket, l, n, clock),
                                    CheckDebit(bucket, l, n, clock), Axes)
                    /\ \A s \in BorrowSpecs :
                         /\ LuaBorrowReply(bucket, l, s, clock) = BorrowDecision(bucket, l, s, clock)
                         /\ LuaBorrowGot(bucket, l, s, clock) = BorrowGot(bucket, l, s, clock)
                         /\ Alike(LuaBorrowDebit(bucket, l, s, clock),
                                  BorrowDebit(bucket, l, s, clock), Axes)
                    /\ \A id \in Ids, n \in Actuals :
                         res[id] # NoRes /\ res[id].limits = l =>
                           /\ Alike(LuaCreditSave(bucket, l, res[id].cost, clock),
                                    CreditSave(bucket, l, res[id].cost, clock), Axes)
                           /\ Alike(LuaSettleSave(bucket, l, res[id].cost, Clamped(n), clock),
                                    SettleSave(bucket, l, res[id].cost, Clamped(n), clock),
                                    TokenAxes(Split(l)))
                           /\ LuaOvershoot(bucket, l, res[id].cost, Clamped(n), clock)
                                = SettleOvershoot(bucket, l, res[id].cost, Clamped(n), clock)
  BY DEF MatchesMemory
<1>1. BucketsOK
  BY TypeFacts
<1>2. Costs \subseteq [Axes -> Int] /\ Actuals \subseteq [Axes -> Int]
  BY RedisAssumption
<1>3. ASSUME NEW id \in Ids, res[id] # NoRes
      PROVE  res[id].cost \in Amount
  BY <1>3, TypeFacts, ReservationFacts
<1>4. ASSUME NEW n \in Actuals
      PROVE  Clamped(n) \in Amount
  BY <1>2, ClampFacts
<1> QED BY <1>1, <1>2, <1>3, <1>4, SameCheck, SameBorrow, SameRefund, SameSettlement

\* On every bucket Redis can come to, for every tier, cost, loan and settlement,
\* the Lua scripts and the memory store decide the same and write the same
\* balances, but where a lowered or zero limit meets a bucket of the same tick, and
\* where rounding makes a script deny a cost that a refilled axis can just pay.
THEOREM MatchesMemoryHolds == Spec => []MatchesMemory
<1>1. Init => TInv
  BY TInvInit
<1>2. TInv /\ [Next]_vars => TInv'
  BY TInvStep
<1>3. TInv => MatchesMemory
  BY StoresAgree
<1> QED BY <1>1, <1>2, <1>3, PTL DEF Spec

-----------------------------------------------------------------------------
(* No token is lost. *)

\* What the pending reservations hold of an axis, each and together.
Pending(a) ==
  [id \in Ids |-> IF res[id] # NoRes /\ res[id].status = "pending" THEN res[id].cost[a] ELSE 0]

Reserved(a) == SumFunctionOnSet(Pending(a), Ids)

\* What is on loan and what the pending reservations hold is charged: closing a
\* reservation or returning a loan never makes a charge negative.
Covered == \A a \in Axes : lent[a] + Reserved(a) <= spent[a]

PendingTyped ==
  \A a \in Axes : /\ \A id \in Ids : Pending(a)[id] \in Nat
                  /\ Reserved(a) \in Nat /\ lent[a] \in Nat /\ spent[a] \in Int

\* The types of the parts.
LEMMA PendingFacts == TInv => PendingTyped
<1> SUFFICES ASSUME TInv, NEW a \in Axes
             PROVE  /\ \A id \in Ids : Pending(a)[id] \in Nat
                    /\ Reserved(a) \in Nat /\ lent[a] \in Nat /\ spent[a] \in Int
  BY DEF PendingTyped
<1>1. \A id \in Ids : Pending(a)[id] \in Nat
  <2> SUFFICES ASSUME NEW id \in Ids PROVE Pending(a)[id] \in Nat
    OBVIOUS
  <2>1. res[id] # NoRes => res[id].cost[a] \in Nat
    BY TypeFacts, ReservationFacts DEF Amount
  <2> QED BY <2>1 DEF Pending
<1>2. Reserved(a) \in Nat
  BY <1>1, RedisAssumption, SumType DEF Reserved
<1> QED BY <1>1, <1>2, TypeFacts DEF Amount

\* The same in the next state.
LEMMA PendingFactsNext == TInv' => PendingTyped'
  BY PendingFacts, PTL

\* One reservation changes.
LEMMA ReservedUpdate ==
  ASSUME TInv, TInv', NEW a \in Axes, NEW id \in Ids, \A i \in Ids \ {id} : res'[i] = res[i]
  PROVE  Reserved(a)' = Reserved(a) + Pending(a)'[id] - Pending(a)[id]
<1> DEFINE f == Pending(a)
           g == Pending(a)'
<1>1. \A i \in Ids : f[i] \in Int /\ g[i] \in Int
  BY PendingFacts, PendingFactsNext DEF PendingTyped
<1>2. \A i \in Ids \ {id} : g[i] = f[i]
  BY DEF Pending
<1>3. Reserved(a) = SumFunctionOnSet(f, Ids) /\ Reserved(a)' = SumFunctionOnSet(g, Ids)
  BY DEF Reserved
<1> HIDE DEF f, g
<1>4. SumFunctionOnSet(g, Ids) = SumFunctionOnSet(f, Ids) + g[id] - f[id]
  BY <1>1, <1>2, RedisAssumption, SumUpdate
<1> QED BY <1>3, <1>4 DEF f, g

\* Loans, Returns and steps that touch no account.
LEMMA CoveredLoan ==
  ASSUME TInv, TInv', Covered, res' = res,
         \A a \in Axes : spent'[a] - spent[a] = lent'[a] - lent[a]
  PROVE  Covered'
<1> SUFFICES ASSUME NEW a \in Axes PROVE lent'[a] + Reserved(a)' <= spent'[a]
  BY DEF Covered
<1>1. Reserved(a)' = Reserved(a)
  BY DEF Reserved, Pending
<1>2. lent[a] + Reserved(a) <= spent[a]
  BY DEF Covered
<1> QED BY <1>1, <1>2, PendingFacts, PendingFactsNext DEF PendingTyped

\* A granted check adds its cost to both sides, and the second time to neither.
LEMMA CoveredCheck ==
  ASSUME TInv, TInv', IdInv, Covered, NEW w \in Workers, NEW c \in Calls, c = call[w],
         c.op = "check", NEW heard \in BOOLEAN, CheckGranted(c, heard)
  PROVE  Covered'
<1> DEFINE d == OnUsed(c.limits, c.arg)
<1>1. c.id \in Ids /\ c.limits \in Tiers /\ c.arg \in Amount
  BY CallFacts
<1>2. d \in Amount
  BY <1>1, OnUsedFacts
<1>3. /\ lent' = lent
      /\ c.id \in opened => spent' = spent
      /\ c.id \notin opened => spent' = Plus(spent, d)
  BY DEF CheckGranted
<1>4. /\ res'[c.id] # NoRes /\ res'[c.id].status = "pending" /\ res'[c.id].cost = d
      /\ \A id \in Ids \ {c.id} : res'[id] = res[id]
  BY <1>1, ReserveFacts, ReservationFacts DEF CheckGranted
<1> HIDE DEF d
<1> SUFFICES ASSUME NEW a \in Axes PROVE lent'[a] + Reserved(a)' <= spent'[a]
  BY DEF Covered
<1>5. Pending(a)'[c.id] = d[a] /\ d[a] \in Nat
  BY <1>1, <1>2, <1>4 DEF Pending, Amount
<1>6. Reserved(a)' = Reserved(a) + d[a] - Pending(a)[c.id]
  BY <1>1, <1>4, <1>5, ReservedUpdate
<1>7. lent[a] + Reserved(a) <= spent[a] /\ Reserved(a) \in Nat /\ lent[a] \in Nat /\ spent[a] \in Int
  BY PendingFacts DEF Covered, PendingTyped
<1>8. CASE c.id \in opened
  <2>1. res[c.id] # NoRes /\ res[c.id].status = "pending" /\ res[c.id].cost = d
    BY <1>8 DEF IdInv, AskedIds, WrittenBy, d
  <2>2. Pending(a)[c.id] = d[a]
    BY <1>1, <2>1 DEF Pending
  <2> QED BY <1>3, <1>5, <1>6, <1>7, <1>8, <2>2
<1>9. CASE c.id \notin opened
  <2>1. res[c.id] = NoRes
    BY <1>1, <1>9 DEF IdInv, Written
  <2>2. Pending(a)[c.id] = 0
    BY <1>1, <2>1 DEF Pending
  <2>3. spent'[a] = spent[a] + d[a]
    BY <1>3, <1>9 DEF Plus
  <2> QED BY <1>3, <1>5, <1>6, <1>7, <2>2, <2>3
<1> QED BY <1>8, <1>9

\* Closing takes off what was reserved, and no more off the charge.
LEMMA CoveredClose ==
  ASSUME TInv, TInv', Covered, NEW c \in Calls, SettleScript(c) \/ RefundScript(c)
  PROVE  Covered'
<1>1. c.id \in Ids /\ c.arg \in Amount
  BY CallFacts DEF SettleScript, RefundScript, Closing
<1>2. lent' = lent
  BY DEF SettleScript, RefundScript
<1>3. CASE ~Closable(c.id)
  <2>1. res' = res /\ spent' = spent
    BY <1>3 DEF SettleScript, RefundScript, hashes
  <2>2. \A a \in Axes : spent'[a] - spent[a] = lent'[a] - lent[a]
    BY <1>2, <2>1, PendingFacts DEF PendingTyped
  <2> QED BY <2>1, <2>2, CoveredLoan
<1>4. CASE Closable(c.id)
  <2> DEFINE r == res[c.id].cost
  <2>1. /\ res[c.id] \in Reservation /\ res[c.id].status = "pending" /\ res[c.id] # NoRes
        /\ res[c.id].limits \in Tiers /\ r \in Amount
    BY <1>1, <1>4, TypeFacts, ReservationFacts DEF Closable
  <2>2. /\ res'[c.id].status \in {"settled", "refunded"}
        /\ \A i \in Ids \ {c.id} : res'[i] = res[i]
        /\ \A a \in Axes : spent'[a] >= spent[a] - r[a]
    <3>1. CASE SettleScript(c)
      <4> DEFINE l == res[c.id].limits
                 over == LuaOvershoot(bucket, l, r, c.arg, clock)
                 d == Used(l, r, c.arg)
      <4>1. /\ bucket' = LuaSettleSave(bucket, l, r, c.arg, clock)
            /\ res' = Closed(c.id, "settled", over)
            /\ spent' = Plus(spent, d)
        BY <1>4, <2>1, <3>1 DEF SettleScript, Used, Adjusted
      <4> HIDE DEF l, r
      <4>2. over \in Amount /\ \A a \in Axes : d[a] \in Int /\ -r[a] <= d[a]
        BY <1>1, <2>1, <4>1, TypeFacts, SettleMoves DEF l
      <4> HIDE DEF over, d
      <4>3. /\ res'[c.id].status = "settled"
            /\ \A i \in Ids \ {c.id} : res'[i] = res[i]
        BY <1>1, <1>4, <4>1, <4>2, ClosedFacts
      <4>4. \A a \in Axes : spent'[a] = spent[a] + d[a] /\ spent[a] \in Int /\ r[a] \in Nat
        BY <2>1, <4>1, TypeFacts DEF Plus, Amount
      <4>5. \A a \in Axes : spent'[a] >= spent[a] - r[a]
        BY <4>2, <4>4
      <4> QED BY <4>3, <4>5
    <3>2. CASE RefundScript(c)
      <4>1. /\ res' = Closed(c.id, "refunded", Zero)
            /\ spent' = Plus(spent, Minus(Zero, r))
        BY <1>4, <2>1, <3>2 DEF RefundScript, Adjusted
      <4>2. Zero \in Amount
        BY DEF Zero, Amount
      <4>3. /\ res'[c.id].status = "refunded"
            /\ \A i \in Ids \ {c.id} : res'[i] = res[i]
        BY <1>1, <1>4, <4>1, <4>2, ClosedFacts
      <4> HIDE DEF r
      <4>4. \A a \in Axes : spent'[a] = spent[a] + (0 - r[a]) /\ spent[a] \in Int /\ r[a] \in Nat
        BY <2>1, <4>1, TypeFacts DEF Plus, Minus, Zero, Amount
      <4>5. \A a \in Axes : spent'[a] >= spent[a] - r[a]
        BY <4>4
      <4> QED BY <4>3, <4>5
    <3> QED BY <3>1, <3>2
  <2> SUFFICES ASSUME NEW a \in Axes PROVE lent'[a] + Reserved(a)' <= spent'[a]
    BY DEF Covered
  <2>3. Pending(a)[c.id] = r[a] /\ r[a] \in Nat
    BY <1>1, <2>1 DEF Pending, Amount
  <2>4. Pending(a)'[c.id] = 0
    BY <1>1, <2>2 DEF Pending
  <2> HIDE DEF r
  <2>5. Reserved(a)' = Reserved(a) + 0 - r[a]
    BY <1>1, <2>2, <2>3, <2>4, ReservedUpdate
  <2>6. lent[a] + Reserved(a) <= spent[a]
    BY DEF Covered
  <2> QED BY <1>2, <2>2, <2>3, <2>5, <2>6, PendingFacts, PendingFactsNext DEF PendingTyped
<1> QED BY <1>3, <1>4

\* Every script keeps what is owed covered.
LEMMA CoveredScript ==
  ASSUME TInv, TInv', IdInv, Covered, NEW w \in Workers, NEW heard \in BOOLEAN, Script(w, heard)
  PROVE  Covered'
<1>1. call[w] \in Calls
  BY TypeFacts DEF Script
<1>2. \A a \in Axes : spent[a] \in Int /\ lent[a] \in Nat
  BY PendingFacts DEF PendingTyped
<1>3. CASE CheckScript(call[w], heard)
  <2>1. CASE CheckDenied(call[w], heard)
    <3>1. res' = res /\ spent' = spent /\ lent' = lent
      BY <2>1 DEF CheckDenied, hashes, books
    <3>2. \A a \in Axes : spent'[a] - spent[a] = lent'[a] - lent[a]
      BY <1>2, <3>1
    <3> QED BY <3>1, <3>2, CoveredLoan
  <2>2. CASE CheckGranted(call[w], heard)
    BY <1>1, <1>3, <2>2, CoveredCheck DEF CheckScript
  <2> QED BY <1>3, <2>1, <2>2 DEF CheckScript
<1>4. CASE SettleScript(call[w]) \/ RefundScript(call[w])
  BY <1>1, <1>4, CoveredClose
<1>5. CASE BorrowScript(call[w], heard)
  <2> DEFINE d == LuaBorrowGot(bucket, call[w].limits, call[w].arg, clock)
  <2>1. /\ res' = res
        /\ \/ spent' = spent /\ lent' = lent
           \/ /\ spent' = Plus(spent, d) /\ lent' = Plus(lent, d)
              /\ bucket' = LuaBorrowDebit(bucket, call[w].limits, call[w].arg, clock)
    BY <1>5 DEF BorrowScript
  <2>2. bucket' = LuaBorrowDebit(bucket, call[w].limits, call[w].arg, clock) => d \in Amount
    BY <1>1, <1>5, TypeFacts, CallFacts, BorrowMoves DEF BorrowScript
  <2> HIDE DEF d
  <2>3. \A a \in Axes : spent'[a] - spent[a] = lent'[a] - lent[a]
    <3>1. CASE spent' = spent /\ lent' = lent
      BY <1>2, <3>1
    <3>2. CASE spent' = Plus(spent, d) /\ lent' = Plus(lent, d) /\ d \in Amount
      <4>1. \A a \in Axes : spent'[a] = spent[a] + d[a] /\ lent'[a] = lent[a] + d[a] /\ d[a] \in Nat
        BY <3>2 DEF Plus, Amount
      <4> QED BY <1>2, <4>1
    <3> QED BY <2>1, <2>2, <3>1, <3>2
  <2> QED BY <2>1, <2>3, CoveredLoan
<1>6. CASE ReturnScript(call[w])
  <2> DEFINE d == call[w].arg
  <2>1. /\ res' = res
        /\ \/ spent' = spent /\ lent' = lent
           \/ spent' = Minus(spent, d) /\ lent' = Minus(lent, d)
    BY <1>6 DEF ReturnScript
  <2>2. d \in Amount
    BY <1>1, <1>6, CallFacts DEF ReturnScript
  <2> HIDE DEF d
  <2>3. \A a \in Axes : spent'[a] - spent[a] = lent'[a] - lent[a]
    <3>1. CASE spent' = spent /\ lent' = lent
      BY <1>2, <3>1
    <3>2. CASE spent' = Minus(spent, d) /\ lent' = Minus(lent, d)
      <4>1. \A a \in Axes : spent'[a] = spent[a] - d[a] /\ lent'[a] = lent[a] - d[a] /\ d[a] \in Nat
        BY <2>2, <3>2 DEF Minus, Amount
      <4> QED BY <1>2, <4>1
    <3> QED BY <2>1, <3>1, <3>2
  <2> QED BY <2>1, <2>3, CoveredLoan
<1> QED BY <1>3, <1>4, <1>5, <1>6 DEF Script

\* A reservation that expires is owed no longer.
LEMMA CoveredTick ==
  ASSUME TInv, TInv', Covered, Tick
  PROVE  Covered'
<1> SUFFICES ASSUME NEW a \in Axes PROVE lent'[a] + Reserved(a)' <= spent'[a]
  BY DEF Covered
<1> DEFINE f == Pending(a)
           g == Pending(a)'
<1>1. lent' = lent /\ spent' = spent /\ \A id \in Ids : res'[id] = res[id] \/ res'[id] = NoRes
  BY DEF Tick, books
<1>2. \A id \in Ids : f[id] \in Nat /\ g[id] \in Nat
  BY PendingFacts, PendingFactsNext DEF PendingTyped
<1>3. \A id \in Ids : g[id] = f[id] \/ g[id] = 0
  BY <1>1 DEF Pending
<1>4. Reserved(a) = SumFunctionOnSet(f, Ids) /\ Reserved(a)' = SumFunctionOnSet(g, Ids)
  BY DEF Reserved
<1> HIDE DEF f, g
<1>5. \A id \in Ids : f[id] \in Int /\ g[id] \in Int /\ g[id] <= f[id]
  BY <1>2, <1>3
<1>6. SumFunctionOnSet(g, Ids) <= SumFunctionOnSet(f, Ids)
  BY <1>5, RedisAssumption, SumLeq
<1>7. lent[a] + Reserved(a) <= spent[a]
  BY DEF Covered
<1> QED BY <1>1, <1>4, <1>6, <1>7, PendingFacts, PendingFactsNext DEF PendingTyped

\* Every step keeps what is owed covered.
LEMMA CoveredStep ==
  ASSUME TInv, IdInv, Covered, [Next]_vars
  PROVE  Covered'
<1>1. TInv'
  BY TInvStep
<1>2. ASSUME UNCHANGED <<hashes, books>> PROVE Covered'
  <2>1. res' = res /\ \A a \in Axes : spent'[a] - spent[a] = lent'[a] - lent[a]
    BY <1>2, PendingFacts DEF PendingTyped, hashes, books
  <2> QED BY <1>1, <2>1, CoveredLoan
<1>3. ASSUME NEW w \in Workers, Answered(w) \/ ReplyLost(w)
      PROVE  Covered'
  BY <1>1, <1>3, CoveredScript DEF Answered, ReplyLost
<1>4. ASSUME NEW w \in Workers,
             \/ \E l \in Tiers, n \in Costs, id \in Ids : CheckStart(w, l, n, id)
             \/ \E op \in {"settle", "settleIO"}, id \in Ids, n \in Actuals :
                  CloseStart(w, op, id, n)
             \/ \E id \in Ids : CloseStart(w, "refund", id, Zero)
             \/ \E l \in Tiers, s \in BorrowSpecs : BorrowStart(w, l, s)
             \/ \E l \in Tiers, n \in Returns : ReturnStart(w, l, n)
             \/ Lookup(w) \/ RequestLost(w) \/ GiveUp(w)
      PROVE  UNCHANGED <<hashes, books>>
  BY <1>4 DEF CheckStart, CloseStart, BorrowStart, ReturnStart, Lookup, RequestLost, GiveUp
<1>5. (\E id \in Ids : CheckRefused(id)) \/ UNCHANGED vars => UNCHANGED <<hashes, books>>
  BY DEF CheckRefused, vars
<1>6. CASE Tick
  BY <1>1, <1>6, CoveredTick
<1> QED BY <1>2, <1>3, <1>4, <1>5, <1>6 DEF Next

\* The claim on one axis.
KeptOn(a) ==
  \/ bucket[a].last = 0
  \/ \E l \in Tiers :
       /\ a \in UsedAxes(Split(l))
       /\ bucket[a].tokens + (spent[a] + leaked[a]) * Period >= l[a] * Period

\* A script that moves the bucket of an axis leaves a full bucket of its tier, or
\* charges what is missing.
LEMMA KeptStep ==
  ASSUME TInv, NEW a \in Axes, KeptOn(a), NEW d \in [Axes -> Int], Charges(d),
         spent[a] \in Nat, spent'[a] \in Nat
  PROVE  KeptOn(a)'
<1> DEFINE s == spent[a] + leaked[a]
           t == spent'[a] + leaked'[a]
           b == bucket[a]
           c == bucket'[a]
<1>1. s \in Nat /\ t \in Nat /\ d[a] \in Int /\ t >= s + d[a]
  <2>1. leaked[a] \in Nat /\ leaked'[a] \in Nat /\ spent'[a] + leaked'[a] >= spent[a] + leaked[a] + d[a]
    BY TypeFacts DEF Charges, Amount
  <2> QED BY <2>1
<1>2. b \in BucketType /\ b.tokens \in Nat /\ c \in BucketType /\ c.tokens \in Nat
  BY TypeFacts DEF Charges, Moves, BucketsOK, BucketType
<1>3. AxisMoves(a, d[a])
  BY DEF Charges, Moves
<1>4. KeptOn(a)' <=> \/ c.last = 0
                     \/ \E l \in Tiers : /\ a \in UsedAxes(Split(l))
                                         /\ c.tokens + t * Period >= l[a] * Period
  BY DEF KeptOn
<1>5. /\ s * Period \in Nat /\ t * Period \in Nat /\ d[a] * Period \in Int
      /\ t * Period >= s * Period + d[a] * Period
  <2> HIDE DEF s, t
  <2>1. s * Period \in Nat /\ t * Period \in Nat /\ d[a] * Period \in Int
    BY <1>1, PeriodAssumption, TimesMonotone
  <2>2. (t - (s + d[a])) * Period \in Nat
    BY <1>1, PeriodAssumption, TimesMonotone
  <2>3. (t - (s + d[a])) * Period = t * Period - (s * Period + d[a] * Period)
    BY <1>1, PeriodAssumption
  <2> QED BY <2>1, <2>2, <2>3
<1> DEFINE x == s * Period
           y == t * Period
           z == d[a] * Period
<1>6. KeptOn(a) <=> \/ b.last = 0
                    \/ \E l \in Tiers : /\ a \in UsedAxes(Split(l))
                                        /\ b.tokens + x >= l[a] * Period
  BY DEF KeptOn
<1>7. \A l \in Tiers : l[a] * Period \in Nat
  BY TierFacts, PeriodAssumption, TimesMonotone
<1>8. CASE c = b /\ d[a] = 0
  <2>1. y >= x
    <3>1. z = 0
      BY <1>8, PeriodAssumption
    <3> HIDE DEF x, y, z
    <3> QED BY <1>5, <3>1 DEF x, y, z
  <2> HIDE DEF s, t, b, c
  <2>2. ASSUME NEW l \in Tiers, b.tokens + x >= l[a] * Period
        PROVE  c.tokens + y >= l[a] * Period
    <3> DEFINE f == l[a] * Period
    <3>1. f \in Nat /\ b.tokens + x >= f /\ c.tokens = b.tokens /\ b.tokens \in Nat
      BY <1>2, <1>7, <1>8, <2>2
    <3> HIDE DEF f, x, y
    <3>2. c.tokens + y >= f
      BY <1>5, <2>1, <3>1 DEF x, y
    <3> QED BY <3>2 DEF f
  <2>3. c.last = b.last
    BY <1>8
  <2> QED BY <1>4, <1>6, <2>2, <2>3
<1>9. CASE \E l \in Tiers : /\ a \in UsedAxes(Split(l))
                            /\ LuaStep(b, c, MaxCap[a], l[a], clock, d[a])
  <2>1. PICK l \in Tiers : /\ a \in UsedAxes(Split(l))
                           /\ LuaStep(b, c, MaxCap[a], l[a], clock, d[a])
    BY <1>9
  <2> DEFINE f == l[a] * Period
  <2>2. \/ f <= c.tokens
        \/ f <= c.tokens + z
        \/ b.last # 0 /\ b.tokens <= c.tokens + z
    BY <2>1 DEF LuaStep
  <2>3. f \in Nat
    BY <1>7
  <2> HIDE DEF s, t, b, c
  <2>4. CASE f <= c.tokens \/ f <= c.tokens + z
    <3>1. c.tokens + y >= f
      <4> HIDE DEF f, x, y, z
      <4> QED BY <1>2, <1>5, <2>3, <2>4 DEF x, y, z
    <3> QED BY <1>4, <2>1, <3>1
  <2>5. CASE b.last # 0 /\ b.tokens <= c.tokens + z
    <3>1. PICK k \in Tiers : a \in UsedAxes(Split(k)) /\ b.tokens + x >= k[a] * Period
      BY <1>6, <2>5
    <3> DEFINE g == k[a] * Period
    <3>2. g \in Nat /\ b.tokens + x >= g
      BY <1>7, <3>1
    <3>3. c.tokens + y >= g
      <4> HIDE DEF g, x, y, z
      <4> QED BY <1>2, <1>5, <2>5, <3>2 DEF x, y, z
    <3> QED BY <1>4, <3>1, <3>3
  <2> QED BY <2>2, <2>4, <2>5
<1> QED BY <1>3, <1>8, <1>9 DEF AxisMoves

\* What is covered is not negative.
LEMMA CoveredCharge ==
  ASSUME TInv, Covered, NEW a \in Axes
  PROVE  spent[a] \in Nat
  BY PendingFacts DEF PendingTyped, Covered

\* In every reachable state a token missing from a bucket that was used is charged
\* to a reservation, on loan, or was debited by a script whose reply was lost:
\* denials, errors, retries and expiries keep nothing beyond that.
THEOREM NoTokenLostHolds == Spec => []NoTokenLost
<1> DEFINE I == TInv /\ IdInv /\ Covered /\ NoTokenLost
<1>1. Init => I
  <2> SUFFICES ASSUME Init PROVE Covered /\ NoTokenLost
    BY TInvInit, IdInvInit
  <2>1. NoTokenLost
    BY DEF Init, NoTokenLost, Cold
  <2>2. ASSUME NEW a \in Axes PROVE lent[a] + Reserved(a) <= spent[a]
    <3>1. \A id \in Ids : Pending(a)[id] = 0
      BY DEF Init, Pending
    <3>2. Reserved(a) = 0
      BY <3>1, RedisAssumption, SumZero DEF Reserved
    <3>3. lent[a] = 0 /\ spent[a] = 0
      BY DEF Init, Zero
    <3> QED BY <3>2, <3>3
  <2> QED BY <2>1, <2>2 DEF Covered
<1>2. I /\ [Next]_vars => I'
  <2> SUFFICES ASSUME I, [Next]_vars PROVE NoTokenLost'
    BY TInvStep, IdInvStep, CoveredStep
  <2>1. TInv' /\ Covered'
    BY TInvStep, CoveredStep
  <2>2. \A a \in Axes : KeptOn(a)
    BY DEF NoTokenLost, KeptOn
  <2>3. \A a \in Axes : spent[a] \in Nat
    BY CoveredCharge
  <2>4. \A a \in Axes : spent'[a] \in Nat
    BY <2>1, PendingFactsNext DEF PendingTyped, Covered
  <2>5. CASE Tick
    BY <2>5 DEF Tick, NoTokenLost, books
  <2>6. CASE \E d \in [Axes -> Int] : Charges(d)
    <3>1. \A a \in Axes : KeptOn(a)'
      BY <2>2, <2>3, <2>4, <2>6, KeptStep
    <3> QED BY <3>1 DEF NoTokenLost, KeptOn
  <2> QED BY <2>5, <2>6, StepCharges
<1>3. I => NoTokenLost
  OBVIOUS
<1> QED BY <1>1, <1>2, <1>3, PTL DEF Spec
=============================================================================
