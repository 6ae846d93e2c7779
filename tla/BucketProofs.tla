---------------------------- MODULE BucketProofs ----------------------------
(***************************************************************************)
(* Lemmas about the token bucket and the store's operators, for every      *)
(* bucket, budget, time and amount: each operator leaves a bucket that,    *)
(* with what the callers are charged for it, is within what the old bucket *)
(* holds when it is refilled at the top rate (AxisStep), and with that     *)
(* charge lacks nothing of the old one but what exceeds the budget (Keeps).*)
(* The wait RetryAfter reports is the least that will do (RetryExact).     *)
(***************************************************************************)
EXTENDS StoreOps, TLAPS

BucketType == [tokens : Nat, last : Nat]

\* c is what an operation at time `now' may leave of bucket b when the callers
\* are charged d tokens for it: M bounds the budget of the axis.
AxisStep(b, c, M, now, d) ==
  /\ c \in BucketType
  /\ c.last = now
  /\ c.tokens <= M * Period
  /\ c.tokens + d * Period <= Refill(b, M, now).tokens

\* Multiplication of naturals respects order.
LEMMA TimesMonotone ==
  ASSUME NEW x \in Nat, NEW y \in Nat, NEW z \in Nat, x <= y
  PROVE  /\ x * z \in Nat
         /\ x * z <= y * z
         /\ z * x <= z * y
  BY SMT

\* What a refill returns: a bucket dated now, within the top budget, holding no
\* more than a refill at the top rate would give it.
LEMMA RefillFacts ==
  ASSUME NEW M \in Nat, NEW cap \in Nat, cap <= M,
         NEW b \in BucketType, b.tokens <= M * Period,
         NEW now \in Nat \ {0}
  PROVE  /\ Refill(b, cap, now) \in BucketType
         /\ Refill(b, cap, now).last = now
         /\ Refill(b, cap, now).tokens <= M * Period
         /\ Refill(b, cap, now).tokens <= Refill(b, M, now).tokens
         /\ b.last <= now \/ cap = M => Refill(b, cap, now).tokens <= cap * Period
<1>1. Period \in Nat /\ cap * Period \in Nat /\ cap * Period <= M * Period
  BY PeriodAssumption, TimesMonotone
<1>2. CASE cap = 0
  <2>1. Refill(b, M, now).tokens \in Nat
    <3>1. CASE now >= b.last
      <4>1. (now - b.last) \in Nat /\ (now - b.last) * M \in Nat
        BY <3>1, TimesMonotone DEF BucketType
      <4> QED BY <4>1, <1>1 DEF Refill, Lesser, BucketType
    <3> QED BY <3>1, <1>1 DEF Refill, BucketType
  <2> QED BY <2>1, <1>2, <1>1 DEF Refill, BucketType
<1>3. CASE cap > 0 /\ now < b.last
  BY <1>3, <1>1 DEF Refill, BucketType
<1>4. CASE cap > 0 /\ b.last = 0
  BY <1>4, <1>1 DEF Refill, BucketType
<1>5. CASE cap > 0 /\ b.last # 0 /\ b.last <= now
  <2>1. /\ (now - b.last) \in Nat
        /\ (now - b.last) * cap \in Nat
        /\ (now - b.last) * cap <= (now - b.last) * M
    BY <1>5, TimesMonotone DEF BucketType
  <2> QED BY <2>1, <1>5, <1>1 DEF Refill, Lesser, BucketType
<1> QED BY <1>2, <1>3, <1>4, <1>5 DEF BucketType

\* A bucket saved at time `now' is what a refill at the same time makes of it.
LEMMA RefillAtOnce ==
  ASSUME NEW M \in Nat, NEW b \in BucketType, b.tokens <= M * Period,
         b.last \in Nat \ {0}
  PROVE  Refill(b, M, b.last).tokens = b.tokens
<1>1. M * Period \in Nat /\ (b.last - b.last) * M = 0
  BY PeriodAssumption, TimesMonotone DEF BucketType
<1> QED BY <1>1, PeriodAssumption DEF Refill, Lesser, BucketType

\* Loading a bucket charges nobody and adds nothing.
LEMMA LoadStep ==
  ASSUME NEW M \in Nat, NEW cap \in Nat, cap <= M,
         NEW b \in BucketType, b.tokens <= M * Period,
         NEW now \in Nat \ {0}
  PROVE  AxisStep(b, Refill(b, cap, now), M, now, 0)
<1>1. 0 * Period = 0
  BY PeriodAssumption
<1> QED BY RefillFacts, <1>1 DEF AxisStep, BucketType

\* Refilling twice is allowed wherever refilling once is.
LEMMA ReloadStep ==
  ASSUME NEW M \in Nat, NEW cap \in Nat, cap <= M,
         NEW b \in BucketType, b.tokens <= M * Period,
         NEW now \in Nat \ {0}
  PROVE  AxisStep(b, Refill(Refill(b, cap, now), cap, now), M, now, 0)
<1> DEFINE r == Refill(b, cap, now)
           s == Refill(r, cap, now)
<1>1. /\ r \in BucketType /\ r.last = now /\ r.tokens <= M * Period
      /\ r.tokens <= Refill(b, M, now).tokens
  BY RefillFacts
<1>2. /\ s \in BucketType /\ s.last = now /\ s.tokens <= M * Period
      /\ s.tokens <= Refill(r, M, now).tokens
  BY <1>1, RefillFacts
<1>3. Refill(r, M, now).tokens = r.tokens
  BY <1>1, RefillAtOnce
<1>4. Refill(b, M, now) \in BucketType
  BY RefillFacts
<1>5. 0 * Period = 0
  BY PeriodAssumption
<1> HIDE DEF r, s
<1>6. AxisStep(b, s, M, now, 0)
  BY <1>1, <1>2, <1>3, <1>4, <1>5 DEF AxisStep, BucketType
<1> QED BY <1>6 DEF r, s

\* A granted cost is debited in full.
LEMMA ConsumeStep ==
  ASSUME NEW M \in Nat, NEW cap \in Nat, cap <= M,
         NEW b \in BucketType, b.tokens <= M * Period,
         NEW now \in Nat \ {0}, NEW cost \in Int,
         CanConsume(Refill(Refill(b, cap, now), cap, now), cap, NonNeg(cost))
  PROVE  AxisStep(b, TryConsume(Refill(b, cap, now), cap, now, cost), M, now, NonNeg(cost))
<1> DEFINE s == Refill(Refill(b, cap, now), cap, now)
           t == TryConsume(Refill(b, cap, now), cap, now, cost)
<1>1. AxisStep(b, s, M, now, 0) /\ Refill(b, M, now) \in BucketType
  BY ReloadStep, RefillFacts
<1>2. NonNeg(cost) \in Nat /\ NonNeg(cost) * Period \in Nat
  BY PeriodAssumption, TimesMonotone DEF NonNeg
<1>3. t = [s EXCEPT !.tokens = s.tokens - NonNeg(cost) * Period]
  BY DEF TryConsume
<1>4. NonNeg(cost) * Period <= s.tokens
  BY DEF CanConsume
<1>5. 0 * Period = 0 /\ M * Period \in Nat
  BY PeriodAssumption, TimesMonotone
<1> HIDE DEF s, t
<1>6. s \in BucketType /\ s.last = now /\ s.tokens <= M * Period
      /\ s.tokens <= Refill(b, M, now).tokens
  BY <1>1, <1>5 DEF AxisStep, BucketType
<1>7. t \in BucketType /\ t.last = now /\ t.tokens = s.tokens - NonNeg(cost) * Period
  BY <1>2, <1>3, <1>4, <1>6 DEF BucketType
<1>8. AxisStep(b, t, M, now, NonNeg(cost))
  BY <1>1, <1>2, <1>5, <1>6, <1>7 DEF AxisStep, BucketType
<1> QED BY <1>8 DEF t

\* A credit gives back at most its amount.
LEMMA CreditStep ==
  ASSUME NEW M \in Nat, NEW cap \in Nat, cap <= M,
         NEW b \in BucketType, b.tokens <= M * Period,
         NEW now \in Nat \ {0}, NEW amount \in Int
  PROVE  AxisStep(b, Credit(Refill(b, cap, now), cap, now, amount), M, now, -NonNeg(amount))
<1> DEFINE s == Refill(Refill(b, cap, now), cap, now)
           t == Credit(Refill(b, cap, now), cap, now, amount)
<1>1. AxisStep(b, s, M, now, 0) /\ Refill(b, M, now) \in BucketType
  BY ReloadStep, RefillFacts
<1>2. cap * Period \in Nat /\ cap * Period <= M * Period /\ 0 * Period = 0
  BY PeriodAssumption, TimesMonotone
<1>3. t = IF amount <= 0 THEN s
          ELSE [s EXCEPT !.tokens = Lesser(cap * Period, s.tokens + amount * Period)]
  BY DEF Credit
<1> HIDE DEF s, t
<1>4. s \in BucketType /\ s.last = now /\ s.tokens <= M * Period
      /\ s.tokens <= Refill(b, M, now).tokens
  BY <1>1, <1>2 DEF AxisStep, BucketType
<1>5. CASE amount <= 0
  <2>1. t = s /\ (-NonNeg(amount)) * Period = 0
    BY <1>3, <1>5, PeriodAssumption DEF NonNeg
  <2> QED BY <2>1, <1>1, <1>4 DEF AxisStep, BucketType, t
<1>6. CASE amount > 0
  <2> DEFINE d == -NonNeg(amount)
             p == amount * Period
  <2>1. p \in Nat /\ d \in Int /\ d * Period = -p
    BY <1>6, PeriodAssumption, TimesMonotone DEF NonNeg
  <2>2. /\ t \in BucketType /\ t.last = now
        /\ t.tokens = Lesser(cap * Period, s.tokens + p)
    BY <1>2, <1>3, <1>4, <1>6, <2>1 DEF BucketType, Lesser
  <2> HIDE DEF d, p
  <2>3. t.tokens <= M * Period /\ t.tokens + d * Period <= s.tokens
    BY <1>2, <1>4, <2>1, <2>2, PeriodAssumption DEF BucketType, Lesser
  <2>4. AxisStep(b, t, M, now, d)
    BY <1>1, <1>4, <2>1, <2>2, <2>3, PeriodAssumption DEF AxisStep, BucketType
  <2> QED BY <2>4 DEF t, d
<1> QED BY <1>5, <1>6

\* The whole tokens of a bucket are in it.
LEMMA WholeTokens ==
  ASSUME NEW b \in BucketType
  PROVE  RemainingInt(b) \in Nat /\ RemainingInt(b) * Period <= b.tokens
  BY PeriodAssumption, SMT DEF RemainingInt, BucketType

\* Amounts compare as the units they stand for do.
LEMMA TimesCancel ==
  ASSUME NEW x \in Nat, NEW y \in Nat, x * Period <= y * Period
  PROVE  x <= y
  BY PeriodAssumption, SMT

\* What is debited beyond a reservation is in the bucket, in whole tokens.
LEMMA DebitStep ==
  ASSUME NEW M \in Nat, NEW cap \in Nat, cap <= M,
         NEW b \in BucketType, b.tokens <= M * Period,
         NEW now \in Nat \ {0}, NEW amount \in Nat
  PROVE  /\ Debited(Refill(b, cap, now), cap, now, amount) \in 0..amount
         /\ AxisStep(b, DebitFloor(Refill(b, cap, now), cap, now, amount), M, now,
                     Debited(Refill(b, cap, now), cap, now, amount))
<1> DEFINE s == Refill(Refill(b, cap, now), cap, now)
           t == DebitFloor(Refill(b, cap, now), cap, now, amount)
           d == Debited(Refill(b, cap, now), cap, now, amount)
<1>1. AxisStep(b, s, M, now, 0) /\ Refill(b, M, now) \in BucketType
  BY ReloadStep, RefillFacts
<1>2. 0 * Period = 0 /\ M * Period \in Nat
  BY PeriodAssumption, TimesMonotone
<1>3. t = [s EXCEPT !.tokens = s.tokens - d * Period] /\ d = Lesser(amount, RemainingInt(s))
  BY DEF DebitFloor, Debited, NonNeg
<1> HIDE DEF s, t, d
<1>4. s \in BucketType /\ s.last = now /\ s.tokens <= M * Period
      /\ s.tokens <= Refill(b, M, now).tokens
  BY <1>1, <1>2 DEF AxisStep, BucketType
<1>5. RemainingInt(s) \in Nat /\ RemainingInt(s) * Period <= s.tokens
  BY <1>4, WholeTokens
<1>6. d \in 0..amount /\ d \in Nat /\ d <= RemainingInt(s)
  BY <1>3, <1>5 DEF Lesser
<1>7. d * Period \in Nat /\ d * Period <= RemainingInt(s) * Period
  BY <1>5, <1>6, PeriodAssumption, TimesMonotone
<1>8. d * Period <= s.tokens
  BY <1>4, <1>5, <1>7, PeriodAssumption DEF BucketType
<1>9. t \in BucketType /\ t.last = now /\ t.tokens = s.tokens - d * Period
  BY <1>3, <1>4, <1>7, <1>8 DEF BucketType
<1>10. AxisStep(b, t, M, now, d)
  BY <1>1, <1>2, <1>4, <1>7, <1>9 DEF AxisStep, BucketType
<1> QED BY <1>6, <1>10 DEF t, d

\* A settlement moves the charge from the reserved amount to SettleCharge.
LEMMA SettleStep ==
  ASSUME NEW M \in Nat, NEW cap \in Nat, cap <= M,
         NEW b \in BucketType, b.tokens <= M * Period,
         NEW now \in Nat \ {0}, NEW reserved \in Nat, NEW actual \in Nat
  PROVE  /\ SettleCharge(b, cap, now, reserved, actual) \in 0..actual
         /\ AxisStep(b, SettleAxis(b, cap, now, reserved, actual), M, now,
                     SettleCharge(b, cap, now, reserved, actual) - reserved)
<1>1. CASE reserved > actual
  <2>1. AxisStep(b, Credit(Refill(b, cap, now), cap, now, reserved - actual), M, now,
                 -NonNeg(reserved - actual))
    BY <1>1, CreditStep
  <2>2. -NonNeg(reserved - actual) = actual - reserved
    BY <1>1 DEF NonNeg
  <2>3. SettleCharge(b, cap, now, reserved, actual) = actual
    BY <1>1 DEF SettleCharge
  <2>4. SettleAxis(b, cap, now, reserved, actual)
          = Credit(Refill(b, cap, now), cap, now, reserved - actual)
    BY <1>1 DEF SettleAxis
  <2> QED BY <2>1, <2>2, <2>3, <2>4
<1>2. CASE reserved < actual
  <2> DEFINE d == Debited(Refill(b, cap, now), cap, now, actual - reserved)
  <2>1. /\ d \in 0..(actual - reserved)
        /\ AxisStep(b, DebitFloor(Refill(b, cap, now), cap, now, actual - reserved),
                    M, now, d)
    BY <1>2, DebitStep
  <2>2. SettleCharge(b, cap, now, reserved, actual) = reserved + d
    BY <1>2 DEF SettleCharge
  <2>3. SettleAxis(b, cap, now, reserved, actual)
          = DebitFloor(Refill(b, cap, now), cap, now, actual - reserved)
    BY <1>2 DEF SettleAxis
  <2> HIDE DEF d
  <2>4. (reserved + d) - reserved = d /\ reserved + d \in 0..actual
    BY <2>1, <1>2
  <2> QED BY <2>1, <2>2, <2>3, <2>4
<1>3. CASE reserved = actual
  <2>1. /\ SettleCharge(b, cap, now, reserved, actual) = actual
        /\ SettleAxis(b, cap, now, reserved, actual) = Refill(b, cap, now)
        /\ actual - reserved = 0
    BY <1>3 DEF SettleCharge, SettleAxis
  <2> QED BY <2>1, LoadStep
<1> QED BY <1>1, <1>2, <1>3

\* A loan of whole tokens of a bucket within its budget is debited in full: this
\* is where Borrow, which drops TryConsume's verdict, needs the budget bound.
LEMMA LoanStep ==
  ASSUME NEW M \in Nat, NEW cap \in Nat, cap <= M,
         NEW b \in BucketType, b.tokens <= M * Period,
         NEW now \in Nat \ {0}, b.last <= now \/ cap = M,
         NEW got \in Nat, got <= RemainingInt(Refill(b, cap, now))
  PROVE  AxisStep(b, TryConsume(Refill(b, cap, now), cap, now, got), M, now, got)
<1> DEFINE r == Refill(b, cap, now)
<1>1. r \in BucketType /\ r.last = now /\ r.tokens <= cap * Period
  BY RefillFacts
<1>2. Refill(r, cap, now).tokens = r.tokens
  BY <1>1, RefillAtOnce
<1> HIDE DEF r
<1>3. got * Period \in Nat /\ got * Period <= r.tokens
  <2>1. RemainingInt(r) \in Nat /\ RemainingInt(r) * Period <= r.tokens
    BY <1>1, WholeTokens
  <2>2. got * Period \in Nat /\ got * Period <= RemainingInt(r) * Period
    BY <2>1, PeriodAssumption, TimesMonotone DEF r
  <2> QED BY <2>1, <2>2, <1>1, PeriodAssumption DEF BucketType
<1>4. got <= cap
  <2>1. got * Period <= cap * Period
    BY <1>1, <1>3, PeriodAssumption DEF BucketType
  <2> QED BY <2>1, TimesCancel
<1>5. NonNeg(got) = got
  BY DEF NonNeg
<1>6. CanConsume(Refill(r, cap, now), cap, NonNeg(got))
  BY <1>2, <1>3, <1>4, <1>5 DEF CanConsume
<1> QED BY <1>5, <1>6, ConsumeStep DEF r

\* The part of AxisStep that is about the type of the new bucket alone.
AxisType(c, M, now) == c \in BucketType /\ c.last = now /\ c.tokens <= M * Period

\* The axes of a mode are axes.
LEMMA AxesInUse ==
  ASSUME NEW split
  PROVE  TokenAxes(split) \in SUBSET Axes /\ UsedAxes(split) \in SUBSET Axes
  BY DEF TokenAxes, UsedAxes, Axes

\* One tick refills at most MaxCap units; a step back refills nothing.
LEMMA RefillOverTime ==
  ASSUME NEW M \in Nat, NEW b \in BucketType, b.tokens <= M * Period,
         NEW now \in Nat \ {0}
  PROVE  /\ Refill(b, M, now).tokens \in Nat
         /\ Refill(b, M, now + 1).tokens <= Refill(b, M, now).tokens + M
         /\ now > 1 => Refill(b, M, now - 1).tokens <= Refill(b, M, now).tokens
<1>1. Period \in Nat /\ M * Period \in Nat
  BY PeriodAssumption, TimesMonotone
<1>2. Refill(b, M, now).tokens \in Nat
  BY RefillFacts DEF BucketType
<1>3. Refill(b, M, now + 1).tokens <= Refill(b, M, now).tokens + M
  <2>1. CASE M = 0
    BY <2>1, <1>2, <1>1 DEF Refill
  <2>2. CASE M > 0 /\ b.last = 0
    BY <2>2, <1>1 DEF Refill
  <2>3. CASE M > 0 /\ b.last # 0 /\ now < b.last
    <3>1. CASE now + 1 < b.last
      BY <3>1, <2>3, <1>1 DEF Refill, BucketType
    <3>2. CASE now + 1 = b.last
      <4>1. Refill(b, M, now + 1).tokens = b.tokens
        BY <3>2, RefillAtOnce
      <4> QED BY <4>1, <2>3, <1>1 DEF Refill, BucketType
    <3> QED BY <3>1, <3>2, <2>3 DEF BucketType
  <2>4. CASE M > 0 /\ b.last # 0 /\ b.last <= now
    <3>1. (now + 1 - b.last) * M = (now - b.last) * M + M /\ (now - b.last) * M \in Nat
      BY <2>4, TimesMonotone DEF BucketType
    <3> QED BY <3>1, <2>4, <1>1 DEF Refill, Lesser, BucketType
  <2> QED BY <2>1, <2>2, <2>3, <2>4 DEF BucketType
<1>4. ASSUME now > 1
      PROVE  Refill(b, M, now - 1).tokens <= Refill(b, M, now).tokens
  <2>1. CASE M = 0
    BY <2>1, <1>2, <1>1 DEF Refill
  <2>2. CASE M > 0 /\ b.last = 0
    BY <2>2, <1>1 DEF Refill
  <2>3. CASE M > 0 /\ b.last # 0 /\ now < b.last
    BY <2>3, <1>1 DEF Refill, BucketType
  <2>4. CASE M > 0 /\ b.last # 0 /\ b.last = now
    <3>1. (now - b.last) * M = 0
      BY <2>4
    <3> QED BY <3>1, <2>4, <1>1 DEF Refill, Lesser, BucketType
  <2>5. CASE M > 0 /\ b.last # 0 /\ b.last < now
    <3>1. (now - b.last) * M = (now - 1 - b.last) * M + M /\ (now - 1 - b.last) * M \in Nat
      BY <2>5, <1>4, TimesMonotone DEF BucketType
    <3> QED BY <3>1, <2>5, <1>4, <1>1 DEF Refill, Lesser, BucketType
  <2> QED BY <2>1, <2>2, <2>3, <2>4, <2>5 DEF BucketType
<1> QED BY <1>2, <1>3, <1>4

\* Among the axes in use one comes first in the order.
LEMMA FirstExists ==
  ASSUME NEW split \in BOOLEAN, NEW axes \in SUBSET UsedAxes(split), axes # {}
  PROVE  \E n \in DOMAIN AxisOrder(split) :
           /\ AxisOrder(split)[n] \in axes
           /\ \A m \in 1..(n - 1) : AxisOrder(split)[m] \notin axes
<1> DEFINE order == AxisOrder(split)
<1> SUFFICES \E n \in DOMAIN order : order[n] \in axes /\ \A m \in 1..(n - 1) : order[m] \notin axes
  OBVIOUS
<1>1. CASE split
  <2>1. order = <<"rpm", "itpm", "otpm">> /\ axes \subseteq {"rpm", "itpm", "otpm"}
    BY <1>1 DEF AxisOrder, UsedAxes, TokenAxes
  <2>2. /\ DOMAIN order = 1..3
        /\ order[1] = "rpm" /\ order[2] = "itpm" /\ order[3] = "otpm"
    BY <2>1
  <2> HIDE DEF order
  <2>3. CASE "rpm" \in axes
    <3>1. 1 \in DOMAIN order /\ order[1] \in axes /\ 1..(1 - 1) = {}
      BY <2>2, <2>3
    <3> QED BY <3>1
  <2>4. CASE "rpm" \notin axes /\ "itpm" \in axes
    <3>1. 2 \in DOMAIN order /\ order[2] \in axes /\ 1..(2 - 1) = {1}
      BY <2>2, <2>4
    <3> QED BY <3>1, <2>2, <2>4
  <2>5. CASE "rpm" \notin axes /\ "itpm" \notin axes
    <3>1. "otpm" \in axes
      BY <2>1, <2>5
    <3>2. 3 \in DOMAIN order /\ order[3] \in axes /\ 1..(3 - 1) = {1, 2}
      BY <2>2, <3>1
    <3> QED BY <3>2, <2>2, <2>5
  <2> QED BY <2>3, <2>4, <2>5
<1>2. CASE ~split
  <2>1. order = <<"rpm", "tpm">> /\ axes \subseteq {"rpm", "tpm"}
    BY <1>2 DEF AxisOrder, UsedAxes, TokenAxes
  <2>2. DOMAIN order = 1..2 /\ order[1] = "rpm" /\ order[2] = "tpm"
    BY <2>1
  <2> HIDE DEF order
  <2>3. CASE "rpm" \in axes
    <3>1. 1 \in DOMAIN order /\ order[1] \in axes /\ 1..(1 - 1) = {}
      BY <2>2, <2>3
    <3> QED BY <3>1
  <2>4. CASE "rpm" \notin axes
    <3>1. "tpm" \in axes
      BY <2>1, <2>4
    <3>2. 2 \in DOMAIN order /\ order[2] \in axes /\ 1..(2 - 1) = {1}
      BY <2>2, <3>1
    <3> QED BY <3>2, <2>2, <2>4
  <2> QED BY <2>3, <2>4
<1> QED BY <1>1, <1>2

\* The first denying axis is one of them.
LEMMA FirstDenies ==
  ASSUME NEW split \in BOOLEAN, NEW axes \in SUBSET UsedAxes(split), axes # {}
  PROVE  FirstOf(split, axes) \in axes
BY FirstExists DEF FirstOf

\* The first of some axes is the first of any fewer it is among.
LEMMA FirstOfFewer ==
  ASSUME NEW split \in BOOLEAN, NEW axes \in SUBSET UsedAxes(split), axes # {},
         NEW few \in SUBSET axes, FirstOf(split, axes) \in few
  PROVE  FirstOf(split, few) = FirstOf(split, axes)
<1> DEFINE order == AxisOrder(split)
           First(n, s) == order[n] \in s /\ \A m \in 1..(n - 1) : order[m] \notin s
           i == CHOOSE n \in DOMAIN order : First(n, axes)
           j == CHOOSE n \in DOMAIN order : First(n, few)
<1>1. DOMAIN order \subseteq Nat \ {0}
  BY DEF AxisOrder
<1>2. FirstOf(split, axes) = order[i] /\ FirstOf(split, few) = order[j]
  BY DEF FirstOf
<1>3. i \in DOMAIN order /\ First(i, axes)
  BY FirstExists
<1>4. few \in SUBSET UsedAxes(split) /\ few # {}
  OBVIOUS
<1>5. j \in DOMAIN order /\ First(j, few)
  BY <1>4, FirstExists
<1> HIDE DEF i, j, order
<1>6. First(i, few)
  BY <1>2, <1>3
<1>7. i = j
  BY <1>1, <1>3, <1>5, <1>6
<1> QED BY <1>2, <1>7

\* A wait is a number of ticks.
LEMMA RetryType ==
  ASSUME NEW b \in BucketType, NEW cap \in Nat, NEW need \in Nat
  PROVE  RetryAfter(b, cap, need) \in Nat
<1>1. need * Period \in Nat /\ Period \in Nat
  BY PeriodAssumption, TimesMonotone
<1>2. CASE cap = 0
  BY <1>1, <1>2 DEF RetryAfter
<1>3. CASE cap > 0
  <2> DEFINE d == need * Period - b.tokens
  <2>1. d \in Int
    BY <1>1 DEF BucketType
  <2>2. RetryAfter(b, cap, need) = IF d <= 0 THEN 0 ELSE (d + cap - 1) \div cap
    BY <1>3 DEF RetryAfter
  <2> HIDE DEF d
  <2>3. d > 0 => (d + cap - 1) \div cap \in Nat
    BY <2>1, <1>3
  <2> QED BY <2>1, <2>2, <2>3
<1> QED BY <1>2, <1>3
\* On a clock that has not stepped back behind it, a bucket is within its budget
\* once it is refilled, and a second refill at the same time changes nothing.
LEMMA RefillTwice ==
  ASSUME NEW cap \in Nat, NEW b \in BucketType, NEW now \in Nat \ {0}, b.last <= now
  PROVE  /\ Refill(b, cap, now).tokens \in Nat
         /\ Refill(Refill(b, cap, now), cap, now).tokens = Refill(b, cap, now).tokens
<1> DEFINE r == Refill(b, cap, now)
<1>1. Period \in Nat /\ cap * Period \in Nat
  BY PeriodAssumption, TimesMonotone
<1>2. (now - b.last) \in Nat /\ (now - b.last) * cap \in Nat
  BY TimesMonotone DEF BucketType
<1>3. r \in BucketType /\ r.last = now /\ r.tokens <= cap * Period
  BY <1>1, <1>2 DEF Refill, Lesser, BucketType
<1> HIDE DEF r
<1>4. Refill(r, cap, now).tokens = r.tokens
  BY <1>3, RefillAtOnce
<1> QED BY <1>3, <1>4 DEF r, BucketType

\* Rounding up: the least number of steps of size cap that covers a deficit.
LEMMA LeastWait ==
  ASSUME NEW deficit \in Nat \ {0}, NEW cap \in Nat \ {0}
  PROVE  /\ (deficit + cap - 1) \div cap \in Nat \ {0}
         /\ ((deficit + cap - 1) \div cap) * cap >= deficit
         /\ ((deficit + cap - 1) \div cap - 1) * cap < deficit
<1> DEFINE n == deficit + cap - 1
           q == n \div cap
<1>1. n \in Nat /\ n >= cap
  OBVIOUS
<1>2. q \in Int /\ q * cap <= n /\ n < (q + 1) * cap
  <2> HIDE DEF n
  <2> QED BY <1>1
<1> HIDE DEF q
<1>3. (q + 1) * cap = q * cap + cap /\ (q - 1) * cap = q * cap - cap /\ q * cap \in Int
  BY <1>2
<1>4. q * cap >= deficit /\ (q - 1) * cap < deficit
  BY <1>2, <1>3
<1>5. q > 0
  <2>1. q <= 0 => q * cap <= 0
    BY <1>2
  <2> QED BY <1>2, <1>4, <2>1
<1> QED BY <1>2, <1>4, <1>5 DEF q

\* The wait of a bucket that cannot pay a cost within its budget: one tick
\* before it the bucket still cannot pay, and then it can.
LEMMA RetryExact ==
  ASSUME NEW cap \in Nat, NEW b \in BucketType, NEW now \in Nat \ {0}, b.last <= now,
         NEW need \in Nat, need <= cap,
         ~CanConsume(Refill(Refill(b, cap, now), cap, now), cap, need),
         NEW w, w = RetryAfter(Refill(Refill(b, cap, now), cap, now), cap, need)
  PROVE  /\ w \in Nat
         /\ CanConsume(Refill(Refill(b, cap, now + w), cap, now + w), cap, need)
         /\ ~CanConsume(Refill(Refill(b, cap, now + w - 1), cap, now + w - 1), cap, need)
<1> DEFINE r == Refill(Refill(b, cap, now), cap, now)
           p == need * Period
           f == cap * Period
           t == b.tokens + (now - b.last) * cap
<1>1. Period \in Nat /\ p \in Nat /\ f \in Nat /\ p <= f
  BY PeriodAssumption, TimesMonotone
<1>2. r.tokens = Refill(b, cap, now).tokens /\ r.tokens \in Nat
  BY RefillTwice
<1>3. r.tokens < p
  BY <1>1, <1>2 DEF CanConsume
<1>4. cap > 0
  BY <1>1, <1>2, <1>3, PeriodAssumption
<1>5. t \in Nat
  BY TimesMonotone DEF BucketType
<1>6. b.last # 0 /\ r.tokens = t
  <2>1. b.last = 0 => Refill(b, cap, now).tokens = f
    BY <1>4 DEF Refill
  <2>2. b.last # 0 => Refill(b, cap, now).tokens = Lesser(f, t)
    BY <1>4 DEF Refill, BucketType
  <2> HIDE DEF r, p, f, t
  <2> QED BY <1>1, <1>2, <1>3, <1>5, <2>1, <2>2 DEF Lesser
<1>7. w = (p - t + cap - 1) \div cap
  <2>1. w = IF p - r.tokens <= 0 THEN 0 ELSE (p - r.tokens + cap - 1) \div cap
    BY <1>4 DEF RetryAfter
  <2> HIDE DEF r, p, t
  <2> QED BY <1>1, <1>3, <1>5, <1>6, <2>1
<1>8. w \in Nat \ {0} /\ w * cap >= p - t /\ (w - 1) * cap < p - t
  <2> DEFINE deficit == p - t
  <2>1. deficit \in Nat \ {0}
    <3> HIDE DEF r, p, t
    <3> QED BY <1>1, <1>3, <1>5, <1>6
  <2> HIDE DEF p, t, deficit
  <2>2. /\ (deficit + cap - 1) \div cap \in Nat \ {0}
        /\ ((deficit + cap - 1) \div cap) * cap >= deficit
        /\ ((deficit + cap - 1) \div cap - 1) * cap < deficit
    BY <1>4, <2>1, LeastWait
  <2> QED BY <1>7, <2>2 DEF deficit
\* What the bucket holds any number of ticks later.
<1>9. ASSUME NEW n \in Nat
      PROVE  /\ Refill(Refill(b, cap, now + n), cap, now + n).tokens = Lesser(f, t + n * cap)
             /\ n * cap \in Nat
  <2>1. now + n \in Nat \ {0} /\ b.last <= now + n
    BY DEF BucketType
  <2>2. Refill(Refill(b, cap, now + n), cap, now + n).tokens = Refill(b, cap, now + n).tokens
    BY <2>1, RefillTwice
  <2>3. (now + n - b.last) * cap = (now - b.last) * cap + n * cap /\ n * cap \in Nat
    BY TimesMonotone DEF BucketType
  <2>4. Refill(b, cap, now + n).tokens = Lesser(f, b.tokens + (now + n - b.last) * cap)
    BY <1>4, <1>6, <2>1 DEF Refill, BucketType
  <2>5. b.tokens + (now + n - b.last) * cap = t + n * cap
    BY <2>3, TimesMonotone DEF BucketType
  <2> QED BY <2>2, <2>3, <2>4, <2>5
<1>10. CanConsume(Refill(Refill(b, cap, now + w), cap, now + w), cap, need)
  <2>1. /\ Refill(Refill(b, cap, now + w), cap, now + w).tokens = Lesser(f, t + w * cap)
        /\ w * cap \in Nat
    BY <1>8, <1>9
  <2>2. p <= Lesser(f, t + w * cap)
    <3> HIDE DEF p, f, t
    <3> QED BY <1>1, <1>5, <1>8, <2>1 DEF Lesser
  <2> QED BY <2>1, <2>2 DEF CanConsume
<1>11. ~CanConsume(Refill(Refill(b, cap, now + w - 1), cap, now + w - 1), cap, need)
  <2>1. w - 1 \in Nat /\ now + (w - 1) = now + w - 1
    BY <1>8
  <2>2. /\ Refill(Refill(b, cap, now + (w - 1)), cap, now + (w - 1)).tokens
             = Lesser(f, t + (w - 1) * cap)
        /\ (w - 1) * cap \in Nat
    BY <1>9, <2>1
  <2>3. ~(p <= Lesser(f, t + (w - 1) * cap))
    <3> HIDE DEF p, f, t
    <3> QED BY <1>1, <1>5, <1>8, <2>2 DEF Lesser
  <2> QED BY <2>1, <2>2, <2>3 DEF CanConsume
<1> QED BY <1>8, <1>10, <1>11

-----------------------------------------------------------------------------
(* What an operation keeps. *)

\* c, left of bucket b when the callers are charged d tokens for it, holds a full
\* budget, or does with that charge, or lost nothing but the charge.
Keeps(b, c, cap, d) ==
  \/ cap * Period <= c.tokens
  \/ cap * Period <= c.tokens + d * Period
  \/ b.last # 0 /\ b.tokens <= c.tokens + d * Period

\* A refill takes nothing away but what is above the budget.
LEMMA RefillKeeps ==
  ASSUME NEW cap \in Nat, NEW b \in BucketType, NEW now \in Nat \ {0}
  PROVE  /\ Refill(b, cap, now) \in BucketType
         /\ Refill(b, cap, now).last = now
         /\ \/ cap * Period <= Refill(b, cap, now).tokens
            \/ b.last # 0 /\ b.tokens <= Refill(b, cap, now).tokens
<1>1. Period \in Nat /\ cap * Period \in Nat
  BY PeriodAssumption, TimesMonotone
<1>2. CASE cap = 0
  <2>1. cap * Period = 0
    BY <1>1, <1>2
  <2> QED BY <1>2, <2>1 DEF Refill, BucketType
<1>3. CASE cap > 0 /\ (now < b.last \/ b.last = 0)
  BY <1>1, <1>3 DEF Refill, BucketType
<1>4. CASE cap > 0 /\ b.last # 0 /\ b.last <= now
  <2>1. (now - b.last) * cap \in Nat
    BY <1>4, TimesMonotone DEF BucketType
  <2> QED BY <1>1, <1>4, <2>1 DEF Refill, Lesser, BucketType
<1> QED BY <1>2, <1>3, <1>4 DEF BucketType

\* Neither does refilling twice.
LEMMA ReloadKeeps ==
  ASSUME NEW cap \in Nat, NEW b \in BucketType, NEW now \in Nat \ {0},
         NEW s, s = Refill(Refill(b, cap, now), cap, now)
  PROVE  /\ s \in BucketType
         /\ cap * Period <= s.tokens \/ (b.last # 0 /\ b.tokens <= s.tokens)
<1> DEFINE r == Refill(b, cap, now)
           f == cap * Period
<1>1. f \in Nat
  BY PeriodAssumption, TimesMonotone
<1>2. /\ r \in BucketType /\ r.last = now
      /\ f <= r.tokens \/ (b.last # 0 /\ b.tokens <= r.tokens)
  BY RefillKeeps
<1> HIDE DEF r
<1>3. /\ s \in BucketType
      /\ f <= s.tokens \/ (r.last # 0 /\ r.tokens <= s.tokens)
  BY <1>2, RefillKeeps DEF r
<1> HIDE DEF f
<1>4. r.tokens \in Nat /\ s.tokens \in Nat /\ b.tokens \in Nat
  BY <1>2, <1>3 DEF BucketType
<1>5. f <= s.tokens \/ (b.last # 0 /\ b.tokens <= s.tokens)
  BY <1>1, <1>2, <1>3, <1>4
<1> QED BY <1>3, <1>5 DEF f

\* A debit keeps the rest, whether it is granted or not.
LEMMA ConsumeKeeps ==
  ASSUME NEW cap \in Nat, NEW b \in BucketType, NEW now \in Nat \ {0}, NEW cost \in Int
  PROVE  Keeps(b, TryConsume(Refill(b, cap, now), cap, now, cost), cap, NonNeg(cost))
<1> DEFINE s == Refill(Refill(b, cap, now), cap, now)
           t == TryConsume(Refill(b, cap, now), cap, now, cost)
           f == cap * Period
           p == NonNeg(cost) * Period
<1>1. f \in Nat /\ p \in Nat
  BY PeriodAssumption, TimesMonotone DEF NonNeg
<1>2. s \in BucketType /\ (f <= s.tokens \/ (b.last # 0 /\ b.tokens <= s.tokens))
  BY ReloadKeeps
<1>3. t = [s EXCEPT !.tokens = s.tokens - p] \/ t = s
  BY DEF TryConsume
<1> HIDE DEF s, t, f, p
<1>4. s.tokens \in Nat /\ b.tokens \in Nat /\ (t.tokens = s.tokens - p \/ t.tokens = s.tokens)
  BY <1>2, <1>3 DEF BucketType
<1>5. f <= t.tokens + p \/ (b.last # 0 /\ b.tokens <= t.tokens + p)
  BY <1>1, <1>2, <1>4
<1> QED BY <1>5 DEF Keeps, t, f, p

\* A credit that does not fill the bucket is given in full.
LEMMA CreditKeeps ==
  ASSUME NEW cap \in Nat, NEW b \in BucketType, NEW now \in Nat \ {0}, NEW amount \in Int
  PROVE  Keeps(b, Credit(Refill(b, cap, now), cap, now, amount), cap, -NonNeg(amount))
<1> DEFINE s == Refill(Refill(b, cap, now), cap, now)
           t == Credit(Refill(b, cap, now), cap, now, amount)
           f == cap * Period
           p == NonNeg(amount) * Period
           q == (-NonNeg(amount)) * Period
<1>1. f \in Nat /\ p \in Nat /\ q = -p
  BY PeriodAssumption, TimesMonotone DEF NonNeg
<1>2. s \in BucketType /\ (f <= s.tokens \/ (b.last # 0 /\ b.tokens <= s.tokens))
  BY ReloadKeeps
<1>3. \/ t = s /\ p = 0
      \/ t = [s EXCEPT !.tokens = Lesser(f, s.tokens + p)]
  <2>1. CASE amount <= 0
    <3>1. NonNeg(amount) = 0
      BY <2>1 DEF NonNeg
    <3> QED BY <2>1, <3>1, PeriodAssumption DEF Credit
  <2>2. CASE amount > 0
    <3>1. NonNeg(amount) = amount
      BY <2>2 DEF NonNeg
    <3> QED BY <2>2, <3>1 DEF Credit
  <2> QED BY <2>1, <2>2
<1> HIDE DEF s, t, f, p, q
<1>4. /\ s.tokens \in Nat /\ b.tokens \in Nat
      /\ (t.tokens = s.tokens /\ p = 0) \/ t.tokens = Lesser(f, s.tokens + p)
  BY <1>2, <1>3 DEF BucketType
<1>5. f <= t.tokens \/ f <= t.tokens + q \/ (b.last # 0 /\ b.tokens <= t.tokens + q)
  BY <1>1, <1>2, <1>4 DEF Lesser
<1> QED BY <1>5 DEF Keeps, t, f, q

\* A settlement keeps what the charge it moves to does not account for.
LEMMA SettleKeeps ==
  ASSUME NEW cap \in Nat, NEW b \in BucketType, NEW now \in Nat \ {0},
         NEW reserved \in Nat, NEW actual \in Nat
  PROVE  Keeps(b, SettleAxis(b, cap, now, reserved, actual), cap,
               SettleCharge(b, cap, now, reserved, actual) - reserved)
<1>1. CASE reserved > actual
  <2>1. Keeps(b, Credit(Refill(b, cap, now), cap, now, reserved - actual), cap,
              -NonNeg(reserved - actual))
    BY <1>1, CreditKeeps
  <2>2. -NonNeg(reserved - actual) = actual - reserved
    BY <1>1 DEF NonNeg
  <2> QED BY <1>1, <2>1, <2>2 DEF SettleCharge, SettleAxis
<1>2. CASE reserved < actual
  <2> DEFINE s == Refill(Refill(b, cap, now), cap, now)
             t == DebitFloor(Refill(b, cap, now), cap, now, actual - reserved)
             d == Debited(Refill(b, cap, now), cap, now, actual - reserved)
             f == cap * Period
             p == d * Period
  <2>1. s \in BucketType /\ (f <= s.tokens \/ (b.last # 0 /\ b.tokens <= s.tokens))
    BY ReloadKeeps
  <2>2. t = [s EXCEPT !.tokens = s.tokens - p]
    BY DEF DebitFloor
  <2>3. d \in Nat /\ f \in Nat
    <3>1. d = Lesser(NonNeg(actual - reserved), RemainingInt(s))
      BY DEF Debited
    <3>2. RemainingInt(s) \in Nat /\ NonNeg(actual - reserved) \in Nat
      <4> HIDE DEF s
      <4> QED BY <1>2, <2>1, WholeTokens DEF NonNeg
    <3> HIDE DEF d, s
    <3> QED BY <3>1, <3>2, PeriodAssumption, TimesMonotone DEF Lesser
  <2>4. p \in Nat
    <3> HIDE DEF d
    <3> QED BY <2>3, PeriodAssumption, TimesMonotone
  <2>5. /\ SettleCharge(b, cap, now, reserved, actual) - reserved = d
        /\ SettleAxis(b, cap, now, reserved, actual) = t
    <3>1. /\ SettleCharge(b, cap, now, reserved, actual) = reserved + d
          /\ SettleAxis(b, cap, now, reserved, actual) = t
      BY <1>2 DEF SettleCharge, SettleAxis
    <3> HIDE DEF d, t
    <3> QED BY <2>3, <3>1
  <2> HIDE DEF s, t, f, p
  <2>6. s.tokens \in Nat /\ b.tokens \in Nat /\ t.tokens = s.tokens - p
    BY <2>1, <2>2 DEF BucketType
  <2>7. f <= t.tokens + p \/ (b.last # 0 /\ b.tokens <= t.tokens + p)
    BY <2>1, <2>3, <2>4, <2>6
  <2>8. Keeps(b, t, cap, d)
    <3> HIDE DEF d
    <3> QED BY <2>7 DEF Keeps, f, p
  <2> QED BY <2>5, <2>8
<1>3. CASE reserved = actual
  <2>1. /\ SettleCharge(b, cap, now, reserved, actual) - reserved = 0
        /\ SettleAxis(b, cap, now, reserved, actual) = Refill(b, cap, now)
    BY <1>3 DEF SettleCharge, SettleAxis
  <2>2. 0 * Period = 0
    BY PeriodAssumption
  <2>3. /\ Refill(b, cap, now).tokens \in Nat
        /\ \/ cap * Period <= Refill(b, cap, now).tokens
           \/ b.last # 0 /\ b.tokens <= Refill(b, cap, now).tokens
    BY RefillKeeps DEF BucketType
  <2>4. Keeps(b, Refill(b, cap, now), cap, 0)
    BY <2>2, <2>3 DEF Keeps, BucketType
  <2> QED BY <2>1, <2>4
<1> QED BY <1>1, <1>2, <1>3
=============================================================================
