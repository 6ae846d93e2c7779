------------------------- MODULE MemoryStoreProofs -------------------------
(***************************************************************************)
(* Proofs about MemoryStore, for all keys, tiers, inputs and ids.          *)
(*                                                                         *)
(* The argument: an operation leaves a bucket c of a bucket b such that c  *)
(* and what the callers are charged for it are within what b holds when    *)
(* refilled at the top rate (AxisStep).  BucketProofs shows this of each   *)
(* bucket operator; the first part lifts it to the actions, which therefore*)
(* add nothing to Claimed, and the second adds the clock, whose ticks      *)
(* refill no more than Claimed deducts for them.  The life of a reservation*)
(* comes next, and with it the refinement of Ledger: funds are what a      *)
(* refill now would leave, so a step that adds no claim conserves them.    *)
(*                                                                         *)
(* RetryAfterExact follows from the types.  NoTokenLost is the converse of *)
(* the rate bound: an operation loses no more of a bucket than it charges  *)
(* (Keeps), and no charge becomes negative, because the loans and what the *)
(* pending reservations hold are covered by it (Covered).                  *)
(***************************************************************************)
EXTENDS MemoryStore, BucketProofs, SumTheorems, TLAPS

-----------------------------------------------------------------------------
(* From one axis to the state. *)

\* The part of TypeOK that is about the buckets.
BucketsOK ==
  /\ bucket \in [Keys -> [Axes -> BucketType]]
  /\ \A k \in Keys, a \in Axes : bucket[k][a].tokens <= MaxCap[a] * Period

\* While the clock is never stepped back no bucket is dated in the future.
Timely == MaxStepBack = 0 => \A k \in Keys, a \in Axes : bucket[k][a].last <= clock

\* The inductive invariant.
IInv == TypeOK /\ Timely

\* Saving well-formed buckets of one key keeps all buckets well-formed.
LEMMA SaveType ==
  ASSUME BucketsOK, Timely, clock \in Nat \ {0}, clock' = clock,
         NEW k0 \in Keys, NEW axes \in SUBSET Axes, NEW new,
         bucket' = [bucket EXCEPT ![k0] = Save(bucket[k0], new, axes)],
         \A a \in axes : AxisType(new[a], MaxCap[a], clock)
  PROVE  BucketsOK' /\ Timely'
<1>1. \A k \in Keys, a \in Axes :
        bucket'[k][a] = IF k = k0 /\ a \in axes THEN new[a] ELSE bucket[k][a]
  BY DEF BucketsOK, Save
<1>2. bucket' \in [Keys -> [Axes -> BucketType]]
  <2>1. Save(bucket[k0], new, axes) \in [Axes -> BucketType]
    BY DEF BucketsOK, Save, AxisType
  <2> QED BY <2>1 DEF BucketsOK
<1>3. \A k \in Keys, a \in Axes : bucket'[k][a].tokens <= MaxCap[a] * Period
  BY <1>1 DEF BucketsOK, AxisType
<1>4. Timely'
  BY <1>1 DEF Timely, AxisType, BucketsOK
<1> QED BY <1>2, <1>3, <1>4 DEF BucketsOK

\* Saving buckets while booking what the callers are charged for it adds no
\* claim: AxisStep, lifted from one axis to the state.
LEMMA SaveClaims ==
  ASSUME BucketsOK, clock \in Nat \ {0}, forward \in Nat,
         clock' = clock, forward' = forward,
         spent \in [Keys -> [Axes -> Int]],
         NEW k0 \in Keys, NEW axes \in SUBSET Axes, NEW new, NEW d \in [Axes -> Int],
         bucket' = [bucket EXCEPT ![k0] = Save(bucket[k0], new, axes)],
         spent' = Book(spent, k0, axes, d),
         \A a \in axes : AxisStep(bucket[k0][a], new[a], MaxCap[a], clock, d[a])
  PROVE  \A k \in Keys, a \in Axes : Claimed(k, a)' <= Claimed(k, a)
<1> SUFFICES ASSUME NEW k \in Keys, NEW a \in Axes
             PROVE  Claimed(k, a)' <= Claimed(k, a)
  OBVIOUS
<1>1. MaxCap[a] \in Nat /\ Period \in Nat
  BY StoreAssumption, PeriodAssumption
<1>2. bucket[k][a] \in BucketType /\ bucket[k][a].tokens <= MaxCap[a] * Period
  BY DEF BucketsOK
<1>3. Refilled(k, a) \in Nat
  BY <1>1, <1>2, RefillFacts DEF Refilled, BucketType
<1>4. CASE k = k0 /\ a \in axes
  <2>1. bucket'[k][a] = new[a] /\ spent'[k][a] = spent[k][a] + d[a]
    BY <1>4 DEF BucketsOK, Save, Book
  <2>2. AxisStep(bucket[k][a], new[a], MaxCap[a], clock, d[a])
    BY <1>4
  <2>3. Refilled(k, a)' = new[a].tokens
    BY <2>1, <2>2, <1>1, RefillAtOnce DEF Refilled, AxisStep
  <2>4. new[a].tokens \in Nat /\ new[a].tokens + d[a] * Period <= Refilled(k, a)
    BY <2>2 DEF AxisStep, Refilled, BucketType
  <2>5. spent'[k][a] * Period = spent[k][a] * Period + d[a] * Period
    BY <2>1, <1>1
  <2> DEFINE x == spent[k][a] * Period
             y == d[a] * Period
             z == MaxCap[a] * forward
  <2>6. x \in Int /\ y \in Int /\ z \in Int
    BY <1>1
  <2>7. Claimed(k, a) = Refilled(k, a) + x - z /\ Claimed(k, a)' = new[a].tokens + (x + y) - z
    BY <2>3, <2>5 DEF Claimed
  <2>8. new[a].tokens + y <= Refilled(k, a)
    BY <2>4
  <2> HIDE DEF x, y, z
  <2> QED BY <2>4, <2>6, <2>7, <2>8, <1>3
<1>5. CASE ~(k = k0 /\ a \in axes)
  <2>1. bucket'[k][a] = bucket[k][a] /\ spent'[k][a] = spent[k][a]
    BY <1>5 DEF BucketsOK, Save, Book
  <2>2. Claimed(k, a)' = Claimed(k, a) /\ Claimed(k, a) \in Int
    BY <2>1, <1>1, <1>3 DEF Claimed, Refilled
  <2> QED BY <2>2
<1> QED BY <1>4, <1>5

-----------------------------------------------------------------------------
(* What each operation does to the axes it saves. *)

\* Every tier's budget is within the top budget.
LEMMA Limits ==
  ASSUME NEW l \in Tiers, NEW a \in Axes
  PROVE  l[a] \in Nat /\ MaxCap[a] \in Nat /\ l[a] <= MaxCap[a]
  BY StoreAssumption

\* What TypeOK says of a single bucket.
LEMMA OneBucket ==
  ASSUME TypeOK, NEW k \in Keys, NEW a \in Axes
  PROVE  /\ bucket[k][a] \in BucketType
         /\ bucket[k][a].tokens <= MaxCap[a] * Period
         /\ clock \in Nat \ {0}
  BY DEF TypeOK, BucketType

\* Check: on each axis in use the clamped cost is debited.
LEMMA CheckAxes ==
  ASSUME TypeOK, NEW k \in Keys, NEW l \in Tiers, NEW c \in Costs,
         CheckDenies(bucket[k], l, c, clock) = {},
         NEW a \in UsedAxes(Split(l))
  PROVE  AxisStep(bucket[k][a], TryConsume(Load(bucket[k], l, clock)[a], l[a], clock, c[a]),
                  MaxCap[a], clock, Clamped(c)[a])
<1>1. a \in Axes /\ c[a] \in Int /\ Clamped(c)[a] = NonNeg(c[a])
  BY AxesInUse, StoreAssumption DEF Clamped
<1>2. Load(bucket[k], l, clock)[a] = Refill(bucket[k][a], l[a], clock)
  BY <1>1 DEF Load
<1>3. Reloaded(bucket[k], l, clock)[a] = Refill(Refill(bucket[k][a], l[a], clock), l[a], clock)
  BY <1>1, <1>2 DEF Reloaded, Load
<1>4. CanConsume(Refill(Refill(bucket[k][a], l[a], clock), l[a], clock), l[a], NonNeg(c[a]))
  BY <1>1, <1>3 DEF CheckDenies
<1> QED BY <1>1, <1>2, <1>4, Limits, OneBucket, ConsumeStep

\* Settle and SettleIO: on each axis the charge moves to SettleCharge.
LEMMA SettleAxes ==
  ASSUME TypeOK, NEW k \in Keys, NEW l \in Tiers, NEW reserved \in [Axes -> Nat],
         NEW actual \in [Axes -> Nat], NEW a \in Axes
  PROVE  /\ SettleCharge(bucket[k][a], l[a], clock, reserved[a], actual[a]) \in 0..actual[a]
         /\ AxisStep(bucket[k][a], SettleAxis(bucket[k][a], l[a], clock, reserved[a], actual[a]),
                     MaxCap[a], clock,
                     SettleCharge(bucket[k][a], l[a], clock, reserved[a], actual[a]) - reserved[a])
<1>1. reserved[a] \in Nat /\ actual[a] \in Nat
  OBVIOUS
<1> QED BY <1>1, Limits, OneBucket, SettleStep

\* Refund and Return: on each axis at most the amount comes back.
LEMMA CreditAxes ==
  ASSUME TypeOK, NEW k \in Keys, NEW l \in Tiers, NEW amount \in [Axes -> Int],
         NEW a \in Axes
  PROVE  AxisStep(bucket[k][a], Credit(Refill(bucket[k][a], l[a], clock), l[a], clock, amount[a]),
                  MaxCap[a], clock, -NonNeg(amount[a]))
<1>1. amount[a] \in Int
  OBVIOUS
<1> QED BY <1>1, Limits, OneBucket, CreditStep

\* Borrow: the new bucket is well-formed, and under SteadyLimits all that is
\* granted is debited.
LEMMA BorrowAxes ==
  ASSUME IInv, NEW k \in Keys, NEW l \in Tiers, NEW s \in BorrowSpecs,
         BorrowDenies(bucket[k], l, s, clock) = {},
         NEW a \in UsedAxes(Split(l))
  PROVE  /\ BorrowGot(bucket[k], l, s, clock)[a] \in Nat
         /\ AxisType(TryConsume(Load(bucket[k], l, clock)[a], l[a], clock,
                                BorrowGot(bucket[k], l, s, clock)[a]), MaxCap[a], clock)
         /\ SteadyLimits =>
              AxisStep(bucket[k][a], TryConsume(Load(bucket[k], l, clock)[a], l[a], clock,
                                                BorrowGot(bucket[k], l, s, clock)[a]),
                       MaxCap[a], clock, BorrowGot(bucket[k], l, s, clock)[a])
<1> DEFINE got == BorrowGot(bucket[k], l, s, clock)[a]
           r == Refill(bucket[k][a], l[a], clock)
<1>1. a \in Axes /\ s.min[a] \in Int /\ s.chunk[a] \in Int
  BY AxesInUse, StoreAssumption
<1>2. Load(bucket[k], l, clock)[a] = r
  BY <1>1 DEF Load
<1>3. /\ l[a] \in Nat /\ MaxCap[a] \in Nat /\ l[a] <= MaxCap[a]
      /\ bucket[k][a] \in BucketType /\ bucket[k][a].tokens <= MaxCap[a] * Period
      /\ clock \in Nat \ {0}
      /\ r \in BucketType
  <2>1. TypeOK
    BY DEF IInv
  <2> QED BY <1>1, <2>1, Limits, OneBucket, RefillFacts
<1>4. RemainingInt(r) \in Nat
  BY <1>3, WholeTokens
<1>5. got = WantGot(RemainingInt(r), NonNeg(s.min[a]), NonNeg(s.chunk[a]))
  BY <1>1, <1>2 DEF BorrowGot
<1>6. got \in Nat /\ got <= RemainingInt(r)
  <2> HIDE DEF r, got
  <2> QED BY <1>1, <1>4, <1>5 DEF WantGot, Lesser, NonNeg
<1>7. AxisType(TryConsume(r, l[a], clock, got), MaxCap[a], clock)
  <2> HIDE DEF got
  <2>1. CASE CanConsume(Refill(r, l[a], clock), l[a], NonNeg(got))
    <3>1. AxisStep(bucket[k][a], TryConsume(r, l[a], clock, got), MaxCap[a], clock, NonNeg(got))
      BY <1>3, <1>6, <2>1, ConsumeStep
    <3> QED BY <3>1 DEF AxisStep, AxisType
  <2>2. CASE ~CanConsume(Refill(r, l[a], clock), l[a], NonNeg(got))
    <3>1. TryConsume(r, l[a], clock, got) = Refill(r, l[a], clock)
      BY <2>2 DEF TryConsume
    <3>2. AxisStep(bucket[k][a], Refill(r, l[a], clock), MaxCap[a], clock, 0)
      BY <1>3, ReloadStep
    <3> QED BY <3>1, <3>2 DEF AxisStep, AxisType
  <2> QED BY <2>1, <2>2
<1>8. ASSUME SteadyLimits
      PROVE  AxisStep(bucket[k][a], TryConsume(r, l[a], clock, got), MaxCap[a], clock, got)
  <2>1. bucket[k][a].last <= clock \/ l[a] = MaxCap[a]
    BY <1>1, <1>8 DEF SteadyLimits, IInv, Timely
  <2> HIDE DEF got
  <2> QED BY <2>1, <1>3, <1>6, LoanStep
<1> QED BY <1>2, <1>6, <1>7, <1>8

-----------------------------------------------------------------------------
(* Every step keeps the invariant and adds to no claim. *)

NoNewClaims == \A k \in Keys, a \in Axes : Claimed(k, a)' <= Claimed(k, a)

\* A step that leaves buckets, accounts and clock alone adds no claim.
LEMMA Untouched ==
  ASSUME IInv, UNCHANGED <<bucket, spent, clock, forward>>
  PROVE  BucketsOK' /\ Timely' /\ NoNewClaims
<1>1. BucketsOK /\ Timely
  BY DEF IInv, TypeOK, BucketsOK, BucketType
<1>2. ASSUME NEW k \in Keys, NEW a \in Axes
      PROVE  Claimed(k, a)' <= Claimed(k, a)
  <2>1. MaxCap[a] \in Nat /\ Period \in Nat
    BY StoreAssumption, PeriodAssumption
  <2>2. Refilled(k, a) \in Nat
    BY <2>1, OneBucket, RefillFacts DEF IInv, Refilled, BucketType
  <2>3. Claimed(k, a)' = Claimed(k, a) /\ Claimed(k, a) \in Int
    BY <2>1, <2>2 DEF Claimed, Refilled, IInv, TypeOK
  <2> QED BY <2>3
<1> QED BY <1>1, <1>2 DEF BucketsOK, Timely, NoNewClaims

\* Booking keeps an account an account.
LEMMA BookType ==
  ASSUME NEW account \in [Keys -> [Axes -> Int]], NEW k \in Keys,
         NEW axes \in SUBSET Axes, NEW d, \A a \in axes : d[a] \in Int
  PROVE  Book(account, k, axes, d) \in [Keys -> [Axes -> Int]]
  BY DEF Book

\* Purging expired reservations keeps res well-typed.
LEMMA LiveType ==
  ASSUME TypeOK
  PROVE  Live \in [Ids -> Reservation \union {NoRes}]
  BY DEF TypeOK, Live

\* Closing a reservation keeps it well-typed.
LEMMA ClosedType ==
  ASSUME TypeOK, NEW r \in Reservation, NEW status \in Statuses, NEW over \in [Axes -> Nat]
  PROVE  Closed(r, status, over) \in Reservation
<1>1. clock + TTL \in Nat
  BY StoreAssumption DEF TypeOK
<1> QED BY <1>1 DEF Closed, Reservation

\* A Check that is allowed preserves the invariant and adds no claim.
LEMMA CheckAllowStep ==
  ASSUME IInv, NEW k \in Keys, NEW l \in Tiers, NEW c \in Costs, NEW id \in Ids,
         CheckAllow(k, l, c, id)
  PROVE  IInv' /\ NoNewClaims
<1> DEFINE new == [a \in Axes |-> TryConsume(Load(bucket[k], l, clock)[a], l[a], clock, c[a])]
           axes == UsedAxes(Split(l))
<1>1. TypeOK /\ BucketsOK /\ Timely /\ axes \in SUBSET Axes
  BY AxesInUse DEF IInv, TypeOK, BucketsOK, BucketType
<1>2. Clamped(c) \in [Axes -> Nat] /\ Clamped(c) \in [Axes -> Int]
  BY StoreAssumption DEF Clamped, NonNeg
<1>3. bucket' = [bucket EXCEPT ![k] = Save(bucket[k], new, axes)]
  BY <1>1 DEF CheckAllow, CheckDebit, BucketsOK
<1>4. spent' = Book(spent, k, axes, Clamped(c))
  BY DEF CheckAllow
<1>5. \A a \in axes : AxisStep(bucket[k][a], new[a], MaxCap[a], clock, Clamped(c)[a])
  BY <1>1, CheckAxes DEF CheckAllow
<1>6. UNCHANGED <<clock, stepsBack, forward, lent>>
  BY DEF CheckAllow, timing
<1> HIDE DEF new, axes
<1>7. BucketsOK' /\ Timely'
  BY <1>1, <1>3, <1>5, <1>6, SaveType DEF AxisStep, AxisType, TypeOK
<1>8. NoNewClaims
  BY <1>1, <1>2, <1>3, <1>4, <1>5, <1>6, SaveClaims DEF TypeOK, NoNewClaims
<1>9. spent' \in [Keys -> [Axes -> Int]]
  BY <1>1, <1>2, <1>4, BookType DEF TypeOK
<1>10. res' \in [Ids -> Reservation \union {NoRes}]
  <2>1. [key |-> k, limits |-> l, cost |-> Reserved(l, c), status |-> "pending",
         expires |-> clock + TTL, overshoot |-> Zero] \in Reservation
    BY <1>1, <1>2, StoreAssumption DEF Reservation, Statuses, Reserved, Zero, TypeOK
  <2> QED BY <1>1, <2>1, LiveType DEF CheckAllow
<1> QED BY <1>1, <1>6, <1>7, <1>8, <1>9, <1>10
       DEF IInv, TypeOK, BucketsOK, BucketType, CheckAllow

\* So does the settlement of a pending reservation, in either mode.
LEMMA SettlePendingStep ==
  ASSUME IInv, NEW id \in Ids, NEW io \in BOOLEAN, NEW n \in Actuals,
         SettlePending(id, io, n)
  PROVE  IInv' /\ NoNewClaims
<1> DEFINE r == Live[id]
           k == r.key
           l == r.limits
           actual == Clamped(n)
           charge == [a \in Axes |-> SettleCharge(bucket[k][a], l[a], clock, r.cost[a], actual[a])]
           over == SettleOvershoot(bucket[k], l, r.cost, actual, clock)
           new == [a \in Axes |-> SettleAxis(bucket[k][a], l[a], clock, r.cost[a], actual[a])]
           axes == TokenAxes(io)
           d == [a \in Axes |-> actual[a] - over[a] - r.cost[a]]
<1>1. TypeOK /\ BucketsOK /\ Timely /\ axes \in SUBSET Axes
  BY AxesInUse DEF IInv, TypeOK, BucketsOK, BucketType
<1>2. /\ r \in Reservation /\ k \in Keys /\ l \in Tiers /\ r.cost \in [Axes -> Nat]
      /\ Split(l) = io
  BY <1>1, LiveType DEF SettlePending, Settleable, Reservation
<1>3. actual \in [Axes -> Nat]
  BY StoreAssumption DEF Clamped, NonNeg
<1>4. \A a \in Axes : /\ charge[a] \in 0..actual[a]
                      /\ AxisStep(bucket[k][a], new[a], MaxCap[a], clock, charge[a] - r.cost[a])
  <2> HIDE DEF k, l, actual
  <2> QED BY <1>1, <1>2, <1>3, SettleAxes
<1>5. bucket' = [bucket EXCEPT ![k] = Save(bucket[k], new, axes)]
  BY <1>1, <1>2 DEF SettlePending, SettleSave, BucketsOK
<1>6. spent' = Book(spent, k, axes, d)
  BY DEF SettlePending, Settleable, Adjusted
<1>7. res' = [Live EXCEPT ![id] = Closed(r, "settled", over)]
  BY DEF SettlePending
<1>8. UNCHANGED <<clock, stepsBack, forward, issued, lent>>
  BY DEF SettlePending, timing
<1>9. \A a \in Axes : over[a] = IF a \in axes THEN actual[a] - charge[a] ELSE 0
  BY <1>2 DEF SettleOvershoot
<1>10. over \in [Axes -> Nat]
  <2>1. over = [a \in Axes |-> over[a]]
    BY DEF SettleOvershoot
  <2> HIDE DEF over, charge, actual, axes
  <2>2. \A a \in Axes : over[a] \in Nat
    BY <1>3, <1>4, <1>9
  <2> QED BY <2>1, <2>2
<1>11. d \in [Axes -> Int] /\ \A a \in axes : d[a] = charge[a] - r.cost[a]
  <2> HIDE DEF over, charge, actual, axes, r
  <2> QED BY <1>1, <1>2, <1>3, <1>4, <1>9, <1>10
<1> HIDE DEF r, k, l, actual, charge, over, new, axes, d
<1>12. \A a \in axes : AxisStep(bucket[k][a], new[a], MaxCap[a], clock, d[a])
  BY <1>1, <1>4, <1>11
<1>13. BucketsOK' /\ Timely'
  BY <1>1, <1>2, <1>5, <1>8, <1>12, SaveType DEF AxisStep, AxisType, TypeOK
<1>14. NoNewClaims
  BY <1>1, <1>2, <1>5, <1>6, <1>8, <1>11, <1>12, SaveClaims DEF TypeOK, NoNewClaims
<1>15. spent' \in [Keys -> [Axes -> Int]]
  BY <1>1, <1>2, <1>6, <1>11, BookType DEF TypeOK
<1>16. res' \in [Ids -> Reservation \union {NoRes}]
  <2>1. Closed(r, "settled", over) \in Reservation
    BY <1>1, <1>2, <1>10, ClosedType DEF Statuses
  <2> QED BY <1>1, <1>7, <2>1, LiveType
<1> QED BY <1>1, <1>8, <1>13, <1>14, <1>15, <1>16 DEF IInv, TypeOK, BucketsOK, BucketType

\* So does the refund of a pending reservation.
LEMMA RefundPendingStep ==
  ASSUME IInv, NEW id \in Ids, RefundPending(id)
  PROVE  IInv' /\ NoNewClaims
<1> DEFINE r == Live[id]
           k == r.key
           l == r.limits
           new == [a \in Axes |-> Credit(Refill(bucket[k][a], l[a], clock), l[a], clock, r.cost[a])]
           axes == UsedAxes(Split(l))
           d == [a \in Axes |-> -r.cost[a]]
<1>1. TypeOK /\ BucketsOK /\ Timely /\ axes \in SUBSET Axes
  BY AxesInUse DEF IInv, TypeOK, BucketsOK, BucketType
<1>2. r \in Reservation /\ k \in Keys /\ l \in Tiers /\ r.cost \in [Axes -> Nat]
  BY <1>1, LiveType DEF RefundPending, Refundable, Reservation
<1>3. d \in [Axes -> Int] /\ \A a \in Axes : d[a] = -NonNeg(r.cost[a])
  <2> HIDE DEF r
  <2> QED BY <1>2 DEF NonNeg
<1>4. \A a \in Axes : AxisStep(bucket[k][a], new[a], MaxCap[a], clock, d[a])
  <2>1. r.cost \in [Axes -> Int]
    BY <1>2
  <2> HIDE DEF k, l, r, d
  <2> QED BY <1>1, <1>2, <1>3, <2>1, CreditAxes
<1>5. bucket' = [bucket EXCEPT ![k] = Save(bucket[k], new, axes)]
  BY <1>1, <1>2 DEF RefundPending, CreditSave, BucketsOK
<1>6. spent' = Book(spent, k, axes, d)
  BY DEF RefundPending, Refundable, Adjusted
<1>7. res' = [Live EXCEPT ![id] = Closed(r, "refunded", Zero)]
  BY DEF RefundPending
<1>8. UNCHANGED <<clock, stepsBack, forward, issued, lent>>
  BY DEF RefundPending, timing
<1> HIDE DEF r, k, l, new, axes, d
<1>9. BucketsOK' /\ Timely'
  BY <1>1, <1>2, <1>4, <1>5, <1>8, SaveType DEF AxisStep, AxisType, TypeOK
<1>10. NoNewClaims
  BY <1>1, <1>2, <1>3, <1>4, <1>5, <1>6, <1>8, SaveClaims DEF TypeOK, NoNewClaims
<1>11. spent' \in [Keys -> [Axes -> Int]]
  BY <1>1, <1>2, <1>3, <1>6, BookType DEF TypeOK
<1>12. res' \in [Ids -> Reservation \union {NoRes}]
  <2>1. Closed(r, "refunded", Zero) \in Reservation
    BY <1>1, <1>2, ClosedType DEF Statuses, Zero
  <2> QED BY <1>1, <1>7, <2>1, LiveType
<1> QED BY <1>1, <1>8, <1>9, <1>10, <1>11, <1>12 DEF IInv, TypeOK, BucketsOK, BucketType

\* So does a Borrow, its claims under SteadyLimits only.
LEMMA BorrowStep ==
  ASSUME IInv, NEW k \in Keys, NEW l \in Tiers, NEW s \in BorrowSpecs, Borrow(k, l, s)
  PROVE  IInv' /\ (SteadyLimits => NoNewClaims)
<1> DEFINE got == BorrowGot(bucket[k], l, s, clock)
           new == [a \in Axes |-> TryConsume(Load(bucket[k], l, clock)[a], l[a], clock, got[a])]
           axes == UsedAxes(Split(l))
<1>1. TypeOK /\ BucketsOK /\ Timely /\ axes \in SUBSET Axes
  BY AxesInUse DEF IInv, TypeOK, BucketsOK, BucketType
<1>2. \A a \in axes :
        /\ got[a] \in Nat
        /\ AxisType(new[a], MaxCap[a], clock)
        /\ SteadyLimits => AxisStep(bucket[k][a], new[a], MaxCap[a], clock, got[a])
  BY <1>1, BorrowAxes DEF Borrow
<1>3. got \in [Axes -> Int]
  <2>1. \A a \in Axes \ axes : got[a] = 0
    BY DEF BorrowGot
  <2>2. got = [a \in Axes |-> got[a]]
    BY DEF BorrowGot
  <2> HIDE DEF got, axes
  <2>3. \A a \in axes : got[a] \in Nat
    BY <1>2
  <2>4. \A a \in Axes : got[a] \in Int
    BY <2>1, <2>3
  <2> QED BY <2>2, <2>4
<1>4. bucket' = [bucket EXCEPT ![k] = Save(bucket[k], new, axes)]
  BY <1>1 DEF Borrow, BorrowDebit, BucketsOK
<1>5. spent' = Book(spent, k, axes, got) /\ lent' = Book(lent, k, axes, got)
  BY DEF Borrow
<1>6. UNCHANGED <<clock, stepsBack, forward, issued, res>>
  BY DEF Borrow, timing
<1> HIDE DEF got, new, axes
<1>7. BucketsOK' /\ Timely'
  BY <1>1, <1>2, <1>4, <1>6, SaveType DEF TypeOK
<1>8. SteadyLimits => NoNewClaims
  BY <1>1, <1>2, <1>3, <1>4, <1>5, <1>6, SaveClaims DEF TypeOK, NoNewClaims
<1>9. spent' \in [Keys -> [Axes -> Int]] /\ lent' \in [Keys -> [Axes -> Int]]
  BY <1>1, <1>3, <1>5, BookType DEF TypeOK
<1> QED BY <1>1, <1>6, <1>7, <1>8, <1>9 DEF IInv, TypeOK, BucketsOK, BucketType

\* So does a Return.
LEMMA ReturnStep ==
  ASSUME IInv, NEW k \in Keys, NEW l \in Tiers, NEW n \in Returns, Return(k, l, n)
  PROVE  IInv' /\ NoNewClaims
<1> DEFINE new == [a \in Axes |-> Credit(Refill(bucket[k][a], l[a], clock), l[a], clock, n[a])]
           axes == UsedAxes(Split(l))
           given == [a \in Axes |-> -NonNeg(n[a])]
<1>1. TypeOK /\ BucketsOK /\ Timely /\ axes \in SUBSET Axes
  BY AxesInUse DEF IInv, TypeOK, BucketsOK, BucketType
<1>2. n \in [Axes -> Int] /\ given \in [Axes -> Int]
  BY StoreAssumption DEF NonNeg
<1>3. \A a \in Axes : AxisStep(bucket[k][a], new[a], MaxCap[a], clock, given[a])
  BY <1>1, <1>2, CreditAxes
<1>4. bucket' = [bucket EXCEPT ![k] = Save(bucket[k], new, axes)]
  BY <1>1 DEF Return, CreditSave, BucketsOK
<1>5. spent' = Book(spent, k, axes, given) /\ lent' = Book(lent, k, axes, given)
  BY DEF Return
<1>6. UNCHANGED <<clock, stepsBack, forward, issued, res>>
  BY DEF Return, timing
<1> HIDE DEF new, axes, given
<1>7. BucketsOK' /\ Timely'
  BY <1>1, <1>3, <1>4, <1>6, SaveType DEF AxisStep, AxisType, TypeOK
<1>8. NoNewClaims
  BY <1>1, <1>2, <1>3, <1>4, <1>5, <1>6, SaveClaims DEF TypeOK, NoNewClaims
<1>9. spent' \in [Keys -> [Axes -> Int]] /\ lent' \in [Keys -> [Axes -> Int]]
  BY <1>1, <1>2, <1>5, BookType DEF TypeOK
<1> QED BY <1>1, <1>6, <1>7, <1>8, <1>9 DEF IInv, TypeOK, BucketsOK, BucketType

\* So does the clock, forwards and backwards.
LEMMA ClockStep ==
  ASSUME IInv, Tick \/ StepBack
  PROVE  IInv' /\ NoNewClaims
<1>1. /\ clock' \in Nat \ {0} /\ stepsBack' \in 0..MaxStepBack /\ forward' \in Nat
      /\ UNCHANGED <<bucket, res, issued, spent, lent>>
      /\ \/ clock' = clock + 1 /\ forward' = forward + 1
         \/ clock' = clock - 1 /\ clock > 1 /\ forward' = forward /\ MaxStepBack # 0
  BY StoreAssumption DEF IInv, TypeOK, Tick, StepBack, code, history
<1>2. Timely'
  BY <1>1 DEF Timely, IInv, TypeOK
<1>3. ASSUME NEW k \in Keys, NEW a \in Axes
      PROVE  Claimed(k, a)' <= Claimed(k, a)
  <2> DEFINE b == bucket[k][a]
             M == MaxCap[a]
             x == spent[k][a] * Period
  <2>1. M \in Nat /\ Period \in Nat /\ clock \in Nat \ {0} /\ forward \in Nat
    BY StoreAssumption, PeriodAssumption DEF IInv, TypeOK
  <2>2. b \in BucketType /\ b.tokens <= M * Period
    BY OneBucket DEF IInv
  <2>3. x \in Int
    BY <2>1 DEF IInv, TypeOK
  <2>4. Claimed(k, a) = Refill(b, M, clock).tokens + x - M * forward
    BY DEF Claimed, Refilled
  <2>5. Claimed(k, a)' = Refill(b, M, clock').tokens + x - M * forward'
    BY <1>1 DEF Claimed, Refilled
  <2> HIDE DEF b, M, x
  <2>6. /\ Refill(b, M, clock).tokens \in Nat
        /\ Refill(b, M, clock + 1).tokens <= Refill(b, M, clock).tokens + M
        /\ clock > 1 => Refill(b, M, clock - 1).tokens <= Refill(b, M, clock).tokens
    BY <2>1, <2>2, RefillOverTime
  <2>7. Refill(b, M, clock').tokens \in Nat
    BY <1>1, <2>1, <2>2, RefillFacts DEF BucketType
  <2>8. CASE clock' = clock + 1 /\ forward' = forward + 1
    <3>1. M * forward' = M * forward + M /\ M * forward \in Int
      BY <2>1, <2>8
    <3> QED BY <3>1, <2>1, <2>3, <2>4, <2>5, <2>6, <2>7, <2>8
  <2>9. CASE clock' = clock - 1 /\ clock > 1 /\ forward' = forward
    <3>1. M * forward' = M * forward /\ M * forward \in Int
      BY <2>1, <2>9
    <3> QED BY <3>1, <2>1, <2>3, <2>4, <2>5, <2>6, <2>7, <2>9
  <2> QED BY <1>1, <2>8, <2>9
<1>4. TypeOK'
  BY <1>1 DEF IInv, TypeOK
<1> QED BY <1>2, <1>3, <1>4 DEF IInv, NoNewClaims

\* Every step preserves the invariant, and under SteadyLimits adds no claim.
LEMMA NextStep ==
  ASSUME IInv, [Next]_vars
  PROVE  IInv' /\ (SteadyLimits => NoNewClaims)
<1>1. ASSUME res' = Live, UNCHANGED <<bucket, timing, history>>
      PROVE  IInv' /\ NoNewClaims
  <2>1. BucketsOK' /\ Timely' /\ NoNewClaims
    BY <1>1, Untouched DEF timing, history
  <2>2. res' \in [Ids -> Reservation \union {NoRes}]
    BY <1>1, LiveType DEF IInv
  <2> QED BY <1>1, <2>1, <2>2 DEF IInv, TypeOK, BucketsOK, BucketType, timing, history
<1>2. CASE CheckInvalid
  BY <1>1, <1>2 DEF CheckInvalid
<1>3. ASSUME NEW k \in Keys, NEW l \in Tiers, NEW c \in Costs, CheckDeny(k, l, c)
      PROVE  IInv' /\ NoNewClaims
  BY <1>1, <1>3 DEF CheckDeny
<1>4. ASSUME NEW id \in Ids, NEW io \in BOOLEAN, SettleRefused(id, io)
      PROVE  IInv' /\ NoNewClaims
  BY <1>1, <1>4 DEF SettleRefused
<1>5. ASSUME NEW id \in Ids, RefundRefused(id)
      PROVE  IInv' /\ NoNewClaims
  BY <1>1, <1>5 DEF RefundRefused
<1>6. CASE UNCHANGED vars
  <2>1. BucketsOK' /\ Timely' /\ NoNewClaims
    BY <1>6, Untouched DEF vars
  <2> QED BY <2>1, <1>6 DEF IInv, TypeOK, vars
<1>7. ASSUME NEW id \in Ids, NEW n \in Actuals, Settle(id, n) \/ SettleIO(id, n)
      PROVE  IInv' /\ NoNewClaims
  BY <1>4, <1>7, SettlePendingStep DEF Settle, SettleIO
<1>8. ASSUME NEW id \in Ids, Refund(id)
      PROVE  IInv' /\ NoNewClaims
  BY <1>5, <1>8, RefundPendingStep DEF Refund
<1> QED
  BY <1>2, <1>3, <1>6, <1>7, <1>8, CheckAllowStep, BorrowStep, ReturnStep, ClockStep DEF Next

\* The initial state satisfies the invariant and the rate limit.
LEMMA InitStep == Init => IInv /\ RateBound
<1> SUFFICES ASSUME Init PROVE IInv /\ RateBound
  OBVIOUS
<1>1. \A a \in Axes : MaxCap[a] \in Nat /\ MaxCap[a] * Period \in Nat
                     /\ MaxCap[a] * 0 = 0 /\ 0 * Period = 0
  BY StoreAssumption, PeriodAssumption, TimesMonotone
<1>2. IInv
  BY <1>1, StoreAssumption DEF Init, IInv, TypeOK, Timely, Cold, Zero
<1>3. \A k \in Keys, a \in Axes : Claimed(k, a) <= MaxCap[a] * Period
  BY <1>1 DEF Init, Claimed, Refilled, Refill, Cold, Zero
<1> QED BY <1>2, <1>3 DEF RateBound

-----------------------------------------------------------------------------
\* Every reachable state is well typed: in particular no mix of refills, credits,
\* debits, tier changes and clock steps takes a bucket below empty or above the
\* most generous budget.
THEOREM TypeCorrect == Spec => []TypeOK
<1>1. IInv /\ [Next]_vars => IInv'
  BY NextStep
<1>2. IInv => TypeOK
  BY DEF IInv
<1> QED BY InitStep, <1>1, <1>2, PTL DEF Spec

\* The rate limit holds for every number of keys, callers and reservations, every
\* set of tiers and every order of calls, as long as SteadyLimits does.
THEOREM RateBoundHolds == ASSUME SteadyLimits PROVE Spec => []RateBound
<1>1. IInv /\ RateBound /\ [Next]_vars => IInv' /\ RateBound'
  <2> SUFFICES ASSUME IInv, RateBound, [Next]_vars PROVE IInv' /\ RateBound'
    OBVIOUS
  <2>1. IInv' /\ NoNewClaims
    BY NextStep
  <2>2. ASSUME NEW k \in Keys, NEW a \in Axes
        PROVE  Claimed(k, a)' <= MaxCap[a] * Period
    <3>1. /\ Claimed(k, a) \in Int /\ Claimed(k, a)' \in Int /\ MaxCap[a] * Period \in Int
          /\ Claimed(k, a) <= MaxCap[a] * Period /\ Claimed(k, a)' <= Claimed(k, a)
      <4>1. MaxCap[a] \in Nat /\ Period \in Nat
        BY StoreAssumption, PeriodAssumption
      <4>2. Refilled(k, a) \in Nat
        BY <4>1, OneBucket, RefillFacts DEF IInv, Refilled, BucketType
      <4>3. Refilled(k, a)' \in Nat
        <5>1. /\ bucket'[k][a] \in BucketType /\ bucket'[k][a].tokens <= MaxCap[a] * Period
              /\ clock' \in Nat \ {0}
          BY <2>1 DEF IInv, TypeOK, BucketType
        <5> QED BY <4>1, <5>1, RefillFacts DEF Refilled, BucketType
      <4>4. Claimed(k, a) \in Int /\ Claimed(k, a)' \in Int
        BY <2>1, <4>1, <4>2, <4>3 DEF Claimed, IInv, TypeOK
      <4> QED BY <2>1, <4>1, <4>4 DEF RateBound, NoNewClaims
    <3> QED BY <3>1
  <2> QED BY <2>1, <2>2 DEF RateBound
<1> QED BY InitStep, <1>1, PTL DEF Spec

\* And it holds over every window: no step of any operation adds to the claims.
THEOREM WindowBoundHolds == ASSUME SteadyLimits PROVE Spec => WindowBound
<1>1. IInv /\ [Next]_vars => IInv'
  BY NextStep
<1>2. IInv /\ [Next]_vars => [\A k \in Keys, a \in Axes : Claimed(k, a)' <= Claimed(k, a)]_vars
  BY NextStep DEF NoNewClaims
<1> QED BY InitStep, <1>1, <1>2, PTL DEF Spec, WindowBound

-----------------------------------------------------------------------------
(* Reservations. *)

\* One id's part of ReservationLifecycle.
LifecycleOf(id) ==
  \/ res'[id] = res[id]
  \/ res[id] = NoRes /\ id \notin issued
  \/ /\ res[id] # NoRes
     /\ res'[id] = NoRes
     /\ clock > res[id].expires
  \/ /\ res[id] # NoRes
     /\ res'[id] # NoRes
     /\ res[id].status = "pending"
     /\ res'[id].status # "pending"
     /\ \A f \in {"key", "limits", "cost"} : res'[id][f] = res[id][f]

OnlyIssued == \A id \in Ids : res[id] # NoRes => id \in issued

\* Closing a reservation changes its status and keeps its terms.
LEMMA ClosedFields ==
  ASSUME NEW r \in Reservation, NEW status \in Statuses \ {"pending"}, NEW over
  PROVE  /\ Closed(r, status, over) # NoRes
         /\ Closed(r, status, over).status # "pending"
         /\ \A f \in {"key", "limits", "cost"} : Closed(r, status, over)[f] = r[f]
<1>1. Closed(r, status, over).key = r.key /\ Closed(r, status, over).status = status
  BY DEF Closed, Reservation
<1>2. Closed(r, status, over).status # "none"
  BY <1>1 DEF Statuses
<1> QED BY <1>1, <1>2 DEF Closed, Reservation, NoRes

\* No step reopens or changes a closed reservation, whichever it is, and only
\* issued ids are ever stored.
LEMMA LifecycleStep ==
  ASSUME IInv, OnlyIssued, [Next]_vars
  PROVE  OnlyIssued' /\ \A id \in Ids : LifecycleOf(id)
<1>1. res \in [Ids -> Reservation \union {NoRes}] /\ Live \in [Ids -> Reservation \union {NoRes}]
  BY LiveType DEF IInv, TypeOK
<1>2. \A id \in Ids : \/ Live[id] = res[id]
                      \/ res[id] # NoRes /\ Live[id] = NoRes /\ clock > res[id].expires
  BY DEF Live
<1>3. ASSUME res' = Live, issued' = issued
      PROVE  OnlyIssued' /\ \A id \in Ids : LifecycleOf(id)
  BY <1>1, <1>2, <1>3 DEF OnlyIssued, LifecycleOf
<1>4. ASSUME UNCHANGED <<res, issued>>
      PROVE  OnlyIssued' /\ \A id \in Ids : LifecycleOf(id)
  BY <1>4 DEF OnlyIssued, LifecycleOf
<1>5. ASSUME NEW i \in Ids, Live[i] # NoRes, Live[i].status = "pending", issued' = issued,
             NEW status \in Statuses \ {"pending"}, NEW over,
             res' = [Live EXCEPT ![i] = Closed(Live[i], status, over)]
      PROVE  OnlyIssued' /\ \A id \in Ids : LifecycleOf(id)
  <2>1. Live[i] = res[i] /\ Live[i] \in Reservation
    BY <1>1, <1>2, <1>5
  <2>2. LifecycleOf(i)
    BY <2>1, <1>1, <1>5, ClosedFields DEF LifecycleOf
  <2>3. \A id \in Ids \ {i} : LifecycleOf(id)
    BY <1>1, <1>2, <1>5 DEF LifecycleOf
  <2>4. OnlyIssued'
    BY <2>1, <1>1, <1>2, <1>5 DEF OnlyIssued
  <2> QED BY <2>2, <2>3, <2>4
<1>6. ASSUME NEW k \in Keys, NEW l \in Tiers, NEW c \in Costs, NEW i \in Ids,
             CheckAllow(k, l, c, i)
      PROVE  OnlyIssued' /\ \A id \in Ids : LifecycleOf(id)
  <2>1. i \notin issued /\ issued' = issued \union {i} /\ res[i] = NoRes
    BY <1>6 DEF CheckAllow, OnlyIssued
  <2>2. \A id \in Ids \ {i} : res'[id] = Live[id]
    BY <1>1, <1>6 DEF CheckAllow
  <2>3. OnlyIssued'
    BY <2>1, <2>2, <1>2 DEF OnlyIssued
  <2>4. \A id \in Ids : LifecycleOf(id)
    BY <2>1, <2>2, <1>2 DEF LifecycleOf
  <2> QED BY <2>3, <2>4
<1>7. ASSUME NEW i \in Ids, NEW io \in BOOLEAN, NEW n \in Actuals, SettlePending(i, io, n)
      PROVE  OnlyIssued' /\ \A id \in Ids : LifecycleOf(id)
  <2> DEFINE over == SettleOvershoot(bucket[Live[i].key], Live[i].limits, Live[i].cost,
                                     Clamped(n), clock)
  <2>1. /\ Live[i] # NoRes /\ Live[i].status = "pending" /\ issued' = issued
        /\ res' = [Live EXCEPT ![i] = Closed(Live[i], "settled", over)]
    BY <1>7 DEF SettlePending, Settleable
  <2>2. "settled" \in Statuses \ {"pending"}
    BY DEF Statuses
  <2> HIDE DEF over
  <2> QED BY <2>1, <2>2, <1>5
<1>8. ASSUME NEW i \in Ids, RefundPending(i)
      PROVE  OnlyIssued' /\ \A id \in Ids : LifecycleOf(id)
  <2>1. /\ Live[i] # NoRes /\ Live[i].status = "pending" /\ issued' = issued
        /\ res' = [Live EXCEPT ![i] = Closed(Live[i], "refunded", Zero)]
    BY <1>8 DEF RefundPending, Refundable
  <2>2. "refunded" \in Statuses \ {"pending"}
    BY DEF Statuses
  <2> QED BY <2>1, <2>2, <1>5
<1>9. CASE CheckInvalid
  BY <1>3, <1>9 DEF CheckInvalid, history
<1>10. ASSUME NEW k \in Keys, NEW l \in Tiers, NEW c \in Costs, CheckDeny(k, l, c)
       PROVE  OnlyIssued' /\ \A id \in Ids : LifecycleOf(id)
  BY <1>3, <1>10 DEF CheckDeny, history
<1>11. ASSUME NEW i \in Ids, NEW io \in BOOLEAN, SettleRefused(i, io)
       PROVE  OnlyIssued' /\ \A id \in Ids : LifecycleOf(id)
  BY <1>3, <1>11 DEF SettleRefused, history
<1>12. ASSUME NEW i \in Ids, RefundRefused(i)
       PROVE  OnlyIssued' /\ \A id \in Ids : LifecycleOf(id)
  BY <1>3, <1>12 DEF RefundRefused, history
<1>13. ASSUME \/ \E k \in Keys, l \in Tiers, s \in BorrowSpecs : Borrow(k, l, s)
              \/ \E k \in Keys, l \in Tiers, n \in Returns : Return(k, l, n)
              \/ Tick \/ StepBack \/ UNCHANGED vars
       PROVE  OnlyIssued' /\ \A id \in Ids : LifecycleOf(id)
  BY <1>4, <1>13 DEF Borrow, Return, Tick, StepBack, vars, code, history
<1> QED
  BY <1>6, <1>7, <1>8, <1>9, <1>10, <1>11, <1>12, <1>13 DEF Next, Settle, SettleIO, Refund

\* A reservation is opened, closed and forgotten at most once each, whichever
\* callers race to settle, refund or expire it.
THEOREM LifecycleHolds == Spec => ReservationLifecycle
<1>1. Init => OnlyIssued
  BY DEF Init, OnlyIssued
<1>2. IInv /\ OnlyIssued /\ [Next]_vars => IInv' /\ OnlyIssued'
  BY NextStep, LifecycleStep
<1>3. IInv /\ OnlyIssued /\ [Next]_vars => [\A id \in Ids : LifecycleOf(id)]_vars
  BY LifecycleStep
<1> QED BY InitStep, <1>1, <1>2, <1>3, PTL DEF Spec, ReservationLifecycle, LifecycleOf

-----------------------------------------------------------------------------
(* The ledger. *)

\* A reservation as the ledger sees it.
Status(id) ==
  IF res[id] # NoRes THEN res[id].status
  ELSE IF id \in issued THEN "forgotten" ELSE "none"

\* No more comes back than was lent.
LentOK == \A k \in Keys, a \in Axes : lent[k][a] >= 0

\* A booking, entry by entry.
LEMMA BookFacts ==
  ASSUME NEW account \in [Keys -> [Axes -> Int]], NEW k0 \in Keys, NEW axes, NEW d,
         NEW k \in Keys, NEW a \in Axes
  PROVE  Book(account, k0, axes, d)[k][a]
           = IF k = k0 /\ a \in axes THEN account[k][a] + d[a] ELSE account[k][a]
  BY DEF Book

\* A stored reservation is not mistaken for a missing one.
LEMMA ReservationFacts ==
  ASSUME NEW r \in Reservation
  PROVE  r # NoRes /\ r.status \in Statuses /\ r.status # "none"
<1>1. r.status # "none"
  BY DEF Reservation, Statuses
<1> QED BY <1>1 DEF NoRes, Reservation

\* A step that adds no claim and takes no time makes no account gain.
LEMMA Conserves ==
  ASSUME IInv, IInv', NoNewClaims, forward' = forward
  PROVE  Ledger!Conserved
<1> SUFFICES ASSUME NEW k \in Keys, NEW a \in Axes
             PROVE  Refilled(k, a)' + spent'[k][a] * Period <= Refilled(k, a) + spent[k][a] * Period
  BY DEF Ledger!Conserved, Ledger!Value
<1>1. MaxCap[a] \in Nat /\ Period \in Nat /\ forward \in Nat
  BY StoreAssumption, PeriodAssumption DEF IInv, TypeOK
<1>2. Refilled(k, a) \in Nat
  BY <1>1, OneBucket, RefillFacts DEF IInv, Refilled, BucketType
<1>3. Refilled(k, a)' \in Nat
  <2>1. /\ bucket'[k][a] \in BucketType /\ bucket'[k][a].tokens <= MaxCap[a] * Period
        /\ clock' \in Nat \ {0}
    BY DEF IInv, TypeOK, BucketType
  <2>2. \A b \in BucketType, now \in Nat \ {0} :
          b.tokens <= MaxCap[a] * Period => Refill(b, MaxCap[a], now).tokens \in Nat
    BY <1>1, RefillFacts DEF BucketType
  <2> QED BY <2>1, <2>2 DEF Refilled
<1>4. /\ spent[k][a] * Period \in Int /\ spent'[k][a] * Period \in Int
      /\ MaxCap[a] * forward \in Int
  <2>1. spent[k][a] \in Int /\ spent'[k][a] \in Int
    BY DEF IInv, TypeOK
  <2> QED BY <1>1, <2>1
<1>5. Claimed(k, a)' <= Claimed(k, a)
  BY DEF NoNewClaims
<1>6. /\ Claimed(k, a) = Refilled(k, a) + spent[k][a] * Period - MaxCap[a] * forward
      /\ Claimed(k, a)' = Refilled(k, a)' + spent'[k][a] * Period - MaxCap[a] * forward
  BY DEF Claimed
<1> DEFINE s == Refilled(k, a)
           t == Refilled(k, a)'
           x == spent[k][a] * Period
           y == spent'[k][a] * Period
           z == MaxCap[a] * forward
<1>7. /\ s \in Nat /\ t \in Nat /\ x \in Int /\ y \in Int /\ z \in Int
      /\ t + y - z <= s + x - z
  BY <1>2, <1>3, <1>4, <1>5, <1>6
<1>8. t + y <= s + x
  <2> HIDE DEF s, t, x, y, z
  <2> QED BY <1>7
<1> QED BY <1>8

\* Reservations a step does not name stay or are forgotten.
LEMMA OthersKept ==
  ASSUME IInv, OnlyIssued, NEW S,
         \A id \in Ids \ S : /\ res'[id] = Live[id] \/ res'[id] = res[id]
                             /\ id \in issued' <=> id \in issued
  PROVE  Ledger!Others(S)
<1> SUFFICES ASSUME NEW id \in Ids \ S
             PROVE  \/ Status(id)' = Status(id)
                    \/ Status(id) # "none" /\ Status(id)' = "forgotten"
  BY DEF Ledger!Others, Status
<1>1. CASE res'[id] = res[id]
  BY <1>1 DEF Status
<1>2. CASE res'[id] # res[id]
  <2>1. res[id] # NoRes /\ res'[id] = NoRes
    BY <1>2 DEF Live
  <2>2. res[id] \in Reservation
    BY <2>1 DEF IInv, TypeOK
  <2>3. id \in issued
    BY <2>1 DEF OnlyIssued
  <2> QED BY <2>1, <2>2, <2>3, ReservationFacts DEF Status
<1> QED BY <1>1, <1>2

\* Steps that charge nobody, but for loans: purges, denials, a clock set back.
LEMMA LedgerLend ==
  ASSUME IInv, IInv', OnlyIssued, NoNewClaims, forward' = forward, issued' = issued,
         res' = Live \/ res' = res,
         \A k \in Keys, a \in Axes : /\ spent'[k][a] - spent[k][a] = lent'[k][a] - lent[k][a]
                                     /\ lent'[k][a] >= 0
  PROVE  Ledger!Next
<1>1. Ledger!Conserved
  BY Conserves
<1>2. Ledger!Others({})
  BY OthersKept
<1> QED BY <1>1, <1>2 DEF Ledger!Lend, Ledger!Next

\* Purges and refusals.
LEMMA LedgerPurge ==
  ASSUME IInv, IInv', OnlyIssued, LentOK, NoNewClaims, forward' = forward,
         res' = Live \/ res' = res, UNCHANGED history
  PROVE  Ledger!Next
<1>1. \A k \in Keys, a \in Axes : /\ spent'[k][a] - spent[k][a] = lent'[k][a] - lent[k][a]
                                  /\ lent'[k][a] >= 0
  <2>1. \A k \in Keys, a \in Axes : spent[k][a] \in Int /\ lent[k][a] \in Int
    BY DEF IInv, TypeOK
  <2> QED BY <2>1 DEF history, LentOK
<1> QED BY <1>1, LedgerLend DEF history

\* An allowed Check opens its reservation.
LEMMA LedgerOpen ==
  ASSUME IInv, IInv', OnlyIssued, NoNewClaims,
         NEW k0 \in Keys, NEW l \in Tiers, NEW c \in Costs, NEW id \in Ids,
         CheckAllow(k0, l, c, id)
  PROVE  Ledger!Next
<1>1. /\ forward' = forward /\ lent' = lent /\ issued' = issued \union {id} /\ id \notin issued
      /\ spent' = Book(spent, k0, UsedAxes(Split(l)), Clamped(c))
  BY DEF CheckAllow, timing
<1>2. Ledger!Conserved
  BY <1>1, Conserves
<1>3. Live \in [Ids -> Reservation \union {NoRes}]
  BY LiveType DEF IInv
<1>4. /\ \A i \in Ids \ {id} : res'[i] = Live[i] /\ (i \in issued' <=> i \in issued)
      /\ res'[id].status = "pending"
  BY <1>1, <1>3 DEF CheckAllow
<1>5. Ledger!Others({id})
  BY <1>4, OthersKept
<1>6. Status(id) = "none"
  BY <1>1 DEF OnlyIssued, Status
<1>7. Status(id)' = "pending"
  <2>1. res'[id] # NoRes
    BY <1>4 DEF NoRes
  <2> QED BY <1>4, <2>1 DEF Status
<1>8. \A k \in Keys, a \in Axes : spent'[k][a] >= spent[k][a]
  <2>1. \A k \in Keys, a \in Axes : spent[k][a] \in Int
    BY DEF IInv, TypeOK
  <2>2. \A a \in Axes : Clamped(c)[a] \in Nat
    BY StoreAssumption DEF Clamped, NonNeg
  <2>3. spent \in [Keys -> [Axes -> Int]]
    BY DEF IInv, TypeOK
  <2> QED BY <1>1, <2>1, <2>2, <2>3, BookFacts
<1>9. Ledger!Open(id)
  BY <1>1, <1>2, <1>5, <1>6, <1>7, <1>8 DEF Ledger!Open, Status
<1> QED BY <1>9 DEF Ledger!Next

\* What closing does to the status.
LEMMA ClosingStatus ==
  ASSUME IInv, OnlyIssued, NEW id \in Ids, Live[id] # NoRes, Live[id].status = "pending",
         NEW status \in Statuses, NEW over,
         res' = [Live EXCEPT ![id] = Closed(Live[id], status, over)], issued' = issued
  PROVE  /\ Status(id) = "pending" /\ Status(id)' = status
         /\ Ledger!Others({id})
<1>1. Live \in [Ids -> Reservation \union {NoRes}]
  BY LiveType DEF IInv
<1>2. Live[id] = res[id] /\ Live[id] \in Reservation
  BY <1>1 DEF Live
<1>3. res'[id].status = status /\ \A i \in Ids \ {id} : res'[i] = Live[i]
  BY <1>1, <1>2 DEF Closed, Reservation
<1>4. Ledger!Others({id})
  BY <1>3, OthersKept
<1>5. res'[id] # NoRes
  <2>1. status # "none"
    BY DEF Statuses
  <2> QED BY <1>3, <2>1 DEF NoRes
<1> QED BY <1>2, <1>3, <1>4, <1>5 DEF Status

\* A settlement or a refund closes it.
LEMMA LedgerClose ==
  ASSUME IInv, IInv', OnlyIssued, NoNewClaims, NEW id \in Ids,
         \/ \E io \in BOOLEAN, n \in Actuals : SettlePending(id, io, n)
         \/ RefundPending(id)
  PROVE  Ledger!Next
<1>1. /\ forward' = forward /\ lent' = lent /\ issued' = issued
      /\ Live[id] # NoRes /\ Live[id].status = "pending"
  BY DEF SettlePending, RefundPending, Settleable, Refundable, timing
<1>2. Ledger!Conserved
  BY <1>1, Conserves
<1>3. ASSUME NEW io \in BOOLEAN, NEW n \in Actuals, SettlePending(id, io, n)
      PROVE  Ledger!Next
  <2> DEFINE over == SettleOvershoot(bucket[Live[id].key], Live[id].limits, Live[id].cost,
                                     Clamped(n), clock)
  <2>1. res' = [Live EXCEPT ![id] = Closed(Live[id], "settled", over)]
    BY <1>3 DEF SettlePending
  <2> HIDE DEF over
  <2>2. Status(id) = "pending" /\ Status(id)' = "settled" /\ Ledger!Others({id})
    BY <1>1, <2>1, ClosingStatus DEF Statuses
  <2>3. Ledger!Settle(id)
    BY <1>1, <1>2, <2>2 DEF Ledger!Settle, Status
  <2> QED BY <2>3 DEF Ledger!Next
<1>4. CASE RefundPending(id)
  <2> DEFINE r == Live[id]
             d == [a \in Axes |-> -r.cost[a]]
  <2>1. /\ res' = [Live EXCEPT ![id] = Closed(r, "refunded", Zero)]
        /\ spent' = Book(spent, r.key, UsedAxes(Split(r.limits)), d)
    BY <1>1, <1>4 DEF RefundPending, Adjusted
  <2>2. Status(id) = "pending" /\ Status(id)' = "refunded" /\ Ledger!Others({id})
    BY <1>1, <2>1, ClosingStatus DEF Statuses
  <2>3. r.key \in Keys /\ r.cost \in [Axes -> Nat]
    BY <1>1, LiveType DEF IInv, Reservation
  <2>4. spent \in [Keys -> [Axes -> Int]]
    BY DEF IInv, TypeOK
  <2>5. \A k \in Keys, a \in Axes : spent'[k][a] <= spent[k][a]
    <3>1. \A a \in Axes : d[a] = -r.cost[a] /\ r.cost[a] \in Nat
      BY <2>3
    <3>2. \A k \in Keys, a \in Axes : spent'[k][a] = spent[k][a] + d[a] \/ spent'[k][a] = spent[k][a]
      <4> HIDE DEF d, r
      <4> QED BY <2>1, <2>3, <2>4, BookFacts
    <3>3. \A k \in Keys, a \in Axes : spent[k][a] \in Int
      BY <2>4
    <3> HIDE DEF d, r
    <3> QED BY <3>1, <3>2, <3>3
  <2>6. Ledger!Refund(id)
    BY <1>1, <1>2, <2>2, <2>5 DEF Ledger!Refund, Status
  <2> QED BY <2>6 DEF Ledger!Next
<1> QED BY <1>3, <1>4

\* What a Borrow or a Return books of an axis, on both accounts.
LEMMA LoanBooks ==
  ASSUME IInv, LentOK,
         \/ \E k \in Keys, l \in Tiers, s \in BorrowSpecs : Borrow(k, l, s)
         \/ \E k \in Keys, l \in Tiers, n \in Returns : Return(k, l, n)
  PROVE  \A k \in Keys, a \in Axes : /\ spent'[k][a] - spent[k][a] = lent'[k][a] - lent[k][a]
                                     /\ lent'[k][a] >= 0
<1>1. /\ spent \in [Keys -> [Axes -> Int]] /\ lent \in [Keys -> [Axes -> Int]]
  BY DEF IInv, TypeOK
<1>2. ASSUME NEW k0 \in Keys, NEW axes, NEW d,
             spent' = Book(spent, k0, axes, d), lent' = Book(lent, k0, axes, d),
             \A a \in axes : d[a] \in Int /\ lent[k0][a] + d[a] >= 0,
             NEW k \in Keys, NEW a \in Axes
      PROVE  spent'[k][a] - spent[k][a] = lent'[k][a] - lent[k][a] /\ lent'[k][a] >= 0
  <2>1. spent[k][a] \in Int /\ lent[k][a] \in Int /\ lent[k][a] >= 0
    BY <1>1 DEF LentOK
  <2>2. CASE k = k0 /\ a \in axes
    <3>1. spent'[k][a] = spent[k][a] + d[a] /\ lent'[k][a] = lent[k][a] + d[a]
      BY <1>1, <1>2, <2>2, BookFacts
    <3> QED BY <1>2, <2>1, <2>2, <3>1
  <2>3. CASE ~(k = k0 /\ a \in axes)
    <3>1. spent'[k][a] = spent[k][a] /\ lent'[k][a] = lent[k][a]
      BY <1>1, <1>2, <2>3, BookFacts
    <3> QED BY <2>1, <3>1
  <2> QED BY <2>2, <2>3
<1>3. ASSUME NEW k0 \in Keys, NEW l \in Tiers, NEW s \in BorrowSpecs, Borrow(k0, l, s)
      PROVE  \A k \in Keys, a \in Axes : /\ spent'[k][a] - spent[k][a] = lent'[k][a] - lent[k][a]
                                         /\ lent'[k][a] >= 0
  <2> DEFINE got == BorrowGot(bucket[k0], l, s, clock)
             axes == UsedAxes(Split(l))
  <2>1. spent' = Book(spent, k0, axes, got) /\ lent' = Book(lent, k0, axes, got)
    BY <1>3 DEF Borrow
  <2>2. \A a \in axes : got[a] \in Nat /\ a \in Axes
    BY <1>3, BorrowAxes, AxesInUse DEF Borrow
  <2>3. \A a \in axes : lent[k0][a] \in Int /\ lent[k0][a] >= 0
    BY <1>1, <2>2 DEF LentOK
  <2> HIDE DEF got, axes
  <2>4. \A a \in axes : got[a] \in Int /\ lent[k0][a] + got[a] >= 0
    BY <2>2, <2>3
  <2> QED BY <1>2, <2>1, <2>4
<1>4. ASSUME NEW k0 \in Keys, NEW l \in Tiers, NEW n \in Returns, Return(k0, l, n)
      PROVE  \A k \in Keys, a \in Axes : /\ spent'[k][a] - spent[k][a] = lent'[k][a] - lent[k][a]
                                         /\ lent'[k][a] >= 0
  <2> DEFINE given == [a \in Axes |-> -NonNeg(n[a])]
             axes == UsedAxes(Split(l))
  <2>1. spent' = Book(spent, k0, axes, given) /\ lent' = Book(lent, k0, axes, given)
    BY <1>4 DEF Return
  <2>2. \A a \in axes : a \in Axes
    BY AxesInUse
  <2>3. \A a \in Axes : /\ NonNeg(n[a]) \in Nat /\ NonNeg(n[a]) <= lent[k0][a]
                        /\ given[a] = -NonNeg(n[a])
    BY <1>4, StoreAssumption DEF Return, NonNeg
  <2>4. \A a \in Axes : lent[k0][a] \in Int
    BY <1>1
  <2> HIDE DEF given, axes
  <2>5. \A a \in axes : given[a] \in Int /\ lent[k0][a] + given[a] >= 0
    BY <2>2, <2>3, <2>4
  <2> QED BY <1>2, <2>1, <2>5
<1> QED BY <1>3, <1>4

\* Time adds at most the rate.
LEMMA LedgerTick ==
  ASSUME IInv, OnlyIssued, Tick
  PROVE  Ledger!Next
<1>1. clock' = clock + 1 /\ UNCHANGED <<bucket, res, issued, spent, lent>>
  BY DEF Tick, code, history
<1>2. \A k \in Keys, a \in Axes : Refilled(k, a)' <= Refilled(k, a) + MaxCap[a]
  <2> SUFFICES ASSUME NEW k \in Keys, NEW a \in Axes
               PROVE  Refilled(k, a)' <= Refilled(k, a) + MaxCap[a]
    OBVIOUS
  <2>1. MaxCap[a] \in Nat
    BY StoreAssumption
  <2> QED BY <1>1, <2>1, OneBucket, RefillOverTime DEF IInv, Refilled
<1>3. Ledger!Others({})
  BY <1>1, OthersKept
<1> QED BY <1>1, <1>2, <1>3 DEF Ledger!Earn, Ledger!Next

\* Only a Return takes from what is lent, and never more than there is.
LEMMA LentStep ==
  ASSUME IInv, LentOK, [Next]_vars
  PROVE  LentOK'
<1>1. \/ lent' = lent
      \/ \E k \in Keys, l \in Tiers, s \in BorrowSpecs : Borrow(k, l, s)
      \/ \E k \in Keys, l \in Tiers, n \in Returns : Return(k, l, n)
  BY DEF Next, vars, history, CheckInvalid, CheckDeny, CheckAllow, Settle, SettleIO,
         SettleRefused, SettlePending, Refund, RefundRefused, RefundPending, Tick, StepBack
<1> QED BY <1>1, LoanBooks DEF LentOK

\* Every step of the store is one of the ledger or none.
LEMMA LedgerStep ==
  ASSUME SteadyLimits, IInv, OnlyIssued, LentOK, [Next]_vars
  PROVE  [Ledger!Next]_Ledger!vars
<1>1. IInv' /\ NoNewClaims
  BY NextStep
<1>2. ASSUME forward' = forward, res' = Live \/ res' = res, UNCHANGED history
      PROVE  Ledger!Next
  BY <1>1, <1>2, LedgerPurge
<1>3. CASE CheckInvalid
  BY <1>2, <1>3 DEF CheckInvalid, timing
<1>4. ASSUME NEW k \in Keys, NEW l \in Tiers, NEW c \in Costs, CheckDeny(k, l, c)
      PROVE  Ledger!Next
  BY <1>2, <1>4 DEF CheckDeny, timing
<1>5. ASSUME NEW k \in Keys, NEW l \in Tiers, NEW c \in Costs, NEW id \in Ids,
             CheckAllow(k, l, c, id)
      PROVE  Ledger!Next
  BY <1>1, <1>5, LedgerOpen
<1>6. ASSUME NEW id \in Ids, NEW io \in BOOLEAN, NEW n \in Actuals,
             SettleRefused(id, io) \/ SettlePending(id, io, n)
      PROVE  Ledger!Next
  <2>1. CASE SettleRefused(id, io)
    BY <1>2, <2>1 DEF SettleRefused, timing
  <2>2. CASE SettlePending(id, io, n)
    BY <1>1, <2>2, LedgerClose
  <2> QED BY <1>6, <2>1, <2>2
<1>7. ASSUME NEW id \in Ids, Refund(id)
      PROVE  Ledger!Next
  <2>1. CASE RefundRefused(id)
    BY <1>2, <2>1 DEF RefundRefused, timing
  <2>2. CASE RefundPending(id)
    BY <1>1, <2>2, LedgerClose
  <2> QED BY <1>7, <2>1, <2>2 DEF Refund
<1>8. ASSUME \/ \E k \in Keys, l \in Tiers, s \in BorrowSpecs : Borrow(k, l, s)
             \/ \E k \in Keys, l \in Tiers, n \in Returns : Return(k, l, n)
      PROVE  Ledger!Next
  <2>1. forward' = forward /\ issued' = issued /\ res' = res
    BY <1>8 DEF Borrow, Return, timing
  <2> QED BY <1>1, <1>8, <2>1, LoanBooks, LedgerLend
<1>9. CASE Tick
  BY <1>9, LedgerTick
<1>10. CASE StepBack
  BY <1>2, <1>10 DEF StepBack, code
<1>11. CASE UNCHANGED vars
  <2>1. \A k \in Keys, a \in Axes : Refilled(k, a)' = Refilled(k, a)
    BY <1>11 DEF vars, Refilled
  <2> QED BY <1>11, <2>1 DEF vars, Ledger!vars
<1> QED BY <1>3, <1>4, <1>5, <1>6, <1>7, <1>8, <1>9, <1>10, <1>11 DEF Next, Settle, SettleIO

\* Under SteadyLimits the store implements the ledger: a charge changes only with
\* the reservation or the loan it belongs to and is matched by the buckets, whatever
\* expires and however tiers and clocks change.
THEOREM MemoryImplementsLedger == ASSUME SteadyLimits PROVE Spec => ImplementsLedger
<1> DEFINE I == IInv /\ OnlyIssued /\ LentOK
<1>1. Init => I
  BY InitStep DEF Init, OnlyIssued, LentOK, Zero
<1>2. I /\ [Next]_vars => I'
  BY NextStep, LifecycleStep, LentStep
<1>3. Init => Ledger!Init
  BY DEF Init, Ledger!Init, Zero
<1>4. I /\ [Next]_vars => [Ledger!Next]_Ledger!vars
  BY LedgerStep
<1> QED BY <1>1, <1>2, <1>3, <1>4, PTL DEF Spec, ImplementsLedger, Ledger!Spec

-----------------------------------------------------------------------------
(* The wait of a denied Check. *)

\* In any well-typed state, whatever the tier and the cost.
LEMMA WaitExact == TypeOK => RetryAfterExact
<1> SUFFICES ASSUME TypeOK, NEW k \in Keys, NEW l \in Tiers, NEW c \in Costs,
                    NEW d, d = CheckDecision(bucket[k], l, c, clock),
                    ~d.allowed, Clamped(c)[d.limit] <= l[d.limit],
                    bucket[k][d.limit].last <= clock
             PROVE  /\ d.limit \notin CheckDenies(bucket[k], l, c, clock + d.retry)
                    /\ d.limit \in CheckDenies(bucket[k], l, c, clock + d.retry - 1)
  BY DEF RetryAfterExact
<1> DEFINE denies == CheckDenies(bucket[k], l, c, clock)
           a == FirstOf(Split(l), denies)
           w == RetryAfter(Reloaded(bucket[k], l, clock)[a], l[a], Clamped(c)[a])
<1>1. denies # {} /\ d.limit = a /\ d.retry = w
  BY DEF CheckDecision
<1>2. a \in denies /\ a \in UsedAxes(Split(l)) /\ a \in Axes
  <2>1. denies \in SUBSET UsedAxes(Split(l)) /\ Split(l) \in BOOLEAN
    BY DEF CheckDenies, Split
  <2> HIDE DEF denies
  <2> QED BY <1>1, <2>1, FirstDenies, AxesInUse
<1> HIDE DEF a
<1>3. \A now : Reloaded(bucket[k], l, now)[a] = Refill(Refill(bucket[k][a], l[a], now), l[a], now)
  BY <1>2 DEF Reloaded, Load
<1>4. \A now : a \in CheckDenies(bucket[k], l, c, now)
                 <=> ~CanConsume(Refill(Refill(bucket[k][a], l[a], now), l[a], now), l[a], Clamped(c)[a])
  BY <1>2, <1>3 DEF CheckDenies
<1>5. /\ l[a] \in Nat /\ bucket[k][a] \in BucketType /\ clock \in Nat \ {0}
      /\ bucket[k][a].last <= clock /\ Clamped(c)[a] \in Nat /\ Clamped(c)[a] <= l[a]
  <2>1. Clamped(c)[a] \in Nat
    BY <1>2, StoreAssumption DEF Clamped, NonNeg
  <2> QED BY <1>1, <1>2, <2>1, Limits, OneBucket
<1>6. w = RetryAfter(Refill(Refill(bucket[k][a], l[a], clock), l[a], clock), l[a], Clamped(c)[a])
  BY <1>3
<1> DEFINE b == bucket[k][a]
           cap == l[a]
           need == Clamped(c)[a]
<1>7. /\ cap \in Nat /\ b \in BucketType /\ clock \in Nat \ {0} /\ b.last <= clock
      /\ need \in Nat /\ need <= cap
      /\ ~CanConsume(Refill(Refill(b, cap, clock), cap, clock), cap, need)
      /\ w = RetryAfter(Refill(Refill(b, cap, clock), cap, clock), cap, need)
  BY <1>2, <1>4, <1>5, <1>6
<1>8. /\ CanConsume(Refill(Refill(b, cap, clock + w), cap, clock + w), cap, need)
      /\ ~CanConsume(Refill(Refill(b, cap, clock + w - 1), cap, clock + w - 1), cap, need)
  <2> HIDE DEF b, cap, need, w
  <2> QED BY <1>7, RetryExact
<1> HIDE DEF w
<1> QED BY <1>1, <1>4, <1>8

\* A caller who waits exactly as long as a denied Check told it is neither early
\* nor later than it need be on the axis that was named, for every tier, cost
\* and state: the rounding in retryAfter and the two refills of a Check agree.
THEOREM RetryAfterExactHolds == Spec => []RetryAfterExact
<1> QED BY TypeCorrect, WaitExact, PTL

-----------------------------------------------------------------------------
(* No token is lost. *)

\* What the pending reservations hold of an axis of a key, each and together.
Held(k, a) ==
  [id \in Ids |-> IF res[id] # NoRes /\ res[id].status = "pending" /\ res[id].key = k
                  THEN res[id].cost[a] ELSE 0]

Owed(k, a) == SumFunctionOnSet(Held(k, a), issued)

\* What is on loan and what the pending reservations hold is charged: a refund, a
\* settlement or a return never makes a charge negative.
Covered == \A k \in Keys, a \in Axes : lent[k][a] + Owed(k, a) <= spent[k][a]

LInv == IInv /\ OnlyIssued /\ LentOK /\ IsFiniteSet(issued)

HeldTyped ==
  \A k \in Keys, a \in Axes :
    /\ \A id \in Ids : Held(k, a)[id] \in Nat
    /\ Owed(k, a) \in Nat /\ lent[k][a] \in Nat /\ spent[k][a] \in Int

\* The types of the parts.
LEMMA HeldFacts == LInv => HeldTyped
<1> SUFFICES ASSUME LInv, NEW k \in Keys, NEW a \in Axes
             PROVE  /\ \A id \in Ids : Held(k, a)[id] \in Nat
                    /\ Owed(k, a) \in Nat /\ lent[k][a] \in Nat /\ spent[k][a] \in Int
  BY DEF HeldTyped
<1>1. \A id \in Ids : Held(k, a)[id] \in Nat
  <2> SUFFICES ASSUME NEW id \in Ids PROVE Held(k, a)[id] \in Nat
    OBVIOUS
  <2>1. res[id] # NoRes => res[id].cost[a] \in Nat
    BY DEF LInv, IInv, TypeOK, Reservation
  <2> QED BY <2>1 DEF Held
<1>2. Owed(k, a) \in Nat
  <2>1. issued \subseteq Ids /\ IsFiniteSet(issued)
    BY DEF LInv, IInv, TypeOK
  <2> DEFINE f == Held(k, a)
  <2>2. \A id \in issued : f[id] \in Nat
    BY <1>1, <2>1
  <2> HIDE DEF f
  <2>3. SumFunctionOnSet(f, issued) \in Nat
    BY <2>1, <2>2, SumType
  <2> QED BY <2>3 DEF Owed, f
<1> QED BY <1>1, <1>2 DEF LInv, IInv, TypeOK, LentOK

\* The same in the next state.
LEMMA HeldFactsNext == LInv' => HeldTyped'
  BY HeldFacts, PTL

\* Reservations only expire, but for one that may open or close.
LEMMA OwedChange ==
  ASSUME LInv, LInv', NEW k \in Keys, NEW a \in Axes, NEW id \in Ids,
         issued' = issued \union {id},
         \A i \in Ids \ {id} : res'[i] = res[i] \/ res'[i] = NoRes
  PROVE  Owed(k, a)' <= Owed(k, a) + Held(k, a)'[id] - Held(k, a)[id]
<1> DEFINE f == Held(k, a)
           g == Held(k, a)'
           D == issued \union {id}
<1>1. D \subseteq Ids /\ IsFiniteSet(D) /\ id \in D
  BY DEF LInv, IInv, TypeOK
<1>2. \A i \in Ids : f[i] \in Nat /\ g[i] \in Nat
  BY HeldFacts, HeldFactsNext DEF HeldTyped
<1>3. \A i \in Ids \ {id} : g[i] = f[i] \/ g[i] = 0
  BY DEF Held
<1>4. id \notin issued => f[id] = 0
  BY DEF LInv, OnlyIssued, Held
<1>5. Owed(k, a) = SumFunctionOnSet(f, issued) /\ Owed(k, a)' = SumFunctionOnSet(g, D)
  BY DEF Owed
<1>6. id \in issued => D = issued
  OBVIOUS
<1>7. id \notin issued => D \ {id} = issued
  OBVIOUS
<1> HIDE DEF f, g, D
<1>8. \A i \in D : f[i] \in Int /\ g[i] \in Int
  BY <1>1, <1>2
<1>9. \A i \in D \ {id} : g[i] <= f[i]
  BY <1>1, <1>2, <1>3
<1>10. SumFunctionOnSet(g, D) <= SumFunctionOnSet(f, D) + g[id] - f[id]
  BY <1>1, <1>8, <1>9, SumChange
<1>11. SumFunctionOnSet(f, D) = SumFunctionOnSet(f, issued)
  <2>1. CASE id \in issued
    BY <1>6, <2>1
  <2>2. CASE id \notin issued
    <3>1. SumFunctionOnSet(f, D) = f[id] + SumFunctionOnSet(f, D \ {id})
      BY <1>1, <1>8, SumTake
    <3>2. SumFunctionOnSet(f, D \ {id}) \in Int
      BY <1>1, <1>8, SumType
    <3>3. SumFunctionOnSet(f, D \ {id}) = SumFunctionOnSet(f, issued) /\ f[id] = 0
      BY <1>4, <1>7, <2>2
    <3> QED BY <3>1, <3>2, <3>3
  <2> QED BY <2>1, <2>2
<1> QED BY <1>5, <1>10, <1>11 DEF f, g

\* Reservations that expire are owed no longer, and loans are booked twice.
LEMMA CoveredLoan ==
  ASSUME LInv, LInv', Covered, issued' = issued,
         \A i \in Ids : res'[i] = res[i] \/ res'[i] = NoRes,
         \A k \in Keys, a \in Axes : spent'[k][a] - spent[k][a] = lent'[k][a] - lent[k][a]
  PROVE  Covered'
<1> SUFFICES ASSUME NEW k \in Keys, NEW a \in Axes
             PROVE  lent'[k][a] + Owed(k, a)' <= spent'[k][a]
  BY DEF Covered
<1> DEFINE f == Held(k, a)
           g == Held(k, a)'
<1>1. issued \subseteq Ids /\ IsFiniteSet(issued)
  BY DEF LInv, IInv, TypeOK
<1>2. \A i \in Ids : f[i] \in Nat /\ g[i] \in Nat
  BY HeldFacts, HeldFactsNext DEF HeldTyped
<1>3. \A i \in Ids : g[i] = f[i] \/ g[i] = 0
  BY DEF Held
<1>4. Owed(k, a) = SumFunctionOnSet(f, issued) /\ Owed(k, a)' = SumFunctionOnSet(g, issued)
  BY DEF Owed
<1> HIDE DEF f, g
<1>5. \A i \in issued : f[i] \in Int /\ g[i] \in Int /\ g[i] <= f[i]
  BY <1>1, <1>2, <1>3
<1>6. SumFunctionOnSet(g, issued) <= SumFunctionOnSet(f, issued)
  BY <1>1, <1>5, SumLeq
<1>7. lent[k][a] + Owed(k, a) <= spent[k][a]
  BY DEF Covered
<1>8. spent'[k][a] - spent[k][a] = lent'[k][a] - lent[k][a]
  OBVIOUS
<1> QED BY <1>4, <1>6, <1>7, <1>8, HeldFacts, HeldFactsNext DEF HeldTyped

\* Expired or not, a reservation a step does not name is kept or forgotten.
LEMMA LiveFacts == \A i \in Ids : Live[i] = res[i] \/ Live[i] = NoRes
  BY DEF Live

\* A Check that is allowed charges what its reservation holds.
LEMMA CoveredOpen ==
  ASSUME LInv, LInv', Covered,
         NEW k0 \in Keys, NEW l \in Tiers, NEW c \in Costs, NEW id \in Ids,
         CheckAllow(k0, l, c, id)
  PROVE  Covered'
<1> DEFINE axes == UsedAxes(Split(l))
<1>1. Live \in [Ids -> Reservation \union {NoRes}]
  BY LiveType DEF LInv, IInv
<1>2. /\ lent' = lent /\ issued' = issued \union {id} /\ id \notin issued
      /\ spent' = Book(spent, k0, axes, Clamped(c))
      /\ res'[id].status = "pending" /\ res'[id].key = k0 /\ res'[id].cost = Reserved(l, c)
      /\ \A i \in Ids \ {id} : res'[i] = Live[i]
  BY <1>1 DEF CheckAllow
<1>3. res[id] = NoRes /\ res'[id] # NoRes
  BY <1>2 DEF LInv, OnlyIssued, NoRes
<1>4. \A i \in Ids \ {id} : res'[i] = res[i] \/ res'[i] = NoRes
  BY <1>2, LiveFacts
<1> SUFFICES ASSUME NEW k \in Keys, NEW a \in Axes
             PROVE  lent'[k][a] + Owed(k, a)' <= spent'[k][a]
  BY DEF Covered
<1>5. Held(k, a)[id] = 0 /\ Held(k, a)'[id] = IF k = k0 THEN Reserved(l, c)[a] ELSE 0
  BY <1>2, <1>3 DEF Held
<1>6. Owed(k, a)' <= Owed(k, a) + Held(k, a)'[id] - Held(k, a)[id]
  BY <1>2, <1>4, OwedChange
<1>7. lent[k][a] + Owed(k, a) <= spent[k][a]
  BY DEF Covered
<1>8. Reserved(l, c)[a] = (IF a \in axes THEN Clamped(c)[a] ELSE 0) /\ Clamped(c)[a] \in Nat
  BY StoreAssumption DEF Reserved, Clamped, NonNeg
<1>9. spent'[k][a] = IF k = k0 /\ a \in axes THEN spent[k][a] + Clamped(c)[a] ELSE spent[k][a]
  <2>1. spent \in [Keys -> [Axes -> Int]]
    BY DEF LInv, IInv, TypeOK
  <2> QED BY <1>2, <2>1, BookFacts
<1> HIDE DEF axes
<1>10. Held(k, a)'[id] \in Nat /\ spent'[k][a] = spent[k][a] + Held(k, a)'[id]
  BY <1>5, <1>8, <1>9, HeldFacts DEF HeldTyped
<1> QED BY <1>2, <1>5, <1>6, <1>7, <1>10, HeldFacts, HeldFactsNext DEF HeldTyped

\* Closing takes off what was reserved, and no more off the charge.
LEMMA CoveredClose ==
  ASSUME LInv, LInv', Covered, NEW id \in Ids, Live[id] # NoRes, Live[id].status = "pending",
         NEW status \in {"settled", "refunded"}, NEW over,
         res' = [Live EXCEPT ![id] = Closed(Live[id], status, over)],
         lent' = lent, issued' = issued,
         NEW axes \in SUBSET Axes, NEW d, spent' = Book(spent, Live[id].key, axes, d),
         \A a \in axes : d[a] \in Int /\ -Live[id].cost[a] <= d[a]
  PROVE  Covered'
<1> DEFINE r == Live[id]
<1>1. Live \in [Ids -> Reservation \union {NoRes}]
  BY LiveType DEF LInv, IInv
<1>2. r = res[id] /\ r \in Reservation /\ r.key \in Keys /\ \A a \in Axes : r.cost[a] \in Nat
  BY <1>1 DEF Live, Reservation
<1>3. /\ res'[id].status = status /\ status # "pending"
      /\ \A i \in Ids \ {id} : res'[i] = res[i] \/ res'[i] = NoRes
  BY <1>1, <1>2, LiveFacts DEF Closed, Reservation
<1>4. issued' = issued \union {id}
  BY <1>2 DEF LInv, OnlyIssued
<1> SUFFICES ASSUME NEW k \in Keys, NEW a \in Axes
             PROVE  lent'[k][a] + Owed(k, a)' <= spent'[k][a]
  BY DEF Covered
<1>5. Held(k, a)[id] = (IF k = r.key THEN r.cost[a] ELSE 0) /\ Held(k, a)'[id] = 0
  BY <1>2, <1>3 DEF Held
<1>6. Owed(k, a)' <= Owed(k, a) + Held(k, a)'[id] - Held(k, a)[id]
  BY <1>3, <1>4, OwedChange
<1>7. lent[k][a] + Owed(k, a) <= spent[k][a]
  BY DEF Covered
<1>8. spent'[k][a] = IF k = r.key /\ a \in axes THEN spent[k][a] + d[a] ELSE spent[k][a]
  <2>1. spent \in [Keys -> [Axes -> Int]]
    BY DEF LInv, IInv, TypeOK
  <2> QED BY <1>2, <2>1, BookFacts
<1>9. a \in axes => d[a] \in Int /\ -r.cost[a] <= d[a]
  OBVIOUS
<1>10. r.cost[a] \in Nat
  BY <1>2
<1> HIDE DEF r
<1>11. spent'[k][a] >= spent[k][a] - Held(k, a)[id]
  BY <1>5, <1>8, <1>9, <1>10, HeldFacts DEF HeldTyped
<1> QED BY <1>5, <1>6, <1>7, <1>11, HeldFacts, HeldFactsNext DEF HeldTyped

\* The step saves the buckets `new' of some axes of a key and charges d for them,
\* and each keeps, against the tier it was moved under, all but the charge.
Move(k, l, axes, new, d) ==
  /\ k \in Keys /\ l \in Tiers /\ axes \in SUBSET UsedAxes(Split(l))
  /\ bucket' = [bucket EXCEPT ![k] = Save(bucket[k], new, axes)]
  /\ spent' = Book(spent, k, axes, d)
  /\ \A a \in axes : d[a] \in Int /\ Keeps(bucket[k][a], new[a], l[a], d[a])

\* What OneBucket and Limits say of an axis, for the lemmas on what is kept.
LEMMA OneAxis ==
  ASSUME IInv, NEW k \in Keys, NEW l \in Tiers, NEW a \in Axes
  PROVE  l[a] \in Nat /\ bucket[k][a] \in BucketType /\ clock \in Nat \ {0}
  BY OneBucket, Limits DEF IInv

\* Check moves the axes of its tier.
LEMMA CheckMove ==
  ASSUME IInv, NEW k \in Keys, NEW l \in Tiers, NEW c \in Costs, NEW id \in Ids,
         CheckAllow(k, l, c, id)
  PROVE  \E axes, new, d : Move(k, l, axes, new, d)
<1> DEFINE new == [a \in Axes |-> TryConsume(Load(bucket[k], l, clock)[a], l[a], clock, c[a])]
           axes == UsedAxes(Split(l))
<1>1. bucket \in [Keys -> [Axes -> BucketType]] /\ axes \in SUBSET Axes
  BY AxesInUse DEF IInv, TypeOK, BucketType
<1>2. /\ bucket' = [bucket EXCEPT ![k] = Save(bucket[k], new, axes)]
      /\ spent' = Book(spent, k, axes, Clamped(c))
  BY <1>1 DEF CheckAllow, CheckDebit
<1>3. ASSUME NEW a \in axes
      PROVE  Clamped(c)[a] \in Int /\ Keeps(bucket[k][a], new[a], l[a], Clamped(c)[a])
  <2>1. a \in Axes /\ c[a] \in Int
    BY <1>1, StoreAssumption
  <2>2. Clamped(c)[a] = NonNeg(c[a]) /\ NonNeg(c[a]) \in Int
    BY <2>1 DEF Clamped, NonNeg
  <2>3. new[a] = TryConsume(Refill(bucket[k][a], l[a], clock), l[a], clock, c[a])
    BY <2>1 DEF Load
  <2> QED BY <2>1, <2>2, <2>3, OneAxis, ConsumeKeeps
<1> HIDE DEF new, axes
<1>4. Move(k, l, axes, new, Clamped(c))
  BY <1>2, <1>3 DEF Move, axes
<1> QED BY <1>4

\* A settlement moves the token axes, and no charge below nothing.
LEMMA SettleMove ==
  ASSUME IInv, NEW id \in Ids, NEW io \in BOOLEAN, NEW n \in Actuals,
         SettlePending(id, io, n)
  PROVE  \E axes, new, d, over :
           /\ axes \in SUBSET Axes
           /\ Move(Live[id].key, Live[id].limits, axes, new, d)
           /\ \A a \in axes : d[a] \in Int /\ -Live[id].cost[a] <= d[a]
           /\ spent' = Book(spent, Live[id].key, axes, d)
           /\ res' = [Live EXCEPT ![id] = Closed(Live[id], "settled", over)]
<1> DEFINE r == Live[id]
           k == r.key
           l == r.limits
           actual == Clamped(n)
           charge == [a \in Axes |-> SettleCharge(bucket[k][a], l[a], clock, r.cost[a], actual[a])]
           over == SettleOvershoot(bucket[k], l, r.cost, actual, clock)
           new == [a \in Axes |-> SettleAxis(bucket[k][a], l[a], clock, r.cost[a], actual[a])]
           axes == TokenAxes(io)
           d == [a \in Axes |-> actual[a] - over[a] - r.cost[a]]
<1>1. TypeOK /\ bucket \in [Keys -> [Axes -> BucketType]] /\ axes \in SUBSET Axes
  BY AxesInUse DEF IInv, TypeOK, BucketType
<1>2. /\ r \in Reservation /\ k \in Keys /\ l \in Tiers /\ r.cost \in [Axes -> Nat]
      /\ Split(l) = io
  BY <1>1, LiveType DEF SettlePending, Settleable, Reservation
<1>3. actual \in [Axes -> Nat]
  BY StoreAssumption DEF Clamped, NonNeg
<1>4. \A a \in Axes : /\ charge[a] \in 0..actual[a]
                      /\ Keeps(bucket[k][a], new[a], l[a], charge[a] - r.cost[a])
  <2> SUFFICES ASSUME NEW a \in Axes
               PROVE  /\ SettleCharge(bucket[k][a], l[a], clock, r.cost[a], actual[a]) \in 0..actual[a]
                      /\ Keeps(bucket[k][a],
                               SettleAxis(bucket[k][a], l[a], clock, r.cost[a], actual[a]), l[a],
                               SettleCharge(bucket[k][a], l[a], clock, r.cost[a], actual[a]) - r.cost[a])
    OBVIOUS
  <2>1. r.cost[a] \in Nat /\ actual[a] \in Nat
    BY <1>2, <1>3
  <2> HIDE DEF r, k, l, actual
  <2>2. l[a] \in Nat /\ bucket[k][a] \in BucketType /\ clock \in Nat \ {0}
    BY <1>2, OneAxis
  <2>3. SettleCharge(bucket[k][a], l[a], clock, r.cost[a], actual[a]) \in 0..actual[a]
    BY <1>1, <1>2, <1>3, SettleAxes
  <2> QED BY <2>1, <2>2, <2>3, SettleKeeps
<1>5. bucket' = [bucket EXCEPT ![k] = Save(bucket[k], new, axes)]
  BY <1>1, <1>2 DEF SettlePending, SettleSave
<1>6. spent' = Book(spent, k, axes, d)
  BY DEF SettlePending, Settleable, Adjusted
<1>7. res' = [Live EXCEPT ![id] = Closed(r, "settled", over)]
  BY DEF SettlePending
<1>8. \A a \in axes : over[a] = actual[a] - charge[a] /\ d[a] = actual[a] - over[a] - r.cost[a]
  BY <1>1, <1>2 DEF SettleOvershoot
<1> HIDE DEF k, l, actual, charge, over, new, axes, d
<1>9. \A a \in axes : /\ r.cost[a] \in Nat /\ actual[a] \in Nat /\ charge[a] \in 0..actual[a]
                      /\ Keeps(bucket[k][a], new[a], l[a], charge[a] - r.cost[a])
  BY <1>1, <1>2, <1>3, <1>4
<1> HIDE DEF r
<1>10. \A a \in axes : d[a] = charge[a] - r.cost[a] /\ d[a] \in Int /\ -r.cost[a] <= d[a]
  BY <1>8, <1>9
<1>11. Move(k, l, axes, new, d)
  <2>1. axes \in SUBSET UsedAxes(Split(l))
    BY <1>2 DEF axes, UsedAxes
  <2>2. \A a \in axes : d[a] \in Int /\ Keeps(bucket[k][a], new[a], l[a], d[a])
    BY <1>9, <1>10
  <2> QED BY <1>2, <1>5, <1>6, <2>1, <2>2 DEF Move
<1> QED BY <1>1, <1>6, <1>7, <1>10, <1>11 DEF r, k, l

\* A refund moves the axes of the tier it was reserved under.
LEMMA RefundMove ==
  ASSUME IInv, NEW id \in Ids, RefundPending(id)
  PROVE  \E axes, new, d, over :
           /\ axes \in SUBSET Axes
           /\ Move(Live[id].key, Live[id].limits, axes, new, d)
           /\ \A a \in axes : d[a] \in Int /\ -Live[id].cost[a] <= d[a]
           /\ spent' = Book(spent, Live[id].key, axes, d)
           /\ res' = [Live EXCEPT ![id] = Closed(Live[id], "refunded", over)]
<1> DEFINE r == Live[id]
           k == r.key
           l == r.limits
           new == [a \in Axes |-> Credit(Refill(bucket[k][a], l[a], clock), l[a], clock, r.cost[a])]
           axes == UsedAxes(Split(l))
           d == [a \in Axes |-> -r.cost[a]]
<1>1. TypeOK /\ bucket \in [Keys -> [Axes -> BucketType]] /\ axes \in SUBSET Axes
  BY AxesInUse DEF IInv, TypeOK, BucketType
<1>2. r \in Reservation /\ k \in Keys /\ l \in Tiers /\ r.cost \in [Axes -> Nat]
  BY <1>1, LiveType DEF RefundPending, Refundable, Reservation
<1>3. bucket' = [bucket EXCEPT ![k] = Save(bucket[k], new, axes)]
  BY <1>1, <1>2 DEF RefundPending, CreditSave
<1>4. spent' = Book(spent, k, axes, d)
  BY DEF RefundPending, Refundable, Adjusted
<1>5. res' = [Live EXCEPT ![id] = Closed(r, "refunded", Zero)]
  BY DEF RefundPending
<1>6. ASSUME NEW a \in axes
      PROVE  /\ d[a] \in Int /\ -r.cost[a] <= d[a]
             /\ Keeps(bucket[k][a], new[a], l[a], d[a])
  <2>1. a \in Axes /\ r.cost[a] \in Nat
    BY <1>1, <1>2
  <2>2. /\ new[a] = Credit(Refill(bucket[k][a], l[a], clock), l[a], clock, r.cost[a])
        /\ d[a] = -r.cost[a]
    BY <2>1
  <2> HIDE DEF r, k, l, new, d
  <2>3. -NonNeg(r.cost[a]) = d[a] /\ d[a] \in Int /\ -r.cost[a] <= d[a]
    BY <2>1, <2>2 DEF NonNeg
  <2>4. l[a] \in Nat /\ bucket[k][a] \in BucketType /\ clock \in Nat \ {0}
    BY <1>2, <2>1, OneAxis
  <2>5. Keeps(bucket[k][a], Credit(Refill(bucket[k][a], l[a], clock), l[a], clock, r.cost[a]),
              l[a], -NonNeg(r.cost[a]))
    BY <2>1, <2>4, CreditKeeps
  <2> QED BY <2>2, <2>3, <2>5
<1> HIDE DEF r, k, new, d
<1>7. Move(k, l, axes, new, d)
  BY <1>2, <1>3, <1>4, <1>6 DEF Move
<1> QED BY <1>1, <1>4, <1>5, <1>6, <1>7 DEF r, k, l

\* Borrow moves the axes of its tier: what TryConsume does not debit stays there.
LEMMA BorrowMove ==
  ASSUME IInv, NEW k \in Keys, NEW l \in Tiers, NEW s \in BorrowSpecs, Borrow(k, l, s)
  PROVE  \E axes, new, d : Move(k, l, axes, new, d)
<1> DEFINE got == BorrowGot(bucket[k], l, s, clock)
           new == [a \in Axes |-> TryConsume(Load(bucket[k], l, clock)[a], l[a], clock, got[a])]
           axes == UsedAxes(Split(l))
<1>1. bucket \in [Keys -> [Axes -> BucketType]] /\ axes \in SUBSET Axes
  BY AxesInUse DEF IInv, TypeOK, BucketType
<1>2. /\ bucket' = [bucket EXCEPT ![k] = Save(bucket[k], new, axes)]
      /\ spent' = Book(spent, k, axes, got)
  BY <1>1 DEF Borrow, BorrowDebit
<1>3. ASSUME NEW a \in axes
      PROVE  got[a] \in Int /\ Keeps(bucket[k][a], new[a], l[a], got[a])
  <2>1. a \in Axes /\ got[a] \in Nat
    BY <1>1, BorrowAxes DEF Borrow
  <2>2. new[a] = TryConsume(Refill(bucket[k][a], l[a], clock), l[a], clock, got[a])
    BY <2>1 DEF Load
  <2> HIDE DEF got, new
  <2>3. got[a] \in Int /\ NonNeg(got[a]) = got[a]
    BY <2>1 DEF NonNeg
  <2>4. Keeps(bucket[k][a], TryConsume(Refill(bucket[k][a], l[a], clock), l[a], clock, got[a]),
              l[a], NonNeg(got[a]))
    BY <2>1, <2>3, OneAxis, ConsumeKeeps
  <2> QED BY <2>2, <2>3, <2>4
<1> HIDE DEF new, axes, got
<1>4. Move(k, l, axes, new, got)
  BY <1>2, <1>3 DEF Move, axes
<1> QED BY <1>4

\* So does Return.
LEMMA ReturnMove ==
  ASSUME IInv, NEW k \in Keys, NEW l \in Tiers, NEW n \in Returns, Return(k, l, n)
  PROVE  \E axes, new, d : Move(k, l, axes, new, d)
<1> DEFINE new == [a \in Axes |-> Credit(Refill(bucket[k][a], l[a], clock), l[a], clock, n[a])]
           axes == UsedAxes(Split(l))
           given == [a \in Axes |-> -NonNeg(n[a])]
<1>1. bucket \in [Keys -> [Axes -> BucketType]] /\ axes \in SUBSET Axes
  BY AxesInUse DEF IInv, TypeOK, BucketType
<1>2. /\ bucket' = [bucket EXCEPT ![k] = Save(bucket[k], new, axes)]
      /\ spent' = Book(spent, k, axes, given)
  BY <1>1 DEF Return, CreditSave
<1>3. ASSUME NEW a \in axes
      PROVE  given[a] \in Int /\ Keeps(bucket[k][a], new[a], l[a], given[a])
  <2>1. a \in Axes /\ n[a] \in Int
    BY <1>1, StoreAssumption
  <2>2. /\ new[a] = Credit(Refill(bucket[k][a], l[a], clock), l[a], clock, n[a])
        /\ given[a] = -NonNeg(n[a]) /\ -NonNeg(n[a]) \in Int
    BY <2>1 DEF NonNeg
  <2> HIDE DEF new, given
  <2> QED BY <2>1, <2>2, OneAxis, CreditKeeps
<1> HIDE DEF new, axes, given
<1>4. Move(k, l, axes, new, given)
  BY <1>2, <1>3 DEF Move, axes
<1> QED BY <1>4

\* The claim of NoTokenLost on one axis of a key.
KeptOn(k, a) ==
  \/ bucket[k][a].last = 0
  \/ \E l \in Tiers :
       /\ a \in UsedAxes(Split(l))
       /\ bucket[k][a].tokens + spent[k][a] * Period >= l[a] * Period

\* An axis that is moved keeps a tier's budget: a full one, or what was there.
LEMMA KeptAxis ==
  ASSUME NEW a \in Axes, NEW b \in BucketType, NEW c \in BucketType, NEW l \in Tiers,
         NEW s \in Nat, NEW t \in Nat, NEW d \in Int, t = s + d, Keeps(b, c, l[a], d),
         NEW j \in Tiers, b.last = 0 \/ b.tokens + s * Period >= j[a] * Period
  PROVE  \/ c.tokens + t * Period >= l[a] * Period
         \/ b.last # 0 /\ c.tokens + t * Period >= j[a] * Period
<1> DEFINE x == s * Period
           y == t * Period
           z == d * Period
           f == l[a] * Period
           g == j[a] * Period
<1>1. x \in Nat /\ y \in Nat /\ z \in Int
  BY PeriodAssumption, TimesMonotone
<1>2. y = x + z
  BY PeriodAssumption
<1>3. f \in Nat /\ g \in Nat
  BY Limits, PeriodAssumption, TimesMonotone
<1>4. b.tokens \in Nat /\ c.tokens \in Nat
  BY DEF BucketType
<1>5. \/ f <= c.tokens
      \/ f <= c.tokens + z
      \/ b.last # 0 /\ b.tokens <= c.tokens + z
  BY DEF Keeps
<1>6. b.last = 0 \/ b.tokens + x >= g
  OBVIOUS
<1> HIDE DEF x, y, z, f, g
<1>7. c.tokens + y >= f \/ (b.last # 0 /\ c.tokens + y >= g)
  BY <1>1, <1>2, <1>3, <1>4, <1>5, <1>6
<1> QED BY <1>7 DEF y, f, g

\* A move loses no token of any axis of any key.
LEMMA KeptMove ==
  ASSUME IInv, IInv', NoTokenLost, NEW k0, NEW l, NEW axes, NEW new, NEW d,
         Move(k0, l, axes, new, d),
         \A k \in Keys, a \in Axes : spent[k][a] \in Nat /\ spent'[k][a] \in Nat
  PROVE  NoTokenLost'
<1> SUFFICES ASSUME NEW k \in Keys, NEW a \in Axes
             PROVE  \/ bucket'[k][a].last = 0
                    \/ \E j \in Tiers :
                         /\ a \in UsedAxes(Split(j))
                         /\ bucket'[k][a].tokens + spent'[k][a] * Period >= j[a] * Period
  BY DEF NoTokenLost
<1>1. KeptOn(k, a)
  BY DEF NoTokenLost, KeptOn
<1>2. /\ k0 \in Keys /\ l \in Tiers /\ axes \in SUBSET UsedAxes(Split(l))
      /\ bucket' = [bucket EXCEPT ![k0] = Save(bucket[k0], new, axes)]
      /\ spent' = Book(spent, k0, axes, d)
  BY DEF Move
<1>3. bucket \in [Keys -> [Axes -> BucketType]] /\ spent \in [Keys -> [Axes -> Int]]
  BY DEF IInv, TypeOK, BucketType
<1>4. bucket[k][a] \in BucketType /\ bucket'[k][a] \in BucketType
  BY DEF IInv, TypeOK, BucketType
<1>5. CASE k = k0 /\ a \in axes
  <2> DEFINE b == bucket[k][a]
             c == bucket'[k][a]
             s == spent[k][a]
             t == spent'[k][a]
             e == d[a]
  <2>1. c = new[a]
    BY <1>2, <1>3, <1>5 DEF Save
  <2>2. e \in Int /\ Keeps(b, c, l[a], e)
    BY <1>5, <2>1 DEF Move
  <2>3. t = s + e
    BY <1>2, <1>3, <1>5, BookFacts
  <2>4. s \in Nat /\ t \in Nat /\ b \in BucketType /\ c \in BucketType
    BY <1>4
  <2>5. b.last = 0 \/ \E j \in Tiers : /\ a \in UsedAxes(Split(j))
                                       /\ b.tokens + s * Period >= j[a] * Period
    BY <1>1 DEF KeptOn
  <2>6. a \in UsedAxes(Split(l))
    BY <1>2, <1>5
  <2> HIDE DEF b, c, s, t, e
  <2>7. \E j \in Tiers : a \in UsedAxes(Split(j)) /\ c.tokens + t * Period >= j[a] * Period
    <3>1. CASE b.last = 0
      <4>1. c.tokens + t * Period >= l[a] * Period
        BY <1>2, <2>2, <2>3, <2>4, <3>1, KeptAxis
      <4> QED BY <1>2, <2>6, <4>1
    <3>2. CASE b.last # 0
      <4>1. PICK j \in Tiers : a \in UsedAxes(Split(j)) /\ b.tokens + s * Period >= j[a] * Period
        BY <2>5, <3>2
      <4>2. \/ c.tokens + t * Period >= l[a] * Period
            \/ b.last # 0 /\ c.tokens + t * Period >= j[a] * Period
        BY <1>2, <2>2, <2>3, <2>4, <4>1, KeptAxis
      <4> QED BY <1>2, <2>6, <4>1, <4>2
    <3> QED BY <3>1, <3>2
  <2> QED BY <2>7 DEF c, t
<1>6. CASE ~(k = k0 /\ a \in axes)
  <2>1. bucket'[k][a] = bucket[k][a]
    BY <1>2, <1>3, <1>6 DEF Save
  <2>2. spent'[k][a] = spent[k][a]
    BY <1>2, <1>3, <1>6, BookFacts
  <2> QED BY <1>1, <2>1, <2>2 DEF KeptOn
<1> QED BY <1>5, <1>6

\* What a Covered charge is.
LEMMA CoveredCharge == LInv /\ Covered => \A k \in Keys, a \in Axes : spent[k][a] \in Nat
  BY HeldFacts DEF HeldTyped, Covered

\* Every step keeps what is owed covered, and issues at most one id.
LEMMA CoveredStep ==
  ASSUME LInv, Covered, [Next]_vars
  PROVE  LInv' /\ Covered'
<1>1. issued' = issued \/ \E id \in Ids : issued' = issued \union {id}
  BY DEF Next, vars, history, CheckInvalid, CheckDeny, CheckAllow, Settle, SettleIO,
         SettleRefused, SettlePending, Refund, RefundRefused, RefundPending, Borrow, Return,
         Tick, StepBack
<1>2. LInv'
  <2>1. IsFiniteSet(issued')
    BY <1>1, FS_AddElement DEF LInv
  <2> QED BY <2>1, NextStep, LifecycleStep, LentStep DEF LInv
<1>3. ASSUME res' = Live \/ res' = res, UNCHANGED history
      PROVE  Covered'
  <2>1. \A k \in Keys, a \in Axes : spent'[k][a] - spent[k][a] = lent'[k][a] - lent[k][a]
    BY <1>3, HeldFacts DEF HeldTyped, history
  <2> QED BY <1>2, <1>3, <2>1, LiveFacts, CoveredLoan DEF history
<1>4. ASSUME NEW k \in Keys, NEW l \in Tiers, NEW c \in Costs, NEW id \in Ids,
             CheckAllow(k, l, c, id)
      PROVE  Covered'
  BY <1>2, <1>4, CoveredOpen
<1>5. ASSUME NEW id \in Ids, NEW io \in BOOLEAN, NEW n \in Actuals,
             SettleRefused(id, io) \/ SettlePending(id, io, n)
      PROVE  Covered'
  <2>1. CASE SettleRefused(id, io)
    BY <1>3, <2>1 DEF SettleRefused
  <2>2. CASE SettlePending(id, io, n)
    <3>1. Live[id] # NoRes /\ Live[id].status = "pending" /\ lent' = lent /\ issued' = issued
      BY <2>2 DEF SettlePending, Settleable
    <3>2. IInv
      BY DEF LInv
    <3>3. PICK axes, new, d, over :
            /\ axes \in SUBSET Axes
            /\ Move(Live[id].key, Live[id].limits, axes, new, d)
            /\ \A a \in axes : d[a] \in Int /\ -Live[id].cost[a] <= d[a]
            /\ spent' = Book(spent, Live[id].key, axes, d)
            /\ res' = [Live EXCEPT ![id] = Closed(Live[id], "settled", over)]
      BY <2>2, <3>2, SettleMove
    <3> QED BY <1>2, <3>1, <3>3, CoveredClose
  <2> QED BY <1>5, <2>1, <2>2
<1>6. ASSUME NEW id \in Ids, Refund(id)
      PROVE  Covered'
  <2>1. CASE RefundRefused(id)
    BY <1>3, <2>1 DEF RefundRefused
  <2>2. CASE RefundPending(id)
    <3>1. Live[id] # NoRes /\ Live[id].status = "pending" /\ lent' = lent /\ issued' = issued
      BY <2>2 DEF RefundPending, Refundable
    <3>2. IInv
      BY DEF LInv
    <3>3. PICK axes, new, d, over :
            /\ axes \in SUBSET Axes
            /\ Move(Live[id].key, Live[id].limits, axes, new, d)
            /\ \A a \in axes : d[a] \in Int /\ -Live[id].cost[a] <= d[a]
            /\ spent' = Book(spent, Live[id].key, axes, d)
            /\ res' = [Live EXCEPT ![id] = Closed(Live[id], "refunded", over)]
      BY <2>2, <3>2, RefundMove
    <3> QED BY <1>2, <3>1, <3>3, CoveredClose
  <2> QED BY <1>6, <2>1, <2>2 DEF Refund
<1>7. ASSUME \/ \E k \in Keys, l \in Tiers, s \in BorrowSpecs : Borrow(k, l, s)
             \/ \E k \in Keys, l \in Tiers, n \in Returns : Return(k, l, n)
      PROVE  Covered'
  <2>1. issued' = issued /\ res' = res
    BY <1>7 DEF Borrow, Return
  <2>2. \A k \in Keys, a \in Axes : spent'[k][a] - spent[k][a] = lent'[k][a] - lent[k][a]
    BY <1>7, LoanBooks DEF LInv
  <2> QED BY <1>2, <2>1, <2>2, CoveredLoan
<1>8. ASSUME \/ CheckInvalid
             \/ \E k \in Keys, l \in Tiers, c \in Costs : CheckDeny(k, l, c)
             \/ Tick \/ StepBack \/ UNCHANGED vars
      PROVE  Covered'
  <2>1. (res' = Live \/ res' = res) /\ UNCHANGED history
    BY <1>8 DEF CheckInvalid, CheckDeny, Tick, StepBack, vars, code, history
  <2> QED BY <1>3, <2>1
<1>9. Covered'
  BY <1>4, <1>5, <1>6, <1>7, <1>8 DEF Next, Settle, SettleIO
<1> QED BY <1>2, <1>9

\* A step moves some axes of one key, or leaves buckets and charges alone.
LEMMA StepMoves ==
  ASSUME IInv, [Next]_vars
  PROVE  \/ UNCHANGED <<bucket, spent>>
         \/ \E k, l, axes, new, d : Move(k, l, axes, new, d)
<1>1. ASSUME NEW id \in Ids, NEW io \in BOOLEAN, NEW n \in Actuals, SettlePending(id, io, n)
      PROVE  \E k, l, axes, new, d : Move(k, l, axes, new, d)
  BY <1>1, SettleMove
<1>2. ASSUME NEW id \in Ids, RefundPending(id)
      PROVE  \E k, l, axes, new, d : Move(k, l, axes, new, d)
  BY <1>2, RefundMove
<1>3. ASSUME NEW k \in Keys, NEW l \in Tiers,
             \/ \E c \in Costs, id \in Ids : CheckAllow(k, l, c, id)
             \/ \E s \in BorrowSpecs : Borrow(k, l, s)
             \/ \E n \in Returns : Return(k, l, n)
      PROVE  \E axes, new, d : Move(k, l, axes, new, d)
  BY <1>3, CheckMove, BorrowMove, ReturnMove
<1>4. ASSUME \/ CheckInvalid
             \/ \E k \in Keys, l \in Tiers, c \in Costs : CheckDeny(k, l, c)
             \/ \E id \in Ids : RefundRefused(id) \/ \E io \in BOOLEAN : SettleRefused(id, io)
             \/ Tick \/ StepBack \/ UNCHANGED vars
      PROVE  UNCHANGED <<bucket, spent>>
  BY <1>4 DEF CheckInvalid, CheckDeny, RefundRefused, SettleRefused, Tick, StepBack, vars,
              code, history
<1> QED BY <1>1, <1>2, <1>3, <1>4 DEF Next, Settle, SettleIO, Refund

\* In every reachable state a token missing from a bucket that was used is charged
\* to a reservation or on loan, whatever the tiers, the clock and the order of the
\* calls.  SteadyLimits is not needed: a clock set back puts at risk the upper bound,
\* RateBound, and never this lower one.
THEOREM NoTokenLostHolds == Spec => []NoTokenLost
<1> DEFINE I == LInv /\ Covered /\ NoTokenLost
<1>1. Init => I
  <2> SUFFICES ASSUME Init PROVE I
    OBVIOUS
  <2>1. issued = {} /\ IsFiniteSet(issued)
    BY FS_EmptySet DEF Init
  <2>2. LInv
    BY <2>1, InitStep DEF LInv, OnlyIssued, LentOK, Init, Zero
  <2>3. NoTokenLost
    BY DEF Init, NoTokenLost, Cold
  <2>4. ASSUME NEW k \in Keys, NEW a \in Axes PROVE lent[k][a] + Owed(k, a) <= spent[k][a]
    <3> DEFINE f == Held(k, a)
    <3> HIDE DEF f
    <3>1. SumFunctionOnSet(f, {}) = 0
      BY FS_EmptySet, SumZero
    <3>2. Owed(k, a) = 0
      BY <2>1, <3>1 DEF Owed, f
    <3>3. lent[k][a] = 0 /\ spent[k][a] = 0
      BY DEF Init, Zero
    <3> QED BY <3>2, <3>3
  <2> QED BY <2>2, <2>3, <2>4 DEF Covered
<1>2. I /\ [Next]_vars => I'
  <2> SUFFICES ASSUME I, [Next]_vars PROVE NoTokenLost'
    BY CoveredStep
  <2>1. LInv' /\ Covered'
    BY CoveredStep
  <2>2. IInv /\ IInv'
    BY <2>1 DEF LInv
  <2>3. \A k \in Keys, a \in Axes : spent[k][a] \in Nat
    BY CoveredCharge
  <2>4. \A k \in Keys, a \in Axes : spent'[k][a] \in Nat
    BY <2>1, HeldFactsNext DEF HeldTyped, Covered
  <2>5. CASE UNCHANGED <<bucket, spent>>
    BY <2>5 DEF NoTokenLost
  <2>6. ASSUME NEW k, NEW l, NEW axes, NEW new, NEW d, Move(k, l, axes, new, d)
        PROVE  NoTokenLost'
    BY <2>2, <2>3, <2>4, <2>6, KeptMove
  <2> QED BY <2>2, <2>5, <2>6, StepMoves
<1>3. I => NoTokenLost
  OBVIOUS
<1> QED BY <1>1, <1>2, <1>3, PTL DEF Spec
=============================================================================
