------------------------------ MODULE StoreOps ------------------------------
(***************************************************************************)
(* What the handlers of a store compute (pkg/store/memory/memory.go, the   *)
(* request types of pkg/api/types.go): operators on the four buckets `bs'  *)
(* of one (subject, model) key.  A handler runs under the store's lock, so *)
(* each is one function of the buckets and the time it reads.              *)
(*                                                                         *)
(* Limits, costs, borrow amounts and balances are functions from an axis   *)
(* to a number of tokens.                                                  *)
(***************************************************************************)
EXTENDS Bucket

Axes == {"rpm", "tpm", "itpm", "otpm"}

\* Limits.Split: separate input and output budgets.
Split(limits) == limits["itpm"] > 0 /\ limits["otpm"] > 0

\* Limits.Validate: the input and output budgets come together or not at all.
Validate(limits) == (limits["itpm"] > 0) <=> (limits["otpm"] > 0)

\* The buckets a mode keeps besides the request bucket, which both share.
TokenAxes(split) == IF split THEN {"itpm", "otpm"} ELSE {"tpm"}

UsedAxes(split) == {"rpm"} \union TokenAxes(split)

\* The order in which the handlers look at the axes.
AxisOrder(split) == IF split THEN <<"rpm", "itpm", "otpm">> ELSE <<"rpm", "tpm">>

FirstOf(split, axes) ==
  LET order == AxisOrder(split)
      i == CHOOSE n \in DOMAIN order :
             order[n] \in axes /\ \A m \in 1..(n - 1) : order[m] \notin axes
  IN  order[i]

Clamped(cost) == [a \in Axes |-> NonNeg(cost[a])]

\* loadBucket on every axis.
Load(bs, limits, now) == [a \in Axes |-> Refill(bs[a], limits[a], now)]

\* What TryConsume, which refills once more, sees of a loaded bucket: after a
\* step back of the clock only this second refill applies a lowered limit.
Reloaded(bs, limits, now) == Load(Load(bs, limits, now), limits, now)

\* saveBucket on the given axes.
Save(bs, new, axes) == [a \in Axes |-> IF a \in axes THEN new[a] ELSE bs[a]]

-----------------------------------------------------------------------------
(* Check: an axis that cannot pay its cost denies the whole request. *)

CheckDenies(bs, limits, cost, now) ==
  {a \in UsedAxes(Split(limits)) :
     ~CanConsume(Reloaded(bs, limits, now)[a], limits[a], Clamped(cost)[a])}

\* The decision reports the first denying axis and that axis's wait.
CheckDecision(bs, limits, cost, now) ==
  LET denies == CheckDenies(bs, limits, cost, now)
      axis   == FirstOf(Split(limits), denies)
  IN  IF denies = {} THEN [allowed |-> TRUE, limit |-> "none", retry |-> 0]
      ELSE [allowed |-> FALSE, limit |-> axis,
            retry |-> RetryAfter(Reloaded(bs, limits, now)[axis], limits[axis],
                                 Clamped(cost)[axis])]

\* Mutant of CheckDebit: saves the classic buckets in both modes.
CheckDebitClassic(bs, limits, cost, now) ==
  Save(bs,
       [a \in Axes |-> TryConsume(Load(bs, limits, now)[a], limits[a], now, cost[a])],
       UsedAxes(FALSE))

CheckDebit(bs, limits, cost, now) ==
  Save(bs,
       [a \in Axes |-> TryConsume(Load(bs, limits, now)[a], limits[a], now, cost[a])],
       UsedAxes(Split(limits)))

-----------------------------------------------------------------------------
(* Settle and SettleIO: the reserved amount becomes the actual one. *)

\* What a reservation of `reserved' is charged once `actual' is known: the
\* part that exceeds the reservation is debited as far as the bucket goes.
SettleCharge(b, limit, now, reserved, actual) ==
  IF reserved >= actual THEN actual
  ELSE reserved + Debited(Refill(b, limit, now), limit, now, actual - reserved)

SettleAxis(b, limit, now, reserved, actual) ==
  LET loaded == Refill(b, limit, now)
  IN  CASE reserved > actual -> Credit(loaded, limit, now, reserved - actual)
        [] reserved < actual -> DebitFloor(loaded, limit, now, actual - reserved)
        [] reserved = actual -> loaded

\* Mutant of SettleSave: saves the classic token bucket in both modes.
SettleSaveClassic(bs, limits, reserved, actual, now) ==
  Save(bs,
       [a \in Axes |-> SettleAxis(bs[a], limits[a], now, reserved[a], actual[a])],
       TokenAxes(FALSE))

\* Settling saves the token buckets only; the request bucket is just read.
SettleSave(bs, limits, reserved, actual, now) ==
  Save(bs,
       [a \in Axes |-> SettleAxis(bs[a], limits[a], now, reserved[a], actual[a])],
       TokenAxes(Split(limits)))

\* The overshoot reported per axis: spent by the caller, charged to nobody.
SettleOvershoot(bs, limits, reserved, actual, now) ==
  [a \in Axes |->
     IF a \in TokenAxes(Split(limits))
     THEN actual[a] - SettleCharge(bs[a], limits[a], now, reserved[a], actual[a])
     ELSE 0]

-----------------------------------------------------------------------------
(* Refund and Return: every axis in use is credited. *)

\* Mutant of CreditSave: the request bucket is not given anything back.
CreditSaveTokens(bs, limits, amount, now) ==
  Save(bs,
       [a \in Axes |-> Credit(Refill(bs[a], limits[a], now), limits[a], now, amount[a])],
       TokenAxes(Split(limits)))

CreditSave(bs, limits, amount, now) ==
  Save(bs,
       [a \in Axes |-> Credit(Refill(bs[a], limits[a], now), limits[a], now, amount[a])],
       UsedAxes(Split(limits)))

-----------------------------------------------------------------------------
(* Borrow: every axis must have its minimum in whole tokens; then each     *)
(* yields the chunk, or the minimum if that is more, or what there is.     *)

BorrowDenies(bs, limits, spec, now) ==
  {a \in UsedAxes(Split(limits)) :
     RemainingInt(Load(bs, limits, now)[a]) < NonNeg(spec.min[a])}

WantGot(avail, min, chunk) ==
  Lesser(avail, IF chunk > min THEN chunk ELSE min)

BorrowGot(bs, limits, spec, now) ==
  [a \in Axes |->
     IF a \in UsedAxes(Split(limits))
     THEN WantGot(RemainingInt(Load(bs, limits, now)[a]),
                  NonNeg(spec.min[a]), NonNeg(spec.chunk[a]))
     ELSE 0]

\* Mutant of BorrowDebit: the token buckets are not saved.
BorrowDebitRequests(bs, limits, spec, now) ==
  Save(bs,
       [a \in Axes |-> TryConsume(Load(bs, limits, now)[a], limits[a], now,
                                  BorrowGot(bs, limits, spec, now)[a])],
       {"rpm"})

\* The amounts granted go through TryConsume, whose verdict is dropped.
BorrowDebit(bs, limits, spec, now) ==
  Save(bs,
       [a \in Axes |-> TryConsume(Load(bs, limits, now)[a], limits[a], now,
                                  BorrowGot(bs, limits, spec, now)[a])],
       UsedAxes(Split(limits)))

BorrowDecision(bs, limits, spec, now) ==
  LET denies == BorrowDenies(bs, limits, spec, now)
      axis   == FirstOf(Split(limits), denies)
  IN  IF denies = {} THEN [allowed |-> TRUE, limit |-> "none", retry |-> 0]
      ELSE [allowed |-> FALSE, limit |-> axis,
            retry |-> RetryAfter(Reloaded(bs, limits, now)[axis], limits[axis],
                                 NonNeg(spec.min[axis]))]
=============================================================================
