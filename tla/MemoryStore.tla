---------------------------- MODULE MemoryStore ----------------------------
(***************************************************************************)
(* The in-process store of pkg/store/memory/memory.go: dual (requests and  *)
(* tokens) or triple (requests, input and output tokens) buckets per key,  *)
(* and the reservations that Check opens and Settle or Refund closes.      *)
(*                                                                         *)
(* Every method holds the store's mutex from its first access to its last, *)
(* so each method is one action.  Callers are concurrent handlers: any of  *)
(* them may call any method at any time with any of the inputs below.      *)
(***************************************************************************)
EXTENDS StoreOps

CONSTANTS
  Keys,         \* (subject, model) pairs with a non-empty subject
  Tiers,        \* the limits a request may carry
  MaxCap,       \* per axis, the most any of the tiers grants
  Costs,        \* costs a Check may carry, negative ones included
  Actuals,      \* actual token counts a Settle may carry
  BorrowSpecs,  \* [min, chunk] pairs a Borrow may carry
  Returns,      \* amounts a Return may carry
  Ids,          \* reservation ids, each generated once
  TTL,          \* ticks a reservation is kept (ReservationTTL)
  MaxTime,      \* bound: the clock stops here
  MaxStepBack   \* bound: how often the wall clock is stepped back one tick

ASSUME StoreAssumption ==
  /\ Tiers \subseteq [Axes -> Nat]
  /\ MaxCap \in [Axes -> Nat]
  /\ \A l \in Tiers, a \in Axes : l[a] <= MaxCap[a]
  /\ Costs \subseteq [Axes -> Int]
  /\ Actuals \subseteq [Axes -> Int]
  /\ BorrowSpecs \subseteq [min : [Axes -> Int], chunk : [Axes -> Int]]
  /\ Returns \subseteq [Axes -> Int]
  /\ TTL \in Nat
  /\ MaxTime \in Nat
  /\ MaxStepBack \in Nat

VARIABLES
  bucket,    \* the maps rpm, tpm, itpm, otpm: per key and axis
  res,       \* the map of reservations
  clock,     \* what the store's time source returns
  stepsBack, \* how often it was stepped back
  \* history, read by no action but for the bound on Return:
  issued,    \* ids Check has accepted
  forward,   \* ticks the clock has advanced in all
  spent,     \* per key and axis, tokens charged to callers and not given back
  lent       \* per key and axis, tokens borrowed and not returned

code    == <<bucket, res>>
timing  == <<clock, stepsBack, forward>>
history == <<issued, spent, lent>>
vars    == <<bucket, res, clock, stepsBack, issued, forward, spent, lent>>

Zero == [a \in Axes |-> 0]

NoRes == [status |-> "none"]

Statuses == {"pending", "settled", "refunded"}

Reservation ==
  [key : Keys, limits : Tiers, cost : [Axes -> Nat], status : Statuses,
   expires : Nat, overshoot : [Axes -> Nat]]

\* res after purgeExpired, which deletes what is past its expiry.
Live ==
  [id \in Ids |-> IF res[id] # NoRes /\ clock > res[id].expires THEN NoRes ELSE res[id]]

\* The amounts a reservation records: those of the axes of its mode.
Reserved(limits, cost) ==
  [a \in Axes |-> IF a \in UsedAxes(Split(limits)) THEN Clamped(cost)[a] ELSE 0]

\* Closes a pending reservation and keeps the answer for a repeated call.
Closed(r, status, overshoot) ==
  [r EXCEPT !.status = status, !.expires = clock + TTL, !.overshoot = overshoot]

\* Adds to (or takes from) the account of the given axes of a key.
Book(account, k, axes, amount) ==
  [account EXCEPT ![k] = [a \in Axes |-> IF a \in axes THEN @[a] + amount[a] ELSE @[a]]]

\* The account of tokens charged after a reservation is closed: what it was
\* charged changes once, whatever the buckets are credited or debited.
Adjusted(r, axes, amount) ==
  IF r.status = "pending" THEN Book(spent, r.key, axes, amount) ELSE spent

-----------------------------------------------------------------------------
Init ==
  /\ bucket = [k \in Keys |-> [a \in Axes |-> Cold]]
  /\ res = [id \in Ids |-> NoRes]
  /\ clock = 1
  /\ stepsBack = 0
  /\ issued = {}
  /\ forward = 0
  /\ spent = [k \in Keys |-> Zero]
  /\ lent = [k \in Keys |-> Zero]

\* Check with an empty subject or id: expired reservations are purged first.
CheckInvalid ==
  /\ res' = Live
  /\ UNCHANGED <<bucket, timing, history>>

CheckDeny(k, limits, cost) ==
  /\ Validate(limits)
  /\ CheckDenies(bucket[k], limits, cost, clock) # {}
  /\ res' = Live
  /\ UNCHANGED <<bucket, timing, history>>

CheckAllow(k, limits, cost, id) ==
  /\ Validate(limits)
  /\ id \notin issued
  /\ CheckDenies(bucket[k], limits, cost, clock) = {}
  /\ bucket' = [bucket EXCEPT ![k] = CheckDebit(@, limits, cost, clock)]
  /\ res' = [Live EXCEPT ![id] =
               [key |-> k, limits |-> limits, cost |-> Reserved(limits, cost),
                status |-> "pending", expires |-> clock + TTL, overshoot |-> Zero]]
  /\ issued' = issued \union {id}
  /\ spent' = Book(spent, k, UsedAxes(Split(limits)), Clamped(cost))
  /\ UNCHANGED <<timing, lent>>

\* Mutant of Settleable: a closed reservation is settled again.
SettleableAgain(id, io) ==
  Live[id] # NoRes /\ Split(Live[id].limits) = io

\* Settle (io = FALSE) and SettleIO (io = TRUE) act on a pending reservation of
\* their own mode.
Settleable(id, io) ==
  /\ Live[id] # NoRes
  /\ Split(Live[id].limits) = io
  /\ Live[id].status = "pending"

\* Every other answer changes no reservation: not found, wrong mode, settled
\* (the kept answer is returned again) and refunded.
SettleRefused(id, io) ==
  /\ ~Settleable(id, io)
  /\ res' = Live
  /\ UNCHANGED <<bucket, timing, history>>

SettlePending(id, io, actuals) ==
  /\ Settleable(id, io)
  /\ LET r      == Live[id]
         actual == Clamped(actuals)
         over   == SettleOvershoot(bucket[r.key], r.limits, r.cost, actual, clock)
     IN  /\ bucket' = [bucket EXCEPT ![r.key] =
                         SettleSave(@, r.limits, r.cost, actual, clock)]
         /\ res' = [Live EXCEPT ![id] = Closed(r, "settled", over)]
         /\ spent' = Adjusted(r, TokenAxes(io),
                              [a \in Axes |-> actual[a] - over[a] - r.cost[a]])
  /\ UNCHANGED <<timing, issued, lent>>

Settle(id, actuals) == SettleRefused(id, FALSE) \/ SettlePending(id, FALSE, actuals)

SettleIO(id, actuals) == SettleRefused(id, TRUE) \/ SettlePending(id, TRUE, actuals)

\* Mutant of Refundable: a closed reservation is refunded again.
RefundableAgain(id) == Live[id] # NoRes

Refundable(id) == Live[id] # NoRes /\ Live[id].status = "pending"

\* Refund of an unknown, settled or already refunded reservation.
RefundRefused(id) ==
  /\ ~Refundable(id)
  /\ res' = Live
  /\ UNCHANGED <<bucket, timing, history>>

RefundPending(id) ==
  /\ Refundable(id)
  /\ LET r == Live[id]
     IN  /\ bucket' = [bucket EXCEPT ![r.key] = CreditSave(@, r.limits, r.cost, clock)]
         /\ res' = [Live EXCEPT ![id] = Closed(r, "refunded", Zero)]
         /\ spent' = Adjusted(r, UsedAxes(Split(r.limits)),
                              [a \in Axes |-> -r.cost[a]])
  /\ UNCHANGED <<timing, issued, lent>>

Refund(id) == RefundRefused(id) \/ RefundPending(id)

\* Borrow that is granted; one that is denied changes nothing and is left out.
\* Borrow and Return do not purge.
Borrow(k, limits, spec) ==
  /\ Validate(limits)
  /\ BorrowDenies(bucket[k], limits, spec, clock) = {}
  /\ LET got == BorrowGot(bucket[k], limits, spec, clock)
     IN  /\ spent' = Book(spent, k, UsedAxes(Split(limits)), got)
         /\ lent' = Book(lent, k, UsedAxes(Split(limits)), got)
  /\ bucket' = [bucket EXCEPT ![k] = BorrowDebit(@, limits, spec, clock)]
  /\ UNCHANGED <<res, timing, issued>>

\* Return; bound: no more than is lent.  All amounts <= 0 change nothing.
Return(k, limits, amount) ==
  /\ \E a \in Axes : amount[a] > 0
  /\ \A a \in Axes : NonNeg(amount[a]) <= lent[k][a]
  /\ bucket' = [bucket EXCEPT ![k] = CreditSave(@, limits, amount, clock)]
  /\ LET given == [a \in Axes |-> -NonNeg(amount[a])]
     IN  /\ spent' = Book(spent, k, UsedAxes(Split(limits)), given)
         /\ lent' = Book(lent, k, UsedAxes(Split(limits)), given)
  /\ UNCHANGED <<res, timing, issued>>

Tick ==
  /\ clock < MaxTime
  /\ clock' = clock + 1
  /\ forward' = forward + 1
  /\ UNCHANGED <<code, stepsBack, history>>

\* The wall clock is set back; forward counts the ticks it then repeats.
StepBack ==
  /\ stepsBack < MaxStepBack
  /\ clock > 1
  /\ clock' = clock - 1
  /\ stepsBack' = stepsBack + 1
  /\ UNCHANGED <<code, forward, history>>

Next ==
  \/ CheckInvalid
  \/ \E k \in Keys, l \in Tiers, c \in Costs : CheckDeny(k, l, c)
  \/ \E k \in Keys, l \in Tiers, c \in Costs, id \in Ids : CheckAllow(k, l, c, id)
  \/ \E id \in Ids, n \in Actuals : Settle(id, n)
  \/ \E id \in Ids, n \in Actuals : SettleIO(id, n)
  \/ \E id \in Ids : Refund(id)
  \/ \E k \in Keys, l \in Tiers, s \in BorrowSpecs : Borrow(k, l, s)
  \/ \E k \in Keys, l \in Tiers, n \in Returns : Return(k, l, n)
  \/ Tick
  \/ StepBack

Spec == Init /\ [][Next]_vars

-----------------------------------------------------------------------------
\* Type invariant: buckets never go negative, and hold at most the most
\* generous tier's budget, however refills, credits, debits and limits mix.
TypeOK ==
  /\ bucket \in [Keys -> [Axes -> [tokens : Nat, last : Nat]]]
  /\ \A k \in Keys, a \in Axes : bucket[k][a].tokens <= MaxCap[a] * Period
  /\ res \in [Ids -> Reservation \union {NoRes}]
  /\ clock \in Nat \ {0}
  /\ stepsBack \in 0..MaxStepBack
  /\ issued \subseteq Ids
  /\ forward \in Nat
  /\ spent \in [Keys -> [Axes -> Int]]
  /\ lent \in [Keys -> [Axes -> Int]]

\* Units axis a of key k would hold if it were refilled now at the top rate.
Refilled(k, a) == Refill(bucket[k][a], MaxCap[a], clock).tokens

\* What is left of axis a and what callers were charged for it, beyond what the
\* ticks that passed have refilled.
Claimed(k, a) == Refilled(k, a) + spent[k][a] * Period - MaxCap[a] * forward

\* The rate limit itself.  Whatever callers check, settle, refund, borrow,
\* return or let expire, and in whatever order, what they were charged in all
\* and what is left never exceed one full bucket plus the refill of the ticks
\* that passed: nothing is credited that was not charged before, nothing is
\* credited twice and no debit is forgotten.
RateBound ==
  \A k \in Keys, a \in Axes : Claimed(k, a) <= MaxCap[a] * Period

\* The same over any window of a behaviour: no step adds to the claims, so
\* between two moments callers are charged at most what a full bucket holds and
\* what the ticks between the two refill.
WindowBound ==
  [][\A k \in Keys, a \in Axes : Claimed(k, a)' <= Claimed(k, a)]_vars

\* Limits and clock under which the two bounds hold: the clock never steps
\* back, or no tier lowers the budget of an axis it uses.
SteadyLimits ==
  \/ MaxStepBack = 0
  \/ \A l \in Tiers : \A a \in UsedAxes(Split(l)) : l[a] = MaxCap[a]

\* No budget leaks.  Every token missing from a bucket is charged to some
\* caller or lent: a denied request keeps nothing on any axis, and a refund, a
\* settlement or a return gives back all it should on every axis of its mode.
\* With several tiers the smallest budget is what is certain.
NoTokenLost ==
  \A k \in Keys, a \in Axes :
    \/ bucket[k][a].last = 0
    \/ \E l \in Tiers :
         /\ a \in UsedAxes(Split(l))
         /\ bucket[k][a].tokens + spent[k][a] * Period >= l[a] * Period

\* A reservation opens once, is closed at most once with its terms unchanged,
\* never reopens or changes its answer, and is forgotten only after its TTL.
ReservationLifecycle ==
  [][\A id \in Ids :
       \/ res'[id] = res[id]
       \/ res[id] = NoRes /\ id \notin issued
       \/ /\ res[id] # NoRes
          /\ res'[id] = NoRes
          /\ clock > res[id].expires
       \/ /\ res[id] # NoRes
          /\ res'[id] # NoRes
          /\ res[id].status = "pending"
          /\ res'[id].status # "pending"
          /\ \A f \in {"key", "limits", "cost"} : res'[id][f] = res[id][f]]_vars

\* How the store's state appears in the abstract ledger: funds are what a refill
\* now would leave, and an id that was issued and is not stored is forgotten.
Ledger ==
  INSTANCE Ledger WITH
    Unit <- Period, Rate <- MaxCap,
    funds <- [k \in Keys |-> [a \in Axes |-> Refilled(k, a)]],
    status <- [id \in Ids |-> IF res[id] # NoRes THEN res[id].status
                              ELSE IF id \in issued THEN "forgotten" ELSE "none"]

\* The store implements the ledger: charges change only together with the
\* reservation or the loan they belong to and are matched by the buckets, and
\* what expiry, tier changes and clocks do to a bucket never creates funds.
ImplementsLedger == Ledger!Spec

\* The wait a denied Check reports is exact for the axis it names: if no call
\* touches the bucket, that axis still denies one tick earlier and pays at the
\* reported time, provided the cost fits the budget at all and the bucket is not
\* dated ahead of a clock that was stepped back.
RetryAfterExact ==
  \A k \in Keys, l \in Tiers, c \in Costs :
    LET d == CheckDecision(bucket[k], l, c, clock)
    IN  /\ ~d.allowed
        /\ Clamped(c)[d.limit] <= l[d.limit]
        /\ bucket[k][d.limit].last <= clock
        => /\ d.limit \notin CheckDenies(bucket[k], l, c, clock + d.retry)
           /\ d.limit \in CheckDenies(bucket[k], l, c, clock + d.retry - 1)
=============================================================================
