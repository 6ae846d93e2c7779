--------------------------- MODULE FastPathProofs ---------------------------
(***************************************************************************)
(* Proofs about FastPath, for all pods, handlers, ids and inputs.          *)
(*                                                                         *)
(* Inv is the invariant behind the types: a refund or a settlement takes   *)
(* tokens off `charged', so that a charge never goes negative needs that   *)
(* all pending reservations together are charged (PendingCharged), which   *)
(* needs that a reservation is stored and closed once, and that needs that *)
(* the id of a Check in progress is nobody else's (IdInv).                 *)
(*                                                                         *)
(* Conservation is a sum over pods and handlers (Backed): each action is   *)
(* shown to move tokens between two of its terms.  With a bound on what    *)
(* the store lends (LoansBounded, an invariant by AxisStep of              *)
(* BucketProofs) it gives the promise to the provider.  Sums come from     *)
(* SumTheorems.                                                            *)
(***************************************************************************)
EXTENDS FastPath, BucketProofs, SumTheorems, TLAPS

Amount == [Axes -> Nat]

-----------------------------------------------------------------------------
(* The helpers of the model. *)

\* Amounts add up to amounts.
LEMMA AmountFacts ==
  ASSUME NEW x \in Amount, NEW y \in Amount
  PROVE  /\ Plus(x, y) \in Amount /\ \A a \in Axes : Plus(x, y)[a] = x[a] + y[a]
         /\ (\A a \in Axes : y[a] <= x[a]) => Minus(x, y) \in Amount
         /\ \A a \in Axes : Minus(x, y)[a] = x[a] - y[a]
         /\ Least(x, y) \in Amount
         /\ \A a \in Axes : Least(x, y)[a] <= x[a] /\ Least(x, y)[a] <= y[a]
         /\ OnTokens(x) \in Amount /\ OnUsed(x) \in Amount
         /\ Zero \in Amount
  BY DEF Amount, Plus, Minus, Least, Lesser, OnTokens, OnUsed, Zero

\* What TryDebit and the others find of a lease, and what they drop of it.
LEMMA LeaseFacts ==
  ASSUME TypeOK, NEW p \in Pods
  PROVE  /\ LeaseOf(p) \in [bal : Amount, expires : Nat]
         /\ LeaseOf(p).bal \in Amount /\ Dropped(p) \in Amount
         /\ \A a \in Axes : LeaseOf(p).bal[a] + Dropped(p)[a] = lease[p].bal[a]
         /\ clock + LeaseTTL \in Nat /\ clock + ResTTL \in Nat
<1>1. lease[p] \in [bal : Amount, expires : Nat] /\ Zero \in Amount
  BY DEF TypeOK, Amount, Zero
<1>2. NoLease \in [bal : Amount, expires : Nat] /\ NoLease.bal = Zero
  BY DEF NoLease, Amount, Zero
<1>3. clock + LeaseTTL \in Nat /\ clock + ResTTL \in Nat
  BY FastPathAssumption DEF TypeOK
<1>4. CASE LeaseAlive(p)
  <2>1. LeaseOf(p) = lease[p] /\ Dropped(p) = Zero
    BY <1>4 DEF LeaseOf, Dropped
  <2> QED BY <1>1, <1>3, <2>1 DEF Zero, Amount
<1>5. CASE ~LeaseAlive(p)
  <2>1. LeaseOf(p) = NoLease /\ Dropped(p) = lease[p].bal
    BY <1>5 DEF LeaseOf, Dropped
  <2> QED BY <1>1, <1>2, <1>3, <2>1 DEF Zero, Amount
<1> QED BY <1>4, <1>5

\* The purge of expired reservations.
LEMMA LiveFacts ==
  ASSUME TypeOK, NEW p \in Pods
  PROVE  /\ Live(p) \in [Ids -> Reservation \union {NoRes}]
         /\ \A id \in Ids : Live(p)[id] = res[p][id] \/ Live(p)[id] = NoRes
  BY DEF TypeOK, Live

\* Statuses tell reservations from NoRes, and steps tell calls from Idle.
LEMMA Distinct ==
  /\ \A r \in Reservation : r # NoRes
  /\ \A c \in Call : c # Idle /\ c.pc # "idle"
  /\ Idle.pc = "idle" /\ NoRes.status = "none"
<1>1. \A r \in Reservation : r.status # "none"
  BY DEF Reservation
<1>2. \A c \in Call : c.pc # "idle"
  BY DEF Call
<1> QED BY <1>1, <1>2 DEF NoRes, Idle

\* A step of a Check or a Settle, and how it goes on.
LEMMA CallFacts ==
  ASSUME TypeOK, NEW w \in Workers, call[w] # Idle
  PROVE  /\ call[w] \in Call /\ PodOf[w] \in Pods
         /\ call[w].id \in Ids /\ call[w].amount \in Amount /\ call[w].got \in Amount
         /\ \A s \in {"debit", "borrow", "storeErr", "credit", "redebit", "denySet",
                      "cover", "coverCredit", "apply"} :
              /\ [call[w] EXCEPT !.pc = s] \in Call
              /\ \A n \in Nat : [call[w] EXCEPT !.pc = s, !.retry = n] \in Call
              /\ \A x \in Amount : [call[w] EXCEPT !.got = x, !.pc = s] \in Call
<1>1. call[w] \in Call
  BY DEF TypeOK
<1>2. PodOf[w] \in Pods
  BY FastPathAssumption
<1> QED BY <1>1, <1>2 DEF Call, Amount

\* The limits bound the budget, and every axis in use is an axis.
LEMMA LimitFacts ==
  /\ \A a \in Axes : Limits[a] \in Nat
  /\ Used \in SUBSET Axes /\ Tokens \in SUBSET Used /\ "rpm" \in Used /\ "rpm" \notin Tokens
  /\ "rpm" \in Axes
  BY FastPathAssumption DEF Used, Tokens, UsedAxes, TokenAxes, Axes

-----------------------------------------------------------------------------
(* The store's side: what a loan and a return do to the buckets. *)

\* The store's buckets are within the limits and not dated in the future.
Bounded ==
  \A a \in Axes : bucket[a].tokens <= Limits[a] * Period /\ bucket[a].last <= clock

\* The buckets become `new' by a step that grants `got', which may be a return.
StoreStep(new, got) ==
  /\ new \in [Axes -> BucketType]
  /\ \A a \in Axes :
       \/ AxisStep(bucket[a], new[a], Limits[a], clock, got[a])
       \/ new[a] = bucket[a] /\ got[a] <= 0

\* A loan is debited in full on every axis in use.
LEMMA LoanEffect ==
  ASSUME TypeOK, Bounded, NEW w \in Workers, call[w] # Idle
  PROVE  /\ BorrowGot(bucket, Limits, SpecOf(w), clock) \in Amount
         /\ StoreStep(BorrowDebit(bucket, Limits, SpecOf(w), clock),
                      BorrowGot(bucket, Limits, SpecOf(w), clock))
<1> DEFINE spec == SpecOf(w)
           got == BorrowGot(bucket, Limits, spec, clock)
           new == BorrowDebit(bucket, Limits, spec, clock)
<1>1. spec.min \in Amount /\ spec.chunk \in Amount
  BY CallFacts, FastPathAssumption DEF SpecOf, Amount
<1>2. clock \in Nat \ {0}
  BY DEF TypeOK
<1>3. ASSUME NEW a \in Axes \ Used
      PROVE  new[a] = bucket[a] /\ got[a] = 0
  BY DEF BorrowDebit, Save, BorrowGot, Used
<1>4. ASSUME NEW a \in Used
      PROVE  got[a] \in Nat /\ AxisStep(bucket[a], new[a], Limits[a], clock, got[a])
  <2> DEFINE r == Refill(bucket[a], Limits[a], clock)
  <2>1. /\ a \in Axes /\ Limits[a] \in Nat /\ bucket[a] \in BucketType
        /\ bucket[a].tokens <= Limits[a] * Period /\ bucket[a].last <= clock
    BY LimitFacts DEF TypeOK, Bounded, BucketType
  <2>2. Load(bucket, Limits, clock)[a] = r
    BY <2>1 DEF Load
  <2>3. r \in BucketType
    BY <2>1, <1>2, RefillFacts
  <2>4. RemainingInt(r) \in Nat
    BY <2>3, WholeTokens
  <2>5. got[a] = WantGot(RemainingInt(r), NonNeg(spec.min[a]), NonNeg(spec.chunk[a]))
    BY <2>1, <2>2 DEF BorrowGot, Used
  <2>6. new[a] = TryConsume(r, Limits[a], clock, got[a])
    BY <2>1, <2>2 DEF BorrowDebit, Save, Used
  <2>7. spec.min[a] \in Nat /\ spec.chunk[a] \in Nat
    BY <1>1, <2>1 DEF Amount
  <2> HIDE DEF r, got, new, spec
  <2>8. got[a] \in Nat /\ got[a] <= RemainingInt(r)
    BY <2>4, <2>5, <2>7 DEF WantGot, Lesser, NonNeg
  <2> QED BY <1>2, <2>1, <2>6, <2>8, LoanStep DEF r
<1>5. got = [a \in Axes |-> got[a]] /\ new = [a \in Axes |-> new[a]]
  BY DEF BorrowGot, BorrowDebit, Save
<1>6. \A a \in Axes : bucket[a] \in BucketType
  BY DEF TypeOK, BucketType
<1> HIDE DEF got, new
<1>7. \A a \in Axes : got[a] \in Nat /\ new[a] \in BucketType
  BY <1>3, <1>4, <1>6 DEF AxisStep
<1>8. got \in Amount /\ new \in [Axes -> BucketType]
  BY <1>5, <1>7 DEF Amount
<1>9. StoreStep(new, got)
  <2>1. ASSUME NEW a \in Axes
        PROVE  \/ AxisStep(bucket[a], new[a], Limits[a], clock, got[a])
               \/ new[a] = bucket[a] /\ got[a] <= 0
    <3>1. CASE a \in Used
      BY <1>4, <3>1
    <3>2. CASE a \notin Used
      BY <1>3, <3>2
    <3> QED BY <3>1, <3>2
  <2> QED BY <1>8, <2>1 DEF StoreStep
<1> QED BY <1>8, <1>9 DEF got, new, spec

\* A return credits at most its amounts.
LEMMA ReturnEffect ==
  ASSUME TypeOK, Bounded, NEW x \in Amount
  PROVE  StoreStep(CreditSave(bucket, Limits, x, clock), [a \in Axes |-> -x[a]])
<1> DEFINE new == CreditSave(bucket, Limits, x, clock)
<1>1. clock \in Nat \ {0}
  BY DEF TypeOK
<1>2. ASSUME NEW a \in Axes \ Used
      PROVE  new[a] = bucket[a]
  BY DEF CreditSave, Save, Used
<1>3. ASSUME NEW a \in Used
      PROVE  AxisStep(bucket[a], new[a], Limits[a], clock, -x[a])
  <2>1. /\ a \in Axes /\ Limits[a] \in Nat /\ bucket[a] \in BucketType
        /\ bucket[a].tokens <= Limits[a] * Period /\ x[a] \in Nat
    BY LimitFacts DEF TypeOK, Bounded, BucketType, Amount
  <2>2. new[a] = Credit(Refill(bucket[a], Limits[a], clock), Limits[a], clock, x[a])
    BY <2>1 DEF CreditSave, Save, Used
  <2>3. NonNeg(x[a]) = x[a]
    BY <2>1 DEF NonNeg
  <2> QED BY <1>1, <2>1, <2>2, <2>3, CreditStep
<1>4. new = [a \in Axes |-> new[a]]
  BY DEF CreditSave, Save
<1>5. \A a \in Axes : bucket[a] \in BucketType
  BY DEF TypeOK, BucketType
<1> HIDE DEF new
<1>6. \A a \in Axes : new[a] \in BucketType
  BY <1>2, <1>3, <1>5 DEF AxisStep
<1>7. new \in [Axes -> BucketType]
  BY <1>4, <1>6
<1>8. \A a \in Axes : x[a] \in Nat
  BY DEF Amount
<1> QED BY <1>2, <1>3, <1>7, <1>8 DEF StoreStep, new

\* The wait a denied loan reports is a number.
LEMMA WaitType ==
  ASSUME TypeOK, Bounded, NEW w \in Workers, call[w] # Idle,
         BorrowDenies(bucket, Limits, SpecOf(w), clock) # {}
  PROVE  BorrowDecision(bucket, Limits, SpecOf(w), clock).retry \in Nat
<1> DEFINE denies == BorrowDenies(bucket, Limits, SpecOf(w), clock)
           a == FirstOf(Split(Limits), denies)
           b == Reloaded(bucket, Limits, clock)[a]
<1>1. denies \in SUBSET UsedAxes(Split(Limits)) /\ Split(Limits) \in BOOLEAN
  BY DEF BorrowDenies, Split
<1>2. a \in Axes
  <2>1. a \in denies
    <3> HIDE DEF denies
    <3> QED BY <1>1, FirstDenies DEF denies
  <2> QED BY <2>1, <1>1, AxesInUse
<1>3. b = Refill(Refill(bucket[a], Limits[a], clock), Limits[a], clock)
  BY <1>2 DEF Reloaded, Load
<1>4. /\ Limits[a] \in Nat /\ clock \in Nat \ {0} /\ SpecOf(w).min[a] \in Nat
      /\ bucket[a] \in BucketType /\ bucket[a].tokens <= Limits[a] * Period
  <2>1. SpecOf(w).min[a] \in Nat
    <3>1. call[w].amount \in Amount
      BY CallFacts
    <3> HIDE DEF a
    <3> QED BY <1>2, <3>1 DEF SpecOf, Amount
  <2> HIDE DEF a
  <2>2. Limits[a] \in Nat /\ clock \in Nat \ {0} /\ bucket[a] \in BucketType
    BY <1>2, LimitFacts DEF TypeOK, BucketType
  <2>3. bucket[a].tokens <= Limits[a] * Period
    BY <1>2 DEF Bounded
  <2> QED BY <2>1, <2>2, <2>3
<1>5. b \in BucketType
  BY <1>3, <1>4, ReloadStep DEF AxisStep
<1>6. NonNeg(SpecOf(w).min[a]) \in Nat
  BY <1>4 DEF NonNeg
<1>7. BorrowDecision(bucket, Limits, SpecOf(w), clock).retry
        = RetryAfter(b, Limits[a], NonNeg(SpecOf(w).min[a]))
  BY DEF BorrowDecision
<1> HIDE DEF a, b
<1> QED BY <1>4, <1>5, <1>6, <1>7, RetryType

-----------------------------------------------------------------------------
(* What the steps do to one pod and one handler. *)

\* Where a Check has not yet stored its reservation.
CheckPcs == {"debit", "borrow", "storeErr", "credit", "redebit"}

\* Its cost is on the axes in use.
CostsUsed ==
  \A w \in Workers : call[w].pc \in CheckPcs => \A a \in Axes \ Used : call[w].amount[a] = 0

\* Only pod p's lease may change, or only handler w's call but for the marks.
LeaseStep(p) ==
  /\ lease' \in [Pods -> [bal : [Axes -> Nat], expires : Nat]]
  /\ \A q \in Pods \ {p} : lease'[q] = lease[q]

CallStep(w) ==
  /\ call' \in [Workers -> Call \union {Idle}]
  /\ \A v \in Workers \ {w} :
       \/ call'[v] = call[v]
       \/ call[v].pc = "denySet" /\ call'[v].pc = "denySet" /\ call'[v].id = call[v].id

\* Reservations are kept or purged, all of them or all but one.
Kept(p, id) == res'[p][id] = res[p][id] \/ res'[p][id] = NoRes

ResFades == \A p \in Pods, id \in Ids : Kept(p, id)

ResStep(p, id) ==
  /\ res' \in [Pods -> [Ids -> Reservation \union {NoRes}]]
  /\ \A q \in Pods, i \in Ids : q # p \/ i # id => Kept(q, i)

\* The new terms of the one reservation that is opened, closed, or charged more.
Opened(p, id, cost) ==
  /\ ResStep(p, id)
  /\ res'[p][id] \in Reservation
  /\ res'[p][id].status = "pending" /\ res'[p][id].cost = cost /\ res'[p][id].over = Zero

Closed(p, id, over) ==
  /\ ResStep(p, id)
  /\ Pending(res[p][id])
  /\ res'[p][id] \in Reservation
  /\ res'[p][id].status # "pending" /\ res'[p][id].cost = res[p][id].cost
  /\ res'[p][id].over = over

Charged(p, id) ==
  /\ ResStep(p, id)
  /\ res[p][id] \in Reservation /\ res'[p][id] \in Reservation
  /\ res'[p][id].status = res[p][id].status /\ res'[p][id].cost = res[p][id].cost
  /\ \A a \in Axes : res'[p][id].over[a] <= res[p][id].over[a]

\* A lease that is set anew is a lease.
LEMMA LeaseSet ==
  ASSUME TypeOK, NEW p \in Pods, NEW bal \in Amount, NEW n \in Nat,
         lease' = [lease EXCEPT ![p] = [bal |-> bal, expires |-> n]]
  PROVE  LeaseStep(p) /\ lease'[p].bal = bal
<1>1. [bal |-> bal, expires |-> n] \in [bal : [Axes -> Nat], expires : Nat]
  BY DEF Amount
<1> QED BY <1>1 DEF TypeOK, LeaseStep

\* A call that is set anew is a call.
LEMMA CallSet ==
  ASSUME TypeOK, NEW w \in Workers, NEW c \in Call \union {Idle}, Goto(w, c)
  PROVE  CallStep(w) /\ call'[w] = c
  BY DEF TypeOK, Goto, CallStep

\* The purge keeps or drops reservations.
LEMMA ResPurge ==
  ASSUME TypeOK, NEW p \in Pods, res' = [res EXCEPT ![p] = Live(p)]
  PROVE  ResFades /\ res' \in [Pods -> [Ids -> Reservation \union {NoRes}]]
<1>1. Live(p) \in [Ids -> Reservation \union {NoRes}]
  BY LiveFacts
<1>2. \A id \in Ids : Live(p)[id] = res[p][id] \/ Live(p)[id] = NoRes
  BY LiveFacts
<1> QED BY <1>1, <1>2 DEF TypeOK, ResFades, Kept

\* After the purge one reservation may be stored, and only that one changes.
LEMMA ResSet ==
  ASSUME TypeOK, NEW p \in Pods, NEW id \in Ids, NEW r \in Reservation,
         res' = [res EXCEPT ![p] = [Live(p) EXCEPT ![id] = r]]
  PROVE  ResStep(p, id) /\ res'[p][id] = r
<1>1. Live(p) \in [Ids -> Reservation \union {NoRes}]
  BY LiveFacts
<1>2. \A i \in Ids : Live(p)[i] = res[p][i] \/ Live(p)[i] = NoRes
  BY LiveFacts
<1> QED BY <1>1, <1>2 DEF TypeOK, ResStep, Kept

\* TryDebit: a debit is charged to the caller and opens a reservation, a miss
\* charges nothing.
LEMMA DebitEffect ==
  ASSUME TypeOK, CostsUsed, NEW w \in Workers, call[w].pc \in CheckPcs,
         NEW miss \in Call \union {Idle}, TryDebit(w, miss)
  PROVE  /\ LeaseStep(PodOf[w]) /\ CallStep(w)
         /\ charged' \in Amount /\ lost' \in Amount
         /\ \A a \in Axes : lease'[PodOf[w]].bal[a] + charged'[a] + lost'[a]
                              = lease[PodOf[w]].bal[a] + charged[a] + lost[a]
         /\ \/ /\ Opened(PodOf[w], call[w].id, call[w].amount)
               /\ charged' = Plus(charged, call[w].amount)
               /\ call'[w] = Idle
            \/ /\ ResFades /\ res' \in [Pods -> [Ids -> Reservation \union {NoRes}]]
               /\ charged' = charged
               /\ call'[w] = miss
<1> DEFINE p == PodOf[w]
           b == LeaseOf(p)
           cost == call[w].amount
           new == [cost |-> cost, status |-> "pending", expires |-> clock + ResTTL,
                   over |-> Zero]
<1>0. call[w] # Idle
  BY Distinct DEF CheckPcs
<1>1. p \in Pods /\ cost \in Amount /\ call[w].id \in Ids
  BY <1>0, CallFacts
<1>2. /\ b \in [bal : Amount, expires : Nat] /\ b.bal \in Amount
      /\ Dropped(p) \in Amount /\ clock + ResTTL \in Nat /\ clock + LeaseTTL \in Nat
      /\ \A a \in Axes : b.bal[a] + Dropped(p)[a] = lease[p].bal[a]
  BY <1>1, LeaseFacts
<1>3. charged \in Amount /\ lost \in Amount /\ \A a \in Axes : lease[p].bal[a] \in Nat
  BY <1>1 DEF TypeOK, Amount
<1>4. lost' = Plus(lost, Dropped(p))
  BY DEF TryDebit
<1>5. lost' \in Amount /\ \A a \in Axes : lost'[a] = lost[a] + Dropped(p)[a]
  BY <1>2, <1>3, <1>4, AmountFacts
<1>6. CASE Covers(b, cost) /\ LeaseAlive(p)
  <2>1. /\ Renew(p, Minus(b.bal, cost))
        /\ res' = [res EXCEPT ![p] = [Live(p) EXCEPT ![call[w].id] = new]]
        /\ charged' = Plus(charged, cost)
        /\ Goto(w, Idle)
    BY <1>6 DEF TryDebit
  <2>2. \A a \in Axes : cost[a] <= b.bal[a]
    <3>1. \A a \in Axes \ Used : cost[a] = 0
      BY DEF CostsUsed
    <3>2. \A a \in Used : cost[a] <= b.bal[a]
      BY <1>6, <1>1, <1>2, LimitFacts DEF Covers, Amount
    <3> QED BY <1>2, <3>1, <3>2 DEF Amount
  <2>3. Minus(b.bal, cost) \in Amount /\ \A a \in Axes : Minus(b.bal, cost)[a] = b.bal[a] - cost[a]
    BY <1>1, <1>2, <2>2, AmountFacts
  <2>4. LeaseStep(p) /\ lease'[p].bal = Minus(b.bal, cost)
    BY <1>1, <1>2, <2>1, <2>3, LeaseSet DEF Renew
  <2>5. new \in Reservation
    BY <1>1, <1>2, AmountFacts DEF Reservation, Amount
  <2>6. ResStep(p, call[w].id) /\ res'[p][call[w].id] = new
    <3> HIDE DEF new
    <3> QED BY <1>1, <2>1, <2>5, ResSet
  <2>7. Opened(p, call[w].id, cost)
    BY <2>5, <2>6 DEF Opened
  <2>8. charged' \in Amount /\ \A a \in Axes : charged'[a] = charged[a] + cost[a]
    BY <1>1, <1>3, <2>1, AmountFacts
  <2>9. CallStep(w) /\ call'[w] = Idle
    BY <2>1, CallSet
  <2>10. \A a \in Axes : lease'[p].bal[a] + charged'[a] + lost'[a]
                           = lease[p].bal[a] + charged[a] + lost[a]
    BY <1>1, <1>2, <1>3, <1>5, <2>3, <2>4, <2>8 DEF Amount
  <2> QED BY <1>5, <2>1, <2>4, <2>7, <2>8, <2>9, <2>10
<1>7. CASE ~(Covers(b, cost) /\ LeaseAlive(p))
  <2>1. /\ lease' = [lease EXCEPT ![p] = b]
        /\ res' = [res EXCEPT ![p] = Live(p)]
        /\ charged' = charged
        /\ Goto(w, miss)
    BY <1>7 DEF TryDebit
  <2>2. LeaseStep(p) /\ lease'[p].bal = b.bal
    BY <1>1, <1>2, <2>1 DEF TypeOK, LeaseStep, Amount
  <2>3. ResFades /\ res' \in [Pods -> [Ids -> Reservation \union {NoRes}]]
    BY <1>1, <2>1, ResPurge
  <2>4. CallStep(w) /\ call'[w] = miss
    BY <2>1, CallSet
  <2>5. \A a \in Axes : lease'[p].bal[a] + charged'[a] + lost'[a]
                           = lease[p].bal[a] + charged[a] + lost[a]
    BY <1>1, <1>2, <1>3, <1>5, <2>1, <2>2 DEF Amount
  <2> QED BY <1>3, <1>5, <2>1, <2>2, <2>3, <2>4, <2>5
<1> QED BY <1>6, <1>7

-----------------------------------------------------------------------------
(* Pending reservations are paid for. *)

Places == Pods \X Ids

PendingCost(a) ==
  [x \in Places |-> IF Pending(res[x[1]][x[2]]) THEN res[x[1]][x[2]].cost[a] ELSE 0]

\* What the pending reservations of all pods cost is part of what was charged.
PendingCharged == \A a \in Axes : SumFunctionOnSet(PendingCost(a), Places) <= charged[a]

\* There are finitely many places, and each costs a number of tokens.
LEMMA PlaceFacts ==
  ASSUME TypeOK
  PROVE  /\ IsFiniteSet(Places)
         /\ \A a \in Axes, x \in Places : PendingCost(a)[x] \in Nat
         /\ \A a \in Axes : SumFunctionOnSet(PendingCost(a), Places) \in Nat
<1>1. IsFiniteSet(Places)
  BY FastPathAssumption, FS_Product DEF Places
<1>2. ASSUME NEW a \in Axes, NEW x \in Places
      PROVE  PendingCost(a)[x] \in Nat
  <2>1. x[1] \in Pods /\ x[2] \in Ids
    BY DEF Places
  <2>2. res[x[1]][x[2]] \in Reservation \union {NoRes}
    BY <2>1 DEF TypeOK
  <2>3. Pending(res[x[1]][x[2]]) => res[x[1]][x[2]].cost[a] \in Nat
    BY <2>2 DEF Pending, Reservation
  <2> QED BY <2>3 DEF PendingCost
<1>3. ASSUME NEW a \in Axes
      PROVE  SumFunctionOnSet(PendingCost(a), Places) \in Nat
  BY <1>1, <1>2, SumType
<1> QED BY <1>1, <1>2, <1>3

\* A pending reservation can be given back without charging less than nothing.
LEMMA PendingPaid ==
  ASSUME TypeOK, PendingCharged, NEW p \in Pods, NEW id \in Ids, Pending(res[p][id])
  PROVE  /\ res[p][id] \in Reservation /\ res[p][id].cost \in Amount
         /\ \A a \in Axes : res[p][id].cost[a] <= charged[a]
<1>1. res[p][id] \in Reservation
  BY DEF TypeOK, Pending
<1>2. res[p][id].cost \in Amount
  BY <1>1 DEF Reservation, Amount
<1>3. ASSUME NEW a \in Axes
      PROVE  res[p][id].cost[a] <= charged[a]
  <2> DEFINE x == <<p, id>>
             f == PendingCost(a)
  <2>1. x \in Places /\ f[x] = res[p][id].cost[a]
    BY DEF Places, PendingCost
  <2>2. IsFiniteSet(Places) /\ \A i \in Places : f[i] \in Nat
    BY PlaceFacts
  <2>3. charged[a] \in Nat /\ SumFunctionOnSet(f, Places) <= charged[a]
    BY DEF TypeOK, PendingCharged
  <2> HIDE DEF f, x
  <2>4. SumFunctionOnSet(f, Places) = f[x] + SumFunctionOnSet(f, Places \ {x})
    BY <2>1, <2>2, SumTake
  <2>5. SumFunctionOnSet(f, Places \ {x}) \in Nat
    BY <2>2, SumType
  <2> QED BY <2>1, <2>2, <2>3, <2>4, <2>5
<1> QED BY <1>1, <1>2, <1>3

\* A live reservation is the one that is stored.
LEMMA LivePending ==
  ASSUME TypeOK, NEW p \in Pods, NEW id \in Ids, Live(p)[id] # NoRes
  PROVE  Live(p)[id] = res[p][id]
  BY LiveFacts

\* Marking denials as stale changes no step of a handler.
LEMMA MarkCall ==
  ASSUME TypeOK, NEW w \in Workers, NEW p \in Pods,
         NEW calls \in [Workers -> Call \union {Idle}],
         \A v \in Workers \ {w} : calls[v] = call[v],
         calls[w].pc # "denySet", call' = MarkStale(p, calls)
  PROVE  CallStep(w) /\ call'[w] = calls[w]
<1>1. \A v \in Workers : call'[v] = IF PodOf[v] = p /\ calls[v].pc = "denySet"
                                    THEN [calls[v] EXCEPT !.stale = TRUE] ELSE calls[v]
  BY DEF MarkStale
<1>2. ASSUME NEW c \in Call \union {Idle}, c.pc = "denySet"
      PROVE  /\ [c EXCEPT !.stale = TRUE] \in Call
             /\ [c EXCEPT !.stale = TRUE].pc = "denySet"
             /\ [c EXCEPT !.stale = TRUE].id = c.id
  <2>1. c \in Call
    BY <1>2, Distinct
  <2> QED BY <1>2, <2>1 DEF Call
<1>3. \A v \in Workers : call'[v] \in Call \union {Idle}
  BY <1>1, <1>2
<1>4. call' \in [Workers -> Call \union {Idle}]
  BY <1>3 DEF MarkStale
<1>5. ASSUME NEW v \in Workers \ {w}
      PROVE  \/ call'[v] = call[v]
             \/ /\ call[v].pc = "denySet" /\ call'[v].pc = "denySet"
                /\ call'[v].id = call[v].id
  <2>1. calls[v] = call[v] /\ calls[v] \in Call \union {Idle}
    OBVIOUS
  <2>2. CASE PodOf[v] = p /\ calls[v].pc = "denySet"
    <3>1. call'[v] = [calls[v] EXCEPT !.stale = TRUE]
      BY <1>1, <2>2
    <3> QED BY <1>2, <2>1, <2>2, <3>1
  <2>3. CASE ~(PodOf[v] = p /\ calls[v].pc = "denySet")
    BY <1>1, <2>1, <2>3
  <2> QED BY <2>2, <2>3
<1> QED BY <1>1, <1>4, <1>5 DEF CallStep

\* A Settle goes on to cover what is over, or is done.
LEMMA AfterFacts ==
  ASSUME NEW id \in Ids, NEW over \in Amount
  PROVE  /\ AfterSettle(id, over) \in Call \union {Idle}
         /\ AfterSettle(id, over).pc \notin CheckPcs \union {"denySet"}
         /\ \/ AfterSettle(id, over) = Idle
            \/ /\ AfterSettle(id, over).pc = "cover" /\ AfterSettle(id, over).id = id
               /\ \E a \in Axes : over[a] > 0
<1>1. Step("cover", id, over, Zero, 0) \in Call
  BY DEF Step, Call, Zero, Amount
<1>2. Step("cover", id, over, Zero, 0).pc = "cover" /\ Step("cover", id, over, Zero, 0).id = id
  BY DEF Step
<1> QED BY <1>1, <1>2, Distinct DEF AfterSettle, CheckPcs

-----------------------------------------------------------------------------
(* What settlements, refunds, credits and deficits do. *)

\* A settlement moves tokens between the caller and the lease, closes the
\* reservation, and leaves an overshoot only where more was used than reserved.
LEMMA SettleEffect ==
  ASSUME TypeOK, PendingCharged, NEW w \in Workers, NEW id \in Ids, NEW n \in Actuals,
         SettleLocal(w, id, n)
  PROVE  /\ LeaseStep(PodOf[w]) /\ CallStep(w)
         /\ charged' \in Amount /\ lost' \in Amount
         /\ \A a \in Axes : lease'[PodOf[w]].bal[a] + charged'[a] + lost'[a]
                              = lease[PodOf[w]].bal[a] + charged[a] + lost[a]
         /\ \A a \in Axes : charged[a] <= charged'[a] + res[PodOf[w]][id].cost[a]
         /\ \E over \in Amount :
              /\ Closed(PodOf[w], id, over)
              /\ res'[PodOf[w]][id].status = "settled"
              /\ call'[w] = AfterSettle(id, over)
              /\ \A a \in Axes : \/ over[a] = 0
                                 \/ a \in Tokens /\ res[PodOf[w]][id].cost[a] < n[a]
         /\ deny' \in [Pods -> [until : Nat, stale : BOOLEAN]]
<1> DEFINE p == PodOf[w]
           r == Live(p)[id]
           b == LeaseOf(p)
           surplus == OnTokens([a \in Axes |-> NonNeg(r.cost[a] - n[a])])
           need    == OnTokens([a \in Axes |-> NonNeg(n[a] - r.cost[a])])
           taken   == Least(b.bal, need)
           over    == Minus(need, taken)
           done    == [r EXCEPT !.status = "settled", !.over = over,
                                !.expires = clock + ResTTL]
           next    == [call EXCEPT ![w] = AfterSettle(id, over)]
<1>1. /\ call[w] = Idle /\ Pending(r)
      /\ Renew(p, Minus(Plus(b.bal, surplus), taken))
      /\ res' = [res EXCEPT ![p] = [Live(p) EXCEPT ![id] = done]]
      /\ charged' = Adjusted(r, surplus, taken)
      /\ lost' = Plus(lost, Dropped(p))
      /\ \/ ClearDeny(p) /\ call' = MarkStale(p, next)
         \/ UNCHANGED deny /\ call' = next
  BY DEF SettleLocal
<1>2. p \in Pods /\ n \in Amount
  BY FastPathAssumption DEF Amount
<1>3. r = res[p][id]
  BY <1>1, <1>2, LivePending DEF Pending
<1>4. r \in Reservation /\ r.cost \in Amount /\ \A a \in Axes : r.cost[a] <= charged[a]
  BY <1>1, <1>2, <1>3, PendingPaid
<1>5. /\ b.bal \in Amount /\ Dropped(p) \in Amount
      /\ clock + ResTTL \in Nat /\ clock + LeaseTTL \in Nat
      /\ \A a \in Axes : b.bal[a] + Dropped(p)[a] = lease[p].bal[a]
  BY <1>2, LeaseFacts
<1>6. charged \in Amount /\ lost \in Amount /\ \A a \in Axes : lease[p].bal[a] \in Nat
  BY <1>2 DEF TypeOK, Amount
<1> HIDE DEF r, b, p
<1>7. /\ surplus \in Amount /\ need \in Amount
      /\ \A a \in Axes : surplus[a] <= r.cost[a]
      /\ \A a \in Axes : need[a] = 0 \/ (a \in Tokens /\ r.cost[a] < n[a])
  BY <1>2, <1>4 DEF OnTokens, NonNeg, Amount
<1> HIDE DEF surplus, need
<1>8. taken \in Amount /\ \A a \in Axes : taken[a] <= b.bal[a] /\ taken[a] <= need[a]
  BY <1>5, <1>7, AmountFacts
<1> HIDE DEF taken
<1>9. over \in Amount /\ \A a \in Axes : over[a] = need[a] - taken[a]
  BY <1>7, <1>8, AmountFacts
<1>10. \A a \in Axes : over[a] = 0 \/ (a \in Tokens /\ r.cost[a] < n[a])
  BY <1>7, <1>8, <1>9 DEF Amount
<1> HIDE DEF over
<1>11. /\ Minus(Plus(b.bal, surplus), taken) \in Amount
       /\ \A a \in Axes : Minus(Plus(b.bal, surplus), taken)[a] = b.bal[a] + surplus[a] - taken[a]
  BY <1>5, <1>7, <1>8 DEF Amount, Plus, Minus
<1>12. LeaseStep(p) /\ lease'[p].bal = Minus(Plus(b.bal, surplus), taken)
  BY <1>1, <1>2, <1>5, <1>11, LeaseSet DEF Renew
<1>13. /\ charged' \in Amount
       /\ \A a \in Axes : charged'[a] = charged[a] + taken[a] - surplus[a]
  <2>1. charged' = Minus(Plus(charged, taken), surplus)
    BY <1>1 DEF Adjusted, Pending
  <2> QED BY <2>1, <1>4, <1>6, <1>7, <1>8 DEF Amount, Plus, Minus
<1>14. lost' \in Amount /\ \A a \in Axes : lost'[a] = lost[a] + Dropped(p)[a]
  BY <1>1, <1>5, <1>6, AmountFacts
<1>15. \A a \in Axes : lease'[p].bal[a] + charged'[a] + lost'[a]
                         = lease[p].bal[a] + charged[a] + lost[a]
  BY <1>5, <1>6, <1>7, <1>8, <1>11, <1>12, <1>13, <1>14 DEF Amount
<1>16. \A a \in Axes : charged[a] <= charged'[a] + r.cost[a]
  BY <1>4, <1>6, <1>7, <1>8, <1>13 DEF Amount
<1>17. /\ done \in Reservation /\ done.status = "settled" /\ done.cost = r.cost
       /\ done.over = over
  BY <1>4, <1>5, <1>9 DEF Reservation, Amount
<1> HIDE DEF done
<1>18. ResStep(p, id) /\ res'[p][id] = done
  BY <1>1, <1>2, <1>17, ResSet
<1>19. Closed(p, id, over)
  BY <1>1, <1>3, <1>17, <1>18 DEF Closed
<1>20. /\ AfterSettle(id, over) \in Call \union {Idle}
       /\ AfterSettle(id, over).pc # "denySet"
  BY <1>9, AfterFacts
<1>21. /\ next \in [Workers -> Call \union {Idle}] /\ next[w] = AfterSettle(id, over)
       /\ \A v \in Workers \ {w} : next[v] = call[v]
  BY <1>20 DEF TypeOK
<1>22. CallStep(w) /\ call'[w] = AfterSettle(id, over)
  <2>1. CASE call' = next
    BY <1>21, <2>1 DEF CallStep
  <2>2. CASE call' = MarkStale(p, next)
    <3> HIDE DEF next
    <3> QED BY <1>2, <1>20, <1>21, <2>2, MarkCall
  <2> QED BY <1>1, <2>1, <2>2
<1>23. deny' \in [Pods -> [until : Nat, stale : BOOLEAN]]
  <2>1. ClearDeny(p) \/ UNCHANGED deny
    BY <1>1
  <2>2. deny \in [Pods -> [until : Nat, stale : BOOLEAN]]
    BY DEF TypeOK
  <2>3. NoDeny \in [until : Nat, stale : BOOLEAN]
    BY DEF NoDeny
  <2>4. CASE ClearDeny(p)
    BY <2>2, <2>3, <2>4 DEF ClearDeny
  <2> QED BY <2>1, <2>2, <2>4
<1>24. \E o \in Amount :
         /\ Closed(p, id, o) /\ res'[p][id].status = "settled"
         /\ call'[w] = AfterSettle(id, o)
         /\ \A a \in Axes : o[a] = 0 \/ (a \in Tokens /\ res[p][id].cost[a] < n[a])
  BY <1>3, <1>9, <1>10, <1>17, <1>18, <1>19, <1>22
<1> QED BY <1>3, <1>12, <1>13, <1>14, <1>15, <1>16, <1>22, <1>23, <1>24 DEF p

\* A refund gives the whole charge back to the lease and closes the reservation.
LEMMA RefundEffect ==
  ASSUME TypeOK, PendingCharged, NEW w \in Workers, NEW id \in Ids, RefundLocal(w, id)
  PROVE  /\ LeaseStep(PodOf[w]) /\ CallStep(w) /\ call'[w] = Idle
         /\ charged' \in Amount /\ lost' \in Amount
         /\ \A a \in Axes : lease'[PodOf[w]].bal[a] + charged'[a] + lost'[a]
                              = lease[PodOf[w]].bal[a] + charged[a] + lost[a]
         /\ \A a \in Axes : charged[a] <= charged'[a] + res[PodOf[w]][id].cost[a]
         /\ Closed(PodOf[w], id, res[PodOf[w]][id].over)
         /\ deny' \in [Pods -> [until : Nat, stale : BOOLEAN]]
<1> DEFINE p == PodOf[w]
           r == Live(p)[id]
           b == LeaseOf(p)
           done == [r EXCEPT !.status = "refunded", !.expires = clock + ResTTL]
<1>1. /\ call[w] = Idle /\ Pending(r)
      /\ Renew(p, Plus(b.bal, r.cost))
      /\ res' = [res EXCEPT ![p] = [Live(p) EXCEPT ![id] = done]]
      /\ charged' = Adjusted(r, r.cost, Zero)
      /\ lost' = Plus(lost, Dropped(p))
      /\ ClearDeny(p) /\ call' = MarkStale(p, call)
  BY DEF RefundLocal
<1>2. p \in Pods
  BY FastPathAssumption
<1>3. r = res[p][id]
  BY <1>1, <1>2, LivePending DEF Pending
<1>4. r \in Reservation /\ r.cost \in Amount /\ \A a \in Axes : r.cost[a] <= charged[a]
  BY <1>1, <1>2, <1>3, PendingPaid
<1>5. /\ b.bal \in Amount /\ Dropped(p) \in Amount
      /\ clock + ResTTL \in Nat /\ clock + LeaseTTL \in Nat
      /\ \A a \in Axes : b.bal[a] + Dropped(p)[a] = lease[p].bal[a]
  BY <1>2, LeaseFacts
<1>6. charged \in Amount /\ lost \in Amount /\ \A a \in Axes : lease[p].bal[a] \in Nat
  BY <1>2 DEF TypeOK, Amount
<1> HIDE DEF r, b, p
<1>7. /\ Plus(b.bal, r.cost) \in Amount
      /\ \A a \in Axes : Plus(b.bal, r.cost)[a] = b.bal[a] + r.cost[a]
  BY <1>4, <1>5, AmountFacts
<1>8. LeaseStep(p) /\ lease'[p].bal = Plus(b.bal, r.cost)
  BY <1>1, <1>2, <1>5, <1>7, LeaseSet DEF Renew
<1>9. charged' \in Amount /\ \A a \in Axes : charged'[a] = charged[a] - r.cost[a]
  <2>1. charged' = Minus(Plus(charged, Zero), r.cost)
    BY <1>1 DEF Adjusted, Pending
  <2> QED BY <2>1, <1>4, <1>6 DEF Amount, Plus, Minus, Zero
<1>10. lost' \in Amount /\ \A a \in Axes : lost'[a] = lost[a] + Dropped(p)[a]
  BY <1>1, <1>5, <1>6, AmountFacts
<1>11. \A a \in Axes : lease'[p].bal[a] + charged'[a] + lost'[a]
                         = lease[p].bal[a] + charged[a] + lost[a]
  BY <1>4, <1>5, <1>6, <1>7, <1>8, <1>9, <1>10 DEF Amount
<1>12. \A a \in Axes : charged[a] <= charged'[a] + r.cost[a]
  BY <1>4, <1>6, <1>9 DEF Amount
<1>13. /\ done \in Reservation /\ done.status = "refunded" /\ done.cost = r.cost
       /\ done.over = r.over
  BY <1>4, <1>5 DEF Reservation
<1> HIDE DEF done
<1>14. ResStep(p, id) /\ res'[p][id] = done
  BY <1>1, <1>2, <1>13, ResSet
<1>15. Closed(p, id, r.over)
  BY <1>1, <1>3, <1>13, <1>14 DEF Closed
<1>16. CallStep(w) /\ call'[w] = Idle
  <2>1. call \in [Workers -> Call \union {Idle}]
    BY DEF TypeOK
  <2> QED BY <1>1, <1>2, <2>1, MarkCall, Distinct
<1>17. deny' \in [Pods -> [until : Nat, stale : BOOLEAN]]
  BY <1>1 DEF ClearDeny, NoDeny, TypeOK
<1> QED BY <1>3, <1>8, <1>9, <1>10, <1>11, <1>12, <1>15, <1>16, <1>17 DEF p

\* CreditLease moves what the handler carries to the lease.
LEMMA CreditEffect ==
  ASSUME TypeOK, NEW w \in Workers, CreditLease(w)
  PROVE  /\ LeaseStep(PodOf[w]) /\ CallStep(w) /\ lost' \in Amount
         /\ \A a \in Axes : lease'[PodOf[w]].bal[a] + lost'[a]
                              = lease[PodOf[w]].bal[a] + lost[a] + call[w].got[a]
         /\ call'[w].id = call[w].id /\ call'[w].amount = call[w].amount
         /\ call'[w].pc = IF call[w].pc = "credit" THEN "redebit" ELSE "apply"
<1> DEFINE p == PodOf[w]
           b == LeaseOf(p)
           c == [call[w] EXCEPT !.pc = IF @ = "credit" THEN "redebit" ELSE "apply"]
<1>1. call[w] # Idle /\ call[w].pc \in {"credit", "coverCredit"}
  BY Distinct DEF CreditLease
<1>2. p \in Pods /\ call[w] \in Call /\ call[w].got \in Amount
  BY <1>1, CallFacts
<1>3. /\ c \in Call /\ c.id = call[w].id /\ c.amount = call[w].amount
      /\ c.pc = IF call[w].pc = "credit" THEN "redebit" ELSE "apply"
  BY <1>2 DEF Call
<1>4. /\ b.bal \in Amount /\ Dropped(p) \in Amount /\ clock + LeaseTTL \in Nat
      /\ \A a \in Axes : b.bal[a] + Dropped(p)[a] = lease[p].bal[a]
  BY <1>2, LeaseFacts
<1>5. /\ Renew(p, Plus(b.bal, call[w].got)) /\ lost' = Plus(lost, Dropped(p))
      /\ Goto(w, c)
  BY DEF CreditLease
<1>6. lost \in Amount /\ \A a \in Axes : lease[p].bal[a] \in Nat
  BY <1>2 DEF TypeOK, Amount
<1> HIDE DEF c, b, p
<1>7. /\ Plus(b.bal, call[w].got) \in Amount
      /\ \A a \in Axes : Plus(b.bal, call[w].got)[a] = b.bal[a] + call[w].got[a]
  BY <1>2, <1>4, AmountFacts
<1>8. LeaseStep(p) /\ lease'[p].bal = Plus(b.bal, call[w].got)
  BY <1>2, <1>4, <1>5, <1>7, LeaseSet DEF Renew
<1>9. lost' \in Amount /\ \A a \in Axes : lost'[a] = lost[a] + Dropped(p)[a]
  BY <1>4, <1>5, <1>6, AmountFacts
<1>10. CallStep(w) /\ call'[w] = c
  BY <1>3, <1>5, CallSet
<1>11. \A a \in Axes : lease'[p].bal[a] + lost'[a] = lease[p].bal[a] + lost[a] + call[w].got[a]
  BY <1>2, <1>4, <1>6, <1>7, <1>8, <1>9 DEF Amount
<1> QED BY <1>3, <1>8, <1>9, <1>10, <1>11 DEF p

\* ApplyBorrowedDeficit charges tokens only, and only to a reservation that has
\* an overshoot left.
LEMMA ApplyEffect ==
  ASSUME TypeOK, NEW w \in Workers, ApplyDeficit(w)
  PROVE  /\ LeaseStep(PodOf[w]) /\ CallStep(w) /\ call'[w] = Idle
         /\ charged' \in Amount /\ lost' \in Amount
         /\ \A a \in Axes : charged[a] <= charged'[a]
         /\ \A a \in Axes \ Tokens : lease'[PodOf[w]].bal[a] + charged'[a] + lost'[a]
                                       = lease[PodOf[w]].bal[a] + charged[a] + lost[a]
         /\ res' = res \/ Charged(PodOf[w], call[w].id)
<1> DEFINE p     == PodOf[w]
           id    == call[w].id
           r     == res[p][id]
           b     == LeaseOf(p)
           bal   == Plus(b.bal, OnTokens(call[w].got))
           taken == Least(bal, r.over)
<1>1. call[w] # Idle /\ call[w].pc = "apply"
  BY Distinct DEF ApplyDeficit
<1>2. p \in Pods /\ id \in Ids /\ call[w].got \in Amount
  BY <1>1, CallFacts
<1>3. CallStep(w) /\ call'[w] = Idle
  BY CallSet DEF ApplyDeficit
<1>4. charged \in Amount /\ lost \in Amount /\ \A a \in Axes : lease[p].bal[a] \in Nat
  BY <1>2 DEF TypeOK, Amount
<1>5. CASE r = NoRes /\ UNCHANGED <<lease, res, charged, lost>>
  BY <1>2, <1>3, <1>4, <1>5 DEF LeaseStep, TypeOK, Amount
<1>6. CASE /\ r # NoRes /\ ~LeaseAlive(p)
           /\ lease' = [lease EXCEPT ![p] = NoLease]
           /\ lost' = Plus(lost, Dropped(p)) /\ UNCHANGED <<res, charged>>
  <2>1. Dropped(p) = lease[p].bal /\ Dropped(p) \in Amount
    BY <1>2, <1>6, LeaseFacts DEF Dropped
  <2>2. lost' \in Amount /\ \A a \in Axes : lost'[a] = lost[a] + lease[p].bal[a]
    BY <1>4, <1>6, <2>1, AmountFacts
  <2>3. LeaseStep(p) /\ lease'[p].bal = Zero
    BY <1>2, <1>6 DEF LeaseStep, TypeOK, NoLease, Zero
  <2> QED BY <1>3, <1>4, <1>6, <2>2, <2>3 DEF Zero, Amount
<1>7. CASE /\ r # NoRes /\ LeaseAlive(p)
           /\ lease' = [lease EXCEPT ![p].bal = Minus(bal, taken)]
           /\ res' = [res EXCEPT ![p][id].over = Minus(@, taken)]
           /\ charged' = Plus(charged, taken) /\ UNCHANGED lost
  <2>1. r \in Reservation /\ r.over \in Amount
    BY <1>2, <1>7 DEF TypeOK, Reservation, Amount
  <2>2. b.bal \in Amount /\ b.bal = lease[p].bal
    BY <1>2, <1>7, LeaseFacts DEF LeaseOf
  <2>3. OnTokens(call[w].got) \in Amount /\ \A a \in Axes \ Tokens : OnTokens(call[w].got)[a] = 0
    BY <1>2, AmountFacts DEF OnTokens
  <2>4. /\ bal \in Amount /\ \A a \in Axes \ Tokens : bal[a] = lease[p].bal[a]
    <3>1. bal \in Amount /\ \A a \in Axes : bal[a] = b.bal[a] + OnTokens(call[w].got)[a]
      BY <2>2, <2>3, AmountFacts
    <3> HIDE DEF bal, b, p
    <3> QED BY <1>4, <2>2, <2>3, <3>1
  <2> HIDE DEF bal
  <2>5. taken \in Amount /\ \A a \in Axes : taken[a] <= bal[a] /\ taken[a] <= r.over[a]
    BY <2>1, <2>4, AmountFacts
  <2> HIDE DEF taken
  <2>6. Minus(bal, taken) \in Amount /\ \A a \in Axes : Minus(bal, taken)[a] = bal[a] - taken[a]
    BY <2>4, <2>5, AmountFacts
  <2>7. /\ Minus(r.over, taken) \in Amount
        /\ \A a \in Axes : Minus(r.over, taken)[a] = r.over[a] - taken[a]
    BY <2>1, <2>5, AmountFacts
  <2>8. LeaseStep(p) /\ lease'[p].bal = Minus(bal, taken)
    BY <1>2, <1>7, <2>6 DEF LeaseStep, TypeOK, Amount
  <2>9. charged' \in Amount /\ \A a \in Axes : charged'[a] = charged[a] + taken[a]
    BY <1>4, <1>7, <2>5, AmountFacts
  <2>10. Charged(p, id)
    <3> DEFINE new == [r EXCEPT !.over = Minus(r.over, taken)]
    <3>1. /\ new \in Reservation /\ new.over = Minus(r.over, taken)
          /\ new.status = r.status /\ new.cost = r.cost
      BY <2>1, <2>7 DEF Reservation, Amount
    <3>2. res' = [res EXCEPT ![p] = [res[p] EXCEPT ![id] = new]]
      BY <1>2, <1>7 DEF TypeOK
    <3> HIDE DEF new
    <3>3. ResStep(p, id) /\ res'[p][id] = new
      BY <1>2, <3>1, <3>2 DEF TypeOK, ResStep, Kept
    <3>4. ASSUME NEW a \in Axes
          PROVE  new.over[a] <= r.over[a]
      <4>1. r.over[a] \in Nat /\ taken[a] \in Nat /\ new.over[a] = r.over[a] - taken[a]
        BY <2>1, <2>5, <2>7, <3>1 DEF Amount
      <4> HIDE DEF r
      <4> QED BY <4>1
    <3> QED BY <2>1, <3>1, <3>3, <3>4 DEF Charged
  <2>11. \A a \in Axes \ Tokens : lease'[p].bal[a] + charged'[a] + lost'[a]
                                    = lease[p].bal[a] + charged[a] + lost[a]
    BY <1>4, <1>7, <2>4, <2>5, <2>6, <2>8, <2>9 DEF Amount
  <2>12. \A a \in Axes : charged[a] <= charged'[a]
    BY <1>4, <2>5, <2>9 DEF Amount
  <2>13. lost' \in Amount
    BY <1>4, <1>7
  <2> QED BY <1>3, <2>8, <2>9, <2>10, <2>11, <2>12, <2>13
<1> QED BY <1>5, <1>6, <1>7 DEF ApplyDeficit

-----------------------------------------------------------------------------
(* Reservation ids: a Check's id is its own until it is stored. *)

SettlePcs == {"cover", "coverCredit", "apply"}

\* An id that is stored or carried has been issued.
IdsIssued ==
  /\ \A p \in Pods, id \in Ids : res[p][id] # NoRes => id \in issued
  /\ \A w \in Workers : call[w] # Idle => call[w].id \in issued

\* The id of a Check in progress is stored nowhere and carried by no other call.
FreshIds ==
  \A w \in Workers : call[w].pc \in CheckPcs =>
    /\ \A p \in Pods : res[p][call[w].id] = NoRes
    /\ \A v \in Workers \ {w} : call[v] # Idle => call[v].id # call[w].id

\* A Settle that covers its overshoot does so for a settled reservation.
SettledIds ==
  \A w \in Workers : call[w].pc \in SettlePcs =>
    \/ res[PodOf[w]][call[w].id] = NoRes
    \/ res[PodOf[w]][call[w].id].status = "settled"

IdInv == IdsIssued /\ FreshIds /\ SettledIds /\ CostsUsed

\* A handler finishes, or goes on with its id.
Onward(v) ==
  \/ call'[v] = Idle
  \/ /\ call[v] # Idle /\ call'[v].id = call[v].id
     /\ call'[v].pc \in CheckPcs =>
          call[v].pc \in CheckPcs /\ call'[v].amount = call[v].amount
     /\ call'[v].pc \in SettlePcs => call[v].pc \in SettlePcs

\* The other handlers just go on.
LEMMA OthersOnward ==
  ASSUME TypeOK, NEW w \in Workers, CallStep(w)
  PROVE  /\ \A v \in Workers \ {w} : Onward(v)
         /\ \A v \in Workers \ {w} : call'[v].pc \in CheckPcs \union SettlePcs => call'[v] = call[v]
         /\ \A v \in Workers \ {w} : call'[v] # Idle => call[v] # Idle /\ call'[v].id = call[v].id
<1> SUFFICES ASSUME NEW v \in Workers \ {w}
             PROVE  /\ Onward(v)
                    /\ call'[v].pc \in CheckPcs \union SettlePcs => call'[v] = call[v]
                    /\ call'[v] # Idle => call[v] # Idle /\ call'[v].id = call[v].id
  OBVIOUS
<1>1. CASE call'[v] = call[v]
  BY <1>1 DEF Onward
<1>2. CASE call[v].pc = "denySet" /\ call'[v].pc = "denySet" /\ call'[v].id = call[v].id
  <2>1. call[v] # Idle
    BY <1>2, Distinct
  <2> QED BY <1>2, <2>1 DEF Onward, CheckPcs, SettlePcs
<1> QED BY <1>1, <1>2 DEF CallStep

\* Steps that store no reservation.
LEMMA IdsFade ==
  ASSUME TypeOK, IdInv, ResFades, issued \subseteq issued', \A v \in Workers : Onward(v)
  PROVE  IdInv'
<1> USE DEF Onward
<1>1. IdsIssued'
  BY DEF IdInv, IdsIssued, ResFades, Kept
<1>2. CostsUsed'
  <2>1. "idle" \notin CheckPcs
    BY DEF CheckPcs
  <2> QED BY <2>1, Distinct DEF IdInv, CostsUsed
<1>3. FreshIds'
  <2> SUFFICES ASSUME NEW w \in Workers, call'[w].pc \in CheckPcs
               PROVE  /\ \A p \in Pods : res'[p][call'[w].id] = NoRes
                      /\ \A v \in Workers \ {w} : call'[v] # Idle => call'[v].id # call'[w].id
    BY DEF FreshIds
  <2>1. call'[w] # Idle
    BY Distinct DEF CheckPcs
  <2>2. call[w].pc \in CheckPcs /\ call'[w].id = call[w].id /\ call[w] # Idle
    BY <2>1
  <2>3. call[w].id \in Ids
    BY <2>2, CallFacts
  <2> QED BY <2>2, <2>3 DEF IdInv, FreshIds, ResFades, Kept
<1>4. SettledIds'
  <2> SUFFICES ASSUME NEW w \in Workers, call'[w].pc \in SettlePcs
               PROVE  \/ res'[PodOf[w]][call'[w].id] = NoRes
                      \/ res'[PodOf[w]][call'[w].id].status = "settled"
    BY DEF SettledIds
  <2>1. call'[w] # Idle
    BY Distinct DEF SettlePcs
  <2>2. call[w].pc \in SettlePcs /\ call'[w].id = call[w].id /\ call[w] # Idle
    BY <2>1
  <2>3. call[w].id \in Ids /\ PodOf[w] \in Pods
    BY <2>2, CallFacts
  <2> QED BY <2>2, <2>3 DEF IdInv, SettledIds, ResFades, Kept
<1> QED BY <1>1, <1>2, <1>3, <1>4 DEF IdInv

\* A debit stores the handler's own id.
LEMMA IdsOpen ==
  ASSUME TypeOK, IdInv, NEW w \in Workers, call[w].pc \in CheckPcs, NEW cost,
         Opened(PodOf[w], call[w].id, cost), issued' = issued,
         CallStep(w), call'[w] = Idle
  PROVE  IdInv'
<1>1. call[w] # Idle
  BY Distinct DEF CheckPcs
<1>2. call[w].id \in Ids /\ PodOf[w] \in Pods
  BY <1>1, CallFacts
<1>3. \A v \in Workers : call'[v].pc \in CheckPcs \union SettlePcs => v # w /\ call'[v] = call[v]
  BY OthersOnward, Distinct DEF CheckPcs, SettlePcs
<1>4. \A v \in Workers : call'[v] # Idle => v # w /\ call[v] # Idle /\ call'[v].id = call[v].id
  BY OthersOnward
<1>5. \A q \in Pods, i \in Ids : i # call[w].id => Kept(q, i)
  BY <1>2 DEF Opened, ResStep
<1>6. IdsIssued'
  BY <1>1, <1>4, <1>5 DEF IdInv, IdsIssued, Kept
<1>7. CostsUsed'
  BY <1>3 DEF IdInv, CostsUsed
<1>8. FreshIds'
  <2> SUFFICES ASSUME NEW v \in Workers, call'[v].pc \in CheckPcs
               PROVE  /\ \A p \in Pods : res'[p][call'[v].id] = NoRes
                      /\ \A u \in Workers \ {v} : call'[u] # Idle => call'[u].id # call'[v].id
    BY DEF FreshIds
  <2>1. v # w /\ call'[v] = call[v] /\ call[v] # Idle
    BY <1>3, Distinct DEF CheckPcs
  <2>2. call[v].id \in Ids /\ call[v].id # call[w].id
    BY <2>1, <1>1, CallFacts DEF IdInv, FreshIds
  <2> QED BY <2>1, <2>2, <1>4, <1>5 DEF IdInv, FreshIds, Kept
<1>9. SettledIds'
  <2> SUFFICES ASSUME NEW v \in Workers, call'[v].pc \in SettlePcs
               PROVE  \/ res'[PodOf[v]][call'[v].id] = NoRes
                      \/ res'[PodOf[v]][call'[v].id].status = "settled"
    BY DEF SettledIds
  <2>1. v # w /\ call'[v] = call[v] /\ call[v] # Idle
    BY <1>3, Distinct DEF SettlePcs
  <2>2. call[v].id \in Ids /\ PodOf[v] \in Pods /\ call[v].id # call[w].id
    BY <2>1, <1>1, CallFacts DEF IdInv, FreshIds
  <2> QED BY <2>1, <2>2, <1>5 DEF IdInv, SettledIds, Kept
<1> QED BY <1>6, <1>7, <1>8, <1>9 DEF IdInv

\* A settlement, a refund or a deficit changes a stored reservation, and a settled
\* one stays settled.
LEMMA IdsClose ==
  ASSUME TypeOK, IdInv, NEW w \in Workers, NEW id \in Ids, ResStep(PodOf[w], id),
         res[PodOf[w]][id] # NoRes, issued' = issued,
         res[PodOf[w]][id].status = "settled" => res'[PodOf[w]][id].status = "settled",
         CallStep(w),
         \/ call'[w] = Idle
         \/ /\ call'[w].pc = "cover" /\ call'[w].id = id
            /\ res'[PodOf[w]][id].status = "settled"
  PROVE  IdInv'
<1>1. PodOf[w] \in Pods /\ id \in issued
  BY FastPathAssumption DEF IdInv, IdsIssued
<1>2. \A q \in Pods, i \in Ids : q # PodOf[w] \/ i # id => Kept(q, i)
  BY DEF ResStep
<1>3. "cover" \notin CheckPcs /\ "idle" \notin CheckPcs \union SettlePcs
  BY DEF CheckPcs, SettlePcs
<1>4. \A v \in Workers : call'[v].pc \in CheckPcs => v # w /\ call'[v] = call[v]
  BY <1>3, OthersOnward, Distinct
<1>5. IdsIssued'
  BY <1>1, <1>2, OthersOnward DEF IdInv, IdsIssued, Kept
<1>6. CostsUsed'
  BY <1>4 DEF IdInv, CostsUsed
<1>7. FreshIds'
  <2> SUFFICES ASSUME NEW v \in Workers, call'[v].pc \in CheckPcs
               PROVE  /\ \A p \in Pods : res'[p][call'[v].id] = NoRes
                      /\ \A u \in Workers \ {v} : call'[u] # Idle => call'[u].id # call'[v].id
    BY DEF FreshIds
  <2>1. v # w /\ call'[v] = call[v] /\ call[v] # Idle
    BY <1>3, <1>4, Distinct
  <2>2. call[v].id \in Ids /\ call[v].id # id
    BY <2>1, <1>1, CallFacts DEF IdInv, FreshIds
  <2>3. \A u \in Workers \ {v} : call'[u] # Idle => call'[u].id # call[v].id
    <3>1. \A u \in Workers \ {v} : call[u] # Idle => call[u].id # call[v].id
      BY <2>1 DEF IdInv, FreshIds
    <3> QED BY <2>2, <3>1, OthersOnward
  <2> QED BY <2>1, <2>2, <2>3, <1>2 DEF IdInv, FreshIds, Kept
<1>8. SettledIds'
  <2> SUFFICES ASSUME NEW v \in Workers, call'[v].pc \in SettlePcs
               PROVE  \/ res'[PodOf[v]][call'[v].id] = NoRes
                      \/ res'[PodOf[v]][call'[v].id].status = "settled"
    BY DEF SettledIds
  <2>1. CASE v = w
    BY <1>3, <2>1, Distinct
  <2>2. CASE v # w
    <3>1. call'[v] = call[v] /\ call[v] # Idle
      BY <1>3, <2>2, OthersOnward, Distinct
    <3>2. call[v].id \in Ids /\ PodOf[v] \in Pods
      BY <3>1, CallFacts
    <3>3. \/ res[PodOf[v]][call[v].id] = NoRes
          \/ res[PodOf[v]][call[v].id].status = "settled"
      BY <3>1 DEF IdInv, SettledIds
    <3>4. CASE PodOf[v] = PodOf[w] /\ call[v].id = id
      BY <3>1, <3>3, <3>4
    <3>5. CASE ~(PodOf[v] = PodOf[w] /\ call[v].id = id)
      <4>1. Kept(PodOf[v], call[v].id)
        BY <1>2, <3>2, <3>5
      <4> QED BY <3>1, <3>3, <4>1 DEF Kept
    <3> QED BY <3>4, <3>5
  <2> QED BY <2>1, <2>2
<1> QED BY <1>5, <1>6, <1>7, <1>8 DEF IdInv

\* A Check draws an id that was never issued.
LEMMA IdsStart ==
  ASSUME TypeOK, IdInv, NEW w \in Workers, NEW c \in Costs, NEW id \in Ids,
         CheckStart(w, c, id)
  PROVE  /\ IdInv'
         /\ CallStep(w) /\ call'[w] \in Call /\ call'[w].pc = "debit"
         /\ call'[w].amount = OnUsed(c)
<1> DEFINE s == Step("debit", id, OnUsed(c), Zero, 0)
<1>1. s \in Call /\ s.pc = "debit" /\ s.id = id /\ s.amount = OnUsed(c)
  <2>1. OnUsed(c) \in Amount /\ Zero \in Amount
    BY FastPathAssumption, AmountFacts DEF Amount
  <2> QED BY <2>1 DEF Step, Call, Amount
<1>2. CallStep(w) /\ call'[w] = s
  <2>1. Goto(w, s)
    BY DEF CheckStart
  <2> HIDE DEF s
  <2> QED BY <1>1, <2>1, CallSet
<1> HIDE DEF s
<1>3. id \notin issued /\ issued' = issued \union {id} /\ res' = res /\ call[w] = Idle
  BY DEF CheckStart
<1>4. \A v \in Workers \ {w} : call'[v].pc \in CheckPcs \union SettlePcs => call'[v] = call[v]
  BY <1>2, OthersOnward
<1>5. \A v \in Workers \ {w} : call'[v] # Idle => call[v] # Idle /\ call'[v].id = call[v].id
  BY <1>2, OthersOnward
<1>6. IdsIssued'
  BY <1>1, <1>2, <1>3, <1>5 DEF IdInv, IdsIssued
<1>7. CostsUsed'
  <2>1. \A a \in Axes \ Used : OnUsed(c)[a] = 0
    BY DEF OnUsed
  <2> QED BY <1>1, <1>2, <1>4, <2>1 DEF IdInv, CostsUsed
<1>8. FreshIds'
  <2> SUFFICES ASSUME NEW v \in Workers, call'[v].pc \in CheckPcs
               PROVE  /\ \A p \in Pods : res'[p][call'[v].id] = NoRes
                      /\ \A u \in Workers \ {v} : call'[u] # Idle => call'[u].id # call'[v].id
    BY DEF FreshIds
  <2>1. CASE v = w
    BY <2>1, <1>1, <1>2, <1>3, <1>5 DEF IdInv, IdsIssued
  <2>2. CASE v # w
    <3>1. call'[v] = call[v] /\ call[v] # Idle
      BY <2>2, <1>4, Distinct DEF CheckPcs
    <3>2. call[v].id # id
      BY <3>1, <1>3 DEF IdInv, IdsIssued
    <3>3. \A u \in Workers \ {v} : call'[u] # Idle => call'[u].id # call[v].id
      BY <1>1, <1>2, <1>5, <3>1, <3>2 DEF IdInv, FreshIds
    <3> QED BY <1>3, <3>1, <3>3 DEF IdInv, FreshIds
  <2> QED BY <2>1, <2>2
<1>9. SettledIds'
  <2>1. \A v \in Workers : call'[v].pc \in SettlePcs => call'[v] = call[v]
    BY <1>1, <1>2, <1>4 DEF SettlePcs
  <2> QED BY <1>3, <2>1 DEF IdInv, SettledIds
<1> QED BY <1>1, <1>2, <1>6, <1>7, <1>8, <1>9 DEF IdInv

-----------------------------------------------------------------------------
(* The charge covers the pending reservations at every step. *)

\* One reservation changes, and the charge pays the difference.
LEMMA PaidStep ==
  ASSUME TypeOK, PendingCharged, NEW p \in Pods, NEW id \in Ids, ResStep(p, id),
         charged' \in Amount,
         \A a \in Axes : PendingCost(a)'[<<p, id>>] + charged[a]
                           <= PendingCost(a)[<<p, id>>] + charged'[a]
  PROVE  PendingCharged'
<1> SUFFICES ASSUME NEW a \in Axes
             PROVE  SumFunctionOnSet(PendingCost(a)', Places) <= charged'[a]
  BY DEF PendingCharged
<1> DEFINE f == PendingCost(a)
           g == PendingCost(a)'
           x == <<p, id>>
<1>1. IsFiniteSet(Places) /\ x \in Places
  BY PlaceFacts DEF Places
<1>2. \A i \in Places : f[i] \in Nat
  BY PlaceFacts
<1>3. charged[a] \in Nat /\ charged'[a] \in Nat /\ SumFunctionOnSet(f, Places) <= charged[a]
  BY DEF TypeOK, Amount, PendingCharged
<1>4. ASSUME NEW i \in Places
      PROVE  g[i] \in Nat
  <2>1. i[1] \in Pods /\ i[2] \in Ids
    BY DEF Places
  <2>2. res'[i[1]][i[2]] \in Reservation \union {NoRes}
    BY <2>1 DEF ResStep
  <2>3. Pending(res'[i[1]][i[2]]) => res'[i[1]][i[2]].cost[a] \in Nat
    BY <2>2 DEF Pending, Reservation
  <2> QED BY <2>3 DEF PendingCost
<1>5. ASSUME NEW i \in Places \ {x}
      PROVE  g[i] <= f[i]
  <2>1. i[1] \in Pods /\ i[2] \in Ids /\ i = <<i[1], i[2]>>
    BY DEF Places
  <2>2. Kept(i[1], i[2])
    BY <2>1 DEF ResStep
  <2>3. g[i] = f[i] \/ g[i] = 0
    BY <2>2 DEF PendingCost, Kept, Pending
  <2> QED BY <1>2, <2>3
<1>6. g[x] + charged[a] <= f[x] + charged'[a]
  OBVIOUS
<1> HIDE DEF f, g, x
<1>7. SumFunctionOnSet(g, Places) <= SumFunctionOnSet(f, Places) + g[x] - f[x]
  BY <1>1, <1>2, <1>4, <1>5, SumChange
<1>8. SumFunctionOnSet(g, Places) \in Nat /\ SumFunctionOnSet(f, Places) \in Nat
  BY <1>1, <1>2, <1>4, SumType
<1> QED BY <1>1, <1>2, <1>3, <1>4, <1>6, <1>7, <1>8 DEF f, g, x

\* A new reservation is charged in full.
LEMMA PaidOpen ==
  ASSUME TypeOK, PendingCharged, NEW p \in Pods, NEW id \in Ids, NEW cost \in Amount,
         Opened(p, id, cost), charged' = Plus(charged, cost)
  PROVE  PendingCharged'
<1>1. charged \in Amount
  BY DEF TypeOK, Amount
<1>2. charged' \in Amount /\ \A a \in Axes : charged'[a] = charged[a] + cost[a]
  BY <1>1, AmountFacts
<1>3. ASSUME NEW a \in Axes
      PROVE  PendingCost(a)'[<<p, id>>] + charged[a] <= PendingCost(a)[<<p, id>>] + charged'[a]
  <2>1. PendingCost(a)[<<p, id>>] \in Nat
    BY PlaceFacts DEF Places
  <2>2. PendingCost(a)'[<<p, id>>] = cost[a]
    BY Distinct DEF PendingCost, Places, Opened, Pending
  <2> QED BY <1>1, <1>2, <2>1, <2>2 DEF Amount
<1> QED BY <1>2, <1>3, PaidStep DEF Opened

\* A reservation that is closed takes at most its cost off the charge.
LEMMA PaidClose ==
  ASSUME TypeOK, PendingCharged, NEW p \in Pods, NEW id \in Ids, NEW over,
         Closed(p, id, over), charged' \in Amount,
         \A a \in Axes : charged[a] <= charged'[a] + res[p][id].cost[a]
  PROVE  PendingCharged'
<1>1. ASSUME NEW a \in Axes
      PROVE  PendingCost(a)'[<<p, id>>] + charged[a] <= PendingCost(a)[<<p, id>>] + charged'[a]
  <2>1. PendingCost(a)[<<p, id>>] = res[p][id].cost[a] /\ PendingCost(a)[<<p, id>>] \in Nat
    BY PlaceFacts DEF PendingCost, Places, Closed
  <2>2. PendingCost(a)'[<<p, id>>] = 0
    BY DEF PendingCost, Places, Closed, Pending
  <2> QED BY <2>1, <2>2 DEF TypeOK, Amount
<1> QED BY <1>1, PaidStep DEF Closed

\* Nothing else lets the charge fall, and a purge only drops reservations.
LEMMA PaidSame ==
  ASSUME TypeOK, PendingCharged, charged' \in Amount, \A a \in Axes : charged[a] <= charged'[a],
         \/ ResFades /\ res' \in [Pods -> [Ids -> Reservation \union {NoRes}]]
         \/ \E p \in Pods, id \in Ids : Charged(p, id)
  PROVE  PendingCharged'
<1>1. ASSUME NEW p \in Pods, NEW id \in Ids, Charged(p, id)
      PROVE  PendingCharged'
  <2>1. ASSUME NEW a \in Axes
        PROVE  PendingCost(a)'[<<p, id>>] + charged[a]
                 <= PendingCost(a)[<<p, id>>] + charged'[a]
    <3>1. PendingCost(a)[<<p, id>>] \in Nat
      BY PlaceFacts DEF Places
    <3>2. PendingCost(a)'[<<p, id>>] = PendingCost(a)[<<p, id>>]
      BY <1>1, Distinct DEF PendingCost, Places, Charged, Pending
    <3> QED BY <3>1, <3>2 DEF TypeOK, Amount
  <2> QED BY <1>1, <2>1, PaidStep DEF Charged
<1>2. CASE ResFades /\ res' \in [Pods -> [Ids -> Reservation \union {NoRes}]]
  <2> SUFFICES ASSUME NEW a \in Axes
               PROVE  SumFunctionOnSet(PendingCost(a)', Places) <= charged'[a]
    BY DEF PendingCharged
  <2> DEFINE f == PendingCost(a)
             g == PendingCost(a)'
  <2>1. IsFiniteSet(Places) /\ \A i \in Places : f[i] \in Nat
    BY PlaceFacts
  <2>2. /\ charged[a] \in Nat /\ charged'[a] \in Nat /\ charged[a] <= charged'[a]
        /\ SumFunctionOnSet(f, Places) <= charged[a]
    BY DEF TypeOK, Amount, PendingCharged
  <2>3. ASSUME NEW i \in Places
        PROVE  g[i] = f[i] \/ g[i] = 0
    <3>1. Kept(i[1], i[2])
      BY <1>2 DEF Places, ResFades
    <3> QED BY <3>1 DEF PendingCost, Kept, Pending
  <2>4. \A i \in Places : f[i] \in Int /\ g[i] \in Int /\ g[i] <= f[i]
    <3> HIDE DEF f, g
    <3> QED BY <2>1, <2>3
  <2> HIDE DEF f, g
  <2>5. SumFunctionOnSet(g, Places) <= SumFunctionOnSet(f, Places)
    BY <2>1, <2>4, SumLeq
  <2>6. SumFunctionOnSet(g, Places) \in Int /\ SumFunctionOnSet(f, Places) \in Int
    BY <2>1, <2>4, SumType
  <2> QED BY <2>2, <2>5, <2>6 DEF f, g
<1> QED BY <1>1, <1>2

-----------------------------------------------------------------------------
(* The invariant behind the types, and that every step keeps it. *)

Inv == TypeOK /\ IdInv /\ PendingCharged /\ Bounded

\* The buckets stay within the limits.
LEMMA BoundedStep ==
  ASSUME TypeOK, Bounded,
         \/ bucket' = bucket /\ clock' \in {clock, clock + 1}
         \/ clock' = clock /\ \E got : StoreStep(bucket', got)
  PROVE  Bounded'
<1>1. clock \in Nat /\ \A a \in Axes : bucket[a].last \in Nat
  BY FastPathAssumption DEF TypeOK
<1>2. CASE bucket' = bucket /\ clock' \in {clock, clock + 1}
  BY <1>1, <1>2 DEF Bounded
<1>3. CASE clock' = clock /\ \E got : StoreStep(bucket', got)
  BY <1>1, <1>3 DEF Bounded, StoreStep, AxisStep
<1> QED BY <1>2, <1>3

\* A step within the Checks and Settles that moves no reservation.
LEMMA QuietStep ==
  ASSUME Inv, res' = res, charged' = charged, issued' = issued,
         \A v \in Workers : Onward(v),
         \/ bucket' = bucket /\ clock' \in {clock, clock + 1}
         \/ clock' = clock /\ \E got : StoreStep(bucket', got)
  PROVE  IdInv' /\ PendingCharged' /\ Bounded'
<1>1. ResFades /\ res' \in [Pods -> [Ids -> Reservation \union {NoRes}]]
  BY DEF Inv, TypeOK, ResFades, Kept
<1>2. IdInv'
  BY <1>1, IdsFade DEF Inv
<1>3. charged' \in Amount /\ \A a \in Axes : charged[a] <= charged'[a]
  BY DEF Inv, TypeOK, Amount
<1>4. PendingCharged'
  BY <1>1, <1>3, PaidSame DEF Inv
<1>5. Bounded'
  BY BoundedStep DEF Inv
<1> QED BY <1>2, <1>4, <1>5

\* Handlers at work go on.
LEMMA StaysOnward ==
  ASSUME call' = call
  PROVE  \A v \in Workers : Onward(v)
  BY DEF Onward

\* A loan, granted with the reply or without it.
LEMMA GrantEffect ==
  ASSUME Inv, NEW w \in Workers, BorrowGranted(w)
  PROVE  /\ StoreStep(bucket', BorrowGot(bucket, Limits, SpecOf(w), clock))
         /\ BorrowGot(bucket, Limits, SpecOf(w), clock) \in Amount
         /\ borrowed' = Plus(borrowed, BorrowGot(bucket, Limits, SpecOf(w), clock))
         /\ CallStep(w) /\ Onward(w)
         /\ call'[w].got = BorrowGot(bucket, Limits, SpecOf(w), clock)
         /\ call'[w].pc = IF call[w].pc = "borrow" THEN "credit" ELSE "coverCredit"
<1> DEFINE got == BorrowGot(bucket, Limits, SpecOf(w), clock)
           pc == IF call[w].pc = "borrow" THEN "credit" ELSE "coverCredit"
           c == [call[w] EXCEPT !.got = got, !.pc = pc]
<1>1. call[w] # Idle /\ call[w].pc \in {"borrow", "cover"}
  BY Distinct DEF BorrowGranted, Borrowing
<1>2. got \in Amount /\ StoreStep(BorrowDebit(bucket, Limits, SpecOf(w), clock), got)
  BY <1>1, LoanEffect DEF Inv
<1>3. /\ borrowed' = Plus(borrowed, got) /\ Goto(w, c)
      /\ bucket' = BorrowDebit(bucket, Limits, SpecOf(w), clock)
  BY DEF BorrowGranted
<1> HIDE DEF got
<1>4. /\ c \in Call /\ c.got = got /\ c.pc = pc
      /\ c.id = call[w].id /\ c.amount = call[w].amount
  <2>1. call[w] \in Call
    BY <1>1, CallFacts DEF Inv
  <2> QED BY <1>2, <2>1 DEF Call, Amount
<1> HIDE DEF c
<1>5. CallStep(w) /\ call'[w] = c
  BY <1>3, <1>4, CallSet DEF Inv
<1>6. Onward(w)
  BY <1>1, <1>4, <1>5 DEF Onward, CheckPcs, SettlePcs
<1> QED BY <1>2, <1>3, <1>4, <1>5, <1>6 DEF got

\* A denied loan: the wait is remembered.
LEMMA DenyEffect ==
  ASSUME Inv, NEW w \in Workers, BorrowDenied(w)
  PROVE  CallStep(w) /\ Onward(w) /\ call'[w].pc \in {"denySet", "idle"}
<1> DEFINE wait == BorrowDecision(bucket, Limits, SpecOf(w), clock).retry
           c == [call[w] EXCEPT !.pc = "denySet", !.retry = wait]
<1>1. /\ call[w] # Idle /\ Goto(w, IF call[w].pc = "borrow" THEN c ELSE Idle)
      /\ BorrowDenies(bucket, Limits, SpecOf(w), clock) # {}
  BY Distinct DEF BorrowDenied, Borrowing
<1>2. wait \in Nat
  BY <1>1, WaitType DEF Inv
<1> HIDE DEF wait
<1>3. c \in Call /\ c.pc = "denySet" /\ c.id = call[w].id
  <2>1. call[w] \in Call
    BY <1>1, CallFacts DEF Inv
  <2> QED BY <1>2, <2>1 DEF Call
<1> HIDE DEF c
<1>4. CallStep(w) /\ (call'[w] = Idle \/ call'[w] = c)
  <2>1. (IF call[w].pc = "borrow" THEN c ELSE Idle) \in {c, Idle}
    OBVIOUS
  <2> QED BY <1>1, <1>3, <2>1, CallSet DEF Inv
<1> QED BY <1>1, <1>3, <1>4, Distinct DEF Onward, CheckPcs, SettlePcs

\* A failed loan: what was granted without a reply is lost.
LEMMA FailEffect ==
  ASSUME Inv, NEW w \in Workers, BorrowFails(w)
  PROVE  /\ CallStep(w) /\ Onward(w) /\ call'[w].pc \in {"storeErr", "idle"}
         /\ \/ UNCHANGED <<bucket, borrowed, lost>>
            \/ \E got \in Amount :
                 /\ StoreStep(bucket', got)
                 /\ borrowed' = Plus(borrowed, got) /\ lost' = Plus(lost, got)
<1> DEFINE c == [call[w] EXCEPT !.pc = "storeErr"]
           got == BorrowGot(bucket, Limits, SpecOf(w), clock)
<1>1. /\ call[w] # Idle /\ call[w].pc \in {"borrow", "cover"}
      /\ Goto(w, IF call[w].pc = "borrow" THEN c ELSE Idle)
  BY Distinct DEF BorrowFails, Borrowing
<1>2. c \in Call /\ c.pc = "storeErr" /\ c.id = call[w].id /\ c.amount = call[w].amount
  <2>1. call[w] \in Call
    BY <1>1, CallFacts DEF Inv
  <2> QED BY <2>1 DEF Call
<1> HIDE DEF c
<1>3. CallStep(w) /\ (call'[w] = Idle \/ (call'[w] = c /\ call[w].pc = "borrow"))
  <2>1. CASE call[w].pc = "borrow"
    BY <1>1, <1>2, <2>1, CallSet DEF Inv
  <2>2. CASE call[w].pc # "borrow"
    BY <1>1, <2>2, CallSet DEF Inv
  <2> QED BY <2>1, <2>2
<1>4. Onward(w) /\ call'[w].pc \in {"storeErr", "idle"}
  BY <1>1, <1>2, <1>3, Distinct DEF Onward, CheckPcs, SettlePcs
<1>5. got \in Amount /\ StoreStep(BorrowDebit(bucket, Limits, SpecOf(w), clock), got)
  BY <1>1, LoanEffect DEF Inv
<1>6. \/ UNCHANGED <<bucket, borrowed, lost>>
      \/ /\ bucket' = BorrowDebit(bucket, Limits, SpecOf(w), clock)
         /\ borrowed' = Plus(borrowed, got) /\ lost' = Plus(lost, got)
  BY DEF BorrowFails
<1> QED BY <1>3, <1>4, <1>5, <1>6

\* What a handler carries is an amount, and so is what several carry.
LEMMA CarriedType ==
  ASSUME TypeOK
  PROVE  \A w \in Workers : Carried(w) \in Amount
<1> SUFFICES ASSUME NEW w \in Workers
             PROVE  Carried(w) \in Amount
  OBVIOUS
<1>1. CASE call[w].pc \in {"credit", "coverCredit"}
  <2>1. call[w] # Idle
    BY <1>1, Distinct
  <2> QED BY <1>1, <2>1, CallFacts DEF Carried
<1>2. CASE call[w].pc \notin {"credit", "coverCredit"}
  BY <1>2 DEF Carried, Zero, Amount
<1> QED BY <1>1, <1>2

\* What the handlers of a pod carry adds up to an amount.
LEMMA CarriedSum ==
  ASSUME TypeOK, NEW p \in Pods
  PROVE  SumOver({w \in Workers : PodOf[w] = p}, [w \in Workers |-> Carried(w)]) \in Amount
<1> DEFINE S == {w \in Workers : PodOf[w] = p}
           f == [w \in Workers |-> Carried(w)]
<1>1. IsFiniteSet(S)
  BY FastPathAssumption, FS_Subset
<1>2. ASSUME NEW a \in Axes
      PROVE  SumFunctionOnSet([e \in S |-> f[e][a]], S) \in Nat
  <2> DEFINE g == [e \in S |-> f[e][a]]
  <2>1. \A e \in S : g[e] \in Nat
    BY CarriedType DEF Amount
  <2> HIDE DEF g, S
  <2>2. SumFunctionOnSet(g, S) \in Nat
    BY <1>1, <2>1, SumType
  <2> QED BY <2>2 DEF g
<1> QED BY <1>2 DEF SumOver, Amount

\* The steps with a TryDebit go on with the Check they are part of.
LEMMA DebitInv ==
  ASSUME Inv, NEW w \in Workers, call[w].pc \in CheckPcs,
         NEW miss \in Call \union {Idle},
         \/ miss = Idle
         \/ /\ miss.id = call[w].id /\ miss.amount = call[w].amount
            /\ miss.pc \notin SettlePcs,
         TryDebit(w, miss)
  PROVE  Inv'
<1>1. call[w] # Idle
  BY Distinct DEF CheckPcs
<1>2. PodOf[w] \in Pods /\ call[w].id \in Ids /\ call[w].amount \in Amount
  BY <1>1, CallFacts DEF Inv
<1>3. /\ LeaseStep(PodOf[w]) /\ CallStep(w) /\ charged' \in Amount /\ lost' \in Amount
      /\ \/ /\ Opened(PodOf[w], call[w].id, call[w].amount)
            /\ charged' = Plus(charged, call[w].amount) /\ call'[w] = Idle
         \/ /\ ResFades /\ res' \in [Pods -> [Ids -> Reservation \union {NoRes}]]
            /\ charged' = charged /\ call'[w] = miss
  BY DebitEffect DEF Inv, IdInv
<1>4. UNCHANGED <<bucket, clock, deny, shutdown, bounds, issued, borrowed>>
  BY DEF TryDebit
<1>5. TypeOK'
  <2>1. res' \in [Pods -> [Ids -> Reservation \union {NoRes}]]
    BY <1>3 DEF Opened, ResStep
  <2> QED BY <1>3, <1>4, <2>1 DEF Inv, TypeOK, LeaseStep, CallStep, Amount, shutdown, bounds
<1>6. Bounded'
  BY <1>4, BoundedStep DEF Inv
<1>7. CASE /\ Opened(PodOf[w], call[w].id, call[w].amount)
           /\ charged' = Plus(charged, call[w].amount) /\ call'[w] = Idle
  <2>1. IdInv'
    BY <1>3, <1>4, <1>7, IdsOpen DEF Inv
  <2>2. PendingCharged'
    BY <1>2, <1>7, PaidOpen DEF Inv
  <2> QED BY <1>5, <1>6, <2>1, <2>2 DEF Inv
<1>8. CASE /\ ResFades /\ res' \in [Pods -> [Ids -> Reservation \union {NoRes}]]
           /\ charged' = charged /\ call'[w] = miss
  <2>1. Onward(w)
    BY <1>1, <1>8 DEF Onward
  <2>2. \A v \in Workers : Onward(v)
    BY <1>3, <2>1, OthersOnward DEF Inv
  <2>3. IdInv'
    BY <1>4, <1>8, <2>2, IdsFade DEF Inv
  <2>4. \A a \in Axes : charged[a] <= charged'[a]
    BY <1>8 DEF Inv, TypeOK
  <2>5. PendingCharged'
    BY <1>3, <1>8, <2>4, PaidSame DEF Inv
  <2> QED BY <1>5, <1>6, <2>3, <2>5 DEF Inv
<1> QED BY <1>3, <1>7, <1>8

\* Every step keeps the invariant.
LEMMA InvStep ==
  ASSUME Inv, [Next]_vars
  PROVE  Inv'
<1> USE DEF pools, shutdown, bounds, ledger
<1>0. TypeOK /\ IdInv /\ PendingCharged /\ Bounded
  BY DEF Inv
<1>1. CASE UNCHANGED vars
  <2>1. TypeOK'
    BY <1>0, <1>1 DEF TypeOK, vars
  <2>2. IdInv' /\ PendingCharged' /\ Bounded'
    BY <1>1, QuietStep, StaysOnward DEF vars
  <2> QED BY <2>1, <2>2 DEF Inv
<1>2. ASSUME NEW w \in Workers, DenyHit(w)
      PROVE  Inv'
  BY <1>1, <1>2 DEF DenyHit
<1>3. ASSUME NEW w \in Workers, NEW c \in Costs, NEW id \in Ids, CheckStart(w, c, id)
      PROVE  Inv'
  <2>1. IdInv' /\ CallStep(w)
    BY <1>0, <1>3, IdsStart
  <2>2. /\ UNCHANGED <<bucket, clock, lease, res, shutdown, bounds, ledger>>
        /\ issued' = issued \union {id} /\ deny' = [deny EXCEPT ![PodOf[w]] = NoDeny]
    BY <1>3 DEF CheckStart
  <2>3. TypeOK'
    <3>1. NoDeny \in [until : Nat, stale : BOOLEAN]
      BY DEF NoDeny
    <3>2. deny' \in [Pods -> [until : Nat, stale : BOOLEAN]]
      BY <1>0, <2>2, <3>1 DEF TypeOK
    <3> QED BY <1>0, <2>1, <2>2, <3>2 DEF TypeOK, CallStep
  <2>4. ResFades /\ res' \in [Pods -> [Ids -> Reservation \union {NoRes}]]
    BY <1>0, <2>2 DEF TypeOK, ResFades, Kept
  <2>5. charged' \in Amount /\ \A a \in Axes : charged[a] <= charged'[a]
    BY <1>0, <2>2 DEF TypeOK, Amount
  <2>6. PendingCharged' /\ Bounded'
    BY <1>0, <2>2, <2>4, <2>5, PaidSame, BoundedStep
  <2> QED BY <2>1, <2>3, <2>6 DEF Inv
<1>4. ASSUME NEW w \in Workers, FirstDebit(w)
      PROVE  Inv'
  <2> DEFINE c == [call[w] EXCEPT !.pc = "borrow"]
  <2>1. call[w].pc = "debit" /\ TryDebit(w, c) /\ call[w] # Idle
    BY <1>4, Distinct DEF FirstDebit
  <2>2. call[w] \in Call
    BY <1>0, <2>1, CallFacts
  <2>3. c \in Call /\ c.id = call[w].id /\ c.amount = call[w].amount /\ c.pc = "borrow"
    BY <2>2 DEF Call
  <2> HIDE DEF c
  <2> QED BY <2>1, <2>3, DebitInv DEF CheckPcs, SettlePcs
<1>5. ASSUME NEW w \in Workers, SecondDebit(w)
      PROVE  Inv'
  <2> DEFINE c == [call[w] EXCEPT !.pc = "denySet", !.retry = 1]
  <2>1. call[w].pc = "redebit" /\ TryDebit(w, c) /\ call[w] # Idle
    BY <1>5, Distinct DEF SecondDebit
  <2>2. call[w] \in Call
    BY <1>0, <2>1, CallFacts
  <2>3. c \in Call /\ c.id = call[w].id /\ c.amount = call[w].amount /\ c.pc = "denySet"
    BY <2>2 DEF Call
  <2> HIDE DEF c
  <2> QED BY <2>1, <2>3, DebitInv DEF CheckPcs, SettlePcs
<1>6. ASSUME NEW w \in Workers, StoreErr(w)
      PROVE  Inv'
  <2>1. CASE TryDebit(w, Idle)
    BY <1>6, <2>1, DebitInv DEF StoreErr, CheckPcs
  <2>2. CASE /\ Goto(w, Idle)
             /\ UNCHANGED <<bucket, clock, pools, shutdown, bounds, issued, ledger>>
    <3>1. CallStep(w) /\ Onward(w)
      BY <1>0, <2>2, CallSet DEF Onward
    <3>2. IdInv' /\ PendingCharged' /\ Bounded'
      BY <1>0, <2>2, <3>1, OthersOnward, QuietStep
    <3>3. TypeOK'
      BY <1>0, <2>2, <3>1 DEF TypeOK, CallStep
    <3> QED BY <3>2, <3>3 DEF Inv
  <2> QED BY <1>6, <2>1, <2>2 DEF StoreErr
<1>7. ASSUME NEW w \in Workers, BorrowGranted(w)
      PROVE  Inv'
  <2> DEFINE got == BorrowGot(bucket, Limits, SpecOf(w), clock)
  <2>1. /\ StoreStep(bucket', got) /\ got \in Amount /\ borrowed' = Plus(borrowed, got)
        /\ CallStep(w) /\ Onward(w)
    BY <1>7, GrantEffect
  <2>2. UNCHANGED <<clock, pools, shutdown, bounds, issued, charged, lost>>
    BY <1>7 DEF BorrowGranted
  <2> HIDE DEF got
  <2>3. IdInv' /\ PendingCharged' /\ Bounded'
    BY <1>0, <2>1, <2>2, OthersOnward, QuietStep
  <2>4. borrowed' \in [Axes -> Int]
    BY <1>0, <2>1 DEF TypeOK, Plus, Amount
  <2>5. bucket' \in [Axes -> [tokens : Nat, last : Nat]]
    BY <2>1 DEF StoreStep, BucketType
  <2>6. TypeOK'
    BY <1>0, <2>1, <2>2, <2>4, <2>5 DEF TypeOK, CallStep
  <2> QED BY <2>3, <2>6 DEF Inv
<1>8. ASSUME NEW w \in Workers, BorrowDenied(w)
      PROVE  Inv'
  <2>1. CallStep(w) /\ Onward(w)
    BY <1>8, DenyEffect
  <2>2. UNCHANGED <<bucket, clock, pools, shutdown, bounds, issued, ledger>>
    BY <1>8 DEF BorrowDenied
  <2>3. IdInv' /\ PendingCharged' /\ Bounded'
    BY <1>0, <2>1, <2>2, OthersOnward, QuietStep
  <2>4. TypeOK'
    BY <1>0, <2>1, <2>2 DEF TypeOK, CallStep
  <2> QED BY <2>3, <2>4 DEF Inv
<1>9. ASSUME NEW w \in Workers, BorrowFails(w)
      PROVE  Inv'
  <2>1. CallStep(w) /\ Onward(w)
    BY <1>9, FailEffect
  <2>2. /\ UNCHANGED <<clock, pools, shutdown, crashes, issued, charged>>
        /\ faults < MaxFaults /\ faults' = faults + 1
    BY <1>9 DEF BorrowFails
  <2>3. faults' \in 0..MaxFaults
    BY <1>0, <2>2, FastPathAssumption DEF TypeOK
  <2>4. CASE UNCHANGED <<bucket, borrowed, lost>>
    <3>1. IdInv' /\ PendingCharged' /\ Bounded'
      BY <1>0, <2>1, <2>2, <2>4, OthersOnward, QuietStep
    <3>2. TypeOK'
      BY <1>0, <2>1, <2>2, <2>3, <2>4 DEF TypeOK, CallStep
    <3> QED BY <3>1, <3>2 DEF Inv
  <2>5. ASSUME NEW got \in Amount, StoreStep(bucket', got),
               borrowed' = Plus(borrowed, got), lost' = Plus(lost, got)
        PROVE  Inv'
    <3>1. IdInv' /\ PendingCharged' /\ Bounded'
      BY <1>0, <2>1, <2>2, <2>5, OthersOnward, QuietStep
    <3>2. borrowed' \in [Axes -> Int] /\ lost' \in [Axes -> Nat]
      BY <1>0, <2>5 DEF TypeOK, Plus, Amount
    <3>3. bucket' \in [Axes -> [tokens : Nat, last : Nat]]
      BY <2>5 DEF StoreStep, BucketType
    <3>4. TypeOK'
      BY <1>0, <2>1, <2>2, <2>3, <3>2, <3>3 DEF TypeOK, CallStep
    <3> QED BY <3>1, <3>4 DEF Inv
  <2> QED BY <1>9, <2>4, <2>5, FailEffect
<1>10. ASSUME NEW w \in Workers, CreditLease(w)
      PROVE  Inv'
  <2>1. /\ LeaseStep(PodOf[w]) /\ CallStep(w) /\ lost' \in Amount
        /\ call'[w].id = call[w].id /\ call'[w].amount = call[w].amount
        /\ call'[w].pc = IF call[w].pc = "credit" THEN "redebit" ELSE "apply"
        /\ call[w].pc \in {"credit", "coverCredit"}
    BY <1>0, <1>10, CreditEffect DEF CreditLease
  <2>2. UNCHANGED <<bucket, clock, res, deny, shutdown, bounds, issued, borrowed,
                     charged>>
    BY <1>10 DEF CreditLease
  <2>3. Onward(w)
    BY <2>1, Distinct DEF Onward, CheckPcs, SettlePcs
  <2>4. IdInv' /\ PendingCharged' /\ Bounded'
    BY <1>0, <2>1, <2>2, <2>3, OthersOnward, QuietStep
  <2>5. TypeOK'
    BY <1>0, <2>1, <2>2 DEF TypeOK, CallStep, LeaseStep, Amount
  <2> QED BY <2>4, <2>5 DEF Inv
<1>11. ASSUME NEW w \in Workers, DenySet(w)
       PROVE  Inv'
  <2>1. call[w].pc = "denySet" /\ call[w] # Idle
    BY <1>11, Distinct DEF DenySet
  <2>2. call[w] \in Call
    BY <1>0, <2>1, CallFacts
  <2>3. CallStep(w) /\ Onward(w)
    BY <1>0, <1>11, CallSet DEF Onward, DenySet
  <2>4. UNCHANGED <<bucket, clock, lease, res, shutdown, bounds, issued, ledger>>
    BY <1>11 DEF DenySet
  <2>5. IdInv' /\ PendingCharged' /\ Bounded'
    BY <1>0, <2>3, <2>4, OthersOnward, QuietStep
  <2>6. deny' \in [Pods -> [until : Nat, stale : BOOLEAN]]
    <3> DEFINE n == clock + (IF call[w].retry <= 0 THEN 1 ELSE call[w].retry)
    <3>1. n \in Nat /\ call[w].stale \in BOOLEAN
      BY <1>0, <2>2, FastPathAssumption DEF TypeOK, Call
    <3>2. deny' = [deny EXCEPT ![PodOf[w]] = [until |-> n, stale |-> call[w].stale]]
      BY <1>11 DEF DenySet
    <3> HIDE DEF n
    <3> QED BY <1>0, <3>1, <3>2 DEF TypeOK
  <2>7. TypeOK'
    BY <1>0, <2>3, <2>4, <2>6 DEF TypeOK, CallStep
  <2> QED BY <2>5, <2>7 DEF Inv
<1>12. ASSUME NEW w \in Workers, NEW id \in Ids, SettleUnknown(w, id)
       PROVE  Inv'
  <2>1. /\ UNCHANGED <<bucket, clock, lease, deny, call, shutdown, bounds, issued, ledger>>
        /\ res' = [res EXCEPT ![PodOf[w]] = Live(PodOf[w])]
    BY <1>12 DEF SettleUnknown
  <2>2. ResFades /\ res' \in [Pods -> [Ids -> Reservation \union {NoRes}]]
    BY <1>0, <2>1, ResPurge, FastPathAssumption
  <2>3. TypeOK'
    BY <1>0, <2>1, <2>2 DEF TypeOK
  <2>4. IdInv'
    BY <1>0, <2>1, <2>2, IdsFade, StaysOnward
  <2>5. charged' \in Amount /\ \A a \in Axes : charged[a] <= charged'[a]
    BY <1>0, <2>1 DEF TypeOK, Amount
  <2>6. PendingCharged' /\ Bounded'
    BY <1>0, <2>1, <2>2, <2>5, PaidSame, BoundedStep
  <2> QED BY <2>3, <2>4, <2>6 DEF Inv
<1>13. ASSUME NEW w \in Workers, NEW id \in Ids, NEW n \in Actuals, SettleLocal(w, id, n)
       PROVE  Inv'
  <2> DEFINE p == PodOf[w]
  <2>1. /\ LeaseStep(p) /\ CallStep(w) /\ charged' \in Amount /\ lost' \in Amount
        /\ \A a \in Axes : charged[a] <= charged'[a] + res[p][id].cost[a]
        /\ deny' \in [Pods -> [until : Nat, stale : BOOLEAN]]
    BY <1>0, <1>13, SettleEffect
  <2>2. PICK over \in Amount :
          /\ Closed(p, id, over) /\ res'[p][id].status = "settled"
          /\ call'[w] = AfterSettle(id, over)
    BY <1>0, <1>13, SettleEffect
  <2>3. UNCHANGED <<bucket, clock, shutdown, bounds, issued, borrowed>>
    BY <1>13 DEF SettleLocal
  <2>4. p \in Pods
    BY FastPathAssumption
  <2>5. ResStep(p, id) /\ res[p][id] # NoRes
    BY <2>2 DEF Closed, Pending
  <2>6. call'[w] = Idle \/ (call'[w].pc = "cover" /\ call'[w].id = id)
    BY <2>2, AfterFacts
  <2>7. IdInv'
    BY <1>0, <2>1, <2>2, <2>3, <2>5, <2>6, IdsClose
  <2>8. PendingCharged' /\ Bounded'
    BY <1>0, <2>1, <2>2, <2>3, <2>4, PaidClose, BoundedStep
  <2>9. TypeOK'
    BY <1>0, <2>1, <2>3, <2>5 DEF TypeOK, CallStep, LeaseStep, ResStep, Amount
  <2> QED BY <2>7, <2>8, <2>9 DEF Inv
<1>14. ASSUME NEW w \in Workers, NEW id \in Ids, SettleAgain(w, id)
       PROVE  Inv'
  <2> DEFINE p == PodOf[w]
             over == Live(p)[id].over
  <2>1. /\ UNCHANGED <<bucket, clock, lease, deny, shutdown, bounds, issued, ledger>>
        /\ res' = [res EXCEPT ![p] = Live(p)] /\ Goto(w, AfterSettle(id, over))
        /\ Live(p)[id] # NoRes /\ Live(p)[id].status = "settled"
    BY <1>14 DEF SettleAgain
  <2>2. p \in Pods
    BY FastPathAssumption
  <2>3. ResFades /\ res' \in [Pods -> [Ids -> Reservation \union {NoRes}]]
    BY <1>0, <2>1, <2>2, ResPurge
  <2>4. Live(p)[id] = res[p][id] /\ res'[p][id] = res[p][id] /\ res[p][id] # NoRes
    BY <1>0, <2>1, <2>2, LivePending DEF TypeOK
  <2>5. over \in Amount
    BY <1>0, <2>2, <2>4 DEF TypeOK, Reservation, Amount
  <2> HIDE DEF over
  <2>6. CallStep(w) /\ call'[w] = AfterSettle(id, over)
    BY <1>0, <2>1, <2>5, AfterFacts, CallSet
  <2>7. call'[w] = Idle \/ (call'[w].pc = "cover" /\ call'[w].id = id)
    BY <2>5, <2>6, AfterFacts
  <2>8. ResStep(p, id) /\ res'[p][id].status = "settled"
    BY <2>1, <2>3, <2>4 DEF ResStep, ResFades
  <2>9. IdInv'
    BY <1>0, <2>1, <2>4, <2>6, <2>7, <2>8, IdsClose
  <2>10. charged' \in Amount /\ \A a \in Axes : charged[a] <= charged'[a]
    BY <1>0, <2>1 DEF TypeOK, Amount
  <2>11. PendingCharged' /\ Bounded'
    BY <1>0, <2>1, <2>3, <2>10, PaidSame, BoundedStep
  <2>12. TypeOK'
    BY <1>0, <2>1, <2>3, <2>6 DEF TypeOK, CallStep
  <2> QED BY <2>9, <2>11, <2>12 DEF Inv
<1>15. ASSUME NEW w \in Workers, ApplyDeficit(w)
       PROVE  Inv'
  <2> DEFINE p == PodOf[w]
             id == call[w].id
  <2>1. /\ LeaseStep(p) /\ CallStep(w) /\ call'[w] = Idle
        /\ charged' \in Amount /\ lost' \in Amount
        /\ \A a \in Axes : charged[a] <= charged'[a]
        /\ res' = res \/ Charged(p, id)
    BY <1>0, <1>15, ApplyEffect
  <2>2. UNCHANGED <<bucket, clock, deny, shutdown, bounds, issued, borrowed>>
    BY <1>15 DEF ApplyDeficit
  <2>3. p \in Pods /\ id \in Ids
    <3>1. call[w] # Idle
      BY <1>15, Distinct DEF ApplyDeficit
    <3> QED BY <1>0, <3>1, CallFacts
  <2>4. Onward(w)
    BY <2>1 DEF Onward
  <2>5. CASE res' = res
    <3>1. ResFades /\ res' \in [Pods -> [Ids -> Reservation \union {NoRes}]]
      BY <1>0, <2>5 DEF TypeOK, ResFades, Kept
    <3>2. IdInv'
      BY <1>0, <2>1, <2>2, <2>4, <3>1, OthersOnward, IdsFade
    <3>3. PendingCharged' /\ Bounded'
      BY <1>0, <2>1, <2>2, <3>1, PaidSame, BoundedStep
    <3>4. TypeOK'
      BY <1>0, <2>1, <2>2, <3>1 DEF TypeOK, CallStep, LeaseStep, Amount
    <3> QED BY <3>2, <3>3, <3>4 DEF Inv
  <2>6. CASE Charged(p, id)
    <3>1. ResStep(p, id) /\ res[p][id] # NoRes /\ res'[p][id].status = res[p][id].status
      BY <2>6, Distinct DEF Charged
    <3>2. IdInv'
      BY <1>0, <2>1, <2>2, <2>3, <3>1, IdsClose
    <3>3. PendingCharged' /\ Bounded'
      BY <1>0, <2>1, <2>2, <2>3, <2>6, PaidSame, BoundedStep
    <3>4. TypeOK'
      BY <1>0, <2>1, <2>2, <3>1 DEF TypeOK, CallStep, LeaseStep, ResStep, Amount
    <3> QED BY <3>2, <3>3, <3>4 DEF Inv
  <2> QED BY <2>1, <2>5, <2>6
<1>16. ASSUME NEW w \in Workers, NEW id \in Ids, RefundLocal(w, id)
       PROVE  Inv'
  <2> DEFINE p == PodOf[w]
  <2>1. /\ LeaseStep(p) /\ CallStep(w) /\ call'[w] = Idle
        /\ charged' \in Amount /\ lost' \in Amount
        /\ \A a \in Axes : charged[a] <= charged'[a] + res[p][id].cost[a]
        /\ Closed(p, id, res[p][id].over)
        /\ deny' \in [Pods -> [until : Nat, stale : BOOLEAN]]
    BY <1>0, <1>16, RefundEffect
  <2>2. UNCHANGED <<bucket, clock, shutdown, bounds, issued, borrowed>>
    BY <1>16 DEF RefundLocal
  <2>3. p \in Pods
    BY FastPathAssumption
  <2>4. ResStep(p, id) /\ res[p][id] # NoRes /\ res[p][id].status # "settled"
    BY <2>1 DEF Closed, Pending
  <2>5. IdInv'
    BY <1>0, <2>1, <2>2, <2>4, IdsClose
  <2>6. PendingCharged' /\ Bounded'
    BY <1>0, <2>1, <2>2, <2>3, PaidClose, BoundedStep
  <2>7. TypeOK'
    BY <1>0, <2>1, <2>2, <2>4 DEF TypeOK, CallStep, LeaseStep, ResStep, Amount
  <2> QED BY <2>5, <2>6, <2>7 DEF Inv
<1>17. ASSUME NEW p \in Pods, CloseSnapshot(p)
       PROVE  Inv'
  <2>1. /\ UNCHANGED <<bucket, clock, res, deny, call, bounds, issued, ledger>>
        /\ closing' = [closing EXCEPT ![p] = TRUE]
        /\ snap' = [snap EXCEPT ![p] = LeaseOf(p).bal]
        /\ lease' = IF LeaseAlive(p) THEN [lease EXCEPT ![p].bal = Zero] ELSE lease
    BY <1>17 DEF CloseSnapshot
  <2>2. LeaseOf(p).bal \in [Axes -> Nat] /\ Zero \in [Axes -> Nat]
    BY <1>0, LeaseFacts DEF Amount, Zero
  <2>3. lease' \in [Pods -> [bal : [Axes -> Nat], expires : Nat]]
    BY <1>0, <2>1, <2>2 DEF TypeOK
  <2>4. TypeOK'
    BY <1>0, <2>1, <2>2, <2>3 DEF TypeOK
  <2>5. IdInv' /\ PendingCharged' /\ Bounded'
    BY <1>0, <2>1, QuietStep, StaysOnward
  <2> QED BY <2>4, <2>5 DEF Inv
<1>18. ASSUME NEW p \in Pods, CloseReturn(p)
       PROVE  Inv'
  <2>1. /\ UNCHANGED <<clock, pools, call, closing, crashes, issued, charged>>
        /\ snap' = [snap EXCEPT ![p] = Zero]
    BY <1>18 DEF CloseReturn
  <2>2. snap[p] \in Amount /\ snap' \in [Pods -> [Axes -> Nat]]
    BY <1>0, <2>1 DEF TypeOK, Amount, Zero
  <2>3. CASE /\ bucket' = CreditSave(bucket, Limits, snap[p], clock)
             /\ borrowed' = Minus(borrowed, snap[p])
             /\ UNCHANGED <<faults, lost>>
    <3>1. StoreStep(bucket', [a \in Axes |-> -snap[p][a]])
      BY <1>0, <2>2, <2>3, ReturnEffect
    <3>2. bucket' \in [Axes -> [tokens : Nat, last : Nat]]
      BY <3>1 DEF StoreStep, BucketType
    <3>3. borrowed' \in [Axes -> Int]
      BY <1>0, <2>2, <2>3 DEF TypeOK, Minus, Amount
    <3>4. TypeOK'
      BY <1>0, <2>1, <2>2, <2>3, <3>2, <3>3 DEF TypeOK
    <3>5. IdInv' /\ PendingCharged' /\ Bounded'
      BY <1>0, <2>1, <3>1, QuietStep, StaysOnward
    <3> QED BY <3>4, <3>5 DEF Inv
  <2>4. CASE /\ faults < MaxFaults /\ faults' = faults + 1
             /\ lost' = Plus(lost, snap[p]) /\ UNCHANGED <<bucket, borrowed>>
    <3>1. faults' \in 0..MaxFaults
      BY <1>0, <2>4, FastPathAssumption DEF TypeOK
    <3>2. lost' \in [Axes -> Nat]
      BY <1>0, <2>2, <2>4 DEF TypeOK, Plus, Amount
    <3>3. TypeOK'
      BY <1>0, <2>1, <2>2, <2>4, <3>1, <3>2 DEF TypeOK
    <3>4. IdInv' /\ PendingCharged' /\ Bounded'
      BY <1>0, <2>1, <2>4, QuietStep, StaysOnward
    <3> QED BY <3>3, <3>4 DEF Inv
  <2> QED BY <1>18, <2>3, <2>4 DEF CloseReturn
<1>19. ASSUME NEW p \in Pods, Crash(p)
       PROVE  Inv'
  <2> DEFINE gone == SumOver({w \in Workers : PodOf[w] = p}, [w \in Workers |-> Carried(w)])
  <2>1. /\ UNCHANGED <<bucket, clock, faults, issued, borrowed, charged>>
        /\ crashes < MaxCrashes /\ crashes' = crashes + 1
        /\ lease' = [lease EXCEPT ![p] = NoLease]
        /\ res' = [res EXCEPT ![p] = [id \in Ids |-> NoRes]]
        /\ deny' = [deny EXCEPT ![p] = NoDeny]
        /\ call' = [w \in Workers |-> IF PodOf[w] = p THEN Idle ELSE call[w]]
        /\ snap' = [snap EXCEPT ![p] = Zero]
        /\ closing' = [closing EXCEPT ![p] = FALSE]
        /\ lost' = Plus(Plus(Plus(lost, lease[p].bal), snap[p]), gone)
    BY <1>19 DEF Crash
  <2>2. gone \in Amount
    BY <1>0, CarriedSum
  <2> HIDE DEF gone
  <2>3. lost' \in [Axes -> Nat]
    BY <1>0, <2>1, <2>2 DEF TypeOK, Plus, Amount
  <2>4. crashes' \in 0..MaxCrashes
    BY <1>0, <2>1, FastPathAssumption DEF TypeOK
  <2>5. /\ lease' \in [Pods -> [bal : [Axes -> Nat], expires : Nat]]
        /\ snap' \in [Pods -> [Axes -> Nat]] /\ closing' \in [Pods -> BOOLEAN]
    <3>1. NoLease \in [bal : [Axes -> Nat], expires : Nat] /\ Zero \in [Axes -> Nat]
      BY DEF NoLease, Zero
    <3> QED BY <1>0, <2>1, <3>1 DEF TypeOK
  <2>6. deny' \in [Pods -> [until : Nat, stale : BOOLEAN]]
    <3>1. NoDeny \in [until : Nat, stale : BOOLEAN]
      BY DEF NoDeny
    <3> QED BY <1>0, <2>1, <3>1 DEF TypeOK
  <2>7. call' \in [Workers -> Call \union {Idle}]
    BY <1>0, <2>1 DEF TypeOK
  <2>8. ResFades /\ res' \in [Pods -> [Ids -> Reservation \union {NoRes}]]
    BY <1>0, <2>1 DEF TypeOK, ResFades, Kept
  <2>9. TypeOK'
    BY <1>0, <2>1, <2>3, <2>4, <2>5, <2>6, <2>7, <2>8 DEF TypeOK
  <2>10. \A v \in Workers : Onward(v)
    BY <2>1 DEF Onward
  <2>11. IdInv'
    BY <1>0, <2>1, <2>8, <2>10, IdsFade
  <2>12. charged' \in Amount /\ \A a \in Axes : charged[a] <= charged'[a]
    BY <1>0, <2>1 DEF TypeOK, Amount
  <2>13. PendingCharged' /\ Bounded'
    BY <1>0, <2>1, <2>8, <2>12, PaidSame, BoundedStep
  <2> QED BY <2>9, <2>11, <2>13 DEF Inv
<1>20. CASE Tick
  <2>1. /\ UNCHANGED <<bucket, pools, call, shutdown, bounds, issued, ledger>>
        /\ clock < MaxTime /\ clock' = clock + 1
    BY <1>20 DEF Tick
  <2>2. clock' \in 1..(MaxTime + 1)
    BY <1>0, <2>1, FastPathAssumption DEF TypeOK
  <2>3. TypeOK'
    BY <1>0, <2>1, <2>2 DEF TypeOK
  <2>4. IdInv' /\ PendingCharged' /\ Bounded'
    BY <1>0, <2>1, QuietStep, StaysOnward
  <2> QED BY <2>3, <2>4 DEF Inv
<1> QED BY <1>1, <1>2, <1>3, <1>4, <1>5, <1>6, <1>7, <1>8, <1>9, <1>10, <1>11, <1>12,
           <1>13, <1>14, <1>15, <1>16, <1>17, <1>18, <1>19, <1>20 DEF Next

\* The initial states satisfy the invariant.
LEMMA InvInit ==
  ASSUME Init
  PROVE  Inv
<1> USE DEF Init
<1>1. TypeOK
  <2>1. /\ Zero \in [Axes -> Nat] /\ NoLease \in [bal : [Axes -> Nat], expires : Nat]
        /\ NoDeny \in [until : Nat, stale : BOOLEAN] /\ Cold \in [tokens : Nat, last : Nat]
    BY DEF Zero, NoLease, NoDeny, Cold
  <2>2. MaxTime \in Nat /\ MaxFaults \in Nat /\ MaxCrashes \in Nat
    BY FastPathAssumption
  <2>3. Zero \in [Axes -> Int]
    BY <2>1
  <2>4. /\ lease \in [Pods -> [bal : [Axes -> Nat], expires : Nat]]
        /\ deny \in [Pods -> [until : Nat, stale : BOOLEAN]]
        /\ bucket \in [Axes -> [tokens : Nat, last : Nat]]
        /\ snap \in [Pods -> [Axes -> Nat]]
    BY <2>1
  <2>5. /\ res \in [Pods -> [Ids -> Reservation \union {NoRes}]]
        /\ call \in [Workers -> Call \union {Idle}]
        /\ closing \in [Pods -> BOOLEAN]
    OBVIOUS
  <2> QED BY <2>1, <2>2, <2>3, <2>4, <2>5 DEF TypeOK
<1>2. IdInv
  <2>1. \A w \in Workers : call[w] = Idle
    OBVIOUS
  <2>2. "idle" \notin CheckPcs \union SettlePcs
    BY DEF CheckPcs, SettlePcs
  <2> QED BY <2>1, <2>2, Distinct DEF IdInv, IdsIssued, FreshIds, SettledIds, CostsUsed
<1>3. PendingCharged
  <2> SUFFICES ASSUME NEW a \in Axes
               PROVE  SumFunctionOnSet(PendingCost(a), Places) <= charged[a]
    BY DEF PendingCharged
  <2>1. \A i \in Places : PendingCost(a)[i] = 0
    BY DEF PendingCost, Places, Pending
  <2>2. IsFiniteSet(Places)
    BY <1>1, PlaceFacts
  <2>3. SumFunctionOnSet(PendingCost(a), Places) = 0
    BY <2>1, <2>2, SumZero
  <2> QED BY <2>3 DEF Zero
<1>4. Bounded
  <2>1. \A a \in Axes : 0 <= Limits[a] * Period
    BY LimitFacts, PeriodAssumption, TimesMonotone
  <2> QED BY <2>1 DEF Bounded, Cold
<1> QED BY <1>1, <1>2, <1>3, <1>4 DEF Inv

\* In every reachable state balances, charges and overshoots have their types:
\* nothing the pods do makes one of them negative, whatever the interleaving.
THEOREM FastPathTypeOK == Spec => []TypeOK
<1>1. Init => Inv
  BY InvInit
<1>2. Inv /\ [Next]_vars => Inv'
  BY InvStep
<1>3. Inv => TypeOK
  BY DEF Inv
<1> QED BY <1>1, <1>2, <1>3, PTL DEF Spec

-----------------------------------------------------------------------------
(* The life of a local reservation. *)

\* A reservation keeps its terms, as LocalLifecycle says.
KeepsTerms(p, id) ==
  \/ res'[p][id] = res[p][id]
  \/ res[p][id] = NoRes /\ \A q \in Pods : res[q][id] = NoRes
  \/ res'[p][id] = NoRes
  \/ /\ res[p][id] # NoRes /\ res'[p][id] # NoRes
     /\ res'[p][id].cost = res[p][id].cost
     /\ \/ res[p][id].status = "pending" /\ res'[p][id].status # "pending"
        \/ /\ res[p][id].status = "settled" /\ res'[p][id].status = "settled"
           /\ \A a \in Axes : res'[p][id].over[a] <= res[p][id].over[a]

\* A purge changes no terms.
LEMMA FadesKeeps ==
  ASSUME ResFades
  PROVE  \A p \in Pods, id \in Ids : KeepsTerms(p, id)
  BY DEF ResFades, Kept, KeepsTerms

\* Neither does a reservation opened under an id no pod has,
LEMMA OpenKeeps ==
  ASSUME NEW q \in Pods, NEW i \in Ids, NEW cost, Opened(q, i, cost),
         \A p \in Pods : res[p][i] = NoRes
  PROVE  \A p \in Pods, id \in Ids : KeepsTerms(p, id)
  BY DEF Opened, ResStep, Kept, KeepsTerms

\* nor the closing of a pending one,
LEMMA CloseKeeps ==
  ASSUME NEW q \in Pods, NEW i \in Ids, NEW over, Closed(q, i, over)
  PROVE  \A p \in Pods, id \in Ids : KeepsTerms(p, id)
  BY Distinct DEF Closed, Pending, ResStep, Kept, KeepsTerms

\* nor a charge to a settled one, whose overshoot shrinks.
LEMMA ChargeKeeps ==
  ASSUME NEW q \in Pods, NEW i \in Ids, Charged(q, i), res[q][i].status = "settled"
  PROVE  \A p \in Pods, id \in Ids : KeepsTerms(p, id)
  BY Distinct DEF Charged, ResStep, Kept, KeepsTerms

\* A TryDebit stores a reservation under an id that no pod has.
LEMMA DebitKeeps ==
  ASSUME Inv, NEW w \in Workers, call[w].pc \in CheckPcs,
         NEW miss \in Call \union {Idle}, TryDebit(w, miss)
  PROVE  \A p \in Pods, id \in Ids : KeepsTerms(p, id)
<1>1. PodOf[w] \in Pods /\ call[w].id \in Ids
  BY CallFacts, Distinct DEF Inv, CheckPcs
<1>2. Opened(PodOf[w], call[w].id, call[w].amount) \/ ResFades
  BY DebitEffect DEF Inv, IdInv
<1>3. \A p \in Pods : res[p][call[w].id] = NoRes
  BY DEF Inv, IdInv, FreshIds
<1> QED BY <1>1, <1>2, <1>3, OpenKeeps, FadesKeeps

\* Every step keeps the terms of every reservation.
LEMMA KeepsStep ==
  ASSUME Inv, [Next]_vars
  PROVE  \A p \in Pods, id \in Ids : KeepsTerms(p, id)
<1> USE DEF pools
<1>0. TypeOK /\ IdInv /\ PendingCharged /\ PodOf \in [Workers -> Pods]
  BY FastPathAssumption DEF Inv
<1>1. ASSUME UNCHANGED res
      PROVE  \A p \in Pods, id \in Ids : KeepsTerms(p, id)
  BY <1>1 DEF KeepsTerms
<1>2. CASE UNCHANGED vars
  BY <1>1, <1>2 DEF vars
<1>3. ASSUME NEW w \in Workers, FirstDebit(w) \/ SecondDebit(w) \/ StoreErr(w)
      PROVE  \A p \in Pods, id \in Ids : KeepsTerms(p, id)
  <2>1. call[w].pc \in CheckPcs /\ call[w] # Idle
    BY <1>3, Distinct DEF FirstDebit, SecondDebit, StoreErr, CheckPcs
  <2>2. /\ [call[w] EXCEPT !.pc = "borrow"] \in Call
        /\ [call[w] EXCEPT !.pc = "denySet", !.retry = 1] \in Call
    BY <1>0, <2>1, CallFacts
  <2>3. CASE FirstDebit(w)
    BY <2>1, <2>2, <2>3, DebitKeeps DEF FirstDebit
  <2>4. CASE SecondDebit(w)
    BY <2>1, <2>2, <2>4, DebitKeeps DEF SecondDebit
  <2>5. CASE StoreErr(w)
    BY <1>1, <2>1, <2>5, DebitKeeps DEF StoreErr
  <2> QED BY <1>3, <2>3, <2>4, <2>5
<1>4. ASSUME NEW w \in Workers, NEW id \in Ids, SettleUnknown(w, id) \/ SettleAgain(w, id)
      PROVE  \A p \in Pods, i \in Ids : KeepsTerms(p, i)
  <2>1. res' = [res EXCEPT ![PodOf[w]] = Live(PodOf[w])] /\ PodOf[w] \in Pods
    BY <1>0, <1>4 DEF SettleUnknown, SettleAgain
  <2>2. ResFades
    BY <1>0, <2>1, ResPurge
  <2> QED BY <2>2, FadesKeeps
<1>5. ASSUME NEW w \in Workers, NEW id \in Ids, NEW n \in Actuals, SettleLocal(w, id, n)
      PROVE  \A p \in Pods, i \in Ids : KeepsTerms(p, i)
  BY <1>0, <1>5, SettleEffect, CloseKeeps
<1>6. ASSUME NEW w \in Workers, NEW id \in Ids, RefundLocal(w, id)
      PROVE  \A p \in Pods, i \in Ids : KeepsTerms(p, i)
  BY <1>0, <1>6, RefundEffect, CloseKeeps
<1>7. ASSUME NEW w \in Workers, ApplyDeficit(w)
      PROVE  \A p \in Pods, id \in Ids : KeepsTerms(p, id)
  <2>1. call[w].pc = "apply" /\ call[w] # Idle
    BY <1>7, Distinct DEF ApplyDeficit
  <2>2. PodOf[w] \in Pods /\ call[w].id \in Ids
    BY <1>0, <2>1, CallFacts
  <2>3. UNCHANGED res \/ Charged(PodOf[w], call[w].id)
    BY <1>0, <1>7, ApplyEffect
  <2>4. \/ res[PodOf[w]][call[w].id] = NoRes
        \/ res[PodOf[w]][call[w].id].status = "settled"
    BY <1>0, <2>1 DEF IdInv, SettledIds, SettlePcs
  <2>5. CASE Charged(PodOf[w], call[w].id)
    <3>1. res[PodOf[w]][call[w].id] # NoRes
      BY <2>5, Distinct DEF Charged
    <3> QED BY <2>2, <2>4, <2>5, <3>1, ChargeKeeps
  <2> QED BY <1>1, <2>3, <2>5
<1>8. ASSUME NEW p \in Pods, Crash(p)
      PROVE  \A q \in Pods, id \in Ids : KeepsTerms(q, id)
  <2>1. ResFades
    BY <1>0, <1>8 DEF Crash, TypeOK, ResFades, Kept
  <2> QED BY <2>1, FadesKeeps
<1>9. ASSUME NEW w \in Workers,
             \/ DenyHit(w) \/ BorrowGranted(w) \/ BorrowDenied(w) \/ BorrowFails(w)
             \/ CreditLease(w) \/ DenySet(w)
      PROVE  UNCHANGED res
  BY <1>9 DEF DenyHit, BorrowGranted, BorrowDenied, BorrowFails, CreditLease, DenySet, vars
<1>10. ASSUME NEW w \in Workers, NEW c \in Costs, NEW id \in Ids, CheckStart(w, c, id)
       PROVE  UNCHANGED res
  BY <1>10 DEF CheckStart
<1>11. ASSUME NEW p \in Pods, CloseSnapshot(p) \/ CloseReturn(p)
       PROVE  UNCHANGED res
  BY <1>11 DEF CloseSnapshot, CloseReturn
<1>12. CASE Tick
  BY <1>1, <1>12 DEF Tick
<1> QED BY <1>1, <1>2, <1>3, <1>4, <1>5, <1>6, <1>7, <1>8, <1>9, <1>10, <1>11, <1>12 DEF Next

\* In every behaviour a local reservation is closed at most once, keeps its cost,
\* and once settled its overshoot only shrinks, however SettleLocal, RefundLocal
\* and ApplyBorrowedDeficit of several handlers interleave with purges and crashes.
THEOREM ReservationsKeepTerms == Spec => LocalLifecycle
<1>1. Init => Inv
  BY InvInit
<1>2. Inv /\ [Next]_vars => Inv'
  BY InvStep
<1>3. Inv /\ [Next]_vars => [\A p \in Pods, id \in Ids : KeepsTerms(p, id)]_vars
  BY KeepsStep
<1>4. Spec => [][\A p \in Pods, id \in Ids : KeepsTerms(p, id)]_vars
  BY <1>1, <1>2, <1>3, PTL DEF Spec
<1> QED BY <1>4 DEF LocalLifecycle, KeepsTerms

-----------------------------------------------------------------------------
(* Every token the store granted is in one place. *)

InLeases(a) == SumOver(Pods, [p \in Pods |-> lease[p].bal])[a]
InSnaps(a)  == SumOver(Pods, snap)[a]
InCalls(a)  == SumOver(Workers, [w \in Workers |-> Carried(w)])[a]

\* Close overwrites no credits it has yet to return.
OpenEmpty == \A p \in Pods : ~closing[p] => snap[p] = Zero

\* What is held is the sum of three sums.
LEMMA HeldParts ==
  ASSUME NEW a \in Axes
  PROVE  /\ Held[a] = InLeases(a) + InSnaps(a) + InCalls(a)
         /\ Held'[a] = InLeases(a)' + InSnaps(a)' + InCalls(a)'
  BY DEF Held, Plus, InLeases, InSnaps, InCalls

\* The three are numbers.
LEMMA PartsType ==
  ASSUME TypeOK, NEW a \in Axes
  PROVE  InLeases(a) \in Nat /\ InSnaps(a) \in Nat /\ InCalls(a) \in Nat
<1> DEFINE l == [p \in Pods |-> lease[p].bal[a]]
           s == [p \in Pods |-> snap[p][a]]
           c == [w \in Workers |-> Carried(w)[a]]
<1>1. IsFiniteSet(Pods) /\ IsFiniteSet(Workers)
  BY FastPathAssumption
<1>2. (\A p \in Pods : l[p] \in Nat) /\ (\A p \in Pods : s[p] \in Nat)
  BY DEF TypeOK
<1>3. \A w \in Workers : c[w] \in Nat
  BY CarriedType DEF Amount
<1>4. /\ InLeases(a) = SumFunctionOnSet(l, Pods) /\ InSnaps(a) = SumFunctionOnSet(s, Pods)
      /\ InCalls(a) = SumFunctionOnSet(c, Workers)
  <2>1. [p \in Pods |-> [q \in Pods |-> lease[q].bal][p][a]] = l
    OBVIOUS
  <2>2. [w \in Workers |-> [v \in Workers |-> Carried(v)][w][a]] = c
    OBVIOUS
  <2> QED BY <2>1, <2>2 DEF InLeases, InSnaps, InCalls, SumOver
<1> HIDE DEF l, s, c
<1>5. /\ SumFunctionOnSet(l, Pods) \in Nat /\ SumFunctionOnSet(s, Pods) \in Nat
      /\ SumFunctionOnSet(c, Workers) \in Nat
  BY <1>1, <1>2, <1>3, SumType
<1> QED BY <1>4, <1>5

\* One lease changes.
LEMMA LeaseMoves ==
  ASSUME TypeOK, NEW p \in Pods, LeaseStep(p), NEW a \in Axes
  PROVE  InLeases(a)' = InLeases(a) + lease'[p].bal[a] - lease[p].bal[a]
<1> DEFINE f == [q \in Pods |-> lease[q].bal[a]]
           g == [q \in Pods |-> lease'[q].bal[a]]
<1>1. IsFiniteSet(Pods)
  BY FastPathAssumption
<1>2. \A q \in Pods : f[q] \in Int
  BY DEF TypeOK
<1>3. f[p] = lease[p].bal[a] /\ g[p] = lease'[p].bal[a]
  BY DEF TypeOK, LeaseStep
<1>4. g[p] \in Int /\ \A q \in Pods \ {p} : g[q] = f[q]
  BY DEF TypeOK, LeaseStep
<1>5. InLeases(a) = SumFunctionOnSet(f, Pods) /\ InLeases(a)' = SumFunctionOnSet(g, Pods)
  <2>1. [q \in Pods |-> [r \in Pods |-> lease[r].bal][q][a]] = f
    OBVIOUS
  <2>2. [q \in Pods |-> [r \in Pods |-> lease'[r].bal][q][a]] = g
    OBVIOUS
  <2> QED BY <2>1, <2>2 DEF InLeases, SumOver
<1> HIDE DEF f, g
<1>6. SumFunctionOnSet(g, Pods) = SumFunctionOnSet(f, Pods) + g[p] - f[p]
  BY <1>1, <1>2, <1>4, SumUpdate
<1> QED BY <1>3, <1>5, <1>6

\* One pod's credits to return change.
LEMMA SnapMoves ==
  ASSUME TypeOK, NEW p \in Pods, NEW a \in Axes, NEW x \in Amount,
         snap' = [snap EXCEPT ![p] = x]
  PROVE  InSnaps(a)' = InSnaps(a) + x[a] - snap[p][a]
<1> DEFINE f == [q \in Pods |-> snap[q][a]]
           g == [q \in Pods |-> snap'[q][a]]
<1>1. IsFiniteSet(Pods)
  BY FastPathAssumption
<1>2. \A q \in Pods : f[q] \in Int
  BY DEF TypeOK
<1>3. f[p] = snap[p][a] /\ g[p] = x[a]
  BY DEF TypeOK, Amount
<1>4. g[p] \in Int /\ \A q \in Pods \ {p} : g[q] = f[q]
  BY DEF TypeOK, Amount
<1>5. InSnaps(a) = SumFunctionOnSet(f, Pods) /\ InSnaps(a)' = SumFunctionOnSet(g, Pods)
  BY DEF InSnaps, SumOver
<1> HIDE DEF f, g
<1>6. SumFunctionOnSet(g, Pods) = SumFunctionOnSet(f, Pods) + g[p] - f[p]
  BY <1>1, <1>2, <1>4, SumUpdate
<1> QED BY <1>3, <1>5, <1>6

\* One handler's load changes.
LEMMA CarriedMoves ==
  ASSUME TypeOK, TypeOK', NEW w \in Workers, CallStep(w), NEW a \in Axes
  PROVE  InCalls(a)' = InCalls(a) + Carried(w)'[a] - Carried(w)[a]
<1> DEFINE f == [v \in Workers |-> Carried(v)[a]]
           g == [v \in Workers |-> Carried(v)'[a]]
<1>1. IsFiniteSet(Workers)
  BY FastPathAssumption
<1>2. \A v \in Workers : f[v] \in Int
  BY CarriedType DEF Amount
<1>3. \A v \in Workers : Carried(v)' \in Amount
  <2>1. ASSUME NEW v \in Workers
        PROVE  Carried(v)' \in Amount
    <3>1. CASE call'[v].pc \in {"credit", "coverCredit"}
      <4>1. call'[v] \in Call
        BY <3>1, Distinct DEF TypeOK
      <4> QED BY <3>1, <4>1 DEF Carried, Call, Amount
    <3>2. CASE call'[v].pc \notin {"credit", "coverCredit"}
      BY <3>2 DEF Carried, Zero, Amount
    <3> QED BY <3>1, <3>2
  <2> QED BY <2>1
<1>4. g[w] \in Int /\ f[w] = Carried(w)[a] /\ g[w] = Carried(w)'[a]
  BY <1>3 DEF Amount
<1>5. ASSUME NEW v \in Workers \ {w}
      PROVE  g[v] = f[v]
  <2>1. \/ call'[v] = call[v]
        \/ call[v].pc = "denySet" /\ call'[v].pc = "denySet"
    BY DEF CallStep
  <2> QED BY <2>1 DEF Carried
<1>6. InCalls(a) = SumFunctionOnSet(f, Workers) /\ InCalls(a)' = SumFunctionOnSet(g, Workers)
  <2>1. [v \in Workers |-> [u \in Workers |-> Carried(u)][v][a]] = f
    OBVIOUS
  <2>2. [v \in Workers |-> [u \in Workers |-> Carried(u)'][v][a]] = g
    OBVIOUS
  <2> QED BY <2>1, <2>2 DEF InCalls, SumOver
<1> HIDE DEF f, g
<1>7. SumFunctionOnSet(g, Workers) = SumFunctionOnSet(f, Workers) + g[w] - f[w]
  BY <1>1, <1>2, <1>4, <1>5, SumUpdate
<1> QED BY <1>4, <1>6, <1>7

\* A crash takes what its handlers carry.
LEMMA CarriedDies ==
  ASSUME TypeOK, NEW p \in Pods, NEW a \in Axes,
         call' = [w \in Workers |-> IF PodOf[w] = p THEN Idle ELSE call[w]]
  PROVE  InCalls(a)' = InCalls(a)
           - SumOver({w \in Workers : PodOf[w] = p}, [w \in Workers |-> Carried(w)])[a]
<1> DEFINE T == {w \in Workers : PodOf[w] = p}
           f == [v \in Workers |-> Carried(v)[a]]
           g == [v \in Workers |-> Carried(v)'[a]]
           h == [e \in T |-> [w \in Workers |-> Carried(w)][e][a]]
<1>1. IsFiniteSet(Workers) /\ T \in SUBSET Workers
  BY FastPathAssumption
<1>2. \A v \in Workers : f[v] \in Int
  BY CarriedType DEF Amount
<1>3. ASSUME NEW v \in T
      PROVE  g[v] = 0
  BY Distinct DEF Carried, Zero
<1>4. \A v \in Workers \ T : g[v] = f[v]
  BY DEF Carried
<1>5. InCalls(a) = SumFunctionOnSet(f, Workers) /\ InCalls(a)' = SumFunctionOnSet(g, Workers)
  <2>1. [v \in Workers |-> [u \in Workers |-> Carried(u)][v][a]] = f
    OBVIOUS
  <2>2. [v \in Workers |-> [u \in Workers |-> Carried(u)'][v][a]] = g
    OBVIOUS
  <2> QED BY <2>1, <2>2 DEF InCalls, SumOver
<1>6. SumOver(T, [w \in Workers |-> Carried(w)])[a] = SumFunctionOnSet(h, T)
  BY DEF SumOver
<1>7. \A e \in T : h[e] = f[e]
  OBVIOUS
<1>8. IsFiniteSet(T)
  BY <1>1, FS_Subset
<1> HIDE DEF f, g, h, T
<1>9. SumFunctionOnSet(g, Workers) = SumFunctionOnSet(f, Workers) - SumFunctionOnSet(f, T)
  BY <1>1, <1>2, <1>3, <1>4, SumClear
<1>10. SumFunctionOnSet(h, T) = SumFunctionOnSet(f, T)
  BY <1>7, <1>8, SumSame
<1> QED BY <1>5, <1>6, <1>9, <1>10 DEF T

\* A handler's step that moves tokens between its pod's lease, its own load, the
\* caller, the store and nowhere.
LEMMA BackedMove ==
  ASSUME TypeOK, TypeOK', NEW a \in Axes, Backed(a), NEW w \in Workers,
         LeaseStep(PodOf[w]), CallStep(w), snap' = snap,
         lease'[PodOf[w]].bal[a] + Carried(w)'[a] + charged'[a] + lost'[a] + borrowed[a]
           = lease[PodOf[w]].bal[a] + Carried(w)[a] + charged[a] + lost[a] + borrowed'[a]
  PROVE  Backed(a)'
<1>1. PodOf[w] \in Pods
  BY FastPathAssumption
<1>2. InLeases(a)' = InLeases(a) + lease'[PodOf[w]].bal[a] - lease[PodOf[w]].bal[a]
  BY <1>1, LeaseMoves
<1>3. InCalls(a)' = InCalls(a) + Carried(w)'[a] - Carried(w)[a]
  BY CarriedMoves
<1>4. InSnaps(a)' = InSnaps(a)
  BY DEF InSnaps
<1>5. InLeases(a) \in Nat /\ InSnaps(a) \in Nat /\ InCalls(a) \in Nat
  BY PartsType
<1>6. lease[PodOf[w]].bal[a] \in Nat /\ lease'[PodOf[w]].bal[a] \in Nat
  BY <1>1 DEF TypeOK
<1>7. /\ borrowed[a] \in Int /\ borrowed'[a] \in Int
      /\ charged[a] \in Nat /\ charged'[a] \in Nat /\ lost[a] \in Nat /\ lost'[a] \in Nat
  BY DEF TypeOK
<1>8. Carried(w)[a] \in Nat
  BY CarriedType DEF Amount
<1>9. Carried(w)'[a] \in Nat
  <2>1. CASE call'[w].pc \in {"credit", "coverCredit"}
    <3>1. call'[w] \in Call
      BY <2>1, Distinct DEF TypeOK
    <3> QED BY <2>1, <3>1 DEF Carried, Call
  <2>2. CASE call'[w].pc \notin {"credit", "coverCredit"}
    BY <2>2 DEF Carried, Zero
  <2> QED BY <2>1, <2>2
<1>10. borrowed[a] = InLeases(a) + InSnaps(a) + InCalls(a) + charged[a] + lost[a]
  BY HeldParts DEF Backed
<1>11. borrowed'[a] = InLeases(a)' + InSnaps(a)' + InCalls(a)' + charged'[a] + lost'[a]
  <2> DEFINE l == lease[PodOf[w]].bal[a]
             m == lease'[PodOf[w]].bal[a]
             c == Carried(w)[a]
             d == Carried(w)'[a]
             L == InLeases(a)
             S == InSnaps(a)
             C == InCalls(a)
  <2>1. /\ l \in Int /\ m \in Int /\ c \in Int /\ d \in Int
        /\ L \in Int /\ S \in Int /\ C \in Int
    BY <1>5, <1>6, <1>8, <1>9
  <2>2. m + d + charged'[a] + lost'[a] + borrowed[a] = l + c + charged[a] + lost[a] + borrowed'[a]
    OBVIOUS
  <2>3. borrowed[a] = L + S + C + charged[a] + lost[a]
    BY <1>10
  <2>4. InLeases(a)' = L + m - l /\ InSnaps(a)' = S /\ InCalls(a)' = C + d - c
    BY <1>2, <1>3, <1>4
  <2> HIDE DEF l, m, c, d, L, S, C
  <2> QED BY <1>7, <2>1, <2>2, <2>3, <2>4
<1> QED BY <1>11, HeldParts DEF Backed

\* A handler's step that touches no lease, no load and no account.
LEMMA BackedSame ==
  ASSUME NEW a \in Axes, Backed(a), UNCHANGED <<lease, snap, borrowed, charged, lost>>,
         \A w \in Workers : Carried(w)' = Carried(w)
  PROVE  Backed(a)'
<1>1. InLeases(a)' = InLeases(a) /\ InSnaps(a)' = InSnaps(a)
  BY DEF InLeases, InSnaps
<1>2. InCalls(a)' = InCalls(a)
  <2>1. [w \in Workers |-> Carried(w)'] = [w \in Workers |-> Carried(w)]
    OBVIOUS
  <2> QED BY <2>1 DEF InCalls
<1> QED BY <1>1, <1>2, HeldParts DEF Backed

\* Handlers that do not take up or set down a loan carry what they carried.
LEMMA CarriesOn ==
  ASSUME NEW w \in Workers, CallStep(w),
         {call[w].pc, call'[w].pc} \cap {"credit", "coverCredit"} = {}
  PROVE  \A v \in Workers : Carried(v)' = Carried(v)
<1>1. Carried(w)' = Carried(w)
  BY DEF Carried
<1>2. ASSUME NEW v \in Workers \ {w}
      PROVE  Carried(v)' = Carried(v)
  <2>1. \/ call'[v] = call[v]
        \/ call[v].pc = "denySet" /\ call'[v].pc = "denySet"
    BY DEF CallStep
  <2> QED BY <2>1 DEF Carried
<1> QED BY <1>1, <1>2

\* The steps with a TryDebit charge what they take from the lease.
LEMMA DebitBacked ==
  ASSUME Inv, TypeOK', NEW a \in Axes, Backed(a), NEW w \in Workers,
         call[w].pc \in {"debit", "storeErr", "redebit"},
         NEW miss \in Call \union {Idle}, miss.pc \notin {"credit", "coverCredit"},
         TryDebit(w, miss)
  PROVE  Backed(a)'
<1>1. call[w].pc \in CheckPcs
  BY DEF CheckPcs
<1>2. /\ LeaseStep(PodOf[w]) /\ CallStep(w)
      /\ lease'[PodOf[w]].bal[a] + charged'[a] + lost'[a]
           = lease[PodOf[w]].bal[a] + charged[a] + lost[a]
      /\ call'[w] = Idle \/ call'[w] = miss
  BY <1>1, DebitEffect DEF Inv, IdInv
<1>3. Carried(w) = Zero /\ Carried(w)' = Zero
  BY <1>2, Distinct DEF Carried
<1>4. borrowed' = borrowed /\ snap' = snap
  BY DEF TryDebit, shutdown
<1>5. /\ lease[PodOf[w]].bal[a] \in Nat /\ lease'[PodOf[w]].bal[a] \in Nat
      /\ borrowed[a] \in Int /\ Zero[a] = 0
      /\ charged[a] \in Nat /\ charged'[a] \in Nat /\ lost[a] \in Nat /\ lost'[a] \in Nat
  BY FastPathAssumption DEF Inv, TypeOK, Zero
<1>6. lease'[PodOf[w]].bal[a] + Carried(w)'[a] + charged'[a] + lost'[a] + borrowed[a]
        = lease[PodOf[w]].bal[a] + Carried(w)[a] + charged[a] + lost[a] + borrowed'[a]
  BY <1>2, <1>3, <1>4, <1>5
<1> QED BY <1>2, <1>4, <1>6, BackedMove DEF Inv

\* No step but ApplyDeficit creates or destroys a token, and that one none on
\* an axis it does not charge.
LEMMA BackedStep ==
  ASSUME Inv, OpenEmpty, [Next]_vars, NEW a \in Axes, Backed(a),
         a \notin Tokens \/ \A w \in Workers : call[w].pc # "apply"
  PROVE  Backed(a)'
<1> USE DEF pools, shutdown, bounds, ledger
<1>0. TypeOK /\ IdInv /\ PendingCharged /\ PodOf \in [Workers -> Pods]
  BY FastPathAssumption DEF Inv
<1>00. Inv' /\ TypeOK'
  BY InvStep DEF Inv
<1>000. ASSUME NEW p \in Pods
        PROVE  /\ lease[p].bal[a] \in Nat /\ lease'[p].bal[a] \in Nat
               /\ snap[p][a] \in Nat /\ snap[p] \in Amount /\ lease[p].bal \in Amount
               /\ borrowed[a] \in Int /\ borrowed'[a] \in Int
               /\ charged[a] \in Nat /\ charged'[a] \in Nat
               /\ lost[a] \in Nat /\ lost'[a] \in Nat /\ Zero[a] = 0
  BY <1>0, <1>00 DEF TypeOK, Zero, Amount
<1>1. ASSUME UNCHANGED <<lease, call, shutdown, ledger>>
      PROVE  Backed(a)'
  BY <1>1, BackedSame DEF Carried
<1>2. CASE UNCHANGED vars
  BY <1>1, <1>2 DEF vars
<1>3. ASSUME NEW w \in Workers, FirstDebit(w) \/ SecondDebit(w) \/ StoreErr(w)
      PROVE  Backed(a)'
  <2>1. call[w].pc \in {"debit", "storeErr", "redebit"} /\ call[w] # Idle
    BY <1>3, Distinct DEF FirstDebit, SecondDebit, StoreErr
  <2>2. /\ [call[w] EXCEPT !.pc = "borrow"] \in Call
        /\ [call[w] EXCEPT !.pc = "denySet", !.retry = 1] \in Call
        /\ call[w] \in Call
    BY <1>0, <2>1, CallFacts
  <2>3. /\ [call[w] EXCEPT !.pc = "borrow"].pc = "borrow"
        /\ [call[w] EXCEPT !.pc = "denySet", !.retry = 1].pc = "denySet"
    BY <2>2 DEF Call
  <2>4. CASE FirstDebit(w)
    BY <1>00, <2>1, <2>2, <2>3, <2>4, DebitBacked DEF FirstDebit
  <2>5. CASE SecondDebit(w)
    BY <1>00, <2>1, <2>2, <2>3, <2>5, DebitBacked DEF SecondDebit
  <2>6. CASE StoreErr(w) /\ TryDebit(w, Idle)
    BY <1>00, <2>1, <2>6, DebitBacked, Distinct
  <2>7. CASE /\ Goto(w, Idle) /\ UNCHANGED <<lease, shutdown, ledger>>
             /\ call[w].pc = "storeErr"
    <3>1. CallStep(w) /\ call'[w] = Idle
      BY <1>0, <2>7, CallSet
    <3>2. {call[w].pc, call'[w].pc} \cap {"credit", "coverCredit"} = {}
      BY <2>7, <3>1, Distinct
    <3> QED BY <2>7, <3>1, <3>2, CarriesOn, BackedSame
  <2> QED BY <1>3, <2>4, <2>5, <2>6, <2>7 DEF StoreErr
<1>4. ASSUME NEW w \in Workers, NEW c \in Costs, NEW id \in Ids, CheckStart(w, c, id)
      PROVE  Backed(a)'
  <2>1. CallStep(w) /\ call'[w].pc = "debit"
    BY <1>0, <1>4, IdsStart
  <2>2. call[w] = Idle /\ UNCHANGED <<lease, shutdown, ledger>>
    BY <1>4 DEF CheckStart
  <2>3. {call[w].pc, call'[w].pc} \cap {"credit", "coverCredit"} = {}
    BY <2>1, <2>2, Distinct
  <2> QED BY <2>1, <2>2, <2>3, CarriesOn, BackedSame
<1>5. ASSUME NEW w \in Workers, BorrowGranted(w)
      PROVE  Backed(a)'
  <2> DEFINE got == BorrowGot(bucket, Limits, SpecOf(w), clock)
  <2>1. /\ got \in Amount /\ borrowed' = Plus(borrowed, got) /\ CallStep(w)
        /\ call'[w].got = got /\ call'[w].pc \in {"credit", "coverCredit"}
    BY <1>5, GrantEffect
  <2> HIDE DEF got
  <2>2. call[w].pc \in {"borrow", "cover"} /\ UNCHANGED <<lease, snap, charged, lost>>
    BY <1>5 DEF BorrowGranted, Borrowing
  <2>3. Carried(w) = Zero /\ Carried(w)' = got
    BY <2>1, <2>2 DEF Carried
  <2>4. borrowed'[a] = borrowed[a] + got[a] /\ got[a] \in Nat
    BY <2>1 DEF Plus, Amount
  <2>5. LeaseStep(PodOf[w])
    BY <1>0, <2>2 DEF LeaseStep, TypeOK
  <2>6. lease'[PodOf[w]].bal[a] + Carried(w)'[a] + charged'[a] + lost'[a] + borrowed[a]
          = lease[PodOf[w]].bal[a] + Carried(w)[a] + charged[a] + lost[a] + borrowed'[a]
    BY <1>0, <1>000, <2>2, <2>3, <2>4
  <2> QED BY <1>0, <1>00, <2>1, <2>2, <2>5, <2>6, BackedMove
<1>6. ASSUME NEW w \in Workers, BorrowDenied(w)
      PROVE  Backed(a)'
  <2>1. CallStep(w) /\ call'[w].pc \in {"denySet", "idle"}
    BY <1>6, DenyEffect
  <2>2. call[w].pc \in {"borrow", "cover"} /\ UNCHANGED <<lease, shutdown, ledger>>
    BY <1>6 DEF BorrowDenied, Borrowing
  <2>3. {call[w].pc, call'[w].pc} \cap {"credit", "coverCredit"} = {}
    BY <2>1, <2>2
  <2> QED BY <2>1, <2>2, <2>3, CarriesOn, BackedSame
<1>7. ASSUME NEW w \in Workers, BorrowFails(w)
      PROVE  Backed(a)'
  <2>1. CallStep(w) /\ call'[w].pc \in {"storeErr", "idle"}
    BY <1>7, FailEffect
  <2>2. call[w].pc \in {"borrow", "cover"} /\ UNCHANGED <<lease, snap, charged>>
    BY <1>7 DEF BorrowFails, Borrowing
  <2>3. {call[w].pc, call'[w].pc} \cap {"credit", "coverCredit"} = {}
    BY <2>1, <2>2
  <2>4. CASE UNCHANGED <<bucket, borrowed, lost>>
    BY <2>1, <2>2, <2>3, <2>4, CarriesOn, BackedSame
  <2>5. ASSUME NEW got \in Amount, borrowed' = Plus(borrowed, got), lost' = Plus(lost, got)
        PROVE  Backed(a)'
    <3>1. Carried(w) = Zero /\ Carried(w)' = Zero
      BY <2>1, <2>2 DEF Carried
    <3>2. /\ borrowed'[a] = borrowed[a] + got[a] /\ lost'[a] = lost[a] + got[a]
          /\ got[a] \in Nat
      BY <2>5 DEF Plus, Amount
    <3>3. LeaseStep(PodOf[w])
      BY <1>0, <2>2 DEF LeaseStep, TypeOK
    <3>4. lease'[PodOf[w]].bal[a] + Carried(w)'[a] + charged'[a] + lost'[a] + borrowed[a]
            = lease[PodOf[w]].bal[a] + Carried(w)[a] + charged[a] + lost[a] + borrowed'[a]
      BY <1>0, <1>000, <2>2, <3>1, <3>2
    <3> QED BY <1>0, <1>00, <2>1, <2>2, <3>3, <3>4, BackedMove
  <2> QED BY <1>7, <2>4, <2>5, FailEffect
<1>8. ASSUME NEW w \in Workers, CreditLease(w)
      PROVE  Backed(a)'
  <2>1. /\ LeaseStep(PodOf[w]) /\ CallStep(w)
        /\ lease'[PodOf[w]].bal[a] + lost'[a]
             = lease[PodOf[w]].bal[a] + lost[a] + call[w].got[a]
        /\ call'[w].pc \in {"redebit", "apply"}
    BY <1>0, <1>8, CreditEffect
  <2>2. /\ call[w].pc \in {"credit", "coverCredit"}
        /\ UNCHANGED <<snap, charged, borrowed>>
    BY <1>8 DEF CreditLease
  <2>3. Carried(w) = call[w].got /\ Carried(w)' = Zero
    BY <2>1, <2>2 DEF Carried
  <2>4. Carried(w)[a] \in Nat
    BY <1>0, CarriedType DEF Amount
  <2>5. lease'[PodOf[w]].bal[a] + Carried(w)'[a] + charged'[a] + lost'[a] + borrowed[a]
          = lease[PodOf[w]].bal[a] + Carried(w)[a] + charged[a] + lost[a] + borrowed'[a]
    <3>1. Carried(w)'[a] = 0 /\ Carried(w)[a] = call[w].got[a]
      BY <2>3 DEF Zero
    <3>2. charged'[a] = charged[a] /\ borrowed'[a] = borrowed[a] /\ PodOf[w] \in Pods
      BY <1>0, <2>2
    <3> QED BY <1>000, <2>1, <2>4, <3>1, <3>2
  <2> QED BY <1>0, <1>00, <2>1, <2>2, <2>5, BackedMove
<1>9. ASSUME NEW w \in Workers, DenySet(w)
      PROVE  Backed(a)'
  <2>1. CallStep(w) /\ call'[w] = Idle
    BY <1>0, <1>9, CallSet DEF DenySet
  <2>2. call[w].pc = "denySet" /\ UNCHANGED <<lease, shutdown, ledger>>
    BY <1>9 DEF DenySet
  <2>3. {call[w].pc, call'[w].pc} \cap {"credit", "coverCredit"} = {}
    BY <2>1, <2>2, Distinct
  <2> QED BY <2>1, <2>2, <2>3, CarriesOn, BackedSame
<1>10. ASSUME NEW w \in Workers, NEW id \in Ids, SettleUnknown(w, id)
       PROVE  Backed(a)'
  BY <1>1, <1>10 DEF SettleUnknown
<1>11. ASSUME NEW w \in Workers, NEW id \in Ids, NEW n \in Actuals, SettleLocal(w, id, n)
       PROVE  Backed(a)'
  <2>1. /\ LeaseStep(PodOf[w]) /\ CallStep(w)
        /\ lease'[PodOf[w]].bal[a] + charged'[a] + lost'[a]
             = lease[PodOf[w]].bal[a] + charged[a] + lost[a]
        /\ \E over \in Amount : call'[w] = AfterSettle(id, over)
    BY <1>0, <1>11, SettleEffect
  <2>2. call[w] = Idle /\ UNCHANGED <<snap, borrowed>>
    BY <1>11 DEF SettleLocal
  <2>3. Carried(w) = Zero /\ Carried(w)' = Zero
    BY <2>1, <2>2, AfterFacts, Distinct DEF Carried
  <2>4. lease'[PodOf[w]].bal[a] + Carried(w)'[a] + charged'[a] + lost'[a] + borrowed[a]
          = lease[PodOf[w]].bal[a] + Carried(w)[a] + charged[a] + lost[a] + borrowed'[a]
    BY <1>0, <1>000, <2>1, <2>2, <2>3
  <2> QED BY <1>0, <1>00, <2>1, <2>2, <2>4, BackedMove
<1>12. ASSUME NEW w \in Workers, NEW id \in Ids, SettleAgain(w, id)
       PROVE  Backed(a)'
  <2> DEFINE over == Live(PodOf[w])[id].over
  <2>1. /\ call[w] = Idle /\ UNCHANGED <<lease, shutdown, ledger>>
        /\ Goto(w, AfterSettle(id, over)) /\ Live(PodOf[w])[id] # NoRes
    BY <1>12 DEF SettleAgain
  <2>2. over \in Amount
    <3>1. Live(PodOf[w]) \in [Ids -> Reservation \union {NoRes}]
      BY <1>0, LiveFacts
    <3> QED BY <2>1, <3>1 DEF Reservation, Amount
  <2> HIDE DEF over
  <2>3. CallStep(w) /\ call'[w] = AfterSettle(id, over)
    BY <1>0, <2>1, <2>2, AfterFacts, CallSet
  <2>4. {call[w].pc, call'[w].pc} \cap {"credit", "coverCredit"} = {}
    BY <2>1, <2>2, <2>3, AfterFacts, Distinct
  <2> QED BY <2>1, <2>3, <2>4, CarriesOn, BackedSame
<1>13. ASSUME NEW w \in Workers, ApplyDeficit(w)
       PROVE  Backed(a)'
  <2>1. call[w].pc = "apply" /\ UNCHANGED <<snap, borrowed>>
    BY <1>13 DEF ApplyDeficit
  <2>2. a \notin Tokens
    BY <2>1
  <2>3. /\ LeaseStep(PodOf[w]) /\ CallStep(w) /\ call'[w] = Idle
        /\ lease'[PodOf[w]].bal[a] + charged'[a] + lost'[a]
             = lease[PodOf[w]].bal[a] + charged[a] + lost[a]
    BY <1>0, <1>13, <2>2, ApplyEffect
  <2>4. Carried(w) = Zero /\ Carried(w)' = Zero
    BY <2>1, <2>3, Distinct DEF Carried
  <2>5. lease'[PodOf[w]].bal[a] + Carried(w)'[a] + charged'[a] + lost'[a] + borrowed[a]
          = lease[PodOf[w]].bal[a] + Carried(w)[a] + charged[a] + lost[a] + borrowed'[a]
    BY <1>0, <1>000, <2>1, <2>3, <2>4
  <2> QED BY <1>0, <1>00, <2>1, <2>3, <2>5, BackedMove
<1>14. ASSUME NEW w \in Workers, NEW id \in Ids, RefundLocal(w, id)
       PROVE  Backed(a)'
  <2>1. /\ LeaseStep(PodOf[w]) /\ CallStep(w) /\ call'[w] = Idle
        /\ lease'[PodOf[w]].bal[a] + charged'[a] + lost'[a]
             = lease[PodOf[w]].bal[a] + charged[a] + lost[a]
    BY <1>0, <1>14, RefundEffect
  <2>2. call[w] = Idle /\ UNCHANGED <<snap, borrowed>>
    BY <1>14 DEF RefundLocal
  <2>3. Carried(w) = Zero /\ Carried(w)' = Zero
    BY <2>1, <2>2, Distinct DEF Carried
  <2>4. lease'[PodOf[w]].bal[a] + Carried(w)'[a] + charged'[a] + lost'[a] + borrowed[a]
          = lease[PodOf[w]].bal[a] + Carried(w)[a] + charged[a] + lost[a] + borrowed'[a]
    BY <1>0, <1>000, <2>1, <2>2, <2>3
  <2> QED BY <1>0, <1>00, <2>1, <2>2, <2>4, BackedMove
<1>15. ASSUME NEW p \in Pods, CloseSnapshot(p)
       PROVE  Backed(a)'
  <2>1. /\ ~closing[p] /\ UNCHANGED <<call, ledger>>
        /\ snap' = [snap EXCEPT ![p] = LeaseOf(p).bal]
        /\ lease' = IF LeaseAlive(p) THEN [lease EXCEPT ![p].bal = Zero] ELSE lease
    BY <1>15 DEF CloseSnapshot
  <2>2. snap[p] = Zero
    BY <2>1 DEF OpenEmpty
  <2>3. LeaseOf(p).bal \in Amount /\ LeaseOf(p).bal[a] \in Nat
    BY <1>0, LeaseFacts DEF Amount
  <2>4. InSnaps(a)' = InSnaps(a) + LeaseOf(p).bal[a] - snap[p][a]
    BY <1>0, <2>1, <2>3, SnapMoves
  <2>5. LeaseStep(p)
    BY <1>0, <1>00, <2>1 DEF LeaseStep, TypeOK
  <2>6. InLeases(a)' = InLeases(a) + lease'[p].bal[a] - lease[p].bal[a]
    BY <1>0, <2>5, LeaseMoves
  <2>7. lease'[p].bal[a] + LeaseOf(p).bal[a] = lease[p].bal[a]
    <3>1. CASE LeaseAlive(p)
      BY <1>0, <1>000, <2>1, <3>1 DEF LeaseOf, TypeOK
    <3>2. CASE ~LeaseAlive(p)
      BY <1>000, <2>1, <3>2 DEF LeaseOf, NoLease
    <3> QED BY <3>1, <3>2
  <2>8. InCalls(a)' = InCalls(a)
    BY <2>1 DEF InCalls, Carried
  <2>9. InLeases(a) \in Nat /\ InSnaps(a) \in Nat /\ InCalls(a) \in Nat
    BY <1>0, PartsType
  <2>10. InLeases(a)' + InSnaps(a)' + InCalls(a)' = InLeases(a) + InSnaps(a) + InCalls(a)
    BY <1>000, <2>2, <2>3, <2>4, <2>6, <2>7, <2>8, <2>9
  <2>11. Held'[a] = Held[a]
    BY <2>10, HeldParts
  <2> QED BY <2>1, <2>11 DEF Backed
<1>16. ASSUME NEW p \in Pods, CloseReturn(p)
       PROVE  Backed(a)'
  <2>1. UNCHANGED <<lease, call, charged>> /\ snap' = [snap EXCEPT ![p] = Zero]
    BY <1>16 DEF CloseReturn
  <2>2. InLeases(a)' = InLeases(a) /\ InCalls(a)' = InCalls(a)
    BY <2>1 DEF InLeases, InCalls, Carried
  <2>3. Zero \in Amount
    BY DEF Zero, Amount
  <2>4. InSnaps(a)' = InSnaps(a) + Zero[a] - snap[p][a]
    BY <1>0, <2>1, <2>3, SnapMoves
  <2>5. InLeases(a) \in Nat /\ InSnaps(a) \in Nat /\ InCalls(a) \in Nat
    BY <1>0, PartsType
  <2>6. borrowed'[a] - lost'[a] = borrowed[a] - lost[a] - snap[p][a]
    <3>1. CASE borrowed' = Minus(borrowed, snap[p]) /\ UNCHANGED lost
      BY <1>000, <3>1 DEF Minus
    <3>2. CASE lost' = Plus(lost, snap[p]) /\ UNCHANGED borrowed
      BY <1>000, <3>2 DEF Plus
    <3> QED BY <1>16, <3>1, <3>2 DEF CloseReturn
  <2>7. Held'[a] = Held[a] - snap[p][a] /\ Held[a] \in Nat
    BY <1>000, <2>2, <2>4, <2>5, HeldParts
  <2> QED BY <1>000, <2>1, <2>6, <2>7 DEF Backed
<1>17. ASSUME NEW p \in Pods, Crash(p)
       PROVE  Backed(a)'
  <2> DEFINE gone == SumOver({w \in Workers : PodOf[w] = p}, [w \in Workers |-> Carried(w)])
  <2>1. /\ UNCHANGED <<borrowed, charged>>
        /\ lease' = [lease EXCEPT ![p] = NoLease]
        /\ call' = [w \in Workers |-> IF PodOf[w] = p THEN Idle ELSE call[w]]
        /\ snap' = [snap EXCEPT ![p] = Zero]
        /\ lost' = Plus(Plus(Plus(lost, lease[p].bal), snap[p]), gone)
    BY <1>17 DEF Crash
  <2>2. gone \in Amount
    BY <1>0, CarriedSum
  <2>3. InCalls(a)' = InCalls(a) - gone[a]
    BY <1>0, <2>1, CarriedDies
  <2> HIDE DEF gone
  <2>4. Zero \in Amount
    BY DEF Zero, Amount
  <2>5. InSnaps(a)' = InSnaps(a) + Zero[a] - snap[p][a]
    BY <1>0, <2>1, <2>4, SnapMoves
  <2>6. LeaseStep(p) /\ lease'[p].bal = Zero
    BY <1>0, <1>00, <2>1 DEF LeaseStep, TypeOK, NoLease
  <2>7. InLeases(a)' = InLeases(a) + lease'[p].bal[a] - lease[p].bal[a]
    BY <1>0, <2>6, LeaseMoves
  <2>8. InLeases(a) \in Nat /\ InSnaps(a) \in Nat /\ InCalls(a) \in Nat /\ gone[a] \in Nat
    BY <1>0, <2>2, PartsType DEF Amount
  <2>9. lost'[a] = lost[a] + lease[p].bal[a] + snap[p][a] + gone[a]
    BY <2>1 DEF Plus
  <2>10. Held'[a] = Held[a] - lease[p].bal[a] - snap[p][a] - gone[a] /\ Held[a] \in Nat
    <3>1. lease'[p].bal[a] = 0
      BY <1>000, <2>6
    <3> QED BY <1>000, <2>3, <2>5, <2>7, <2>8, <3>1, HeldParts
  <2> QED BY <1>000, <2>1, <2>8, <2>9, <2>10 DEF Backed
<1>18. CASE Tick
  BY <1>1, <1>18 DEF Tick
<1>19. ASSUME NEW w \in Workers, DenyHit(w)
       PROVE  Backed(a)'
  BY <1>2, <1>19 DEF DenyHit
<1> QED BY <1>2, <1>3, <1>4, <1>5, <1>6, <1>7, <1>8, <1>9, <1>10, <1>11, <1>12, <1>13,
           <1>14, <1>15, <1>16, <1>17, <1>18, <1>19 DEF Next

\* At first nothing is borrowed and nothing held.
LEMMA InitBacked ==
  ASSUME Init, NEW a \in Axes
  PROVE  Backed(a)
<1>1. IsFiniteSet(Pods) /\ IsFiniteSet(Workers)
  BY FastPathAssumption
<1> DEFINE l == [p \in Pods |-> lease[p].bal[a]]
           s == [p \in Pods |-> snap[p][a]]
           c == [w \in Workers |-> Carried(w)[a]]
<1>2. (\A p \in Pods : l[p] = 0) /\ (\A p \in Pods : s[p] = 0)
  BY DEF Init, NoLease, Zero
<1>3. \A w \in Workers : c[w] = 0
  BY Distinct DEF Init, Carried, Zero
<1>4. /\ InLeases(a) = SumFunctionOnSet(l, Pods) /\ InSnaps(a) = SumFunctionOnSet(s, Pods)
      /\ InCalls(a) = SumFunctionOnSet(c, Workers)
  <2>1. [p \in Pods |-> [q \in Pods |-> lease[q].bal][p][a]] = l
    OBVIOUS
  <2>2. [w \in Workers |-> [v \in Workers |-> Carried(v)][w][a]] = c
    OBVIOUS
  <2> QED BY <2>1, <2>2 DEF InLeases, InSnaps, InCalls, SumOver
<1> HIDE DEF l, s, c
<1>5. InLeases(a) = 0 /\ InSnaps(a) = 0 /\ InCalls(a) = 0
  BY <1>1, <1>2, <1>3, <1>4, SumZero
<1>6. Held[a] = 0
  BY <1>5, HeldParts
<1> QED BY <1>6 DEF Init, Backed, Zero

\* Close overwrites no credits: it runs once in the life of a process.
LEMMA OpenStep ==
  ASSUME Inv, OpenEmpty, [Next]_vars
  PROVE  OpenEmpty'
<1> USE DEF pools, shutdown
<1>0. snap \in [Pods -> [Axes -> Nat]] /\ closing \in [Pods -> BOOLEAN]
  BY DEF Inv, TypeOK
<1>1. CASE UNCHANGED shutdown
  BY <1>1 DEF OpenEmpty
<1>2. ASSUME NEW p \in Pods, CloseSnapshot(p) \/ CloseReturn(p) \/ Crash(p)
      PROVE  OpenEmpty'
  <2>1. CASE CloseSnapshot(p)
    <3>1. /\ closing' = [closing EXCEPT ![p] = TRUE]
          /\ snap' = [snap EXCEPT ![p] = LeaseOf(p).bal]
      BY <2>1 DEF CloseSnapshot
    <3> QED BY <1>0, <3>1 DEF OpenEmpty
  <2>2. CASE CloseReturn(p)
    <3>1. snap' = [snap EXCEPT ![p] = Zero] /\ UNCHANGED closing
      BY <2>2 DEF CloseReturn
    <3> QED BY <1>0, <3>1 DEF OpenEmpty
  <2>3. CASE Crash(p)
    <3>1. snap' = [snap EXCEPT ![p] = Zero] /\ closing' = [closing EXCEPT ![p] = FALSE]
      BY <2>3 DEF Crash
    <3> QED BY <1>0, <3>1 DEF OpenEmpty
  <2> QED BY <1>2, <2>1, <2>2, <2>3
<1>3. ASSUME NEW w \in Workers,
             \/ DenyHit(w) \/ BorrowGranted(w) \/ BorrowDenied(w) \/ BorrowFails(w)
             \/ CreditLease(w) \/ DenySet(w) \/ ApplyDeficit(w)
             \/ FirstDebit(w) \/ SecondDebit(w) \/ StoreErr(w)
      PROVE  UNCHANGED shutdown
  BY <1>3 DEF DenyHit, BorrowGranted, BorrowDenied, BorrowFails, CreditLease, DenySet,
              ApplyDeficit, FirstDebit, SecondDebit, StoreErr, TryDebit, vars
<1>4. ASSUME NEW w \in Workers, NEW id \in Ids,
             \/ SettleUnknown(w, id) \/ SettleAgain(w, id) \/ RefundLocal(w, id)
             \/ \E c \in Costs : CheckStart(w, c, id)
             \/ \E n \in Actuals : SettleLocal(w, id, n)
      PROVE  UNCHANGED shutdown
  BY <1>4 DEF SettleUnknown, SettleAgain, RefundLocal, CheckStart, SettleLocal
<1> QED BY <1>1, <1>2, <1>3, <1>4 DEF Next, Tick, vars

\* Every request token the store granted is in one place, whatever is settled: in
\* a lease, on its way to or from one, charged, or lost with an expired lease, a
\* crash or a failed call.
THEOREM RequestsAreBacked == Spec => []RequestsBacked
<1> DEFINE I == Inv /\ OpenEmpty /\ RequestsBacked
<1>1. Init => I
  <2> SUFFICES ASSUME Init
               PROVE  OpenEmpty /\ RequestsBacked
    BY InvInit
  <2>1. OpenEmpty
    BY DEF Init, OpenEmpty
  <2>2. Backed("rpm")
    BY LimitFacts, InitBacked
  <2> QED BY <2>1, <2>2 DEF RequestsBacked
<1>2. I /\ [Next]_vars => I'
  <2> SUFFICES ASSUME I, [Next]_vars
               PROVE  I'
    OBVIOUS
  <2>1. Backed("rpm")'
    BY LimitFacts, BackedStep DEF RequestsBacked
  <2> QED BY <2>1, InvStep, OpenStep DEF RequestsBacked
<1>3. I => RequestsBacked
  OBVIOUS
<1> QED BY <1>1, <1>2, <1>3, PTL DEF Spec

-----------------------------------------------------------------------------
(* The store lends no more than the limits allow. *)

LoansBounded(a) ==
  Refill(bucket[a], Limits[a], clock).tokens + borrowed[a] * Period
    <= Limits[a] * (Period + clock - 1)

\* A loan, a return and a tick of the clock keep the loans within the limit.
LEMMA LoansMove ==
  ASSUME Inv, TypeOK', NEW a \in Axes, LoansBounded(a),
         \/ UNCHANGED <<bucket, clock, borrowed>>
         \/ /\ clock' = clock
            /\ \E got : /\ StoreStep(bucket', got) /\ got[a] \in Int
                        /\ borrowed'[a] = borrowed[a] + got[a]
         \/ UNCHANGED <<bucket, borrowed>> /\ clock' = clock + 1
  PROVE  LoansBounded(a)'
<1> DEFINE M == Limits[a]
           b == bucket[a]
           r == Refill(b, M, clock)
<1>1. /\ M \in Nat /\ b \in BucketType /\ b.tokens <= M * Period
      /\ clock \in Nat \ {0} /\ borrowed[a] \in Int /\ borrowed'[a] \in Int
  BY LimitFacts DEF Inv, TypeOK, Bounded, BucketType
<1>2. Period \in Nat \ {0}
  BY PeriodAssumption
<1>3. r.tokens \in Nat /\ Refill(b, M, clock + 1).tokens <= r.tokens + M
  BY <1>1, RefillOverTime
<1>4. Refill(b, M, clock + 1).tokens \in Nat
  <2>1. clock + 1 \in Nat \ {0} /\ M <= M
    BY <1>1
  <2>2. Refill(b, M, clock + 1) \in BucketType
    BY <1>1, <2>1, RefillFacts
  <2> QED BY <2>2 DEF BucketType
<1>5. r.tokens + borrowed[a] * Period <= M * (Period + clock - 1)
  BY DEF LoansBounded
<1>6. CASE UNCHANGED <<bucket, clock, borrowed>>
  BY <1>5, <1>6 DEF LoansBounded
<1>7. CASE UNCHANGED <<bucket, borrowed>> /\ clock' = clock + 1
  <2>1. M * (Period + (clock + 1) - 1) = M * (Period + clock - 1) + M
    BY <1>1, <1>2
  <2>2. borrowed[a] * Period \in Int /\ M * (Period + clock - 1) \in Int
    BY <1>1, <1>2
  <2> HIDE DEF r, M, b
  <2>3. Refill(b, M, clock + 1).tokens + borrowed[a] * Period
          <= M * (Period + (clock + 1) - 1)
    BY <1>1, <1>3, <1>4, <1>5, <2>1, <2>2
  <2> QED BY <1>7, <2>3 DEF LoansBounded, M, b
<1>8. ASSUME clock' = clock, NEW got, StoreStep(bucket', got), got[a] \in Int,
             borrowed'[a] = borrowed[a] + got[a]
      PROVE  LoansBounded(a)'
  <2> DEFINE c == bucket'[a]
  <2>1. CASE AxisStep(b, c, M, clock, got[a])
    <3>1. /\ c \in BucketType /\ c.last = clock /\ c.tokens <= M * Period
          /\ c.tokens + got[a] * Period <= r.tokens
      BY <2>1 DEF AxisStep
    <3>2. Refill(c, M, clock).tokens = c.tokens
      BY <1>1, <3>1, RefillAtOnce
    <3>3. borrowed'[a] * Period = borrowed[a] * Period + got[a] * Period
      BY <1>1, <1>2, <1>8
    <3>4. /\ borrowed[a] * Period \in Int /\ got[a] * Period \in Int
          /\ M * (Period + clock - 1) \in Int /\ c.tokens \in Int
      BY <1>1, <1>2, <1>8, <3>1 DEF BucketType
    <3> HIDE DEF r, M, b, c
    <3>5. c.tokens + borrowed'[a] * Period <= M * (Period + clock - 1)
      BY <1>3, <1>5, <3>1, <3>3, <3>4
    <3> QED BY <1>8, <3>2, <3>5 DEF LoansBounded, M, c
  <2>2. CASE c = b /\ got[a] <= 0
    <3>1. borrowed'[a] * Period <= borrowed[a] * Period
      <4>1. borrowed'[a] <= borrowed[a]
        BY <1>1, <1>8, <2>2
      <4> HIDE DEF M, b, c
      <4> QED BY <1>1, <1>2, <4>1
    <3>2. /\ borrowed[a] * Period \in Int /\ borrowed'[a] * Period \in Int
          /\ M * (Period + clock - 1) \in Int
      BY <1>1, <1>2
    <3> HIDE DEF r, M, b, c
    <3>3. r.tokens + borrowed'[a] * Period <= M * (Period + clock - 1)
      BY <1>3, <1>5, <3>1, <3>2
    <3> QED BY <1>8, <2>2, <3>3 DEF LoansBounded, r, M, b, c
  <2> QED BY <1>8, <2>1, <2>2 DEF StoreStep
<1> QED BY <1>6, <1>7, <1>8

\* Every step keeps the loans within the limit.
LEMMA LoansStep ==
  ASSUME Inv, [Next]_vars, NEW a \in Axes, LoansBounded(a)
  PROVE  LoansBounded(a)'
<1> USE DEF ledger
<1>1. TypeOK'
  BY InvStep DEF Inv
<1>2. borrowed[a] \in Int
  BY DEF Inv, TypeOK
<1>3. CASE UNCHANGED <<bucket, clock, borrowed>>
  BY <1>1, <1>3, LoansMove
<1>4. CASE Tick
  BY <1>1, <1>4, LoansMove DEF Tick
<1>5. ASSUME NEW w \in Workers, BorrowGranted(w)
      PROVE  LoansBounded(a)'
  <2> DEFINE got == BorrowGot(bucket, Limits, SpecOf(w), clock)
  <2>1. StoreStep(bucket', got) /\ got \in Amount /\ borrowed' = Plus(borrowed, got)
    BY <1>5, GrantEffect
  <2>2. clock' = clock
    BY <1>5 DEF BorrowGranted
  <2> HIDE DEF got
  <2>3. got[a] \in Int /\ borrowed'[a] = borrowed[a] + got[a]
    BY <2>1 DEF Amount, Plus
  <2> QED BY <1>1, <2>1, <2>2, <2>3, LoansMove
<1>6. ASSUME NEW w \in Workers, BorrowFails(w)
      PROVE  LoansBounded(a)'
  <2>1. clock' = clock
    BY <1>6 DEF BorrowFails
  <2>2. ASSUME NEW got \in Amount, StoreStep(bucket', got), borrowed' = Plus(borrowed, got)
        PROVE  LoansBounded(a)'
    <3>1. got[a] \in Int /\ borrowed'[a] = borrowed[a] + got[a]
      BY <2>2 DEF Amount, Plus
    <3> QED BY <1>1, <2>1, <2>2, <3>1, LoansMove
  <2> QED BY <1>3, <1>6, <2>1, <2>2, FailEffect
<1>7. ASSUME NEW p \in Pods, CloseReturn(p)
      PROVE  LoansBounded(a)'
  <2> DEFINE got == [x \in Axes |-> -snap[p][x]]
  <2>1. clock' = clock
    BY <1>7 DEF CloseReturn
  <2>2. snap[p] \in Amount /\ snap[p][a] \in Nat
    BY DEF Inv, TypeOK, Amount
  <2>3. CASE /\ bucket' = CreditSave(bucket, Limits, snap[p], clock)
             /\ borrowed' = Minus(borrowed, snap[p])
    <3>1. StoreStep(bucket', got)
      BY <2>2, <2>3, ReturnEffect DEF Inv
    <3>2. got[a] \in Int /\ borrowed'[a] = borrowed[a] + got[a]
      BY <1>2, <2>2, <2>3 DEF Minus
    <3> HIDE DEF got
    <3> QED BY <1>1, <2>1, <3>1, <3>2, LoansMove
  <2> QED BY <1>3, <1>7, <2>1, <2>3 DEF CloseReturn
<1>8. ASSUME NEW p \in Pods, CloseSnapshot(p) \/ Crash(p)
      PROVE  UNCHANGED <<bucket, clock, borrowed>>
  BY <1>8 DEF CloseSnapshot, Crash
<1>9. ASSUME NEW w \in Workers,
             \/ DenyHit(w) \/ BorrowDenied(w) \/ CreditLease(w) \/ DenySet(w)
             \/ ApplyDeficit(w) \/ FirstDebit(w) \/ SecondDebit(w) \/ StoreErr(w)
      PROVE  UNCHANGED <<bucket, clock, borrowed>>
  BY <1>9 DEF DenyHit, BorrowDenied, CreditLease, DenySet, ApplyDeficit, FirstDebit,
              SecondDebit, StoreErr, TryDebit, vars
<1>10. ASSUME NEW w \in Workers, NEW id \in Ids,
             \/ SettleUnknown(w, id) \/ SettleAgain(w, id) \/ RefundLocal(w, id)
             \/ \E c \in Costs : CheckStart(w, c, id)
             \/ \E n \in Actuals : SettleLocal(w, id, n)
       PROVE  UNCHANGED <<bucket, clock, borrowed>>
  BY <1>10 DEF SettleUnknown, SettleAgain, RefundLocal, CheckStart, SettleLocal
<1>11. CASE UNCHANGED vars
  BY <1>3, <1>11 DEF vars
<1> QED BY <1>3, <1>4, <1>5, <1>6, <1>7, <1>8, <1>9, <1>10, <1>11 DEF Next

\* At first nothing is lent and the buckets are full.
LEMMA LoansInit ==
  ASSUME Init, NEW a \in Axes
  PROVE  LoansBounded(a)
<1>1. Limits[a] \in Nat /\ Period \in Nat \ {0}
  BY LimitFacts, PeriodAssumption
<1>2. Refill(Cold, Limits[a], 1).tokens <= Limits[a] * Period
  BY <1>1 DEF Refill, Cold
<1>3. Limits[a] * (Period + 1 - 1) = Limits[a] * Period /\ 0 * Period = 0
  BY <1>1
<1>4. Refill(Cold, Limits[a], 1).tokens \in Int
  BY <1>1 DEF Refill, Cold
<1> QED BY <1>2, <1>3, <1>4 DEF Init, LoansBounded, Zero

\* What is backed was lent, and what was lent is within the limit.
LEMMA ChargeBounded ==
  ASSUME Inv, NEW a \in Axes, Backed(a), LoansBounded(a)
  PROVE  charged[a] * Period <= Limits[a] * (Period + clock - 1)
<1>1. TypeOK
  BY DEF Inv
<1>2. InLeases(a) \in Nat /\ InSnaps(a) \in Nat /\ InCalls(a) \in Nat
  BY <1>1, PartsType
<1>3. charged[a] \in Nat /\ lost[a] \in Nat /\ clock \in Nat \ {0}
  BY <1>1 DEF TypeOK
<1>4. charged[a] <= borrowed[a] /\ borrowed[a] \in Nat
  BY <1>2, <1>3, HeldParts DEF Backed
<1>5. charged[a] * Period <= borrowed[a] * Period
  BY <1>3, <1>4, PeriodAssumption, TimesMonotone
<1>6. Refill(bucket[a], Limits[a], clock).tokens \in Nat
  BY <1>1, <1>3, LimitFacts, RefillOverTime DEF Inv, Bounded, TypeOK, BucketType
<1>7. /\ charged[a] * Period \in Int /\ borrowed[a] * Period \in Int
      /\ Limits[a] * (Period + clock - 1) \in Int
  BY <1>3, <1>4, LimitFacts, PeriodAssumption
<1> QED BY <1>5, <1>6, <1>7 DEF LoansBounded

\* The provider's promise for requests: those charged in all pods together are at
\* most a full bucket and what has been refilled since, whatever is settled.
THEOREM RequestsAllowed ==
  Spec => [](charged["rpm"] * Period <= Limits["rpm"] * (Period + clock - 1))
<1> DEFINE I == Inv /\ OpenEmpty /\ Backed("rpm") /\ LoansBounded("rpm")
<1>1. Init => I
  <2> SUFFICES ASSUME Init
               PROVE  I
    OBVIOUS
  <2>1. OpenEmpty
    BY DEF Init, OpenEmpty
  <2> QED BY <2>1, LimitFacts, InvInit, InitBacked, LoansInit
<1>2. I /\ [Next]_vars => I'
  <2> SUFFICES ASSUME I, [Next]_vars
               PROVE  I'
    OBVIOUS
  <2>1. Backed("rpm")' /\ LoansBounded("rpm")'
    BY LimitFacts, BackedStep, LoansStep
  <2> QED BY <2>1, InvStep, OpenStep
<1>3. I => charged["rpm"] * Period <= Limits["rpm"] * (Period + clock - 1)
  BY LimitFacts, ChargeBounded
<1> QED BY <1>1, <1>2, <1>3, PTL DEF Spec

-----------------------------------------------------------------------------
(* Tokens, when no caller uses more than it reserved. *)

\* Every Settle reports at most what the Check estimated.
NoOvershoot == \A c \in Costs, n \in Actuals : \A a \in Tokens : n[a] <= c[a]

\* Then every reservation holds a cost of Costs and no overshoot, and no handler
\* covers one.
Frugal ==
  /\ \A w \in Workers :
       /\ call[w].pc \notin SettlePcs
       /\ call[w].pc \in CheckPcs => \E c \in Costs : call[w].amount = OnUsed(c)
  /\ \A p \in Pods, id \in Ids : res[p][id] # NoRes =>
       /\ \E c \in Costs : res[p][id].cost = OnUsed(c)
       /\ \A a \in Axes : res[p][id].over[a] = 0

\* Steps that store no reservation.
LEMMA FrugalFade ==
  ASSUME TypeOK, Frugal, ResFades, \A v \in Workers : Onward(v)
  PROVE  Frugal'
<1>1. ASSUME NEW w \in Workers
      PROVE  /\ call'[w].pc \notin SettlePcs
             /\ call'[w].pc \in CheckPcs => \E c \in Costs : call'[w].amount = OnUsed(c)
  <2>1. CASE call'[w] = Idle
    BY <2>1, Distinct DEF SettlePcs, CheckPcs
  <2>2. CASE call'[w] # Idle
    BY <2>2 DEF Onward, Frugal
  <2> QED BY <2>1, <2>2
<1>2. ASSUME NEW p \in Pods, NEW id \in Ids, res'[p][id] # NoRes
      PROVE  /\ \E c \in Costs : res'[p][id].cost = OnUsed(c)
             /\ \A a \in Axes : res'[p][id].over[a] = 0
  <2>1. res'[p][id] = res[p][id]
    BY <1>2 DEF ResFades, Kept
  <2> QED BY <1>2, <2>1 DEF Frugal
<1> QED BY <1>1, <1>2 DEF Frugal

\* Steps that change one reservation, to one without overshoot.
LEMMA FrugalSet ==
  ASSUME TypeOK, Frugal, NEW w \in Workers, NEW q \in Pods, NEW i \in Ids, ResStep(q, i),
         \E c \in Costs : res'[q][i].cost = OnUsed(c),
         \A a \in Axes : res'[q][i].over[a] = 0,
         CallStep(w), call'[w] = Idle
  PROVE  Frugal'
<1>1. ASSUME NEW v \in Workers
      PROVE  /\ call'[v].pc \notin SettlePcs
             /\ call'[v].pc \in CheckPcs => \E c \in Costs : call'[v].amount = OnUsed(c)
  <2>1. CASE v = w
    BY <2>1, Distinct DEF SettlePcs, CheckPcs
  <2>2. CASE v # w
    BY <2>2, OthersOnward DEF Frugal
  <2> QED BY <2>1, <2>2
<1>2. ASSUME NEW p \in Pods, NEW id \in Ids, res'[p][id] # NoRes
      PROVE  /\ \E c \in Costs : res'[p][id].cost = OnUsed(c)
             /\ \A a \in Axes : res'[p][id].over[a] = 0
  <2>1. CASE p = q /\ id = i
    BY <2>1
  <2>2. CASE ~(p = q /\ id = i)
    <3>1. res'[p][id] = res[p][id]
      BY <1>2, <2>2 DEF ResStep, Kept
    <3> QED BY <1>2, <3>1 DEF Frugal
  <2> QED BY <2>1, <2>2
<1> QED BY <1>1, <1>2 DEF Frugal

\* A TryDebit stores the cost of its Check.
LEMMA FrugalDebit ==
  ASSUME Inv, Frugal, NEW w \in Workers, call[w].pc \in CheckPcs,
         NEW miss \in Call \union {Idle},
         \/ miss = Idle
         \/ /\ miss.id = call[w].id /\ miss.amount = call[w].amount
            /\ miss.pc \notin SettlePcs,
         TryDebit(w, miss)
  PROVE  Frugal'
<1>1. call[w] # Idle
  BY Distinct DEF CheckPcs
<1>2. PodOf[w] \in Pods /\ call[w].id \in Ids
  BY <1>1, CallFacts DEF Inv
<1>3. /\ CallStep(w)
      /\ \/ Opened(PodOf[w], call[w].id, call[w].amount) /\ call'[w] = Idle
         \/ ResFades /\ call'[w] = miss
  BY DebitEffect DEF Inv, IdInv
<1>4. CASE Opened(PodOf[w], call[w].id, call[w].amount) /\ call'[w] = Idle
  <2>1. \E c \in Costs : call[w].amount = OnUsed(c)
    BY DEF Frugal
  <2>2. /\ ResStep(PodOf[w], call[w].id)
        /\ res'[PodOf[w]][call[w].id].cost = call[w].amount
        /\ \A a \in Axes : res'[PodOf[w]][call[w].id].over[a] = 0
    BY <1>4 DEF Opened, Zero
  <2> QED BY <1>2, <1>3, <1>4, <2>1, <2>2, FrugalSet DEF Inv
<1>5. CASE ResFades /\ call'[w] = miss
  <2>1. Onward(w)
    BY <1>1, <1>5 DEF Onward
  <2> QED BY <1>3, <1>5, <2>1, OthersOnward, FrugalFade DEF Inv
<1> QED BY <1>3, <1>4, <1>5

\* Every step keeps it, if no caller uses more than it reserved.
LEMMA FrugalStep ==
  ASSUME NoOvershoot, Inv, Frugal, [Next]_vars
  PROVE  Frugal'
<1> USE DEF pools
<1>0. TypeOK /\ IdInv /\ PendingCharged /\ PodOf \in [Workers -> Pods]
  BY FastPathAssumption DEF Inv
<1>1. ASSUME UNCHANGED <<res, call>>
      PROVE  Frugal'
  BY <1>1 DEF Frugal
<1>2. ASSUME UNCHANGED res, NEW w \in Workers, CallStep(w), Onward(w)
      PROVE  Frugal'
  <2>1. ResFades
    BY <1>2 DEF ResFades, Kept
  <2> QED BY <1>0, <1>2, <2>1, OthersOnward, FrugalFade
<1>3. ASSUME NEW w \in Workers, FirstDebit(w)
      PROVE  Frugal'
  <2> DEFINE c == [call[w] EXCEPT !.pc = "borrow"]
  <2>1. call[w].pc = "debit" /\ TryDebit(w, c) /\ call[w] # Idle
    BY <1>3, Distinct DEF FirstDebit
  <2>2. call[w] \in Call
    BY <1>0, <2>1, CallFacts
  <2>3. c \in Call /\ c.id = call[w].id /\ c.amount = call[w].amount /\ c.pc = "borrow"
    BY <2>2 DEF Call
  <2> HIDE DEF c
  <2> QED BY <2>1, <2>3, FrugalDebit DEF CheckPcs, SettlePcs
<1>4. ASSUME NEW w \in Workers, SecondDebit(w)
      PROVE  Frugal'
  <2> DEFINE c == [call[w] EXCEPT !.pc = "denySet", !.retry = 1]
  <2>1. call[w].pc = "redebit" /\ TryDebit(w, c) /\ call[w] # Idle
    BY <1>4, Distinct DEF SecondDebit
  <2>2. call[w] \in Call
    BY <1>0, <2>1, CallFacts
  <2>3. c \in Call /\ c.id = call[w].id /\ c.amount = call[w].amount /\ c.pc = "denySet"
    BY <2>2 DEF Call
  <2> HIDE DEF c
  <2> QED BY <2>1, <2>3, FrugalDebit DEF CheckPcs, SettlePcs
<1>5. ASSUME NEW w \in Workers, StoreErr(w)
      PROVE  Frugal'
  <2>1. CASE TryDebit(w, Idle)
    BY <1>5, <2>1, FrugalDebit DEF StoreErr, CheckPcs
  <2>2. CASE Goto(w, Idle) /\ UNCHANGED res
    <3>1. CallStep(w) /\ Onward(w)
      BY <1>0, <2>2, CallSet DEF Onward
    <3> QED BY <1>2, <2>2, <3>1
  <2> QED BY <1>5, <2>1, <2>2 DEF StoreErr
<1>6. ASSUME NEW w \in Workers, NEW c \in Costs, NEW id \in Ids, CheckStart(w, c, id)
      PROVE  Frugal'
  <2>1. CallStep(w) /\ call'[w].pc = "debit" /\ call'[w].amount = OnUsed(c)
    BY <1>0, <1>6, IdsStart
  <2>2. UNCHANGED res
    BY <1>6 DEF CheckStart
  <2>3. ASSUME NEW v \in Workers
        PROVE  /\ call'[v].pc \notin SettlePcs
               /\ call'[v].pc \in CheckPcs => \E k \in Costs : call'[v].amount = OnUsed(k)
    <3>1. CASE v = w
      BY <2>1, <3>1 DEF SettlePcs
    <3>2. CASE v # w
      BY <1>0, <2>1, <3>2, OthersOnward DEF Frugal
    <3> QED BY <3>1, <3>2
  <2> QED BY <2>2, <2>3 DEF Frugal
<1>7. ASSUME NEW w \in Workers, BorrowGranted(w) \/ BorrowDenied(w) \/ BorrowFails(w)
      PROVE  Frugal'
  <2>1. CallStep(w) /\ Onward(w)
    BY <1>7, GrantEffect, DenyEffect, FailEffect
  <2>2. UNCHANGED res
    BY <1>7 DEF BorrowGranted, BorrowDenied, BorrowFails
  <2> QED BY <1>2, <2>1, <2>2
<1>8. ASSUME NEW w \in Workers, CreditLease(w)
      PROVE  Frugal'
  <2>1. /\ CallStep(w) /\ UNCHANGED res
        /\ call'[w].id = call[w].id /\ call'[w].amount = call[w].amount
        /\ call'[w].pc = IF call[w].pc = "credit" THEN "redebit" ELSE "apply"
        /\ call[w].pc \in {"credit", "coverCredit"}
    BY <1>0, <1>8, CreditEffect DEF CreditLease
  <2>2. Onward(w)
    BY <2>1, Distinct DEF Onward, CheckPcs, SettlePcs
  <2> QED BY <1>2, <2>1, <2>2
<1>9. ASSUME NEW w \in Workers, DenySet(w)
      PROVE  Frugal'
  <2>1. CallStep(w) /\ Onward(w) /\ UNCHANGED res
    BY <1>0, <1>9, CallSet DEF Onward, DenySet
  <2> QED BY <1>2, <2>1
<1>10. ASSUME NEW w \in Workers, NEW id \in Ids, SettleUnknown(w, id)
       PROVE  Frugal'
  <2>1. res' = [res EXCEPT ![PodOf[w]] = Live(PodOf[w])] /\ UNCHANGED call
    BY <1>10 DEF SettleUnknown
  <2>2. ResFades
    BY <1>0, <2>1, ResPurge
  <2> QED BY <1>0, <2>1, <2>2, StaysOnward, FrugalFade
<1>11. ASSUME NEW w \in Workers, NEW id \in Ids, NEW n \in Actuals, SettleLocal(w, id, n)
       PROVE  Frugal'
  <2> DEFINE p == PodOf[w]
  <2>1. CallStep(w)
    BY <1>0, <1>11, SettleEffect
  <2>2. PICK over \in Amount :
          /\ Closed(p, id, over) /\ call'[w] = AfterSettle(id, over)
          /\ \A a \in Axes : over[a] = 0 \/ (a \in Tokens /\ res[p][id].cost[a] < n[a])
    BY <1>0, <1>11, SettleEffect
  <2>3. /\ ResStep(p, id) /\ res[p][id] # NoRes /\ res'[p][id].over = over
        /\ res'[p][id].cost = res[p][id].cost
    BY <2>2 DEF Closed, Pending
  <2>4. PICK c \in Costs : res[p][id].cost = OnUsed(c)
    BY <1>0, <2>3 DEF Frugal
  <2>5. ASSUME NEW a \in Axes
        PROVE  over[a] = 0
    <3>1. CASE a \in Tokens /\ res[p][id].cost[a] < n[a]
      <4>1. res[p][id].cost[a] = c[a]
        BY <2>4, <3>1, LimitFacts DEF OnUsed
      <4>2. n[a] <= c[a] /\ n[a] \in Nat /\ c[a] \in Nat
        BY <3>1, FastPathAssumption DEF NoOvershoot
      <4> QED BY <3>1, <4>1, <4>2
    <3> QED BY <2>2, <3>1
  <2>6. call'[w] = Idle
    BY <2>2, <2>5 DEF AfterSettle
  <2>7. p \in Pods /\ \E k \in Costs : res'[p][id].cost = OnUsed(k)
    BY <1>0, <2>3, <2>4
  <2>8. \A a \in Axes : res'[p][id].over[a] = 0
    BY <2>3, <2>5
  <2> HIDE DEF p
  <2> QED BY <1>0, <2>1, <2>3, <2>6, <2>7, <2>8, FrugalSet
<1>12. ASSUME NEW w \in Workers, NEW id \in Ids, SettleAgain(w, id)
       PROVE  Frugal'
  <2> DEFINE p == PodOf[w]
             over == Live(p)[id].over
  <2>1. /\ res' = [res EXCEPT ![p] = Live(p)] /\ Goto(w, AfterSettle(id, over))
        /\ Live(p)[id] # NoRes /\ p \in Pods
    BY <1>0, <1>12 DEF SettleAgain
  <2>2. Live(p)[id] = res[p][id]
    BY <1>0, <2>1, LivePending
  <2>3. \A a \in Axes : over[a] = 0
    BY <2>1, <2>2 DEF Frugal
  <2>4. AfterSettle(id, over) = Idle
    <3> HIDE DEF over
    <3> QED BY <2>3 DEF AfterSettle
  <2>5. CallStep(w) /\ Onward(w)
    BY <1>0, <2>1, <2>4, CallSet DEF Onward
  <2>6. ResFades
    BY <1>0, <2>1, ResPurge
  <2> QED BY <1>0, <2>5, <2>6, OthersOnward, FrugalFade
<1>13. ASSUME NEW w \in Workers, ApplyDeficit(w)
       PROVE  Frugal'
  BY <1>13 DEF ApplyDeficit, Frugal, SettlePcs
<1>14. ASSUME NEW w \in Workers, NEW id \in Ids, RefundLocal(w, id)
       PROVE  Frugal'
  <2> DEFINE p == PodOf[w]
  <2>1. CallStep(w) /\ call'[w] = Idle /\ Closed(p, id, res[p][id].over)
    BY <1>0, <1>14, RefundEffect
  <2>2. /\ ResStep(p, id) /\ res[p][id] # NoRes /\ res'[p][id].over = res[p][id].over
        /\ res'[p][id].cost = res[p][id].cost /\ p \in Pods
    BY <1>0, <2>1 DEF Closed, Pending
  <2>3. /\ \E c \in Costs : res'[p][id].cost = OnUsed(c)
        /\ \A a \in Axes : res'[p][id].over[a] = 0
    BY <2>2 DEF Frugal
  <2> HIDE DEF p
  <2> QED BY <1>0, <2>1, <2>2, <2>3, FrugalSet
<1>15. ASSUME NEW p \in Pods, CloseSnapshot(p) \/ CloseReturn(p)
       PROVE  Frugal'
  BY <1>1, <1>15 DEF CloseSnapshot, CloseReturn
<1>16. ASSUME NEW p \in Pods, Crash(p)
       PROVE  Frugal'
  <2>1. /\ call' = [w \in Workers |-> IF PodOf[w] = p THEN Idle ELSE call[w]]
        /\ res' = [res EXCEPT ![p] = [id \in Ids |-> NoRes]]
    BY <1>16 DEF Crash
  <2>2. \A v \in Workers : Onward(v)
    BY <2>1 DEF Onward
  <2>3. ResFades
    BY <1>0, <2>1 DEF TypeOK, ResFades, Kept
  <2> QED BY <1>0, <2>2, <2>3, FrugalFade
<1>17. CASE Tick
  BY <1>1, <1>17 DEF Tick
<1>18. CASE UNCHANGED vars
  BY <1>1, <1>18 DEF vars
<1>19. ASSUME NEW w \in Workers, DenyHit(w)
       PROVE  Frugal'
  BY <1>18, <1>19 DEF DenyHit
<1> QED BY <1>3, <1>4, <1>5, <1>6, <1>7, <1>8, <1>9, <1>10, <1>11, <1>12, <1>13, <1>14,
           <1>15, <1>16, <1>17, <1>18, <1>19 DEF Next

FrugalInv == Inv /\ OpenEmpty /\ Frugal /\ \A a \in Axes : Backed(a) /\ LoansBounded(a)

\* The invariant for all axes is inductive, if no caller uses more than it reserved.
LEMMA FrugalInvInductive ==
  ASSUME NoOvershoot
  PROVE  /\ Init => FrugalInv
         /\ FrugalInv /\ [Next]_vars => FrugalInv'
<1>1. ASSUME Init
      PROVE  FrugalInv
  <2>1. OpenEmpty
    BY <1>1 DEF Init, OpenEmpty
  <2>2. Frugal
    BY <1>1, Distinct DEF Init, Frugal, SettlePcs, CheckPcs
  <2> QED BY <1>1, <2>1, <2>2, InvInit, InitBacked, LoansInit DEF FrugalInv
<1>2. ASSUME FrugalInv, [Next]_vars
      PROVE  FrugalInv'
  <2>1. \A w \in Workers : call[w].pc # "apply"
    BY <1>2 DEF FrugalInv, Frugal, SettlePcs
  <2>2. ASSUME NEW a \in Axes
        PROVE  Backed(a)' /\ LoansBounded(a)'
    BY <1>2, <2>1, BackedStep, LoansStep DEF FrugalInv
  <2> QED BY <1>2, <2>2, InvStep, OpenStep, FrugalStep DEF FrugalInv
<1> QED BY <1>1, <1>2

\* If no caller uses more than it reserved, every token of every kind that the
\* store granted is in one place.  Without the hypothesis it is not so: covering an
\* overshoot credits the loan twice (CreditLease, then ApplyBorrowedDeficit).
THEOREM LeasesAreBacked == ASSUME NoOvershoot PROVE Spec => []LeaseBacked
<1>1. Init => FrugalInv
  BY FrugalInvInductive
<1>2. FrugalInv /\ [Next]_vars => FrugalInv'
  BY FrugalInvInductive
<1>3. FrugalInv => LeaseBacked
  BY DEF FrugalInv, LeaseBacked
<1> QED BY <1>1, <1>2, <1>3, PTL DEF Spec

\* And then all pods together charge callers at most a full bucket and what has
\* been refilled since, on every axis: the promise to the provider.
THEOREM GlobalAllowHolds == ASSUME NoOvershoot PROVE Spec => []GlobalAllow
<1>1. Init => FrugalInv
  BY FrugalInvInductive
<1>2. FrugalInv /\ [Next]_vars => FrugalInv'
  BY FrugalInvInductive
<1>3. FrugalInv => GlobalAllow
  BY LimitFacts, ChargeBounded DEF FrugalInv, GlobalAllow
<1> QED BY <1>1, <1>2, <1>3, PTL DEF Spec
=============================================================================
