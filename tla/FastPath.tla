------------------------------ MODULE FastPath ------------------------------
(***************************************************************************)
(* The fast path of pkg/limiter/limiter.go over pkg/lease: pods that borrow*)
(* chunks of a shared budget from the store into a local lease, admit      *)
(* requests from the lease, remember denials in a cache, and settle or     *)
(* refund reservations locally.                                            *)
(*                                                                         *)
(* A request handler takes the pool's lock, the deny cache's lock and the  *)
(* store in turn and holds none of them in between, so a handler is a      *)
(* sequence of actions, one per locked section or store call, and handlers *)
(* interleave.  Two adjacent sections are one action where the second      *)
(* decides everything anew: GetReservation before SettleLocal and          *)
(* RefundLocal, and Has before TryDebit in onStoreErrFast.                 *)
(*                                                                         *)
(* One (subject, model) key and one set of limits: leases, deny entries    *)
(* and buckets of different keys never meet.  Hit and miss counters, the   *)
(* remaining counts of a decision and failures of the random source are    *)
(* left out.                                                               *)
(***************************************************************************)
EXTENDS StoreOps, FiniteSets, Functions

CONSTANTS
  Pods,         \* processes, each with its own Pool
  Workers,      \* concurrent handlers
  PodOf,        \* the pod a handler runs in
  Limits,       \* the key's limits
  Costs,        \* costs of a Check, already clamped
  Actuals,      \* token counts of a Settle
  Chunk,        \* Config.RPMChunk, TPMChunk, ITPMChunk, OTPMChunk
  Ids,          \* reservation ids
  LeaseTTL,     \* Config.LeaseTTL
  ResTTL,       \* store.ReservationTTL
  FailOpen,     \* per pod: failMode = api.FailOpen
  MaxTime,      \* bound: the clock stops here
  MaxFaults,    \* bound: failed store calls
  MaxCrashes    \* bound: crashes of pods

ASSUME FastPathAssumption ==
  /\ IsFiniteSet(Pods) /\ IsFiniteSet(Workers) /\ IsFiniteSet(Ids)
  /\ PodOf \in [Workers -> Pods]
  /\ Limits \in [Axes -> Nat] /\ Validate(Limits)
  /\ Costs \subseteq [Axes -> Nat]
  /\ Actuals \subseteq [Axes -> Nat]
  /\ Chunk \in [Axes -> Nat \ {0}]
  /\ {LeaseTTL, ResTTL} \subseteq Nat \ {0}
  /\ FailOpen \in [Pods -> BOOLEAN]
  /\ {MaxTime, MaxFaults, MaxCrashes} \subseteq Nat

VARIABLES
  bucket,     \* the store's buckets of the key
  clock,
  lease,      \* per pod: the localBucket
  res,        \* per pod: local reservations
  deny,       \* per pod: the deny cache entry
  call,       \* per handler: where it is and what it carries
  snap,       \* per pod: lease credits Close has taken and not yet returned
  closing,    \* per pod: Close has begun
  faults, crashes,
  \* history, read by no action but to pick fresh ids:
  issued,     \* ids handed out
  borrowed,   \* per axis, tokens granted by the store and not returned to it
  charged,    \* per axis, tokens charged to callers
  lost        \* per axis, tokens borrowed that no pod can spend any more

pools    == <<lease, res, deny>>
ledger   == <<borrowed, charged, lost>>
bounds   == <<faults, crashes>>
shutdown == <<snap, closing>>
vars     == <<bucket, clock, pools, call, shutdown, bounds, issued, ledger>>

Used   == UsedAxes(Split(Limits))
Tokens == TokenAxes(Split(Limits))

Zero == [a \in Axes |-> 0]
Plus(x, y)  == [a \in Axes |-> x[a] + y[a]]
Minus(x, y) == [a \in Axes |-> x[a] - y[a]]
OnTokens(x) == [a \in Axes |-> IF a \in Tokens THEN x[a] ELSE 0]
OnUsed(x)   == [a \in Axes |-> IF a \in Used THEN x[a] ELSE 0]
\* Mutant of Least: takes the whole need, whatever there is.
WholeNeed(x, y) == y

Least(x, y) == [a \in Axes |-> Lesser(x[a], y[a])]

NoRes   == [status |-> "none"]
NoLease == [bal |-> Zero, expires |-> 0]
NoDeny  == [until |-> 0, stale |-> FALSE]

\* A handler at rest, and one at step pc of a Check or a Settle.  `amount' is the
\* cost of a Check or the overshoot a Settle must cover, `got' what Borrow gave,
\* `retry' the wait to cache; `stale' is history: credits were given back to the
\* pod after the store denied this handler.
Step(pc, id, amount, got, retry) ==
  [pc |-> pc, id |-> id, amount |-> amount, got |-> got, retry |-> retry, stale |-> FALSE]
Idle == [pc |-> "idle"]

Goto(w, step) == call' = [call EXCEPT ![w] = step]

\* getLeaseLocked: an expired lease is dropped with its credits; the mutant goes
\* on with it.
LeaseAlive(p) == clock < lease[p].expires
LeaseOfAny(p) == lease[p]
LeaseOf(p)    == IF LeaseAlive(p) THEN lease[p] ELSE NoLease
Dropped(p)    == IF LeaseAlive(p) THEN Zero ELSE lease[p].bal

\* purgeResLocked.
Live(p) ==
  [id \in Ids |-> IF res[p][id] # NoRes /\ clock > res[p][id].expires THEN NoRes
                  ELSE res[p][id]]

\* Pending: neither settled nor refunded; the mutant takes a closed one as well.
PendingAny(r) == r # NoRes
Pending(r)    == r # NoRes /\ r.status = "pending"

\* The account of tokens charged after a reservation is closed: what it was
\* charged changes once, whatever the lease is credited or debited.
Adjusted(r, given, taken) ==
  IF r.status = "pending" THEN Minus(Plus(charged, taken), given) ELSE charged

\* Mutant of Covers: requests are not looked at.
CoversTokens(b, cost) == \A a \in Tokens : b.bal[a] >= cost[a]

Covers(b, cost) == \A a \in Used : b.bal[a] >= cost[a]

\* Sets the pod's lease to the balance, its TTL renewed.
Renew(p, bal) == lease' = [lease EXCEPT ![p] = [bal |-> bal, expires |-> clock + LeaseTTL]]

\* DenyCache.Clear, and the mark it leaves on denials decided before it.
ClearDeny(p) == deny' = [deny EXCEPT ![p] = NoDeny]
MarkStale(p, calls) ==
  [w \in Workers |-> IF PodOf[w] = p /\ calls[w].pc = "denySet"
                     THEN [calls[w] EXCEPT !.stale = TRUE] ELSE calls[w]]

-----------------------------------------------------------------------------
Init ==
  /\ bucket = [a \in Axes |-> Cold]
  /\ clock = 1
  /\ lease = [p \in Pods |-> NoLease]
  /\ res = [p \in Pods |-> [id \in Ids |-> NoRes]]
  /\ deny = [p \in Pods |-> NoDeny]
  /\ call = [w \in Workers |-> Idle]
  /\ snap = [p \in Pods |-> Zero]
  /\ closing = [p \in Pods |-> FALSE]
  /\ faults = 0 /\ crashes = 0
  /\ issued = {}
  /\ borrowed = Zero /\ charged = Zero /\ lost = Zero

(* Check: checkFast. *)

\* Deny().Get finds an entry that has not run out: denied without a debit.
DenyHit(w) ==
  /\ call[w] = Idle /\ ~closing[PodOf[w]]
  /\ clock < deny[PodOf[w]].until
  /\ UNCHANGED vars

\* Deny().Get finds none (one that ran out is deleted); a fresh id is drawn.
CheckStart(w, cost, id) ==
  /\ call[w] = Idle /\ ~closing[PodOf[w]]
  /\ clock >= deny[PodOf[w]].until
  /\ id \notin issued
  /\ issued' = issued \union {id}
  /\ deny' = [deny EXCEPT ![PodOf[w]] = NoDeny]
  /\ Goto(w, Step("debit", id, OnUsed(cost), Zero, 0))
  /\ UNCHANGED <<bucket, clock, lease, res, shutdown, bounds, ledger>>

\* TryDebit, continuing at `miss' when the lease does not cover the cost.
TryDebit(w, miss) ==
  LET p == PodOf[w]
      b == LeaseOf(p)
      cost == call[w].amount
  IN  /\ \/ /\ Covers(b, cost) /\ LeaseAlive(p)
            /\ Renew(p, Minus(b.bal, cost))
            /\ res' = [res EXCEPT ![p] = [Live(p) EXCEPT ![call[w].id] =
                          [cost |-> cost, status |-> "pending",
                           expires |-> clock + ResTTL, over |-> Zero]]]
            /\ charged' = Plus(charged, cost)
            /\ Goto(w, Idle)
         \/ /\ ~(Covers(b, cost) /\ LeaseAlive(p))
            /\ lease' = [lease EXCEPT ![p] = b]
            /\ res' = [res EXCEPT ![p] = Live(p)]
            /\ UNCHANGED charged
            /\ Goto(w, miss)
      /\ lost' = Plus(lost, Dropped(p))
      /\ UNCHANGED <<bucket, clock, deny, shutdown, bounds, issued, borrowed>>

FirstDebit(w) ==
  /\ call[w].pc = "debit"
  /\ TryDebit(w, [call[w] EXCEPT !.pc = "borrow"])

\* The BorrowSpec of a Check asks for a chunk, that of a Settle for its overshoot.
SpecOf(w) ==
  [min   |-> call[w].amount,
   chunk |-> IF call[w].pc = "borrow" THEN Chunk ELSE call[w].amount]

Borrowing(w) == call[w].pc \in {"borrow", "cover"}

BorrowGranted(w) ==
  /\ Borrowing(w)
  /\ BorrowDenies(bucket, Limits, SpecOf(w), clock) = {}
  /\ LET got == BorrowGot(bucket, Limits, SpecOf(w), clock)
     IN  /\ borrowed' = Plus(borrowed, got)
         /\ Goto(w, [call[w] EXCEPT !.got = got,
                       !.pc = IF call[w].pc = "borrow" THEN "credit" ELSE "coverCredit"])
  /\ bucket' = BorrowDebit(bucket, Limits, SpecOf(w), clock)
  /\ UNCHANGED <<clock, pools, shutdown, bounds, issued, charged, lost>>

\* Mutant of BorrowDenied: asks again at once.
BorrowDeniedAgain(w) ==
  /\ Borrowing(w)
  /\ BorrowDenies(bucket, Limits, SpecOf(w), clock) # {}
  /\ UNCHANGED vars

\* A denied Check goes on to cache the denial, a denied Settle gives up.
BorrowDenied(w) ==
  /\ Borrowing(w)
  /\ BorrowDenies(bucket, Limits, SpecOf(w), clock) # {}
  /\ Goto(w, IF call[w].pc = "borrow"
             THEN [call[w] EXCEPT !.pc = "denySet",
                     !.retry = BorrowDecision(bucket, Limits, SpecOf(w), clock).retry]
             ELSE Idle)
  /\ UNCHANGED <<bucket, clock, pools, shutdown, bounds, issued, ledger>>

\* The store call fails.  The store may have granted the loan all the same when
\* it is the reply that is lost.
BorrowFails(w) ==
  /\ Borrowing(w)
  /\ faults < MaxFaults
  /\ faults' = faults + 1
  /\ \/ UNCHANGED <<bucket, borrowed, lost>>
     \/ /\ BorrowDenies(bucket, Limits, SpecOf(w), clock) = {}
        /\ bucket' = BorrowDebit(bucket, Limits, SpecOf(w), clock)
        /\ LET got == BorrowGot(bucket, Limits, SpecOf(w), clock)
           IN  borrowed' = Plus(borrowed, got) /\ lost' = Plus(lost, got)
  /\ Goto(w, IF call[w].pc = "borrow" THEN [call[w] EXCEPT !.pc = "storeErr"] ELSE Idle)
  /\ UNCHANGED <<clock, pools, shutdown, crashes, issued, charged>>

\* onStoreErrFast: a fail-open pod still admits what its lease covers.
StoreErr(w) ==
  /\ call[w].pc = "storeErr"
  /\ \/ FailOpen[PodOf[w]] /\ TryDebit(w, Idle)
     \/ /\ ~FailOpen[PodOf[w]]
        /\ Goto(w, Idle)
        /\ UNCHANGED <<bucket, clock, pools, shutdown, bounds, issued, ledger>>

\* CreditLease, for a Check or for a Settle.
CreditLease(w) ==
  LET p == PodOf[w]
  IN  /\ call[w].pc \in {"credit", "coverCredit"}
      /\ Renew(p, Plus(LeaseOf(p).bal, call[w].got))
      /\ lost' = Plus(lost, Dropped(p))
      /\ Goto(w, [call[w] EXCEPT !.pc = IF @ = "credit" THEN "redebit" ELSE "apply"])
      /\ UNCHANGED <<bucket, clock, res, deny, shutdown, bounds, issued, borrowed, charged>>

\* The second TryDebit; a lease emptied meanwhile denies for one second.
SecondDebit(w) ==
  /\ call[w].pc = "redebit"
  /\ TryDebit(w, [call[w] EXCEPT !.pc = "denySet", !.retry = 1])

\* Deny().Set.
DenySet(w) ==
  /\ call[w].pc = "denySet"
  /\ deny' = [deny EXCEPT ![PodOf[w]] =
                [until |-> clock + (IF call[w].retry <= 0 THEN 1 ELSE call[w].retry),
                 stale |-> call[w].stale]]
  /\ Goto(w, Idle)
  /\ UNCHANGED <<bucket, clock, lease, res, shutdown, bounds, issued, ledger>>

-----------------------------------------------------------------------------
(* Settle and SettleIO, Refund. *)

\* The pod does not know the id: the store is asked, which knows no reservation
\* of the fast path either, and the caller gets ErrReservationNotFound, also when
\* another pod holds the reservation.
SettleUnknown(w, id) ==
  /\ call[w] = Idle /\ ~closing[PodOf[w]]
  /\ Live(PodOf[w])[id] = NoRes
  /\ res' = [res EXCEPT ![PodOf[w]] = Live(PodOf[w])]
  /\ UNCHANGED <<bucket, clock, lease, deny, call, shutdown, bounds, issued, ledger>>

\* A Settle goes on to cover an overshoot, new or left from an earlier Settle.
AfterSettle(id, over) ==
  IF \E a \in Axes : over[a] > 0 THEN Step("cover", id, over, Zero, 0) ELSE Idle

\* SettleLocal and SettleLocalIO on a pending reservation: the difference to the
\* reserved amount goes to or comes from the lease, which is made anew if it is
\* gone; credits given back clear the deny cache.
SettleLocal(w, id, actual) ==
  LET p      == PodOf[w]
      r      == Live(p)[id]
      b      == LeaseOf(p)
      surplus == OnTokens([a \in Axes |-> NonNeg(r.cost[a] - actual[a])])
      need    == OnTokens([a \in Axes |-> NonNeg(actual[a] - r.cost[a])])
      taken   == Least(b.bal, need)
      over    == Minus(need, taken)
  IN  /\ call[w] = Idle /\ ~closing[p]
      /\ Pending(r)
      /\ Renew(p, Minus(Plus(b.bal, surplus), taken))
      /\ res' = [res EXCEPT ![p] = [Live(p) EXCEPT ![id] =
                    [r EXCEPT !.status = "settled", !.over = over,
                              !.expires = clock + ResTTL]]]
      /\ charged' = Adjusted(r, surplus, taken)
      /\ lost' = Plus(lost, Dropped(p))
      /\ LET next == [call EXCEPT ![w] = AfterSettle(id, over)]
         IN  IF surplus # Zero THEN ClearDeny(p) /\ call' = MarkStale(p, next)
             ELSE UNCHANGED deny /\ call' = next
      /\ UNCHANGED <<bucket, clock, shutdown, bounds, issued, borrowed>>

\* A repeated Settle returns the kept decision, and covers the overshoot in it.
SettleAgain(w, id) ==
  /\ call[w] = Idle /\ ~closing[PodOf[w]]
  /\ Live(PodOf[w])[id] # NoRes
  /\ Live(PodOf[w])[id].status = "settled"
  /\ res' = [res EXCEPT ![PodOf[w]] = Live(PodOf[w])]
  /\ Goto(w, AfterSettle(id, Live(PodOf[w])[id].over))
  /\ UNCHANGED <<bucket, clock, lease, deny, shutdown, bounds, issued, ledger>>

\* ApplyBorrowedDeficit(IO): adds what was borrowed to the lease, which CreditLease
\* has done before, and takes the overshoot from it.  It neither purges nor
\* renews, and does nothing without reservation or lease.
ApplyDeficit(w) ==
  LET p     == PodOf[w]
      id    == call[w].id
      r     == res[p][id]
      bal   == Plus(LeaseOf(p).bal, OnTokens(call[w].got))
      taken == Least(bal, r.over)
  IN  /\ call[w].pc = "apply"
      /\ Goto(w, Idle)
      /\ \/ /\ r # NoRes /\ LeaseAlive(p)
            /\ lease' = [lease EXCEPT ![p].bal = Minus(bal, taken)]
            /\ res' = [res EXCEPT ![p][id].over = Minus(@, taken)]
            /\ charged' = Plus(charged, taken)
            /\ UNCHANGED lost
         \/ /\ r = NoRes
            /\ UNCHANGED <<lease, res, charged, lost>>
         \/ /\ r # NoRes /\ ~LeaseAlive(p)
            /\ lease' = [lease EXCEPT ![p] = NoLease]
            /\ lost' = Plus(lost, Dropped(p))
            /\ UNCHANGED <<res, charged>>
      /\ UNCHANGED <<bucket, clock, deny, shutdown, bounds, issued, borrowed>>

\* RefundLocal on a pending reservation; any other is refused.
RefundLocal(w, id) ==
  LET p == PodOf[w]
      r == Live(p)[id]
  IN  /\ call[w] = Idle /\ ~closing[p]
      /\ Pending(r)
      /\ Renew(p, Plus(LeaseOf(p).bal, r.cost))
      /\ res' = [res EXCEPT ![p] = [Live(p) EXCEPT ![id] =
                    [r EXCEPT !.status = "refunded", !.expires = clock + ResTTL]]]
      /\ charged' = Adjusted(r, r.cost, Zero)
      /\ lost' = Plus(lost, Dropped(p))
      /\ ClearDeny(p)
      /\ call' = MarkStale(p, call)
      /\ UNCHANGED <<bucket, clock, shutdown, bounds, issued, borrowed>>

-----------------------------------------------------------------------------
(* Close, crashes and time. *)

\* Mutant of CloseSnapshot: the lease keeps the credits that are returned.
CloseSnapshotKept(p) ==
  /\ ~closing[p]
  /\ closing' = [closing EXCEPT ![p] = TRUE]
  /\ snap' = [snap EXCEPT ![p] = LeaseOf(p).bal]
  /\ UNCHANGED <<bucket, clock, pools, call, bounds, issued, ledger>>

\* SnapshotLeases empties the lease, unless it has expired.
CloseSnapshot(p) ==
  /\ ~closing[p]
  /\ closing' = [closing EXCEPT ![p] = TRUE]
  /\ snap' = [snap EXCEPT ![p] = LeaseOf(p).bal]
  /\ lease' = IF LeaseAlive(p) THEN [lease EXCEPT ![p].bal = Zero] ELSE lease
  /\ UNCHANGED <<bucket, clock, res, deny, call, bounds, issued, ledger>>

\* Close returns what it took; it ignores a failure, after which the credits are
\* gone.
CloseReturn(p) ==
  /\ snap[p] # Zero
  /\ snap' = [snap EXCEPT ![p] = Zero]
  /\ \/ /\ bucket' = CreditSave(bucket, Limits, snap[p], clock)
        /\ borrowed' = Minus(borrowed, snap[p])
        /\ UNCHANGED <<faults, lost>>
     \/ /\ faults < MaxFaults
        /\ faults' = faults + 1
        /\ lost' = Plus(lost, snap[p])
        /\ UNCHANGED <<bucket, borrowed>>
  /\ UNCHANGED <<clock, pools, call, closing, crashes, issued, charged>>

\* Borrowed credits a handler carries to the lease.
Carried(w) == IF call[w].pc \in {"credit", "coverCredit"} THEN call[w].got ELSE Zero

SumOver(S, f) == [a \in Axes |-> SumFunctionOnSet([e \in S |-> f[e][a]], S)]

\* The process exits, after Close or in a crash, and is started afresh: all it
\* held in memory is gone.
Crash(p) ==
  /\ crashes < MaxCrashes
  /\ crashes' = crashes + 1
  /\ lease' = [lease EXCEPT ![p] = NoLease]
  /\ res' = [res EXCEPT ![p] = [id \in Ids |-> NoRes]]
  /\ deny' = [deny EXCEPT ![p] = NoDeny]
  /\ call' = [w \in Workers |-> IF PodOf[w] = p THEN Idle ELSE call[w]]
  /\ snap' = [snap EXCEPT ![p] = Zero]
  /\ closing' = [closing EXCEPT ![p] = FALSE]
  /\ lost' = Plus(Plus(Plus(lost, lease[p].bal), snap[p]),
                  SumOver({w \in Workers : PodOf[w] = p}, [w \in Workers |-> Carried(w)]))
  /\ UNCHANGED <<bucket, clock, faults, issued, borrowed, charged>>

Tick ==
  /\ clock < MaxTime
  /\ clock' = clock + 1
  /\ UNCHANGED <<bucket, pools, call, shutdown, bounds, issued, ledger>>

Next ==
  \/ \E w \in Workers :
       \/ DenyHit(w)
       \/ \E c \in Costs, id \in Ids : CheckStart(w, c, id)
       \/ FirstDebit(w)
       \/ BorrowGranted(w)
       \/ BorrowDenied(w)
       \/ BorrowFails(w)
       \/ StoreErr(w)
       \/ CreditLease(w)
       \/ SecondDebit(w)
       \/ DenySet(w)
       \/ \E id \in Ids : SettleUnknown(w, id)
       \/ \E id \in Ids, n \in Actuals : SettleLocal(w, id, n)
       \/ \E id \in Ids : SettleAgain(w, id)
       \/ ApplyDeficit(w)
       \/ \E id \in Ids : RefundLocal(w, id)
  \/ \E p \in Pods : CloseSnapshot(p) \/ CloseReturn(p) \/ Crash(p)
  \/ Tick

Spec == Init /\ [][Next]_vars

\* Handlers wait for no one: the code takes no lock across a store call, so a
\* handler that has begun always has a step to take and takes it.
Steps(w) ==
  \/ FirstDebit(w) \/ BorrowGranted(w) \/ BorrowDenied(w) \/ StoreErr(w)
  \/ CreditLease(w) \/ SecondDebit(w) \/ DenySet(w) \/ ApplyDeficit(w)

FairSpec == Spec /\ \A w \in Workers : WF_vars(Steps(w))

-----------------------------------------------------------------------------
Reservation ==
  [cost : [Axes -> Nat], status : {"pending", "settled", "refunded"}, expires : Nat,
   over : [Axes -> Nat]]

Call ==
  [pc : {"debit", "borrow", "storeErr", "credit", "redebit", "denySet", "cover",
         "coverCredit", "apply"},
   id : Ids, amount : [Axes -> Nat], got : [Axes -> Nat], retry : Nat, stale : BOOLEAN]

\* Type invariant: balances, charges and overshoots never go negative.
TypeOK ==
  /\ bucket \in [Axes -> [tokens : Nat, last : Nat]]
  /\ clock \in 1..(MaxTime + 1)
  /\ lease \in [Pods -> [bal : [Axes -> Nat], expires : Nat]]
  /\ res \in [Pods -> [Ids -> Reservation \union {NoRes}]]
  /\ deny \in [Pods -> [until : Nat, stale : BOOLEAN]]
  /\ call \in [Workers -> Call \union {Idle}]
  /\ snap \in [Pods -> [Axes -> Nat]]
  /\ closing \in [Pods -> BOOLEAN]
  /\ faults \in 0..MaxFaults /\ crashes \in 0..MaxCrashes
  /\ issued \subseteq Ids
  /\ borrowed \in [Axes -> Int]
  /\ charged \in [Axes -> Nat] /\ lost \in [Axes -> Nat]

\* Borrowed tokens some pod can still spend or return.
Held == Plus(Plus(SumOver(Pods, [p \in Pods |-> lease[p].bal]), SumOver(Pods, snap)),
             SumOver(Workers, [w \in Workers |-> Carried(w)]))

Backed(a) == borrowed[a] = Held[a] + charged[a] + lost[a]

\* Every token the store granted is, at every moment, in exactly one place: in a
\* lease, on its way to or from one, charged to a caller, or lost with an expired
\* lease, a crash or a failed call.  No interleaving of handlers, Close and
\* crashes creates a token ("every Borrow debits Redis before local spend").
LeaseBacked == \A a \in Axes : Backed(a)

\* The same for requests, which no settlement touches.
RequestsBacked == Backed("rpm")

\* The promise to the provider: what callers were charged in all pods together
\* is at most a full bucket and what has been refilled since.
GlobalAllow ==
  \A a \in Used : charged[a] * Period <= Limits[a] * (Period + clock - 1)

\* A local reservation is closed at most once and keeps its terms, and the
\* overshoot of a settled one only shrinks, even when calls for it overlap.
LocalLifecycle ==
  [][\A p \in Pods, id \in Ids :
       \/ res'[p][id] = res[p][id]
       \/ res[p][id] = NoRes /\ \A q \in Pods : res[q][id] = NoRes
       \/ res'[p][id] = NoRes
       \/ /\ res[p][id] # NoRes /\ res'[p][id] # NoRes
          /\ res'[p][id].cost = res[p][id].cost
          /\ \/ res[p][id].status = "pending" /\ res'[p][id].status # "pending"
             \/ /\ res[p][id].status = "settled" /\ res'[p][id].status = "settled"
                /\ \A a \in Axes : res'[p][id].over[a] <= res[p][id].over[a]]_vars

\* Every Check and Settle that is taken up is answered.
CallsFinish == \A w \in Workers : call[w] # Idle ~> call[w] = Idle

\* When no handler is at work, the unused lease credits of all pods are within
\* num_pods x chunk_size, the bound the documentation gives on the overshoot.
HoardBound ==
  (\A w \in Workers : call[w] = Idle) =>
    \A a \in Used :
      SumOver(Pods, [p \in Pods |-> lease[p].bal])[a] <= Cardinality(Pods) * Chunk[a]

\* No denial decided before a refund or a settlement gave credits back is cached
\* after it: the cache is cleared then.
NoStaleDeny == \A p \in Pods : ~deny[p].stale
=============================================================================
