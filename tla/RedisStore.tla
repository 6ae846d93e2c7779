----------------------------- MODULE RedisStore -----------------------------
(***************************************************************************)
(* The Redis store of pkg/store/redis/redis.go under concurrent callers,   *)
(* with the limiter's direct path (checkDirect, onStoreErr) in front of    *)
(* Check and a connection that loses requests and replies.                 *)
(*                                                                         *)
(* A script is one atomic action.  Settle, SettleIO and Refund first look  *)
(* the reservation up in a command of its own, so other calls, and the     *)
(* reservation's expiry, come between the two.  When a reply is lost the   *)
(* client library sends the command again, not knowing whether it ran, and *)
(* at last gives up with an error.                                         *)
(*                                                                         *)
(* One (subject, model) key: keys share no hash.  A caller settles only    *)
(* what it was granted, since ids are drawn at random and told to nobody   *)
(* else.                                                                   *)
(***************************************************************************)
EXTENDS RedisOps, FiniteSets

CONSTANTS
  Workers,      \* concurrent callers
  Tiers,        \* limits a request may carry
  MaxCap,       \* per axis, the most any of the tiers grants
  Costs, Actuals, BorrowSpecs, Returns,   \* what calls carry
  Ids,          \* reservation ids, each drawn once
  FailOpen,     \* failMode = api.FailOpen
  TTL,          \* ticks a reservation is kept (ReservationTTL)
  CallTime,     \* ticks within which the client library answers or gives up
  MaxTime,      \* bound: the clock stops here
  MaxFaults,    \* bound: requests and replies lost
  MaxCalls      \* bound: calls of the store in all

ASSUME RedisAssumption ==
  /\ Tiers \subseteq [Axes -> Nat]
  /\ MaxCap \in [Axes -> Nat]
  /\ \A l \in Tiers, a \in Axes : l[a] <= MaxCap[a]
  /\ Costs \subseteq [Axes -> Int] /\ Actuals \subseteq [Axes -> Int]
  /\ BorrowSpecs \subseteq [min : [Axes -> Int], chunk : [Axes -> Int]]
  /\ Returns \subseteq [Axes -> Int]
  /\ FailOpen \in BOOLEAN
  /\ IsFiniteSet(Ids)
  /\ {TTL, CallTime, MaxFaults, MaxCalls} \subseteq Nat /\ MaxTime \in Nat \ {0}
  /\ CallTime < TTL

VARIABLES
  bucket,   \* the bucket hashes of the key, per axis
  inexact,  \* axes whose balance may be off by a rounding error
  res,      \* the reservation hashes
  clock,    \* TIME
  call,     \* per caller: the store call it is in
  calls, faults,   \* counters for the bounds
  \* history, read by no action but for fresh ids, who may settle, and the bound
  \* on Return:
  told,     \* per id: what the caller of Check was told
  unheard,  \* ids of which a reply of the check script was lost
  opened,   \* ids a reservation was written for
  spent,    \* per axis, tokens charged for reservations and loans
  lent,     \* per axis, tokens on loan
  leaked,   \* per axis, tokens debited a second time or for a loan nobody heard of
  minted    \* per axis, tokens credited a second time

hashes == <<bucket, inexact, res>>
books  == <<spent, lent, leaked, minted>>
ids    == <<told, unheard, opened>>
vars   == <<hashes, clock, call, calls, faults, ids, books>>

Zero  == [a \in Axes |-> 0]
NoRes == [status |-> "none"]
Idle  == [op |-> "none"]

OnUsed(limits, x) == [a \in Axes |-> IF a \in UsedAxes(Split(limits)) THEN x[a] ELSE 0]
Plus(x, y)  == [a \in Axes |-> x[a] + y[a]]
Minus(x, y) == [a \in Axes |-> x[a] - y[a]]

\* A call about to send a script; `failed': some attempt got no reply; `ran':
\* some such attempt was executed all the same.
Command(op, id, limits, arg) ==
  [op |-> op, step |-> "script", id |-> id, limits |-> limits, arg |-> arg,
   failed |-> FALSE, ran |-> FALSE, since |-> clock]

Begin(w, command) ==
  /\ calls < MaxCalls
  /\ call[w] = Idle
  /\ call' = [call EXCEPT ![w] = command]
  /\ calls' = calls + 1

\* onStoreErr: what the caller of Check hears when the store fails.
OnStoreErr == IF FailOpen THEN "admitted" ELSE "failed"

-----------------------------------------------------------------------------
Init ==
  /\ bucket = [a \in Axes |-> Cold] /\ inexact = {}
  /\ res = [id \in Ids |-> NoRes]
  /\ clock = 1
  /\ call = [w \in Workers |-> Idle]
  /\ calls = 0 /\ faults = 0
  /\ told = [id \in Ids |-> "none"]
  /\ unheard = {} /\ opened = {}
  /\ spent = Zero /\ lent = Zero /\ leaked = Zero /\ minted = Zero

(* The calls. *)

\* Limiter.Check on the direct path: limits that are not valid are refused
\* before an id is drawn.
CheckStart(w, limits, cost, id) ==
  /\ Validate(limits)
  /\ told[id] = "none"
  /\ told' = [told EXCEPT ![id] = "asked"]
  /\ Begin(w, Command("check", id, limits, Clamped(cost)))
  /\ UNCHANGED <<hashes, clock, faults, unheard, opened, books>>

\* Check refuses a key without subject; to the limiter that is a store error.
CheckRefused(id) ==
  /\ told[id] = "none"
  /\ told' = [told EXCEPT ![id] = OnStoreErr]
  /\ UNCHANGED <<hashes, clock, call, calls, faults, unheard, opened, books>>

\* Settle, SettleIO and Refund: the mode and key of the reservation come first.
CloseStart(w, op, id, actual) ==
  /\ told[id] = "allowed"
  /\ Begin(w, [Command(op, id, Zero, Clamped(actual)) EXCEPT !.step = "lookup"])
  /\ UNCHANGED <<hashes, clock, faults, ids, books>>

BorrowStart(w, limits, spec) ==
  /\ Validate(limits)
  /\ Begin(w, Command("borrow", "-", limits, spec))
  /\ UNCHANGED <<hashes, clock, faults, ids, books>>

\* Bound: no more than is lent, and one Return at a time.
ReturnStart(w, limits, amount) ==
  /\ \E a \in Axes : amount[a] > 0
  /\ \A a \in Axes : NonNeg(amount[a]) <= lent[a]
  /\ \A v \in Workers : call[v].op # "return"
  /\ Begin(w, Command("return", "-", limits, OnUsed(limits, Clamped(amount))))
  /\ UNCHANGED <<hashes, clock, faults, ids, books>>

\* reservationMode: Settle takes a classic reservation, SettleIO a split one, and
\* Refund picks its script by the mode.
ModeFits(op, split) ==
  \/ op = "refund"
  \/ op = "settle" /\ ~split
  \/ op = "settleIO" /\ split

Lookup(w) ==
  LET c == call[w]
      r == res[c.id]
  IN  /\ c # Idle /\ c.step = "lookup"
      /\ call' = [call EXCEPT ![w] =
                    IF r # NoRes /\ ModeFits(c.op, Split(r.limits))
                    THEN [c EXCEPT !.step = "script", !.limits = r.limits]
                    ELSE Idle]
      /\ UNCHANGED <<hashes, clock, calls, faults, ids, books>>

-----------------------------------------------------------------------------
(* The scripts.  `heard' says whether the reply reaches the caller; the     *)
(* buckets and reservations do not depend on it.                            *)

CheckReplies(c) == LuaCheckReplies(bucket, inexact, c.limits, c.arg, clock)

\* The axes whose balance may be off once a script has saved the buckets.
StillInexact(limits, filled) == LuaStillInexact(bucket, inexact, limits, filled, clock)

Filled(limits, amount) == LuaFilled(bucket, limits, amount, clock)

\* What parseDecision tells the caller, if the reply arrives.
Tell(c, heard, answer) ==
  /\ told' = IF heard THEN [told EXCEPT ![c.id] = answer] ELSE told
  /\ unheard' = IF heard THEN unheard ELSE unheard \union {c.id}

\* The reservation hash and its expiry.
Reserve(c) ==
  [res EXCEPT ![c.id] =
     [limits |-> c.limits, cost |-> OnUsed(c.limits, c.arg), status |-> "pending",
      expires |-> clock + TTL, overshoot |-> Zero]]

\* Mutant of CheckDenied: the reservation is written before the verdict.
CheckDeniedReserves(c, heard) ==
  /\ \E reply \in CheckReplies(c) : ~reply.allowed
  /\ Tell(c, heard, "denied")
  /\ res' = Reserve(c)
  /\ UNCHANGED <<bucket, inexact, opened, books>>

CheckDenied(c, heard) ==
  /\ \E reply \in CheckReplies(c) : ~reply.allowed
  /\ Tell(c, heard, "denied")
  /\ UNCHANGED <<hashes, opened, books>>

\* A check script that runs again for the same id debits again.
CheckGranted(c, heard) ==
  /\ \E reply \in CheckReplies(c) : reply.allowed
  /\ Tell(c, heard, "allowed")
  /\ bucket' = LuaCheckDebit(bucket, c.limits, c.arg, clock)
  /\ inexact' = StillInexact(c.limits, {})
  /\ res' = Reserve(c)
  /\ opened' = opened \union {c.id}
  /\ IF c.id \in opened
     THEN leaked' = Plus(leaked, OnUsed(c.limits, c.arg)) /\ UNCHANGED spent
     ELSE spent' = Plus(spent, OnUsed(c.limits, c.arg)) /\ UNCHANGED leaked
  /\ UNCHANGED <<lent, minted>>

CheckScript(c, heard) ==
  /\ c.op = "check"
  /\ CheckDenied(c, heard) \/ CheckGranted(c, heard)

\* Mutant of Closable: a settled reservation is closed again.
ClosableAgain(id) == res[id] # NoRes /\ res[id].status \in {"pending", "settled"}

\* The scripts close what is pending; they answer a repeated call from what is
\* stored, and refuse what is gone or was closed the other way.
Closable(id) == res[id] # NoRes /\ res[id].status = "pending"

Closed(id, status, overshoot) ==
  [res EXCEPT ![id].status = status, ![id].overshoot = overshoot,
              ![id].expires = clock + TTL]

\* The account of tokens charged changes once per reservation.
Adjusted(id, amount) == IF res[id].status = "pending" THEN Plus(spent, amount) ELSE spent

SettleScript(c) ==
  /\ c.op \in {"settle", "settleIO"}
  /\ \/ /\ ~Closable(c.id)
        /\ UNCHANGED <<hashes, spent>>
     \/ /\ Closable(c.id)
        /\ LET r    == res[c.id]
               over == LuaOvershoot(bucket, r.limits, r.cost, c.arg, clock)
               used == [a \in Axes |-> IF a \in TokenAxes(Split(r.limits))
                                       THEN c.arg[a] - over[a] - r.cost[a] ELSE 0]
               back == {a \in TokenAxes(Split(r.limits)) : r.cost[a] > c.arg[a]}
           IN  /\ bucket' = LuaSettleSave(bucket, r.limits, r.cost, c.arg, clock)
               /\ inexact' = StillInexact(r.limits,
                               back \intersect Filled(r.limits, Minus(r.cost, c.arg)))
               /\ res' = Closed(c.id, "settled", over)
               /\ spent' = Adjusted(c.id, used)
  /\ UNCHANGED <<ids, lent, leaked, minted>>

RefundScript(c) ==
  /\ c.op = "refund"
  /\ \/ /\ ~Closable(c.id)
        /\ UNCHANGED <<hashes, spent>>
     \/ /\ Closable(c.id)
        /\ bucket' = LuaCreditSave(bucket, res[c.id].limits, res[c.id].cost, clock)
        /\ inexact' = StillInexact(res[c.id].limits, Filled(res[c.id].limits, res[c.id].cost))
        /\ res' = Closed(c.id, "refunded", Zero)
        /\ spent' = Adjusted(c.id, Minus(Zero, res[c.id].cost))
  /\ UNCHANGED <<ids, lent, leaked, minted>>

\* A loan whose reply is lost is debited and belongs to nobody.
BorrowScript(c, heard) ==
  /\ c.op = "borrow"
  /\ \/ /\ ~LuaBorrowReply(bucket, c.limits, c.arg, clock).allowed
        /\ UNCHANGED <<bucket, inexact, spent, lent, leaked>>
     \/ /\ LuaBorrowReply(bucket, c.limits, c.arg, clock).allowed
        /\ bucket' = LuaBorrowDebit(bucket, c.limits, c.arg, clock)
        /\ inexact' = StillInexact(c.limits, {})
        /\ LET got == LuaBorrowGot(bucket, c.limits, c.arg, clock)
           IN  IF heard
               THEN /\ spent' = Plus(spent, got) /\ lent' = Plus(lent, got)
                    /\ UNCHANGED leaked
               ELSE leaked' = Plus(leaked, got) /\ UNCHANGED <<spent, lent>>
  /\ UNCHANGED <<res, ids, minted>>

\* return_io.lua leaves the buckets alone when none of its axes gets anything.
\* A Return that runs a second time credits a second time.
ReturnScript(c) ==
  /\ c.op = "return"
  /\ IF Split(c.limits) /\ c.arg = Zero THEN UNCHANGED <<bucket, inexact>>
     ELSE /\ bucket' = LuaCreditSave(bucket, c.limits, c.arg, clock)
          /\ inexact' = StillInexact(c.limits, Filled(c.limits, c.arg))
  /\ IF c.ran
     THEN minted' = Plus(minted, c.arg) /\ UNCHANGED <<spent, lent>>
     ELSE /\ spent' = Minus(spent, c.arg) /\ lent' = Minus(lent, c.arg)
          /\ UNCHANGED minted
  /\ UNCHANGED <<res, ids, leaked>>

Script(w, heard) ==
  /\ call[w] # Idle /\ call[w].step = "script"
  /\ \/ CheckScript(call[w], heard)
     \/ SettleScript(call[w])
     \/ RefundScript(call[w])
     \/ BorrowScript(call[w], heard)
     \/ ReturnScript(call[w])

Answered(w) ==
  /\ Script(w, TRUE)
  /\ call' = [call EXCEPT ![w] = Idle]
  /\ UNCHANGED <<clock, calls, faults>>

-----------------------------------------------------------------------------
(* The connection and the clock. *)

\* The command never reaches the server.
RequestLost(w) ==
  /\ call[w] # Idle
  /\ faults < MaxFaults
  /\ faults' = faults + 1
  /\ call' = [call EXCEPT ![w].failed = TRUE]
  /\ UNCHANGED <<hashes, clock, calls, ids, books>>

\* The script runs and the caller does not hear of it.
ReplyLost(w) ==
  /\ faults < MaxFaults
  /\ faults' = faults + 1
  /\ Script(w, FALSE)
  /\ call' = [call EXCEPT ![w].failed = TRUE, ![w].ran = TRUE]
  /\ UNCHANGED <<clock, calls>>

\* After a failed attempt the library may try again (the actions above) or give
\* up; a Check then ends in onStoreErr, the other calls return the error.
GiveUp(w) ==
  /\ call[w] # Idle /\ call[w].failed
  /\ call' = [call EXCEPT ![w] = Idle]
  /\ told' = IF call[w].op = "check" THEN [told EXCEPT ![call[w].id] = OnStoreErr] ELSE told
  /\ UNCHANGED <<hashes, clock, calls, faults, unheard, opened, books>>

\* Time passes, no call lasting longer than CallTime; Redis drops a reservation
\* that is past its expiry.
Tick ==
  /\ clock < MaxTime
  /\ \A w \in Workers : call[w] # Idle => clock < call[w].since + CallTime
  /\ clock' = clock + 1
  /\ res' = [id \in Ids |->
               IF res[id] # NoRes /\ clock' > res[id].expires THEN NoRes ELSE res[id]]
  /\ UNCHANGED <<bucket, inexact, call, calls, faults, ids, books>>

Next ==
  \/ \E w \in Workers :
       \/ \E l \in Tiers, n \in Costs, id \in Ids : CheckStart(w, l, n, id)
       \/ \E op \in {"settle", "settleIO"}, id \in Ids, n \in Actuals : CloseStart(w, op, id, n)
       \/ \E id \in Ids : CloseStart(w, "refund", id, Zero)
       \/ \E l \in Tiers, s \in BorrowSpecs : BorrowStart(w, l, s)
       \/ \E l \in Tiers, n \in Returns : ReturnStart(w, l, n)
       \/ Lookup(w)
       \/ Answered(w)
       \/ RequestLost(w)
       \/ ReplyLost(w)
       \/ GiveUp(w)
  \/ \E id \in Ids : CheckRefused(id)
  \/ Tick

Spec == Init /\ [][Next]_vars

-----------------------------------------------------------------------------
Reservation ==
  [limits : Tiers, cost : [Axes -> Nat], status : {"pending", "settled", "refunded"},
   expires : Nat, overshoot : [Axes -> Nat]]

\* The calls a caller may be in.  A closing call has no limits before its lookup.
Calls ==
  LET Of(ops, steps, names, limits, args) ==
        [op : ops, step : steps, id : names, limits : limits, arg : args,
         failed : BOOLEAN, ran : BOOLEAN, since : Nat]
  IN  Of({"check"}, {"script"}, Ids, Tiers, [Axes -> Nat])
        \union Of({"settle", "settleIO", "refund"}, {"lookup", "script"}, Ids,
                  Tiers \union {Zero}, [Axes -> Nat])
        \union Of({"borrow"}, {"script"}, {"-"}, Tiers, BorrowSpecs)
        \union Of({"return"}, {"script"}, {"-"}, Tiers, [Axes -> Nat])

\* Type invariant: hashes never hold a negative balance or more than the most
\* generous budget.
TypeOK ==
  /\ bucket \in [Axes -> [tokens : Nat, last : Nat]]
  /\ \A a \in Axes : bucket[a].tokens <= MaxCap[a] * Period
  /\ inexact \subseteq Axes
  /\ res \in [Ids -> Reservation \union {NoRes}]
  /\ call \in [Workers -> Calls \union {Idle}]
  /\ clock \in 1..MaxTime
  /\ calls \in 0..MaxCalls /\ faults \in 0..MaxFaults
  /\ told \in [Ids -> {"none", "asked", "allowed", "denied", "failed", "admitted"}]
  /\ unheard \subseteq Ids /\ opened \subseteq Ids
  /\ spent \in [Axes -> Int] /\ lent \in [Axes -> Nat]
  /\ leaked \in [Axes -> Nat] /\ minted \in [Axes -> Nat]

Refilled(a) == LuaTokens(bucket[a], MaxCap[a], clock)

\* The rate limit under lost requests, lost replies and repeated scripts: all
\* that was debited and is left is within a full bucket and the refill of the
\* time that passed, but for what a Return that ran twice has credited twice.
RateBound ==
  \A a \in Axes :
    Refilled(a) + (spent[a] + leaked[a] - minted[a]) * Period
      <= MaxCap[a] * (Period + clock - 1)

\* Every token missing from a bucket is charged to a reservation, on loan, or was
\* debited by a script whose reply was lost; denials and errors keep nothing
\* beyond that, on any axis of either mode.
NoTokenLost ==
  \A a \in Axes :
    \/ bucket[a].last = 0
    \/ \E l \in Tiers :
         /\ a \in UsedAxes(Split(l))
         /\ bucket[a].tokens + (spent[a] + leaked[a]) * Period >= l[a] * Period

\* Only a lost reply leaves a reservation that no caller knows of: a pending one
\* was granted to its caller, is being asked for, or had a reply lost.  And what
\* a caller was granted was written and charged.
Vouched ==
  \A id \in Ids :
    /\ (res[id] # NoRes /\ told[id] \notin {"asked", "allowed"}) => id \in unheard
    /\ told[id] = "allowed" => id \in opened

\* Where the scripts and the memory store load the same balances: no bucket in use
\* is above its limit, unless time has passed since it was written and both refills
\* cap it.
Comparable(limits) ==
  \A a \in UsedAxes(Split(limits)) :
    /\ limits[a] > 0
    /\ bucket[a].last = 0 \/ bucket[a].last < clock \/ bucket[a].tokens <= limits[a] * Period

Alike(x, y, axes) == \A a \in axes : x[a] = y[a]

\* How far the memory store's "Redis-matching semantics" go: on any buckets Redis can
\* come to that are comparable, given the same call, it decides the same, names the
\* same axis and wait, lends the same amounts and writes the same balances; but Redis
\* may deny on an axis that holds exactly the cost and has been refilled.
MatchesMemory ==
  \A l \in Tiers :
    Comparable(l) /\ Validate(l) =>
      /\ \A n \in Costs :
           LET d == CheckDecision(bucket, l, n, clock)
           IN  /\ \A reply \in LuaCheckReplies(bucket, inexact, l, n, clock) :
                    \/ reply = d
                    \/ ~reply.allowed /\ reply.limit \in LuaShort(bucket, inexact, l, n, clock)
               /\ d.allowed => Alike(LuaCheckDebit(bucket, l, n, clock),
                                     CheckDebit(bucket, l, n, clock), Axes)
      /\ \A s \in BorrowSpecs :
           LET d == BorrowDecision(bucket, l, s, clock)
           IN  /\ LuaBorrowReply(bucket, l, s, clock) = d
               /\ d.allowed => /\ LuaBorrowGot(bucket, l, s, clock) = BorrowGot(bucket, l, s, clock)
                               /\ Alike(LuaBorrowDebit(bucket, l, s, clock),
                                        BorrowDebit(bucket, l, s, clock), Axes)
      /\ \A id \in Ids, n \in Actuals :
           res[id] # NoRes /\ res[id].limits = l =>
             /\ Alike(LuaCreditSave(bucket, l, res[id].cost, clock),
                      CreditSave(bucket, l, res[id].cost, clock), Axes)
             /\ Alike(LuaSettleSave(bucket, l, res[id].cost, Clamped(n), clock),
                      SettleSave(bucket, l, res[id].cost, Clamped(n), clock),
                      TokenAxes(Split(l)))
             /\ LuaOvershoot(bucket, l, res[id].cost, Clamped(n), clock)
                  = SettleOvershoot(bucket, l, res[id].cost, Clamped(n), clock)

\* "Store is an in-process dual/triple-bucket store with Redis-matching semantics"
\* (memory.go): Redis gives a request the verdict the memory store would give, and
\* leaves the balances it would leave.
RedisMatching ==
  \A l \in Tiers, n \in Costs :
    LET d == CheckDecision(bucket, l, n, clock)
    IN  Validate(l) =>
          /\ \A reply \in LuaCheckReplies(bucket, inexact, l, n, clock) :
               reply.allowed = d.allowed
          /\ d.allowed => Alike(LuaCheckDebit(bucket, l, n, clock),
                                CheckDebit(bucket, l, n, clock), Axes)

\* How Redis appears in the abstract ledger: one key, funds without what was
\* credited twice, and an id that was written and is gone is forgotten.
Ledger ==
  INSTANCE Ledger WITH
    Keys <- {"key"}, Unit <- Period, Rate <- MaxCap,
    funds <- [k \in {"key"} |-> [a \in Axes |-> Refilled(a) - minted[a] * Period]],
    spent <- [k \in {"key"} |-> spent],
    lent <- [k \in {"key"} |-> lent],
    status <- [id \in Ids |-> IF res[id] # NoRes THEN res[id].status
                              ELSE IF id \in opened THEN "forgotten" ELSE "none"]

\* Redis implements the same ledger as the memory store: retried, overtaken and
\* half-heard calls open and close a reservation once and charge it once, also
\* when it expires or is closed between a call's lookup and its script.
ImplementsLedger == Ledger!Spec
=============================================================================
