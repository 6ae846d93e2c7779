------------------------------ MODULE RedisOps ------------------------------
(***************************************************************************)
(* What the Lua scripts of pkg/store/redis/lua compute: operators on the   *)
(* hashes `bs' of the buckets of one key, next to the memory store's       *)
(* operators in StoreOps.  Each mode has scripts of its own (check.lua and *)
(* check_io.lua, ...) that differ in the axes they name, UsedAxes here.    *)
(*                                                                         *)
(* A script refills once where the memory store refills at every call, has *)
(* a refill of its own, and writes the time back with every bucket it      *)
(* saves.  The time is the server's (TIME).  A missing hash is Cold.       *)
(***************************************************************************)
EXTENDS StoreOps

\* Mutant of LuaTokens: adds without the cap.
LuaTokensPastFull(b, cap, now) ==
  IF b.last = 0 THEN cap * Period
  ELSE IF now > b.last /\ cap > 0 THEN b.tokens + (now - b.last) * cap
  ELSE b.tokens

\* refill: nothing is added, and nothing is capped or emptied, unless time has
\* passed and there is a budget.
LuaTokens(b, cap, now) ==
  IF b.last = 0 THEN cap * Period
  ELSE IF now > b.last /\ cap > 0
       THEN Lesser(cap * Period, b.tokens + (now - b.last) * cap)
  ELSE b.tokens

LuaLoad(bs, limits, now) ==
  [a \in Axes |-> [tokens |-> LuaTokens(bs[a], limits[a], now), last |-> now]]

\* HMSET of the buckets in use, `change' units away from what was loaded.
LuaSave(bs, limits, change, now) ==
  Save(bs,
       [a \in Axes |-> [tokens |-> LuaTokens(bs[a], limits[a], now) + change[a],
                        last |-> now]],
       UsedAxes(Split(limits)))

-----------------------------------------------------------------------------
(* Rounding.  A balance is a float64: whole while it is a full bucket less   *)
(* what was debited, and possibly off by a rounding error once elapsed time  *)
(* was added to it, until math.min cuts it back to the limit.  Only a        *)
(* comparison with a cost that is exactly the balance can tell.              *)

\* Axes whose balance, as loaded, may be off; `inexact' are those whose saved
\* balance may be.
LuaInexact(bs, inexact, limits, now) ==
  {a \in Axes :
     LET refills == now > bs[a].last /\ limits[a] > 0
     IN  /\ bs[a].last # 0
         /\ refills \/ a \in inexact
         /\ refills => bs[a].tokens + (now - bs[a].last) * limits[a] <= limits[a] * Period}

\* Axes that a credit of `amount' tokens fills: math.min cuts these back.
LuaFilled(bs, limits, amount, now) ==
  {a \in Axes : LuaTokens(bs[a], limits[a], now) + amount[a] * Period > limits[a] * Period}

\* Axes whose balance may be off after the buckets in use were saved, those in
\* `filled' after a credit.
LuaStillInexact(bs, inexact, limits, filled, now) ==
  (inexact \ UsedAxes(Split(limits)))
    \union ((LuaInexact(bs, inexact, limits, now) \intersect UsedAxes(Split(limits))) \ filled)

-----------------------------------------------------------------------------
(* check.lua, check_io.lua *)

\* Axes that may deny a cost they can just pay: the scripts compare without the
\* slack of TryConsume.
LuaShort(bs, inexact, limits, cost, now) ==
  {a \in LuaInexact(bs, inexact, limits, now) \intersect UsedAxes(Split(limits)) :
     /\ Clamped(cost)[a] > 0
     /\ LuaTokens(bs[a], limits[a], now) = Clamped(cost)[a] * Period}

\* `short' are the axes on which rounding leaves less than the cost.
LuaCheckDenies(bs, limits, cost, short, now) ==
  {a \in UsedAxes(Split(limits)) :
     ~CanConsume(LuaLoad(bs, limits, now)[a], limits[a], Clamped(cost)[a])} \union short

\* The script's reply as parseDecision reads it: the first axis that denies.  The
\* wait for a rounding error is rounded up to one tick.
LuaCheckReply(bs, limits, cost, short, now) ==
  LET denies == LuaCheckDenies(bs, limits, cost, short, now)
      axis   == FirstOf(Split(limits), denies)
  IN  IF denies = {} THEN [allowed |-> TRUE, limit |-> "none", retry |-> 0]
      ELSE [allowed |-> FALSE, limit |-> axis,
            retry |-> IF axis \in short THEN 1
                      ELSE RetryAfter(LuaLoad(bs, limits, now)[axis], limits[axis],
                                      Clamped(cost)[axis])]

\* The replies the script can give.
LuaCheckReplies(bs, inexact, limits, cost, now) ==
  {LuaCheckReply(bs, limits, cost, short, now) :
     short \in SUBSET LuaShort(bs, inexact, limits, cost, now)}

LuaCheckDebit(bs, limits, cost, now) ==
  LuaSave(bs, limits, [a \in Axes |-> -Clamped(cost)[a] * Period], now)

-----------------------------------------------------------------------------
(* settle.lua, settle_io.lua *)

\* Mutant of LuaOvershoot: what the bucket can pay is reported as unpaid too.
LuaOvershootWhole(bs, limits, reserved, actual, now) ==
  [a \in Axes |->
     IF a \in TokenAxes(Split(limits)) THEN NonNeg(actual[a] - reserved[a]) ELSE 0]

\* What is left unpaid of actual tokens beyond the reserved ones.
LuaOvershoot(bs, limits, reserved, actual, now) ==
  [a \in Axes |->
     IF a \in TokenAxes(Split(limits))
     THEN NonNeg(actual[a] - reserved[a] - RemainingInt(LuaLoad(bs, limits, now)[a]))
     ELSE 0]

\* Units a credit of `amount' tokens adds: up to the limit, and down to it when
\* the bucket holds more.
LuaCredit(tokens, limit, amount) ==
  Lesser(limit * Period, tokens + amount * Period) - tokens

\* The request bucket is saved as it was loaded.
LuaSettleSave(bs, limits, reserved, actual, now) ==
  LuaSave(bs, limits,
    [a \in Axes |->
       IF a \notin TokenAxes(Split(limits)) THEN 0
       ELSE IF reserved[a] > actual[a]
            THEN LuaCredit(LuaTokens(bs[a], limits[a], now), limits[a],
                           reserved[a] - actual[a])
       ELSE (reserved[a] - actual[a]
               + LuaOvershoot(bs, limits, reserved, actual, now)[a]) * Period],
    now)

-----------------------------------------------------------------------------
(* refund.lua, refund_io.lua, return.lua, return_io.lua *)

\* Mutant of LuaCreditSave: the request bucket is not credited.
LuaCreditSaveTokens(bs, limits, amount, now) ==
  LuaSave(bs, limits,
          [a \in Axes |->
             IF a = "rpm" THEN 0
             ELSE LuaCredit(LuaTokens(bs[a], limits[a], now), limits[a], amount[a])],
          now)

LuaCreditSave(bs, limits, amount, now) ==
  LuaSave(bs, limits,
          [a \in Axes |-> LuaCredit(LuaTokens(bs[a], limits[a], now), limits[a], amount[a])],
          now)

-----------------------------------------------------------------------------
(* borrow.lua, borrow_io.lua *)

LuaBorrowDenies(bs, limits, spec, now) ==
  {a \in UsedAxes(Split(limits)) :
     RemainingInt(LuaLoad(bs, limits, now)[a]) < NonNeg(spec.min[a])}

LuaBorrowGot(bs, limits, spec, now) ==
  [a \in Axes |->
     IF a \in UsedAxes(Split(limits))
     THEN WantGot(RemainingInt(LuaLoad(bs, limits, now)[a]),
                  NonNeg(spec.min[a]), NonNeg(spec.chunk[a]))
     ELSE 0]

\* What is granted is debited, also from a bucket above its limit.
LuaBorrowDebit(bs, limits, spec, now) ==
  LuaSave(bs, limits,
          [a \in Axes |-> -LuaBorrowGot(bs, limits, spec, now)[a] * Period], now)

\* The reply of a denied loan, as Borrow reads it.
LuaBorrowReply(bs, limits, spec, now) ==
  LET denies == LuaBorrowDenies(bs, limits, spec, now)
      axis   == FirstOf(Split(limits), denies)
  IN  IF denies = {} THEN [allowed |-> TRUE, limit |-> "none", retry |-> 0]
      ELSE [allowed |-> FALSE, limit |-> axis,
            retry |-> RetryAfter(LuaLoad(bs, limits, now)[axis], limits[axis],
                                 NonNeg(spec.min[axis]))]
=============================================================================
