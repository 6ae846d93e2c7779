------------------------------- MODULE Bucket -------------------------------
(***************************************************************************)
(* The token bucket of pkg/bucket/bucket.go, as pure operators.            *)
(*                                                                         *)
(* The code keeps a float64 number of tokens and refills capacity/60 of a  *)
(* token per second.  Here time is a number of whole seconds (ticks), the  *)
(* minute is Period ticks long, and `tokens' counts units of 1/Period of a *)
(* token.  A full bucket then holds cap * Period units and one tick adds   *)
(* exactly cap units.  TryConsume's slack of 1e-9 makes the code decide as *)
(* this exact arithmetic does: balances are multiples of 1/60000 of        *)
(* a token, and rounding errors stay below the slack for balances of up to *)
(* some hundred thousand tokens.  The Lua scripts have no such slack, see  *)
(* RedisOps.                                                               *)
(*                                                                         *)
(* A bucket is [tokens, last]; its capacity is not stored but passed by    *)
(* each call, because the limits come with the request.  last = 0 marks a  *)
(* bucket that was never used.                                             *)
(***************************************************************************)
EXTENDS Integers

CONSTANT Period     \* ticks in the minute over which a budget is granted

ASSUME PeriodAssumption == Period \in Nat \ {0}

Lesser(x, y) == IF x <= y THEN x ELSE y

NonNeg(n) == IF n < 0 THEN 0 ELSE n

Cold == [tokens |-> 0, last |-> 0]

\* Mutant of Refill: forgets to date the bucket.
RefillUndated(b, cap, now) ==
  IF b.last = 0 THEN [tokens |-> cap * Period, last |-> now]
  ELSE [b EXCEPT !.tokens = Lesser(cap * Period, @ + NonNeg(now - b.last) * cap)]

(***************************************************************************)
(* Refill: a zero budget empties the bucket, a never-used bucket is full,  *)
(* a clock that went backwards moves `last' back and neither adds nor      *)
(* clamps, and otherwise cap units per elapsed tick are added up to full.  *)
(***************************************************************************)
Refill(b, cap, now) ==
  IF cap <= 0            THEN [tokens |-> 0, last |-> now]
  ELSE IF b.last = 0     THEN [tokens |-> cap * Period, last |-> now]
  ELSE IF now < b.last   THEN [tokens |-> b.tokens, last |-> now]
  ELSE [tokens |-> Lesser(cap * Period, b.tokens + (now - b.last) * cap),
        last   |-> now]

\* RemainingInt: whole tokens in a bucket.
RemainingInt(b) == b.tokens \div Period

\* The two denials of TryConsume: more than a full bucket, or more than is there.
CanConsume(b, cap, cost) == cost <= cap /\ cost * Period <= b.tokens

\* TryConsume: refill, then debit the cost unless it is denied.
TryConsume(b, cap, now, cost) ==
  LET r == Refill(b, cap, now)
      c == NonNeg(cost)
  IN  IF CanConsume(r, cap, c) THEN [r EXCEPT !.tokens = @ - c * Period] ELSE r

\* Mutant of Credit: no cap.
CreditPastFull(b, cap, now, amount) ==
  LET r == Refill(b, cap, now)
  IN  [r EXCEPT !.tokens = @ + NonNeg(amount) * Period]

\* Credit: refill, then add a positive amount up to full.
Credit(b, cap, now, amount) ==
  LET r == Refill(b, cap, now)
  IN  IF amount <= 0 THEN r
      ELSE [r EXCEPT !.tokens = Lesser(cap * Period, @ + amount * Period)]

\* DebitFloor: what is debited of an amount is at most the whole tokens there;
\* the fraction of a token stays in the bucket and the rest is the overshoot.
Debited(b, cap, now, amount) ==
  Lesser(NonNeg(amount), RemainingInt(Refill(b, cap, now)))

DebitFloor(b, cap, now, amount) ==
  LET r == Refill(b, cap, now)
  IN  [r EXCEPT !.tokens = @ - Debited(b, cap, now, amount) * Period]

\* Mutant of RetryAfter: rounds the wait down.
RetryAfterFloor(b, cap, need) ==
  IF cap <= 0 THEN 60 * Period ELSE NonNeg(need * Period - b.tokens) \div cap

\* retryAfter: ticks until a bucket that is not touched again holds `need'
\* tokens; an hour when it never refills.
RetryAfter(b, cap, need) ==
  IF cap <= 0 THEN 60 * Period
  ELSE LET deficit == need * Period - b.tokens
       IN  IF deficit <= 0 THEN 0 ELSE (deficit + cap - 1) \div cap
=============================================================================
