------------------------------- MODULE Ledger -------------------------------
(***************************************************************************)
(* What a store promises, whatever its buckets, clocks and failures: an    *)
(* account per key and axis and a life for every reservation.              *)
(*                                                                         *)
(* `funds' is what callers can still draw from an account, in units of     *)
(* which Unit make a token.  Funds and charges move together: a step may   *)
(* turn funds into charges or charges back into funds, may lose funds, and *)
(* creates none; only the passing of time adds some, at most Rate a tick.  *)
(* A charge changes only with the reservation or the loan it belongs to,   *)
(* and a reservation is opened once and closed at most once.               *)
(*                                                                         *)
(* MemoryStore and RedisStore are shown to implement this specification.   *)
(***************************************************************************)
EXTENDS Integers

CONSTANTS
  Keys, Axes, Ids,
  Unit,   \* units in a token
  Rate    \* per axis, the units a tick adds at most

VARIABLES
  funds,    \* per key and axis, units that can be drawn
  spent,    \* per key and axis, tokens charged to callers, loans included
  lent,     \* per key and axis, tokens on loan
  status    \* per reservation

vars == <<funds, spent, lent, status>>

Value(k, a) == funds[k][a] + spent[k][a] * Unit

\* No account gains: what is drawn is charged, what is given back was charged.
Conserved == \A k \in Keys, a \in Axes : Value(k, a)' <= Value(k, a)

\* Reservations other than the given ones stay as they are or are forgotten.
Others(ids) ==
  \A id \in Ids \ ids :
    \/ status'[id] = status[id]
    \/ status[id] # "none" /\ status'[id] = "forgotten"

Init ==
  /\ spent = [k \in Keys |-> [a \in Axes |-> 0]]
  /\ lent = [k \in Keys |-> [a \in Axes |-> 0]]
  /\ status = [id \in Ids |-> "none"]

\* A request is admitted: its reservation is opened and charged.
Open(id) ==
  /\ status[id] = "none" /\ status'[id] = "pending"
  /\ Conserved
  /\ \A k \in Keys, a \in Axes : spent'[k][a] >= spent[k][a]
  /\ Others({id})
  /\ UNCHANGED lent

\* The charge becomes the actual one, up or down.
Settle(id) ==
  /\ status[id] = "pending" /\ status'[id] = "settled"
  /\ Conserved
  /\ Others({id})
  /\ UNCHANGED lent

\* The charge is given back.
Refund(id) ==
  /\ status[id] = "pending" /\ status'[id] = "refunded"
  /\ Conserved
  /\ \A k \in Keys, a \in Axes : spent'[k][a] <= spent[k][a]
  /\ Others({id})
  /\ UNCHANGED lent

\* Tokens are lent or come back; with no tokens at all, a refusal, a loss of
\* funds, or the forgetting of reservations.
Lend ==
  /\ Conserved
  /\ \A k \in Keys, a \in Axes :
       /\ spent'[k][a] - spent[k][a] = lent'[k][a] - lent[k][a]
       /\ lent'[k][a] >= 0
  /\ Others({})

\* Time passes.
Earn ==
  /\ \A k \in Keys, a \in Axes : funds'[k][a] <= funds[k][a] + Rate[a]
  /\ Others({})
  /\ UNCHANGED <<spent, lent>>

Next ==
  \/ \E id \in Ids : Open(id) \/ Settle(id) \/ Refund(id)
  \/ Lend
  \/ Earn

Spec == Init /\ [][Next]_vars
=============================================================================
