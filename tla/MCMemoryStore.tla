--------------------------- MODULE MCMemoryStore ---------------------------
(***************************************************************************)
(* Instances of MemoryStore for TLC.  Each group of definitions below is   *)
(* the input set of one kind of run; the .cfg files pick among them.       *)
(***************************************************************************)
EXTENDS MemoryStore, TLC

\* Reservation ids are interchangeable.
IdSymmetry == Permutations(Ids)

Amounts(r, t, i, o) == [rpm |-> r, tpm |-> t, itpm |-> i, otpm |-> o]

\* One classic tier.  The costs: a request most of the token budget goes to,
\* one with a negative request count, and one above the token budget.
ClassicTier  == {Amounts(2, 3, 0, 0)}
ClassicCap   == Amounts(2, 3, 0, 0)
ClassicCosts == {Amounts(1, 2, 0, 0), Amounts(-1, 1, 0, 0), Amounts(1, 4, 0, 0)}
\* Settlements below what was reserved (a negative count) and above it.
ClassicActuals == {Amounts(0, -1, 0, 0), Amounts(0, 4, 0, 0)}
ClassicBorrows == {[min |-> Amounts(1, 1, 0, 0), chunk |-> Amounts(1, 2, 0, 0)]}
ClassicReturns == {Amounts(-1, 2, 0, 0)}

\* A classic tier, and a split tier that grants more requests, for the same
\* key: the request bucket is shared by both.
MixedTiers   == {Amounts(1, 2, 0, 0), Amounts(2, 2, 2, 1)}
MixedCap     == Amounts(2, 2, 2, 1)
MixedCosts   == {Amounts(1, 2, 1, 1)}
MixedActuals == {Amounts(0, 3, 0, 2)}
MixedBorrows == {[min |-> Amounts(0, 1, 1, 0), chunk |-> Amounts(1, 1, 1, 1)]}
MixedReturns == {Amounts(1, 1, 1, 0)}
=============================================================================
