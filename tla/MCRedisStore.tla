---------------------------- MODULE MCRedisStore ----------------------------
(***************************************************************************)
(* Instances of RedisStore for TLC.                                        *)
(***************************************************************************)
EXTENDS RedisStore, TLC

IdSymmetry == Permutations(Ids) \union Permutations(Workers)

Amounts(r, t, i, o) == [rpm |-> r, tpm |-> t, itpm |-> i, otpm |-> o]

\* A classic tier, and a split tier with a larger budget of requests, for the
\* same key.
MixedTiers   == {Amounts(1, 2, 0, 0), Amounts(2, 2, 2, 1)}
MixedCap     == Amounts(2, 2, 2, 1)
MixedCosts   == {Amounts(1, 1, 1, -1)}
MixedActuals == {Amounts(0, 3, 0, 2)}
MixedBorrows == {[min |-> Amounts(0, 1, 1, 0), chunk |-> Amounts(1, 1, 1, 1)]}
MixedReturns == {Amounts(1, 1, 1, 0)}

\* One tier that never changes.
SteadyTiers  == {Amounts(2, 2, 0, 0)}
ClassicCap   == Amounts(2, 2, 0, 0)
ClassicCosts == {Amounts(1, 1, 0, 0)}
=============================================================================
