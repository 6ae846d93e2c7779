----------------------------- MODULE MCFastPath -----------------------------
(***************************************************************************)
(* Instances of FastPath for TLC.                                          *)
(***************************************************************************)
EXTENDS FastPath, TLC

Amounts(r, t, i, o) == [rpm |-> r, tpm |-> t, itpm |-> i, otpm |-> o]

IdSymmetry == Permutations(Ids)

CONSTANTS p1, p2, w1, w2

\* One handler in each of two pods, or two handlers in one pod.
Apart    == w1 :> p1 @@ w2 :> p2
Together == w1 :> p1 @@ w2 :> p1

\* The first pod fails open, the other one closed.
FirstOpen == [p \in Pods |-> p = p1]

Classic == Amounts(2, 3, 0, 0)
SplitIO == Amounts(2, 0, 2, 2)

Chunks  == Amounts(1, 2, 1, 1)

\* Two requests of PlainCosts are more than the bucket holds; one of SmallCosts
\* leaves tokens in the lease but no requests.
PlainCosts   == {Amounts(1, 2, 0, 0)}
SmallCosts   == {Amounts(1, 1, 0, 0)}
SplitCosts   == {Amounts(1, 0, 1, 1)}
\* Settlements that never exceed the reservation, and ones that do.
PlainActuals == {Amounts(0, 0, 0, 0), Amounts(0, 1, 0, 0)}
OverActuals  == {Amounts(0, 0, 0, 0), Amounts(0, 3, 0, 0)}
SplitActuals == {Amounts(0, 0, 2, 0)}
=============================================================================
