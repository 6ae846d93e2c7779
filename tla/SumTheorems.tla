---------------------------- MODULE SumTheorems ----------------------------
(***************************************************************************)
(* Facts about SumFunctionOnSet, the sum of a function over a finite set   *)
(* of indices: what the conservation laws of the proofs rest on.           *)
(*                                                                         *)
(* The sum is a recursive function on the subsets of the indices, taken    *)
(* from the largest down.  Each fact is shown by a least subset for which  *)
(* it fails (LeastSubset): it holds for the empty set, and for a set if it *)
(* does for the set without one of its elements.                           *)
(***************************************************************************)
EXTENDS FiniteSetTheorems, TLAPS

\* The index a sum over s takes first.
Pick(s) == CHOOSE x \in s : TRUE

\* g is the table of the sums of f over the subsets of S.
SumTable(f, S, g) ==
  g = [s \in SUBSET S |-> IF s = {} THEN 0 ELSE f[Pick(s)] + g[s \ {Pick(s)}]]

\* The library's fold is the last entry of such a table.
LEMMA SumIs ==
  ASSUME NEW f, NEW S
  PROVE  SumFunctionOnSet(f, S) = (CHOOSE g : SumTable(f, S, g))[S]
BY DEF SumFunctionOnSet, FoldFunctionOnSet, MapThenFoldSet, SumTable, Pick

\* A nonempty set of subsets of a finite set has a least one.
LEMMA LeastSubset ==
  ASSUME NEW D, IsFiniteSet(D), NEW T, T \subseteq SUBSET D, T # {}
  PROVE  \E s \in T : \A u \in T : ~(u \subseteq s /\ u # s)
<1>1. T \subseteq FiniteSubsetsOf(D)
  BY FS_FiniteSubsetsOfFinite
<1>2. PICK s \in T : \A u \in T : ~(<<u, s>> \in StrictSubsetOrdering(D))
  BY <1>1, FS_StrictSubsetOrderingWellFounded, WFMin
<1> QED BY <1>2 DEF StrictSubsetOrdering

\* Two tables agree wherever both are defined.
LEMMA Unique ==
  ASSUME NEW f, NEW D, IsFiniteSet(D), NEW S \in SUBSET D, NEW T \in SUBSET D,
         NEW g, SumTable(f, S, g), NEW h, SumTable(f, T, h)
  PROVE  \A s \in SUBSET (S \cap T) : g[s] = h[s]
<1> DEFINE bad == {s \in SUBSET (S \cap T) : g[s] # h[s]}
<1> SUFFICES ASSUME bad # {} PROVE FALSE
  OBVIOUS
<1>1. PICK s \in bad : \A u \in bad : ~(u \subseteq s /\ u # s)
  <2>1. bad \subseteq SUBSET D
    OBVIOUS
  <2> HIDE DEF bad
  <2> QED BY <2>1, LeastSubset
<1>2. s # {} => Pick(s) \in s /\ s \ {Pick(s)} # s /\ s \ {Pick(s)} \subseteq s
  BY DEF Pick
<1>3. s # {} => g[s \ {Pick(s)}] = h[s \ {Pick(s)}]
  BY <1>1, <1>2
<1>4. g[s] = h[s]
  BY <1>2, <1>3 DEF SumTable
<1> QED BY <1>1, <1>4

\* There is a table for every finite set.
LEMMA Exists ==
  ASSUME NEW f, NEW D, IsFiniteSet(D)
  PROVE  \A S \in SUBSET D : \E g : SumTable(f, S, g)
<1> DEFINE bad == {S \in SUBSET D : ~\E g : SumTable(f, S, g)}
<1> SUFFICES ASSUME bad # {} PROVE FALSE
  OBVIOUS
<1>1. PICK S \in bad : \A u \in bad : ~(u \subseteq S /\ u # S)
  <2>1. bad \subseteq SUBSET D
    OBVIOUS
  <2> HIDE DEF bad
  <2> QED BY <2>1, LeastSubset
<1> DEFINE t(u) == CHOOSE g : SumTable(f, u, g)
           val == [u \in SUBSET S |->
                     IF u = {} THEN 0
                     ELSE f[Pick(u)] + t(u \ {Pick(u)})[u \ {Pick(u)}]]
<1>2. \A u \in SUBSET S : u # S => SumTable(f, u, t(u))
  BY <1>1
<1>3. \A u \in SUBSET S : u # {} => Pick(u) \in u
  BY DEF Pick
<1>4. ASSUME NEW u \in SUBSET S, u # {}
      PROVE  val[u \ {Pick(u)}] = t(u \ {Pick(u)})[u \ {Pick(u)}]
  <2> DEFINE v == u \ {Pick(u)}
  <2>1. v \in SUBSET S /\ v # S
    BY <1>3, <1>4
  <2>2. SumTable(f, v, t(v))
    BY <2>1, <1>2
  <2>3. CASE v = {}
    BY <2>1, <2>2, <2>3 DEF SumTable
  <2>4. CASE v # {}
    <3> DEFINE x == v \ {Pick(v)}
    <3>1. x \in SUBSET v /\ x # S /\ x \in SUBSET S
      BY <2>1, <1>3, <2>4
    <3>2. SumTable(f, x, t(x))
      BY <3>1, <1>2
    <3>3. x \in SUBSET (x \cap v) /\ x \in SUBSET D /\ v \in SUBSET D
      BY <3>1, <2>1
    <3>4. t(x)[x] = t(v)[x]
      <4> HIDE DEF x, v, t
      <4> QED BY <3>2, <2>2, <3>3, Unique
    <3>5. t(v)[v] = f[Pick(v)] + t(v)[x]
      <4> HIDE DEF t
      <4>1. v \in SUBSET v
        OBVIOUS
      <4> HIDE DEF v
      <4> QED BY <2>2, <2>4, <4>1 DEF SumTable
    <3>6. val[v] = f[Pick(v)] + t(x)[x]
      BY <2>1, <2>4
    <3> QED BY <3>4, <3>5, <3>6
  <2> QED BY <2>3, <2>4
<1>5. SumTable(f, S, val)
  <2>1. ASSUME NEW u \in SUBSET S, u # {}
        PROVE  val[u] = f[Pick(u)] + val[u \ {Pick(u)}]
    BY <1>4, <2>1
  <2>2. val[{}] = 0
    OBVIOUS
  <2> HIDE DEF t
  <2>3. val = [u \in SUBSET S |-> val[u]]
    OBVIOUS
  <2> HIDE DEF val
  <2>4. \A u \in SUBSET S : val[u] = IF u = {} THEN 0 ELSE f[Pick(u)] + val[u \ {Pick(u)}]
    BY <2>1, <2>2
  <2> QED BY <2>3, <2>4 DEF SumTable
<1> QED BY <1>1, <1>5

\* The sum over no indices is zero, and over others one of them and the rest.
LEMMA SumRec ==
  ASSUME NEW f, NEW S, IsFiniteSet(S)
  PROVE  /\ SumFunctionOnSet(f, {}) = 0
         /\ S # {} => SumFunctionOnSet(f, S)
                        = f[Pick(S)] + SumFunctionOnSet(f, S \ {Pick(S)})
<1> DEFINE t(u) == CHOOSE g : SumTable(f, u, g)
<1>1. \A u \in SUBSET S : SumTable(f, u, t(u))
  BY Exists
<1>2. \A u : SumFunctionOnSet(f, u) = t(u)[u]
  BY SumIs
<1> HIDE DEF t
<1>3. SumFunctionOnSet(f, {}) = 0
  BY <1>1, <1>2 DEF SumTable
<1>4. ASSUME S # {}
      PROVE  SumFunctionOnSet(f, S) = f[Pick(S)] + SumFunctionOnSet(f, S \ {Pick(S)})
  <2> DEFINE v == S \ {Pick(S)}
  <2>1. v \in SUBSET S /\ v \in SUBSET (S \cap v) /\ S \in SUBSET S
    OBVIOUS
  <2>2. SumTable(f, S, t(S)) /\ SumTable(f, v, t(v))
    BY <2>1, <1>1
  <2>3. t(S)[S] = f[Pick(S)] + t(S)[v]
    BY <2>2, <1>4 DEF SumTable
  <2> HIDE DEF v
  <2>4. t(S)[v] = t(v)[v]
    BY <2>1, <2>2, Unique
  <2> QED BY <2>3, <2>4, <1>2 DEF v
<1> QED BY <1>3, <1>4

\* SumTable of integers are integers, and sums of naturals naturals.
LEMMA SumType ==
  ASSUME NEW D, IsFiniteSet(D), NEW f, NEW N, N = Int \/ N = Nat, \A i \in D : f[i] \in N
  PROVE  \A S \in SUBSET D : SumFunctionOnSet(f, S) \in N
<1> DEFINE bad == {S \in SUBSET D : SumFunctionOnSet(f, S) \notin N}
<1> SUFFICES ASSUME bad # {} PROVE FALSE
  OBVIOUS
<1>1. PICK S \in bad : \A u \in bad : ~(u \subseteq S /\ u # S)
  <2>1. bad \subseteq SUBSET D
    OBVIOUS
  <2> HIDE DEF bad
  <2> QED BY <2>1, LeastSubset
<1>2. S \in SUBSET D /\ IsFiniteSet(S)
  BY FS_Subset
<1>3. S # {}
  <2>1. SumFunctionOnSet(f, {}) = 0
    BY FS_EmptySet, SumRec
  <2>3. 0 \in N
    OBVIOUS
  <2>2. SumFunctionOnSet(f, S) \notin N
    OBVIOUS
  <2> QED BY <2>1, <2>2, <2>3
<1>4. Pick(S) \in S
  BY <1>3 DEF Pick
<1>5. SumFunctionOnSet(f, S \ {Pick(S)}) \in N
  BY <1>1, <1>2, <1>4
<1>6. SumFunctionOnSet(f, S) = f[Pick(S)] + SumFunctionOnSet(f, S \ {Pick(S)})
  BY <1>2, <1>3, SumRec
<1>7. f[Pick(S)] \in N
  BY <1>2, <1>4
<1>8. f[Pick(S)] + SumFunctionOnSet(f, S \ {Pick(S)}) \in N
  BY <1>5, <1>7
<1> QED BY <1>6, <1>8

\* A sum depends on the values at its indices only.
LEMMA SumSame ==
  ASSUME NEW D, IsFiniteSet(D), NEW f, NEW g, \A i \in D : f[i] = g[i]
  PROVE  SumFunctionOnSet(f, D) = SumFunctionOnSet(g, D)
<1> DEFINE bad == {S \in SUBSET D : SumFunctionOnSet(f, S) # SumFunctionOnSet(g, S)}
<1> SUFFICES ASSUME bad # {} PROVE FALSE
  OBVIOUS
<1>1. PICK S \in bad : \A u \in bad : ~(u \subseteq S /\ u # S)
  <2>1. bad \subseteq SUBSET D
    OBVIOUS
  <2> HIDE DEF bad
  <2> QED BY <2>1, LeastSubset
<1>2. S \in SUBSET D /\ IsFiniteSet(S)
  BY FS_Subset
<1>3. S # {}
  BY <1>2, SumRec
<1>4. Pick(S) \in S
  BY <1>3 DEF Pick
<1>5. SumFunctionOnSet(f, S \ {Pick(S)}) = SumFunctionOnSet(g, S \ {Pick(S)})
  BY <1>1, <1>2, <1>4
<1>6. /\ SumFunctionOnSet(f, S) = f[Pick(S)] + SumFunctionOnSet(f, S \ {Pick(S)})
      /\ SumFunctionOnSet(g, S) = g[Pick(S)] + SumFunctionOnSet(g, S \ {Pick(S)})
  BY <1>2, <1>3, SumRec
<1>7. f[Pick(S)] = g[Pick(S)]
  BY <1>2, <1>4
<1> QED BY <1>5, <1>6, <1>7

\* Any index may be taken out of a sum.
LEMMA SumTake ==
  ASSUME NEW D, IsFiniteSet(D), NEW f, \A i \in D : f[i] \in Int
  PROVE  \A S \in SUBSET D : \A x \in S :
           SumFunctionOnSet(f, S) = f[x] + SumFunctionOnSet(f, S \ {x})
<1> DEFINE Bad(S) == \E x \in S : SumFunctionOnSet(f, S) # f[x] + SumFunctionOnSet(f, S \ {x})
           bad == {S \in SUBSET D : Bad(S)}
<1> SUFFICES ASSUME bad # {} PROVE FALSE
  OBVIOUS
<1>1. PICK S \in bad : \A u \in bad : ~(u \subseteq S /\ u # S)
  <2>1. bad \subseteq SUBSET D
    OBVIOUS
  <2> HIDE DEF bad
  <2> QED BY <2>1, LeastSubset
<1>2. S \in SUBSET D /\ IsFiniteSet(S)
  BY FS_Subset
<1>3. PICK x \in S : SumFunctionOnSet(f, S) # f[x] + SumFunctionOnSet(f, S \ {x})
  OBVIOUS
<1> DEFINE y == Pick(S)
<1>4. y \in S
  BY <1>3 DEF Pick
<1>5. SumFunctionOnSet(f, S) = f[y] + SumFunctionOnSet(f, S \ {y})
  BY <1>2, <1>3, SumRec
<1> HIDE DEF y
<1>6. x # y
  BY <1>3, <1>5
<1>7. /\ S \ {x} \in SUBSET D /\ S \ {y} \in SUBSET D
      /\ S \ {x} \notin bad /\ S \ {y} \notin bad
  <2> HIDE DEF bad
  <2> QED BY <1>1, <1>2, <1>3, <1>4
<1>8. /\ SumFunctionOnSet(f, S \ {x}) = f[y] + SumFunctionOnSet(f, (S \ {x}) \ {y})
      /\ SumFunctionOnSet(f, S \ {y}) = f[x] + SumFunctionOnSet(f, (S \ {y}) \ {x})
  BY <1>3, <1>4, <1>6, <1>7
<1> DEFINE rest == (S \ {x}) \ {y}
<1>9. (S \ {y}) \ {x} = rest /\ rest \in SUBSET D
  BY <1>2
<1>10. SumFunctionOnSet(f, rest) \in Int
  <2> HIDE DEF bad, rest
  <2> QED BY <1>9, SumType
<1>11. f[x] \in Int /\ f[y] \in Int
  BY <1>2, <1>3, <1>4
<1>12. /\ SumFunctionOnSet(f, S \ {x}) = f[y] + SumFunctionOnSet(f, rest)
       /\ SumFunctionOnSet(f, S \ {y}) = f[x] + SumFunctionOnSet(f, rest)
  BY <1>8, <1>9
<1> HIDE DEF bad, rest
<1>13. SumFunctionOnSet(f, S) = f[x] + SumFunctionOnSet(f, S \ {x})
  BY <1>5, <1>10, <1>11, <1>12
<1> QED BY <1>3, <1>13

\* Changing one summand changes the sum by as much.
THEOREM SumUpdate ==
  ASSUME NEW D, IsFiniteSet(D), NEW f, NEW g, NEW x \in D,
         \A i \in D : f[i] \in Int, g[x] \in Int, \A i \in D \ {x} : g[i] = f[i]
  PROVE  SumFunctionOnSet(g, D) = SumFunctionOnSet(f, D) + g[x] - f[x]
<1>1. \A i \in D : g[i] \in Int
  OBVIOUS
<1>2. /\ SumFunctionOnSet(f, D) = f[x] + SumFunctionOnSet(f, D \ {x})
      /\ SumFunctionOnSet(g, D) = g[x] + SumFunctionOnSet(g, D \ {x})
  BY <1>1, SumTake
<1>3. SumFunctionOnSet(g, D \ {x}) = SumFunctionOnSet(f, D \ {x})
  <2>1. IsFiniteSet(D \ {x})
    BY FS_Subset
  <2> QED BY <2>1, SumSame
<1>4. SumFunctionOnSet(f, D \ {x}) \in Int /\ f[x] \in Int
  BY SumType
<1> QED BY <1>2, <1>3, <1>4

\* A sum is the sum over a part and the sum over the rest.
LEMMA SumSplit ==
  ASSUME NEW D, IsFiniteSet(D), NEW f, \A i \in D : f[i] \in Int
  PROVE  \A T \in SUBSET D :
           SumFunctionOnSet(f, D) = SumFunctionOnSet(f, T) + SumFunctionOnSet(f, D \ T)
<1> DEFINE bad == {T \in SUBSET D :
                     SumFunctionOnSet(f, D) # SumFunctionOnSet(f, T) + SumFunctionOnSet(f, D \ T)}
<1> SUFFICES ASSUME bad # {} PROVE FALSE
  OBVIOUS
<1>1. PICK T \in bad : \A u \in bad : ~(u \subseteq T /\ u # T)
  <2>1. bad \subseteq SUBSET D
    OBVIOUS
  <2> HIDE DEF bad
  <2> QED BY <2>1, LeastSubset
<1>2. T \in SUBSET D
  OBVIOUS
<1>3. T # {}
  <2>1. SumFunctionOnSet(f, {}) = 0 /\ SumFunctionOnSet(f, D) \in Int /\ D \ {} = D
    BY SumRec, SumType
  <2>2. SumFunctionOnSet(f, D) = SumFunctionOnSet(f, {}) + SumFunctionOnSet(f, D \ {})
    BY <2>1
  <2>3. SumFunctionOnSet(f, D) # SumFunctionOnSet(f, T) + SumFunctionOnSet(f, D \ T)
    OBVIOUS
  <2> QED BY <2>2, <2>3
<1>4. PICK x \in T : TRUE
  BY <1>3
<1> DEFINE rest == D \ (T \ {x})
<1>5. /\ T \ {x} \in SUBSET D /\ rest \in SUBSET D /\ x \in rest /\ rest \ {x} = D \ T
      /\ D \ T \in SUBSET D
  BY <1>2, <1>4
<1>6. SumFunctionOnSet(f, D) = SumFunctionOnSet(f, T \ {x}) + SumFunctionOnSet(f, rest)
  BY <1>1, <1>4, <1>5
<1> HIDE DEF bad, rest
<1>7. /\ SumFunctionOnSet(f, T) = f[x] + SumFunctionOnSet(f, T \ {x})
      /\ SumFunctionOnSet(f, rest) = f[x] + SumFunctionOnSet(f, D \ T)
  BY <1>2, <1>4, <1>5, SumTake
<1>8. /\ f[x] \in Int /\ SumFunctionOnSet(f, T \ {x}) \in Int
      /\ SumFunctionOnSet(f, D \ T) \in Int
  BY <1>2, <1>4, <1>5, SumType
<1>9. SumFunctionOnSet(f, D) = SumFunctionOnSet(f, T) + SumFunctionOnSet(f, D \ T)
  BY <1>6, <1>7, <1>8
<1> QED BY <1>1, <1>9 DEF bad

\* A sum of zeros is zero.
LEMMA SumZero ==
  ASSUME NEW D, IsFiniteSet(D), NEW f, \A i \in D : f[i] = 0
  PROVE  SumFunctionOnSet(f, D) = 0
<1> DEFINE bad == {S \in SUBSET D : SumFunctionOnSet(f, S) # 0}
<1> SUFFICES ASSUME bad # {} PROVE FALSE
  OBVIOUS
<1>1. PICK S \in bad : \A u \in bad : ~(u \subseteq S /\ u # S)
  <2>1. bad \subseteq SUBSET D
    OBVIOUS
  <2> HIDE DEF bad
  <2> QED BY <2>1, LeastSubset
<1>2. S \in SUBSET D /\ IsFiniteSet(S)
  BY FS_Subset
<1>3. S # {}
  BY <1>2, SumRec
<1>4. Pick(S) \in S
  BY <1>3 DEF Pick
<1>5. SumFunctionOnSet(f, S \ {Pick(S)}) = 0
  BY <1>1, <1>2, <1>4
<1>6. SumFunctionOnSet(f, S) = f[Pick(S)] + SumFunctionOnSet(f, S \ {Pick(S)})
  BY <1>2, <1>3, SumRec
<1>7. f[Pick(S)] = 0
  BY <1>2, <1>4
<1> QED BY <1>5, <1>6, <1>7

\* Clearing the summands of a part takes the sum over the part away.
THEOREM SumClear ==
  ASSUME NEW D, IsFiniteSet(D), NEW T \in SUBSET D, NEW f, NEW g,
         \A i \in D : f[i] \in Int,
         \A i \in T : g[i] = 0, \A i \in D \ T : g[i] = f[i]
  PROVE  SumFunctionOnSet(g, D) = SumFunctionOnSet(f, D) - SumFunctionOnSet(f, T)
<1>1. \A i \in D : g[i] \in Int
  OBVIOUS
<1>2. IsFiniteSet(T) /\ IsFiniteSet(D \ T)
  BY FS_Subset
<1>3. SumFunctionOnSet(g, T) = 0 /\ SumFunctionOnSet(g, D \ T) = SumFunctionOnSet(f, D \ T)
  BY <1>2, SumZero, SumSame
<1>4. /\ SumFunctionOnSet(f, D) = SumFunctionOnSet(f, T) + SumFunctionOnSet(f, D \ T)
      /\ SumFunctionOnSet(g, D) = SumFunctionOnSet(g, T) + SumFunctionOnSet(g, D \ T)
  BY <1>1, SumSplit
<1>5. SumFunctionOnSet(f, T) \in Int /\ SumFunctionOnSet(f, D \ T) \in Int
  BY SumType
<1> QED BY <1>3, <1>4, <1>5

\* Smaller summands have no larger sum.
LEMMA SumLeq ==
  ASSUME NEW D, IsFiniteSet(D), NEW f, NEW g,
         \A i \in D : f[i] \in Int /\ g[i] \in Int /\ g[i] <= f[i]
  PROVE  SumFunctionOnSet(g, D) <= SumFunctionOnSet(f, D)
<1> DEFINE bad == {S \in SUBSET D : ~(SumFunctionOnSet(g, S) <= SumFunctionOnSet(f, S))}
<1> SUFFICES ASSUME bad # {} PROVE FALSE
  OBVIOUS
<1>1. PICK S \in bad : \A u \in bad : ~(u \subseteq S /\ u # S)
  <2>1. bad \subseteq SUBSET D
    OBVIOUS
  <2> HIDE DEF bad
  <2> QED BY <2>1, LeastSubset
<1>2. S \in SUBSET D /\ IsFiniteSet(S)
  BY FS_Subset
<1>3. S # {}
  BY <1>2, SumRec
<1>4. Pick(S) \in S
  BY <1>3 DEF Pick
<1>5. SumFunctionOnSet(g, S \ {Pick(S)}) <= SumFunctionOnSet(f, S \ {Pick(S)})
  BY <1>1, <1>2, <1>4
<1>6. /\ SumFunctionOnSet(f, S) = f[Pick(S)] + SumFunctionOnSet(f, S \ {Pick(S)})
      /\ SumFunctionOnSet(g, S) = g[Pick(S)] + SumFunctionOnSet(g, S \ {Pick(S)})
  BY <1>2, <1>3, SumRec
<1>7. /\ f[Pick(S)] \in Int /\ g[Pick(S)] \in Int /\ g[Pick(S)] <= f[Pick(S)]
      /\ SumFunctionOnSet(f, S \ {Pick(S)}) \in Int
      /\ SumFunctionOnSet(g, S \ {Pick(S)}) \in Int
  BY <1>2, <1>4, SumType
<1>8. SumFunctionOnSet(g, S) <= SumFunctionOnSet(f, S)
  BY <1>5, <1>6, <1>7
<1> QED BY <1>1, <1>8

\* When one summand changes and no other one grows, the sum changes by at most that.
LEMMA SumChange ==
  ASSUME NEW D, IsFiniteSet(D), NEW f, NEW g, NEW x \in D,
         \A i \in D : f[i] \in Int /\ g[i] \in Int,
         \A i \in D \ {x} : g[i] <= f[i]
  PROVE  SumFunctionOnSet(g, D) <= SumFunctionOnSet(f, D) + g[x] - f[x]
<1> DEFINE h == [i \in D |-> IF i = x THEN g[i] ELSE f[i]]
<1>1. h[x] = g[x] /\ (\A i \in D \ {x} : h[i] = f[i]) /\ \A i \in D : h[i] \in Int
  OBVIOUS
<1> HIDE DEF h
<1>2. SumFunctionOnSet(h, D) = SumFunctionOnSet(f, D) + h[x] - f[x]
  BY <1>1, SumUpdate
<1>3. \A i \in D : g[i] <= h[i]
  BY <1>1
<1>4. SumFunctionOnSet(g, D) <= SumFunctionOnSet(h, D)
  BY <1>1, <1>3, SumLeq
<1> QED BY <1>1, <1>2, <1>4
=============================================================================
