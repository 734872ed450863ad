---------------------------- MODULE SumTheorems -----------------------------
(***************************************************************************)
(* What the proofs need to know about SumFunctionOnSet, the sum of a       *)
(* function over a finite set, which totals what the CPUs have taken of a  *)
(* flow's bucket and what the risk map holds for a domain.  It is defined  *)
(* by a fold; the facts follow by induction over the subsets of the set.   *)
(***************************************************************************)
EXTENDS Integers, Functions, FiniteSets, FiniteSetTheorems, WellFoundedInduction, TLAPS

Pick(s) == CHOOSE x \in s : TRUE

\* F is the fold of f over the subsets of S
IsFold(f, F, S) ==
    F = [s \in SUBSET S |-> IF s = {} THEN 0 ELSE f[Pick(s)] + F[s \ {Pick(s)}]]

Folding(f, S) == CHOOSE F : IsFold(f, F, S)

\* The element that CHOOSE picks of a set that is not empty.
LEMMA PickIn == ASSUME NEW s, s # {} PROVE Pick(s) \in s
  BY DEF Pick

\* Induction over the subsets of a finite set, for a set Good of them: the
\* smallest subset that is not in Good would have only subsets in Good.
LEMMA SubsetInduction ==
    ASSUME NEW S, IsFiniteSet(S), NEW Good,
           \A T \in SUBSET S : (\A U \in SUBSET T : U # T => U \in Good) => T \in Good
    PROVE  \A T \in SUBSET S : T \in Good
  <1> DEFINE Bad == {T \in SUBSET S : T \notin Good}
             R == StrictSubsetOrdering(S)
             P == SUBSET S
  <1>1. IsWellFoundedOn(R, P)
    BY FS_StrictSubsetOrderingWellFounded, FS_FiniteSubsetsOfFinite
  <1>2. ASSUME Bad # {} PROVE FALSE
    <2>1. PICK T \in Bad : \A U \in Bad : ~(<<U, T>> \in R)
      <3>1. Bad \subseteq P
        OBVIOUS
      <3> HIDE DEF Bad, R, P
      <3> QED
        BY <1>1, <1>2, <3>1, WFMin
    <2>2. \A U \in SUBSET T : U # T => U \in Good
      BY <2>1 DEF StrictSubsetOrdering
    <2> QED
      BY <2>1, <2>2
  <1> QED
    BY <1>2

\* One step of a fold.
LEMMA FoldStep ==
    ASSUME NEW f, NEW F, NEW S, IsFold(f, F, S), NEW s \in SUBSET S
    PROVE  F[s] = IF s = {} THEN 0 ELSE f[Pick(s)] + F[s \ {Pick(s)}]
  BY DEF IsFold

\* A fold is determined by f, whatever set it is taken over.
LEMMA FoldUnique ==
    ASSUME NEW f, NEW F, NEW G, NEW S, NEW T, IsFold(f, F, S), IsFold(f, G, T),
           NEW s, s \in SUBSET S, s \in SUBSET T, IsFiniteSet(s)
    PROVE  F[s] = G[s]
  <1> DEFINE Good == {u \in SUBSET s : F[u] = G[u]}
  <1>1. ASSUME NEW u \in SUBSET s, \A v \in SUBSET u : v # u => v \in Good PROVE u \in Good
    <2>1. CASE u = {}
      BY <2>1, FoldStep
    <2>2. CASE u # {}
      <3>1. Pick(u) \in u
        BY <2>2, PickIn
      <3>2. u \ {Pick(u)} \in Good
        BY <1>1, <3>1
      <3>3. F[u] = f[Pick(u)] + F[u \ {Pick(u)}] /\ G[u] = f[Pick(u)] + G[u \ {Pick(u)}]
        BY <2>2, FoldStep
      <3> QED
        BY <3>2, <3>3
    <2> QED
      BY <2>1, <2>2
  <1> HIDE DEF Good
  <1>2. s \in Good
    BY <1>1, SubsetInduction
  <1> QED
    BY <1>2 DEF Good

\* Over a finite set there is a fold.
LEMMA FoldExists ==
    ASSUME NEW f, NEW S, IsFiniteSet(S)
    PROVE  IsFold(f, Folding(f, S), S)
  <1> DEFINE Good == {T \in SUBSET S : \E F : IsFold(f, F, T)}
  <1>1. ASSUME NEW T \in SUBSET S, \A U \in SUBSET T : U # T => U \in Good PROVE T \in Good
    <2> DEFINE Rest(s) == s \ {Pick(s)}
               G == [s \in SUBSET T |-> IF s = {} THEN 0
                                        ELSE f[Pick(s)] + Folding(f, Rest(s))[Rest(s)]]
    <2>1. ASSUME NEW s \in SUBSET T, s # {}
          PROVE  IsFold(f, Folding(f, Rest(s)), Rest(s)) /\ Rest(s) \in SUBSET T
      <3>1. Pick(s) \in s
        BY <2>1, PickIn
      <3>2. Rest(s) \in Good
        BY <1>1, <3>1
      <3> QED
        BY <3>2 DEF Folding
    <2>2. ASSUME NEW s \in SUBSET T, s # {} PROVE Folding(f, Rest(s))[Rest(s)] = G[Rest(s)]
      <3> DEFINE u == Rest(s)
      <3>1. IsFold(f, Folding(f, u), u) /\ u \in SUBSET T
        BY <2>1, <2>2
      <3>2. CASE u = {}
        BY <3>1, <3>2, FoldStep
      <3>3. CASE u # {}
        <4>1. Folding(f, u)[u] = f[Pick(u)] + Folding(f, u)[Rest(u)]
          <5>1. u \in SUBSET u
            OBVIOUS
          <5> HIDE DEF u
          <5>2. Folding(f, u)[u] = IF u = {} THEN 0 ELSE f[Pick(u)] + Folding(f, u)[u \ {Pick(u)}]
            BY <3>1, <5>1, FoldStep
          <5> QED
            BY <3>3, <5>2
        <4>2. IsFold(f, Folding(f, Rest(u)), Rest(u))
          BY <2>1, <3>1, <3>3
        <4>3. IsFiniteSet(Rest(u))
          BY <3>1, FS_Subset
        <4>4. Folding(f, u)[Rest(u)] = Folding(f, Rest(u))[Rest(u)]
          BY <3>1, <4>2, <4>3, FoldUnique, Rest(u) \in SUBSET u
        <4> QED
          BY <3>1, <3>3, <4>1, <4>4
      <3> QED
        BY <3>2, <3>3
    <2>3. G = [s \in SUBSET T |-> IF s = {} THEN 0 ELSE f[Pick(s)] + G[s \ {Pick(s)}]]
      BY <2>2
    <2> QED
      BY <2>3 DEF IsFold
  <1> HIDE DEF Good
  <1>2. S \in Good
    BY <1>1, SubsetInduction
  <1> QED
    BY <1>2 DEF Good, Folding

\* SumFunctionOnSet is that fold.
LEMMA SumIsFold ==
    ASSUME NEW f, NEW S
    PROVE  SumFunctionOnSet(f, S) = Folding(f, S)[S]
  BY Zenon DEF SumFunctionOnSet, FoldFunctionOnSet, MapThenFoldSet, Folding, IsFold, Pick

\* Nothing adds up to zero.
LEMMA SumEmpty == ASSUME NEW f PROVE SumFunctionOnSet(f, {}) = 0
  <1>1. IsFold(f, Folding(f, {}), {})
    BY FS_EmptySet, FoldExists
  <1> QED
    BY <1>1, FoldStep, SumIsFold

\* One unfolding, at the element that the definition picks.
LEMMA SumUnfold ==
    ASSUME NEW f, NEW S, IsFiniteSet(S), S # {}
    PROVE  /\ Pick(S) \in S
           /\ SumFunctionOnSet(f, S) = f[Pick(S)] + SumFunctionOnSet(f, S \ {Pick(S)})
  <1> DEFINE R == S \ {Pick(S)}
  <1>1. IsFiniteSet(R) /\ R \in SUBSET S
    BY FS_Subset
  <1>2. IsFold(f, Folding(f, S), S) /\ IsFold(f, Folding(f, R), R)
    BY <1>1, FoldExists
  <1>3. Folding(f, S)[R] = Folding(f, R)[R]
    BY <1>1, <1>2, FoldUnique
  <1>4. Folding(f, S)[S] = f[Pick(S)] + Folding(f, S)[R]
    BY <1>2, FoldStep
  <1> QED
    BY <1>3, <1>4, PickIn, SumIsFold

\* A sum of natural numbers is one.
LEMMA SumNat ==
    ASSUME NEW f, NEW S, IsFiniteSet(S), \A x \in S : f[x] \in Nat
    PROVE  SumFunctionOnSet(f, S) \in Nat
  <1> DEFINE Good == {T \in SUBSET S : SumFunctionOnSet(f, T) \in Nat}
  <1>1. ASSUME NEW T \in SUBSET S, \A U \in SUBSET T : U # T => U \in Good PROVE T \in Good
    <2>1. CASE T = {}
      BY <2>1, SumEmpty
    <2>2. CASE T # {}
      <3>1. /\ Pick(T) \in T
            /\ SumFunctionOnSet(f, T) = f[Pick(T)] + SumFunctionOnSet(f, T \ {Pick(T)})
        BY <2>2, FS_Subset, SumUnfold
      <3>2. T \ {Pick(T)} \in Good
        BY <1>1, <3>1
      <3> QED
        BY <3>1, <3>2
    <2> QED
      BY <2>1, <2>2
  <1> HIDE DEF Good
  <1>2. S \in Good
    BY <1>1, SubsetInduction
  <1> QED
    BY <1>2 DEF Good

\* Any element may be taken out first.
LEMMA SumRemove ==
    ASSUME NEW f, NEW S, IsFiniteSet(S), \A x \in S : f[x] \in Nat, NEW x \in S
    PROVE  SumFunctionOnSet(f, S) = f[x] + SumFunctionOnSet(f, S \ {x})
  <1> DEFINE Good == {T \in SUBSET S : \A y \in T :
                        SumFunctionOnSet(f, T) = f[y] + SumFunctionOnSet(f, T \ {y})}
  <1>1. ASSUME NEW T \in SUBSET S, \A U \in SUBSET T : U # T => U \in Good PROVE T \in Good
    <2> SUFFICES ASSUME NEW y \in T
                 PROVE  SumFunctionOnSet(f, T) = f[y] + SumFunctionOnSet(f, T \ {y})
      OBVIOUS
    <2> DEFINE p == Pick(T)
    <2>1. /\ p \in T
          /\ SumFunctionOnSet(f, T) = f[p] + SumFunctionOnSet(f, T \ {p})
      BY FS_Subset, SumUnfold
    <2>2. CASE y # p
      <3>1. SumFunctionOnSet(f, T \ {p}) = f[y] + SumFunctionOnSet(f, (T \ {p}) \ {y})
        <4>1. T \ {p} \in Good /\ y \in T \ {p}
          BY <1>1, <2>1, <2>2
        <4> QED
          BY <4>1
      <3>2. SumFunctionOnSet(f, T \ {y}) = f[p] + SumFunctionOnSet(f, (T \ {y}) \ {p})
        <4>1. T \ {y} \in Good /\ p \in T \ {y}
          BY <1>1, <2>1, <2>2
        <4> QED
          BY <4>1
      <3>3. (T \ {p}) \ {y} = (T \ {y}) \ {p}
        OBVIOUS
      <3>4. SumFunctionOnSet(f, (T \ {y}) \ {p}) \in Nat /\ f[p] \in Nat /\ f[y] \in Nat
        BY <2>1, SumNat, FS_Subset
      <3> HIDE DEF p
      <3> QED
        BY <2>1, <3>1, <3>2, <3>3, <3>4
    <2> QED
      BY <2>1, <2>2
  <1> HIDE DEF Good
  <1>2. S \in Good
    BY <1>1, SubsetInduction
  <1> QED
    BY <1>2 DEF Good

\* A sum grows with its summands.
LEMMA SumMonotone ==
    ASSUME NEW f, NEW g, NEW S, IsFiniteSet(S),
           \A x \in S : f[x] \in Nat /\ g[x] \in Nat /\ f[x] <= g[x]
    PROVE  SumFunctionOnSet(f, S) <= SumFunctionOnSet(g, S)
  <1> DEFINE Good == {T \in SUBSET S : SumFunctionOnSet(f, T) <= SumFunctionOnSet(g, T)}
  <1>1. ASSUME NEW T \in SUBSET S, \A U \in SUBSET T : U # T => U \in Good PROVE T \in Good
    <2>1. CASE T = {}
      BY <2>1, SumEmpty
    <2>2. CASE T # {}
      <3> DEFINE p == Pick(T)
                 R == T \ {p}
      <3>1. /\ p \in T
            /\ SumFunctionOnSet(f, T) = f[p] + SumFunctionOnSet(f, R)
            /\ SumFunctionOnSet(g, T) = g[p] + SumFunctionOnSet(g, R)
        BY <2>2, FS_Subset, SumUnfold
      <3>2. R \in Good
        BY <1>1, <3>1
      <3>3. SumFunctionOnSet(f, R) \in Nat /\ SumFunctionOnSet(g, R) \in Nat
        BY <3>1, SumNat, FS_Subset
      <3>4. f[p] \in Nat /\ g[p] \in Nat /\ f[p] <= g[p]
        BY <3>1
      <3> HIDE DEF p
      <3> QED
        BY <3>1, <3>2, <3>3, <3>4
    <2> QED
      BY <2>1, <2>2
  <1> HIDE DEF Good
  <1>2. S \in Good
    BY <1>1, SubsetInduction
  <1> QED
    BY <1>2 DEF Good

\* Functions that agree on a set have the same sum over it.
LEMMA SumSame ==
    ASSUME NEW f, NEW g, NEW S, IsFiniteSet(S), \A x \in S : f[x] \in Nat /\ g[x] = f[x]
    PROVE  SumFunctionOnSet(g, S) = SumFunctionOnSet(f, S)
  <1>1. SumFunctionOnSet(f, S) <= SumFunctionOnSet(g, S)
    BY SumMonotone
  <1>2. SumFunctionOnSet(g, S) <= SumFunctionOnSet(f, S)
    BY SumMonotone
  <1>3. SumFunctionOnSet(f, S) \in Nat /\ SumFunctionOnSet(g, S) \in Nat
    BY SumNat
  <1> QED
    BY <1>1, <1>2, <1>3

\* One element more.
LEMMA SumInsert ==
    ASSUME NEW f, NEW S, IsFiniteSet(S), NEW x, x \notin S, \A y \in S \cup {x} : f[y] \in Nat
    PROVE  SumFunctionOnSet(f, S \cup {x}) = f[x] + SumFunctionOnSet(f, S)
  <1>1. IsFiniteSet(S \cup {x}) /\ (S \cup {x}) \ {x} = S
    BY FS_AddElement
  <1> QED
    BY <1>1, SumRemove

\* Elements with no share in the sum may be left out.
LEMMA SumSupport ==
    ASSUME NEW f, NEW S, IsFiniteSet(S), NEW T, T \subseteq S,
           \A x \in S : f[x] \in Nat, \A x \in S \ T : f[x] = 0
    PROVE  SumFunctionOnSet(f, T) = SumFunctionOnSet(f, S)
  <1> DEFINE Good == {U \in SUBSET S : SumFunctionOnSet(f, U \cap T) = SumFunctionOnSet(f, U)}
  <1>1. ASSUME NEW U \in SUBSET S, \A V \in SUBSET U : V # U => V \in Good PROVE U \in Good
    <2>1. CASE U = {}
      <3>1. U \cap T = U
        BY <2>1
      <3> QED
        BY <3>1
    <2>2. CASE U # {}
      <3> DEFINE p == Pick(U)
                 R == U \ {p}
      <3>1. p \in U /\ SumFunctionOnSet(f, U) = f[p] + SumFunctionOnSet(f, R)
        BY <2>2, FS_Subset, SumUnfold
      <3>2. SumFunctionOnSet(f, R \cap T) = SumFunctionOnSet(f, R)
        <4>1. R \in Good
          BY <1>1, <3>1
        <4> QED
          BY <4>1
      <3> HIDE DEF p
      <3>3. CASE p \in T
        <4>1. IsFiniteSet(U \cap T) /\ p \in U \cap T /\ \A x \in U \cap T : f[x] \in Nat
          BY <3>1, <3>3, FS_Subset
        <4>2. SumFunctionOnSet(f, U \cap T) = f[p] + SumFunctionOnSet(f, (U \cap T) \ {p})
          BY <4>1, SumRemove
        <4>3. (U \cap T) \ {p} = R \cap T
          OBVIOUS
        <4> QED
          BY <3>1, <3>2, <4>2, <4>3
      <3>4. CASE p \notin T
        <4>1. U \cap T = R \cap T /\ f[p] = 0
          BY <3>1, <3>4
        <4>2. SumFunctionOnSet(f, R) \in Nat
          BY FS_Subset, SumNat
        <4>3. SumFunctionOnSet(f, U) = SumFunctionOnSet(f, R)
          BY <3>1, <4>1, <4>2
        <4> QED
          BY <3>2, <4>1, <4>3
      <3> QED
        BY <3>3, <3>4
    <2> QED
      BY <2>1, <2>2
  <1> HIDE DEF Good
  <1>2. S \in Good
    BY <1>1, SubsetInduction
  <1>3. S \cap T = T
    OBVIOUS
  <1> QED
    BY <1>2, <1>3 DEF Good
=============================================================================
