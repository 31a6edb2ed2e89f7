---------------------------- MODULE Sums_proofs ----------------------------
(***************************************************************************)
(* Finite sets: what a sum over one is worth, and what the least and the   *)
(* greatest of one are.  SumFunctionOnSet folds a function over a set in   *)
(* an order it chooses, so each fact is an induction over the subsets of   *)
(* that set: SubsetInduction, for sets given as sets, from the             *)
(* well-foundedness of strict inclusion.                                   *)
(***************************************************************************)
EXTENDS Integers, Functions, FiniteSetTheorems, TLAPS

\* What contains every set whose strict subsets it contains, contains all
\* subsets of a finite set.
LEMMA SubsetInduction ==
  ASSUME NEW S, IsFiniteSet(S), NEW G,
         \A T \in SUBSET S : (\A U \in SUBSET T : U # T => U \in G) => T \in G
  PROVE  \A T \in SUBSET S : T \in G
<1> DEFINE Bad == {T \in SUBSET S : T \notin G}
           Less == StrictSubsetOrdering(S)
<1> SUFFICES ASSUME Bad # {} PROVE FALSE
  OBVIOUS
<1>1. IsWellFoundedOn(Less, FiniteSubsetsOf(S))
  BY FS_StrictSubsetOrderingWellFounded
<1>2. Bad \subseteq FiniteSubsetsOf(S)
  BY FS_Subset DEF FiniteSubsetsOf
<1> HIDE DEF Less, Bad
<1>3. PICK T \in Bad : \A U \in Bad : ~ (<<U, T>> \in Less)
  BY <1>1, <1>2, WFMin
<1>4. \A U \in SUBSET T : U # T => U \in G
  BY <1>3 DEF Bad, Less, StrictSubsetOrdering
<1> QED BY <1>3, <1>4 DEF Bad

-----------------------------------------------------------------------------
(* The fold.                                                               *)

Pick(T) == CHOOSE x \in T : TRUE

\* h folds g over every subset of A.
IsFold(h, g, A) ==
  h = [T \in SUBSET A |-> IF T = {} THEN 0 ELSE g[Pick(T)] + h[T \ {Pick(T)}]]

LEMMA PickIn ==
  ASSUME NEW T, T # {}
  PROVE  Pick(T) \in T
  BY DEF Pick

\* Two folds of one function agree wherever both are defined.
LEMMA FoldsAgree ==
  ASSUME NEW S, IsFiniteSet(S), NEW g, NEW A, NEW B, NEW i, NEW j,
         IsFold(i, g, A), IsFold(j, g, B), S \subseteq A, S \subseteq B
  PROVE  i[S] = j[S]
<1> DEFINE G == {T \in SUBSET S : i[T] = j[T]}
<1>1. \A T \in SUBSET S : (\A U \in SUBSET T : U # T => U \in G) => T \in G
  <2> SUFFICES ASSUME NEW T \in SUBSET S, \A U \in SUBSET T : U # T => U \in G
               PROVE  i[T] = j[T]
    OBVIOUS
  <2> DEFINE U == T \ {Pick(T)}
  <2>1. T \in SUBSET A /\ T \in SUBSET B
    OBVIOUS
  <2>2. /\ i[T] = IF T = {} THEN 0 ELSE g[Pick(T)] + i[U]
        /\ j[T] = IF T = {} THEN 0 ELSE g[Pick(T)] + j[U]
    BY <2>1 DEF IsFold
  <2>3. T # {} => i[U] = j[U]
    BY PickIn
  <2> QED BY <2>2, <2>3
<1>2. \A T \in SUBSET S : T \in G
  <2> HIDE DEF G
  <2> QED BY <1>1, SubsetInduction
<1> QED BY <1>2

\* Every finite set has a fold.
LEMMA FoldExists ==
  ASSUME NEW S, IsFiniteSet(S), NEW g
  PROVE  \E h : IsFold(h, g, S)
<1> DEFINE G == {T \in SUBSET S : \E h : IsFold(h, g, T)}
<1>1. \A T \in SUBSET S : (\A U \in SUBSET T : U # T => U \in G) => T \in G
  <2> SUFFICES ASSUME NEW T \in SUBSET S, \A U \in SUBSET T : U # T => U \in G
               PROVE  \E h : IsFold(h, g, T)
    OBVIOUS
  <2> DEFINE w(U) == CHOOSE h : IsFold(h, g, U)
             Rest(U) == U \ {Pick(U)}
             glued == [U \in SUBSET T |->
                         IF U = {} THEN 0 ELSE g[Pick(U)] + w(Rest(U))[Rest(U)]]
  <2>1. \A U \in SUBSET T : U # T => IsFold(w(U), g, U)
    OBVIOUS
  <2> HIDE DEF w
  <2>2. ASSUME NEW U \in SUBSET T, U # {}
        PROVE  glued[Rest(U)] = w(Rest(U))[Rest(U)]
    <3> DEFINE V == Rest(U)
    <3>1. V \in SUBSET T /\ V # T
      BY <2>2, PickIn
    <3>2. IsFold(w(V), g, V)
      BY <3>1, <2>1
    <3>3. w(V)[V] = IF V = {} THEN 0 ELSE g[Pick(V)] + w(V)[Rest(V)]
      BY <3>2 DEF IsFold
    <3>4. ASSUME V # {}
          PROVE  w(V)[Rest(V)] = w(Rest(V))[Rest(V)]
      <4>1. Rest(V) \in SUBSET T /\ Rest(V) # T
        BY <3>1, <3>4, PickIn
      <4>2. IsFold(w(Rest(V)), g, Rest(V))
        BY <4>1, <2>1
      <4>3. IsFiniteSet(Rest(V))
        BY <4>1, FS_Subset
      <4> HIDE DEF V, Rest
      <4>4. Rest(V) \subseteq V
        BY DEF Rest
      <4> QED BY <3>2, <4>2, <4>3, <4>4, FoldsAgree
    <3>5. glued[V] = IF V = {} THEN 0 ELSE g[Pick(V)] + w(Rest(V))[Rest(V)]
      BY <3>1
    <3> QED BY <3>3, <3>4, <3>5
  <2>3. glued = [U \in SUBSET T |-> IF U = {} THEN 0 ELSE g[Pick(U)] + glued[Rest(U)]]
    BY <2>2, Zenon
  <2> QED BY <2>3 DEF IsFold
<1>2. \A T \in SUBSET S : T \in G
  <2> HIDE DEF G
  <2> QED BY <1>1, SubsetInduction
<1> QED BY <1>2

-----------------------------------------------------------------------------
(* Sums.                                                                   *)

LEMMA SumIsFold ==
  ASSUME NEW g, NEW S
  PROVE  SumFunctionOnSet(g, S) = (CHOOSE h : IsFold(h, g, S))[S]
  BY Zenon DEF SumFunctionOnSet, FoldFunctionOnSet, MapThenFoldSet, IsFold, Pick

\* A sum takes one element out and goes on with the rest.
LEMMA SumStep ==
  ASSUME NEW S, IsFiniteSet(S), NEW g
  PROVE  SumFunctionOnSet(g, S)
           = IF S = {} THEN 0 ELSE g[Pick(S)] + SumFunctionOnSet(g, S \ {Pick(S)})
<1> DEFINE w(T) == CHOOSE h : IsFold(h, g, T)
           T == S \ {Pick(S)}
<1>1. IsFiniteSet(T)
  BY FS_Subset
<1>2. IsFold(w(S), g, S) /\ IsFold(w(T), g, T)
  <2> HIDE DEF T
  <2> QED BY <1>1, FoldExists
<1>3. SumFunctionOnSet(g, S) = w(S)[S] /\ SumFunctionOnSet(g, T) = w(T)[T]
  BY SumIsFold, Zenon
<1> HIDE DEF w
<1>4. w(S)[S] = IF S = {} THEN 0 ELSE g[Pick(S)] + w(S)[T]
  BY <1>2 DEF IsFold
<1>5. w(S)[T] = w(T)[T]
  <2>1. T \subseteq S
    OBVIOUS
  <2> HIDE DEF T
  <2> QED BY <1>1, <1>2, <2>1, FoldsAgree
<1> QED BY <1>3, <1>4, <1>5

LEMMA SumType ==
  ASSUME NEW S, IsFiniteSet(S), NEW g, \A x \in S : g[x] \in Nat
  PROVE  SumFunctionOnSet(g, S) \in Nat
<1> DEFINE G == {T \in SUBSET S : SumFunctionOnSet(g, T) \in Nat}
<1>1. \A T \in SUBSET S : (\A U \in SUBSET T : U # T => U \in G) => T \in G
  <2> SUFFICES ASSUME NEW T \in SUBSET S, \A U \in SUBSET T : U # T => U \in G
               PROVE  SumFunctionOnSet(g, T) \in Nat
    OBVIOUS
  <2>1. SumFunctionOnSet(g, T)
          = IF T = {} THEN 0 ELSE g[Pick(T)] + SumFunctionOnSet(g, T \ {Pick(T)})
    BY FS_Subset, SumStep
  <2>2. T # {} => Pick(T) \in T /\ SumFunctionOnSet(g, T \ {Pick(T)}) \in Nat
    BY PickIn
  <2> QED BY <2>1, <2>2
<1>2. \A T \in SUBSET S : T \in G
  <2> HIDE DEF G
  <2> QED BY <1>1, SubsetInduction
<1> QED BY <1>2

\* The sum of a sum.
LEMMA SumPlus ==
  ASSUME NEW S, IsFiniteSet(S), NEW f, NEW g, NEW h,
         \A x \in S : f[x] \in Nat /\ g[x] \in Nat /\ h[x] = f[x] + g[x]
  PROVE  SumFunctionOnSet(h, S) = SumFunctionOnSet(f, S) + SumFunctionOnSet(g, S)
<1> DEFINE Sum(e, T) == SumFunctionOnSet(e, T)
           G == {T \in SUBSET S : Sum(h, T) = Sum(f, T) + Sum(g, T)}
<1>1. \A T \in SUBSET S : (\A U \in SUBSET T : U # T => U \in G) => T \in G
  <2> SUFFICES ASSUME NEW T \in SUBSET S, \A U \in SUBSET T : U # T => U \in G
               PROVE  Sum(h, T) = Sum(f, T) + Sum(g, T)
    OBVIOUS
  <2> DEFINE U == T \ {Pick(T)}
  <2>1. IsFiniteSet(T) /\ IsFiniteSet(U)
    BY FS_Subset
  <2>2. \A e : Sum(e, T) = IF T = {} THEN 0 ELSE e[Pick(T)] + Sum(e, U)
    BY <2>1, SumStep
  <2>3. CASE T = {}
    BY <2>2, <2>3
  <2>4. CASE T # {}
    <3>1. Pick(T) \in S
      BY <2>4, PickIn
    <3>2. Sum(h, U) = Sum(f, U) + Sum(g, U)
      BY <2>4, PickIn
    <3>3. Sum(f, U) \in Nat /\ Sum(g, U) \in Nat
      BY <2>1, SumType
    <3> HIDE DEF Sum, U
    <3> QED BY <2>2, <2>4, <3>1, <3>2, <3>3
  <2> QED BY <2>3, <2>4
<1>2. \A T \in SUBSET S : T \in G
  <2> HIDE DEF G
  <2> QED BY <1>1, SubsetInduction
<1> QED BY <1>2

\* One element counts, the others are zero.
LEMMA SumOfOne ==
  ASSUME NEW S, IsFiniteSet(S), NEW g, NEW d \in S, g[d] \in Nat,
         \A x \in S : x # d => g[x] = 0
  PROVE  SumFunctionOnSet(g, S) = g[d]
<1> DEFINE G == {T \in SUBSET S : SumFunctionOnSet(g, T) = IF d \in T THEN g[d] ELSE 0}
<1>1. \A T \in SUBSET S : (\A U \in SUBSET T : U # T => U \in G) => T \in G
  <2> SUFFICES ASSUME NEW T \in SUBSET S, \A U \in SUBSET T : U # T => U \in G
               PROVE  SumFunctionOnSet(g, T) = IF d \in T THEN g[d] ELSE 0
    OBVIOUS
  <2>1. SumFunctionOnSet(g, T)
          = IF T = {} THEN 0 ELSE g[Pick(T)] + SumFunctionOnSet(g, T \ {Pick(T)})
    BY FS_Subset, SumStep
  <2>2. CASE T = {}
    BY <2>1, <2>2
  <2>3. CASE T # {}
    <3> DEFINE U == T \ {Pick(T)}
    <3>1. Pick(T) \in T
      BY <2>3, PickIn
    <3>2. SumFunctionOnSet(g, U) = IF d \in U THEN g[d] ELSE 0
      BY <3>1
    <3> QED BY <2>1, <2>3, <3>1, <3>2
  <2> QED BY <2>2, <2>3
<1>2. \A T \in SUBSET S : T \in G
  <2> HIDE DEF G
  <2> QED BY <1>1, SubsetInduction
<1> QED BY <1>2

LEMMA SumOfZeros ==
  ASSUME NEW S, IsFiniteSet(S), NEW g, \A x \in S : g[x] = 0
  PROVE  SumFunctionOnSet(g, S) = 0
<1>1. CASE S = {}
  BY <1>1, SumStep
<1>2. CASE S # {}
  <2>1. PICK d \in S : TRUE
    BY <1>2
  <2> QED BY <2>1, SumOfOne
<1> QED BY <1>1, <1>2

\* One more at one place is one more in all.
LEMMA SumOneMore ==
  ASSUME NEW S, IsFiniteSet(S), NEW f, NEW h, NEW d \in S, \A x \in S : f[x] \in Nat,
         h[d] = f[d] + 1, \A x \in S : x # d => h[x] = f[x]
  PROVE  SumFunctionOnSet(h, S) = SumFunctionOnSet(f, S) + 1
<1> DEFINE one == [x \in S |-> IF x = d THEN 1 ELSE 0]
<1>1. \A x \in S : f[x] \in Nat /\ one[x] \in Nat /\ h[x] = f[x] + one[x]
  OBVIOUS
<1>2. one[d] = 1 /\ one[d] \in Nat /\ \A x \in S : x # d => one[x] = 0
  OBVIOUS
<1> HIDE DEF one
<1>3. SumFunctionOnSet(h, S) = SumFunctionOnSet(f, S) + SumFunctionOnSet(one, S)
  BY <1>1, SumPlus
<1>4. SumFunctionOnSet(one, S) = 1
  BY <1>2, SumOfOne
<1> QED BY <1>3, <1>4

LEMMA SumMonotone ==
  ASSUME NEW S, IsFiniteSet(S), NEW f, NEW h,
         \A x \in S : f[x] \in Nat /\ h[x] \in Nat /\ f[x] <= h[x]
  PROVE  SumFunctionOnSet(f, S) <= SumFunctionOnSet(h, S)
<1> DEFINE g == [x \in S |-> h[x] - f[x]]
<1>1. \A x \in S : f[x] \in Nat /\ g[x] \in Nat /\ h[x] = f[x] + g[x]
  OBVIOUS
<1> HIDE DEF g
<1>2. SumFunctionOnSet(h, S) = SumFunctionOnSet(f, S) + SumFunctionOnSet(g, S)
  BY <1>1, SumPlus
<1>3. SumFunctionOnSet(f, S) \in Nat /\ SumFunctionOnSet(g, S) \in Nat
  BY <1>1, SumType
<1> QED BY <1>2, <1>3

\* A sum with one summand raised by n.
LEMMA SumMore ==
  ASSUME NEW S, IsFiniteSet(S), NEW f, NEW h, NEW d \in S, NEW n \in Nat,
         \A x \in S : f[x] \in Nat,
         h[d] = f[d] + n, \A x \in S : x # d => h[x] = f[x]
  PROVE  SumFunctionOnSet(h, S) = SumFunctionOnSet(f, S) + n
<1> DEFINE one == [x \in S |-> IF x = d THEN n ELSE 0]
<1>1. \A x \in S : f[x] \in Nat /\ one[x] \in Nat /\ h[x] = f[x] + one[x]
  OBVIOUS
<1>2. one[d] = n /\ one[d] \in Nat /\ \A x \in S : x # d => one[x] = 0
  OBVIOUS
<1> HIDE DEF one
<1>3. SumFunctionOnSet(one, S) = n
  BY <1>2, SumOfOne
<1> QED BY <1>1, <1>3, SumPlus

\* The sum of a function is that over its domain.
LEMMA SumOver ==
  ASSUME NEW S, NEW f
  PROVE  SumFunction([x \in S |-> f[x]]) = SumFunctionOnSet([x \in S |-> f[x]], S)
BY Zenon DEF SumFunction

-----------------------------------------------------------------------------
(* Numbers.                                                                *)

\* A finite set of numbers has a least element and a greatest one.
LEMMA Extremes ==
  ASSUME NEW S \in SUBSET Nat, IsFiniteSet(S), S # {}
  PROVE  /\ \E m \in S : \A x \in S : m <= x
         /\ \E m \in S : \A x \in S : x <= m
<1> DEFINE P(T) == /\ \E m \in T : \A x \in T : m <= x
                   /\ \E m \in T : \A x \in T : x <= m
           G == {T \in SUBSET S : T = {} \/ P(T)}
<1>1. \A T \in SUBSET S : (\A U \in SUBSET T : U # T => U \in G) => T \in G
  <2> SUFFICES ASSUME NEW T \in SUBSET S, \A U \in SUBSET T : U # T => U \in G, T # {}
               PROVE  P(T)
    OBVIOUS
  <2>1. PICK e \in T : TRUE
    OBVIOUS
  <2>2. T \ {e} \in G
    <3> HIDE DEF G, P
    <3>1. T \ {e} \in SUBSET T /\ T \ {e} # T
      BY <2>1
    <3> QED BY <3>1
  <2>3. CASE T \ {e} = {}
    <3>1. \A x \in T : x = e /\ e \in Nat
      BY <2>1, <2>3
    <3> QED BY <2>1, <3>1
  <2>4. CASE P(T \ {e})
    <3>1. PICK m \in T \ {e}, n \in T \ {e} : \A x \in T \ {e} : m <= x /\ x <= n
      BY <2>4
    <3>2. e \in Nat /\ m \in Nat /\ n \in Nat /\ \A x \in T : x \in Nat /\ (x = e \/ x \in T \ {e})
      BY <2>1
    <3>3. \E k \in T : \A x \in T : k <= x
      <4>1. CASE e <= m
        BY <2>1, <3>1, <3>2, <4>1
      <4>2. CASE m <= e
        BY <2>1, <3>1, <3>2, <4>2
      <4> QED BY <3>2, <4>1, <4>2
    <3>4. \E k \in T : \A x \in T : x <= k
      <4>1. CASE e <= n
        BY <2>1, <3>1, <3>2, <4>1
      <4>2. CASE n <= e
        BY <2>1, <3>1, <3>2, <4>2
      <4> QED BY <3>2, <4>1, <4>2
    <3> QED BY <3>3, <3>4
  <2> QED BY <2>2, <2>3, <2>4
<1> HIDE DEF G
<1>2. \A T \in SUBSET S : T \in G
  BY <1>1, SubsetInduction
<1> QED BY <1>2 DEF G

\* What a function makes of a finite set is finite.
LEMMA Images ==
  ASSUME NEW S, IsFiniteSet(S), NEW f
  PROVE  IsFiniteSet({f[x] : x \in S})
<1> DEFINE T == {f[x] : x \in S}
           g == [x \in S |-> f[x]]
<1>1. g \in Surjection(S, T)
  BY DEF Surjection
<1> QED BY <1>1, FS_Surjection
=============================================================================
