----------------------------- MODULE SumTheorems -----------------------------
(***************************************************************************)
(* Facts about SumFunctionOnSet(f, S), the sum of f[x] over the x of a     *)
(* finite set S, which the models use to count events.                     *)
(***************************************************************************)
EXTENDS Integers, FiniteSets, Functions, FiniteSetTheorems, WellFoundedInduction, TLAPS

-----------------------------------------------------------------------------
(* Induction over the finite subsets of a set, without an operator for     *)
(* the property: a set C of subsets that is not empty has a member none of *)
(* whose strict subsets is in C.                                           *)

LEMMA SmallestCounterexample ==
    ASSUME NEW S, IsFiniteSet(S), NEW C \in SUBSET (SUBSET S), C # {}
    PROVE  \E T \in C : \A U \in SUBSET T : U # T => U \notin C
  <1>1. FiniteSubsetsOf(S) = SUBSET S
    BY FS_FiniteSubsetsOfFinite
  <1>2. IsWellFoundedOn(StrictSubsetOrdering(S), SUBSET S)
    BY <1>1, FS_StrictSubsetOrderingWellFounded
  <1>3. PICK T \in C : \A U \in C : <<U, T>> \notin StrictSubsetOrdering(S)
    BY <1>2, WFMin
  <1>4. ASSUME NEW U \in SUBSET T, U # T, U \in C
        PROVE  FALSE
    <2>1. <<U, T>> \in StrictSubsetOrdering(S)
      BY <1>4 DEF StrictSubsetOrdering
    <2> QED
      BY <1>3, <1>4, <2>1
  <1> QED
    BY <1>3, <1>4

-----------------------------------------------------------------------------
(* The recursion that SumFunctionOnSet stands for has one solution.        *)

\* The element the fold takes from a set that is not empty.
First(T) == CHOOSE x \in T : TRUE

\* g solves the recursion on the subsets of S.
Solves(g, f, S) ==
    g = [T \in SUBSET S |-> IF T = {} THEN 0 ELSE f[First(T)] + g[T \ {First(T)}]]

LEMMA SumIsChosen ==
    ASSUME NEW f, NEW S
    PROVE  SumFunctionOnSet(f, S) = (CHOOSE g : Solves(g, f, S))[S]
  BY DEF SumFunctionOnSet, FoldFunctionOnSet, MapThenFoldSet, Solves, First

\* Two solutions agree wherever both are defined.
LEMMA SolutionsAgree ==
    ASSUME NEW f, NEW S, IsFiniteSet(S), NEW T \in SUBSET S,
           NEW g, Solves(g, f, S), NEW h, Solves(h, f, T)
    PROVE  \A U \in SUBSET T : g[U] = h[U]
  <1> DEFINE C == {U \in SUBSET T : g[U] # h[U]}
  <1>1. IsFiniteSet(T)
    BY FS_Subset
  <1> SUFFICES ASSUME C # {} PROVE FALSE
    OBVIOUS
  <1>2. PICK U \in C : \A V \in SUBSET U : V # U => V \notin C
    <2>1. C \in SUBSET (SUBSET T)
      OBVIOUS
    <2> HIDE DEF C
    <2> QED
      BY <1>1, <2>1, SmallestCounterexample
  <1>3. U \in SUBSET T /\ U \in SUBSET S /\ g[U] # h[U]
    BY <1>2
  <1>4. CASE U = {}
    BY <1>3, <1>4 DEF Solves
  <1>5. CASE U # {}
    <2>1. First(U) \in U
      BY <1>5 DEF First
    <2> DEFINE V == U \ {First(U)}
    <2>2. V \in SUBSET U /\ V # U /\ V \in SUBSET T /\ V \in SUBSET S
      BY <1>3, <2>1
    <2>3. g[V] = h[V]
      BY <1>2, <2>2
    <2>4. g[U] = f[First(U)] + g[V] /\ h[U] = f[First(U)] + h[V]
      BY <1>3, <1>5 DEF Solves
    <2> QED
      BY <1>3, <2>3, <2>4
  <1> QED
    BY <1>4, <1>5

LEMMA SolutionExists ==
    ASSUME NEW f, NEW S, IsFiniteSet(S)
    PROVE  \E g : Solves(g, f, S)
  <1> DEFINE C == {T \in SUBSET S : ~ \E g : Solves(g, f, T)}
  <1> SUFFICES ASSUME C # {} PROVE FALSE
    OBVIOUS
  <1>1. PICK T \in C : \A U \in SUBSET T : U # T => U \notin C
    <2>1. C \in SUBSET (SUBSET S)
      OBVIOUS
    <2> HIDE DEF C
    <2> QED
      BY <2>1, SmallestCounterexample
  <1>2. T \in SUBSET S /\ IsFiniteSet(T)
    BY <1>1, FS_Subset
  <1> DEFINE part == [U \in SUBSET T |-> CHOOSE g : Solves(g, f, U)]
             rest == T \ {First(T)}
             sum == [U \in SUBSET T |->
                       IF U = {} THEN 0
                       ELSE IF U = T THEN f[First(T)] + part[rest][rest] ELSE part[U][U]]
  <1>3. ASSUME NEW U \in SUBSET T, U # T
        PROVE  Solves(part[U], f, U)
    <2>1. \E g : Solves(g, f, U)
      BY <1>1, <1>2, <1>3
    <2>2. part[U] = CHOOSE g : Solves(g, f, U)
      OBVIOUS
    <2> QED
      BY <2>1, <2>2
  <1>4. ASSUME NEW U \in SUBSET T, U # {}
        PROVE  sum[U] = f[First(U)] + sum[U \ {First(U)}]
    <2> DEFINE V == U \ {First(U)}
    <2>1. First(U) \in U
      BY <1>4 DEF First
    <2>2. V \in SUBSET T /\ V # T /\ V # U /\ V \in SUBSET U
      BY <2>1
    <2>3. sum[V] = part[V][V]
      <3>1. CASE V = {}
        <4>1. Solves(part[V], f, V) /\ V \in SUBSET V
          BY <1>3, <2>2
        <4> HIDE DEF part, V
        <4>2. part[V][V] = 0
          BY <3>1, <4>1 DEF Solves
        <4> QED
          BY <2>2, <3>1, <4>2 DEF V
      <3>2. CASE V # {}
        BY <2>2, <3>2
      <3> QED
        BY <3>1, <3>2
    <2>4. CASE U = T
      BY <1>4, <2>3, <2>4
    <2>5. CASE U # T
      <3>1. sum[U] = part[U][U]
        BY <1>4, <2>5
      <3>2. Solves(part[U], f, U) /\ Solves(part[V], f, V)
        BY <1>3, <2>2, <2>5
      <3>3. part[U][U] = f[First(U)] + part[U][V]
        BY <1>4, <3>2 DEF Solves
      <3>4. IsFiniteSet(U)
        BY <1>2, FS_Subset
      <3>5. part[U][V] = part[V][V]
        BY <2>2, <3>2, <3>4, SolutionsAgree
      <3> QED
        BY <2>3, <3>1, <3>3, <3>5
    <2> QED
      BY <2>4, <2>5
  <1>5. Solves(sum, f, T)
    <2>1. sum = [U \in SUBSET T |-> IF U = {} THEN 0 ELSE f[First(U)] + sum[U \ {First(U)}]]
      <3> DEFINE rhs == [U \in SUBSET T |->
                           IF U = {} THEN 0 ELSE f[First(U)] + sum[U \ {First(U)}]]
      <3>1. ASSUME NEW U \in SUBSET T PROVE sum[U] = rhs[U]
        <4> HIDE DEF sum
        <4>1. U = {} => sum[U] = 0
          BY DEF sum
        <4> QED
          BY <1>4, <4>1
      <3>2. /\ DOMAIN sum = SUBSET T /\ DOMAIN rhs = SUBSET T
            /\ sum = [U \in SUBSET T |-> sum[U]] /\ rhs = [U \in SUBSET T |-> rhs[U]]
        OBVIOUS
      <3> HIDE DEF sum, rhs
      <3>3. sum = rhs
        BY <3>1, <3>2
      <3> QED
        BY <3>3 DEF rhs
    <2> QED
      BY <2>1 DEF Solves
  <1> QED
    BY <1>1, <1>5

-----------------------------------------------------------------------------
(* The facts the proofs of the project cite.                               *)

LEMMA SumEmpty == \A f : SumFunctionOnSet(f, {}) = 0
  <1> SUFFICES ASSUME NEW f PROVE SumFunctionOnSet(f, {}) = 0
    OBVIOUS
  <1>1. Solves(CHOOSE g : Solves(g, f, {}), f, {})
    BY FS_EmptySet, SolutionExists
  <1> DEFINE g == CHOOSE h : Solves(h, f, {})
  <1> HIDE DEF g
  <1>2. Solves(g, f, {}) => g[{}] = 0
    BY DEF Solves
  <1> QED
    BY <1>1, <1>2, SumIsChosen DEF g

\* The sum in the order the fold takes the elements.
LEMMA SumFirst ==
    ASSUME NEW f, NEW S, IsFiniteSet(S), S # {}
    PROVE  SumFunctionOnSet(f, S) = f[First(S)] + SumFunctionOnSet(f, S \ {First(S)})
  <1> DEFINE V == S \ {First(S)}
             g == CHOOSE k : Solves(k, f, S)
             h == CHOOSE k : Solves(k, f, V)
  <1>1. V \in SUBSET S /\ V \in SUBSET V /\ IsFiniteSet(V)
    BY FS_Subset
  <1>2. Solves(g, f, S) /\ Solves(h, f, V)
    BY <1>1, SolutionExists
  <1>3. SumFunctionOnSet(f, S) = g[S] /\ SumFunctionOnSet(f, V) = h[V]
    BY SumIsChosen
  <1> HIDE DEF g, h
  <1>4. g[S] = f[First(S)] + g[V]
    BY <1>2 DEF Solves
  <1>5. g[V] = h[V]
    BY <1>1, <1>2, SolutionsAgree
  <1> QED
    BY <1>3, <1>4, <1>5

LEMMA FirstIsElement ==
    ASSUME NEW S, S # {}
    PROVE  First(S) \in S
  BY DEF First

\* A sum of natural numbers is one.
LEMMA SumNat ==
    ASSUME NEW S, IsFiniteSet(S), NEW f, \A x \in S : f[x] \in Nat
    PROVE  SumFunctionOnSet(f, S) \in Nat
  <1> DEFINE C == {T \in SUBSET S : SumFunctionOnSet(f, T) \notin Nat}
  <1> SUFFICES ASSUME C # {} PROVE FALSE
    OBVIOUS
  <1>1. PICK T \in C : \A U \in SUBSET T : U # T => U \notin C
    <2>1. C \in SUBSET (SUBSET S)
      OBVIOUS
    <2> HIDE DEF C
    <2> QED
      BY <2>1, SmallestCounterexample
  <1>2. T \in SUBSET S /\ IsFiniteSet(T) /\ T # {}
    <2>1. T \in SUBSET S /\ SumFunctionOnSet(f, T) \notin Nat
      BY <1>1
    <2>2. 0 \in Nat
      OBVIOUS
    <2> QED
      BY <2>1, <2>2, FS_Subset, SumEmpty
  <1>3. First(T) \in T /\ f[First(T)] \in Nat
    BY <1>2, FirstIsElement
  <1>4. SumFunctionOnSet(f, T \ {First(T)}) \in Nat
    BY <1>1, <1>2, <1>3
  <1>5. SumFunctionOnSet(f, T) \in Nat
    BY <1>2, <1>3, <1>4, SumFirst
  <1> QED
    BY <1>1, <1>5

\* Any element can be taken first.
LEMMA SumRemove ==
    ASSUME NEW S, IsFiniteSet(S), NEW f, \A x \in S : f[x] \in Nat, NEW y \in S
    PROVE  SumFunctionOnSet(f, S) = f[y] + SumFunctionOnSet(f, S \ {y})
  <1> DEFINE C == {T \in SUBSET S : \E x \in T :
                     SumFunctionOnSet(f, T) # f[x] + SumFunctionOnSet(f, T \ {x})}
  <1> SUFFICES ASSUME C # {} PROVE FALSE
    OBVIOUS
  <1>1. PICK T \in C : \A U \in SUBSET T : U # T => U \notin C
    <2>1. C \in SUBSET (SUBSET S)
      OBVIOUS
    <2> HIDE DEF C
    <2> QED
      BY <2>1, SmallestCounterexample
  <1>2. PICK x \in T : SumFunctionOnSet(f, T) # f[x] + SumFunctionOnSet(f, T \ {x})
    BY <1>1
  <1> DEFINE a == First(T)
             R == (T \ {a}) \ {x}
  <1>3. T \in SUBSET S /\ IsFiniteSet(T) /\ a \in T
    BY <1>1, <1>2, FS_Subset, FirstIsElement
  <1>4. SumFunctionOnSet(f, T) = f[a] + SumFunctionOnSet(f, T \ {a})
    BY <1>2, <1>3, SumFirst
  <1>5. a # x
    BY <1>2, <1>4
  <1>6. SumFunctionOnSet(f, T \ {a}) = f[x] + SumFunctionOnSet(f, R)
    <2>1. T \ {a} \in SUBSET T /\ T \ {a} # T /\ x \in T \ {a}
      BY <1>3, <1>5
    <2>2. T \ {a} \notin C /\ T \ {a} \in SUBSET S
      BY <1>1, <1>3, <2>1
    <2> QED
      BY <2>1, <2>2
  <1>7. SumFunctionOnSet(f, T \ {x}) = f[a] + SumFunctionOnSet(f, R)
    <2>1. T \ {x} \in SUBSET T /\ T \ {x} # T /\ a \in T \ {x} /\ (T \ {x}) \ {a} = R
      BY <1>3, <1>5
    <2>2. T \ {x} \notin C /\ T \ {x} \in SUBSET S
      BY <1>1, <1>3, <2>1
    <2> QED
      BY <2>1, <2>2
  <1>8. f[a] \in Nat /\ f[x] \in Nat /\ SumFunctionOnSet(f, R) \in Nat
    <2>1. R \in SUBSET S /\ IsFiniteSet(R)
      BY <1>3, FS_Subset
    <2> QED
      BY <1>3, <2>1, SumNat
  <1> HIDE DEF a, R, C
  <1> QED
    BY <1>2, <1>4, <1>6, <1>7, <1>8

\* A sum depends on the summands only.
LEMMA SumSame ==
    ASSUME NEW S, IsFiniteSet(S), NEW f, NEW g, \A x \in S : f[x] = g[x]
    PROVE  SumFunctionOnSet(f, S) = SumFunctionOnSet(g, S)
  <1> DEFINE C == {T \in SUBSET S : SumFunctionOnSet(f, T) # SumFunctionOnSet(g, T)}
  <1> SUFFICES ASSUME C # {} PROVE FALSE
    OBVIOUS
  <1>1. PICK T \in C : \A U \in SUBSET T : U # T => U \notin C
    <2>1. C \in SUBSET (SUBSET S)
      OBVIOUS
    <2> HIDE DEF C
    <2> QED
      BY <2>1, SmallestCounterexample
  <1>2. T \in SUBSET S /\ IsFiniteSet(T) /\ T # {}
    BY <1>1, FS_Subset, SumEmpty
  <1>3. First(T) \in T /\ f[First(T)] = g[First(T)]
    BY <1>2, FirstIsElement
  <1>4. SumFunctionOnSet(f, T \ {First(T)}) = SumFunctionOnSet(g, T \ {First(T)})
    BY <1>1, <1>2, <1>3
  <1>5. SumFunctionOnSet(f, T) = SumFunctionOnSet(g, T)
    BY <1>2, <1>3, <1>4, SumFirst
  <1> QED
    BY <1>1, <1>5

\* One summand changes.
LEMMA SumChange ==
    ASSUME NEW S, IsFiniteSet(S), NEW f, NEW g, NEW y \in S,
           \A x \in S : f[x] \in Nat /\ g[x] \in Nat,
           \A x \in S \ {y} : f[x] = g[x]
    PROVE  SumFunctionOnSet(g, S) = SumFunctionOnSet(f, S) + g[y] - f[y]
  <1> DEFINE R == S \ {y}
  <1>1. R \in SUBSET S /\ IsFiniteSet(R)
    BY FS_Subset
  <1>2. SumFunctionOnSet(f, R) = SumFunctionOnSet(g, R) /\ SumFunctionOnSet(f, R) \in Nat
    BY <1>1, SumSame, SumNat
  <1>3. /\ SumFunctionOnSet(f, S) = f[y] + SumFunctionOnSet(f, R)
        /\ SumFunctionOnSet(g, S) = g[y] + SumFunctionOnSet(g, R)
    BY SumRemove
  <1>4. f[y] \in Nat /\ g[y] \in Nat
    OBVIOUS
  <1> HIDE DEF R
  <1> QED
    BY <1>2, <1>3, <1>4

\* One summand grows by n.
LEMMA SumGrows ==
    ASSUME NEW S, IsFiniteSet(S), NEW f, NEW g, NEW y \in S, NEW n \in Nat,
           \A x \in S : f[x] \in Nat,
           \A x \in S : g[x] = IF x = y THEN f[x] + n ELSE f[x]
    PROVE  /\ SumFunctionOnSet(g, S) = SumFunctionOnSet(f, S) + n
           /\ SumFunctionOnSet(f, S) \in Nat
  <1>1. \A x \in S : f[x] \in Nat /\ g[x] \in Nat
    OBVIOUS
  <1>2. \A x \in S \ {y} : f[x] = g[x]
    OBVIOUS
  <1>3. SumFunctionOnSet(g, S) = SumFunctionOnSet(f, S) + g[y] - f[y]
    BY <1>1, <1>2, SumChange
  <1>4. SumFunctionOnSet(f, S) \in Nat
    BY SumNat
  <1> QED
    BY <1>3, <1>4

\* Each summand is at most m times its counterpart.
LEMMA SumScaled ==
    ASSUME NEW S, IsFiniteSet(S), NEW f, NEW g, NEW m \in Nat,
           \A x \in S : f[x] \in Nat /\ g[x] \in Nat /\ f[x] <= m * g[x]
    PROVE  SumFunctionOnSet(f, S) <= m * SumFunctionOnSet(g, S)
  <1> DEFINE C == {T \in SUBSET S :
                     ~(SumFunctionOnSet(f, T) <= m * SumFunctionOnSet(g, T))}
  <1> SUFFICES ASSUME C # {} PROVE FALSE
    OBVIOUS
  <1>1. PICK T \in C : \A U \in SUBSET T : U # T => U \notin C
    <2>1. C \in SUBSET (SUBSET S)
      OBVIOUS
    <2> HIDE DEF C
    <2> QED
      BY <2>1, SmallestCounterexample
  <1>2. T \in SUBSET S /\ IsFiniteSet(T) /\ T # {}
    <2>1. T \in SUBSET S /\ ~(SumFunctionOnSet(f, T) <= m * SumFunctionOnSet(g, T))
      BY <1>1
    <2>2. 0 <= m * 0
      OBVIOUS
    <2> QED
      BY <2>1, <2>2, FS_Subset, SumEmpty
  <1> DEFINE a == First(T)
             V == T \ {a}
             F == SumFunctionOnSet(f, V)
             G == SumFunctionOnSet(g, V)
  <1>3. a \in T /\ f[a] \in Nat /\ g[a] \in Nat /\ f[a] <= m * g[a]
    BY <1>2, FirstIsElement
  <1>4. V \in SUBSET T /\ V # T /\ V \in SUBSET S /\ IsFiniteSet(V)
    BY <1>2, <1>3, FS_Subset
  <1>5. F <= m * G /\ F \in Nat /\ G \in Nat
    BY <1>1, <1>4, SumNat
  <1>6. SumFunctionOnSet(f, T) = f[a] + F /\ SumFunctionOnSet(g, T) = g[a] + G
    BY <1>2, SumFirst
  <1>7. m * (g[a] + G) = m * g[a] + m * G /\ m * g[a] \in Nat /\ m * G \in Nat
    <2> HIDE DEF F, G, a, V
    <2> QED
      BY <1>3, <1>5
  <1>8. f[a] + F <= m * (g[a] + G)
    <2> DEFINE p == m * g[a]
               q == m * G
    <2>1. p \in Nat /\ q \in Nat /\ f[a] <= p /\ F <= q
      BY <1>3, <1>5, <1>7
    <2> HIDE DEF F, G, a, V, p, q
    <2>2. f[a] + F <= p + q
      BY <1>3, <1>5, <2>1
    <2> QED
      BY <1>7, <2>2 DEF p, q
  <1> QED
    BY <1>1, <1>6, <1>8

\* Smaller summands, smaller sum.
LEMMA SumMonotone ==
    ASSUME NEW S, IsFiniteSet(S), NEW f, NEW g,
           \A x \in S : f[x] \in Nat /\ g[x] \in Nat /\ f[x] <= g[x]
    PROVE  SumFunctionOnSet(f, S) <= SumFunctionOnSet(g, S)
  <1>1. \A x \in S : f[x] <= 1 * g[x]
    OBVIOUS
  <1>2. SumFunctionOnSet(g, S) \in Nat
    BY SumNat
  <1>3. SumFunctionOnSet(f, S) <= 1 * SumFunctionOnSet(g, S)
    BY <1>1, SumScaled
  <1> QED
    BY <1>2, <1>3

\* A sum of zeros.
LEMMA SumZero ==
    ASSUME NEW S, IsFiniteSet(S), NEW f, \A x \in S : f[x] = 0
    PROVE  SumFunctionOnSet(f, S) = 0
  <1>1. \A x \in S : f[x] \in Nat /\ f[x] <= 0 * f[x]
    OBVIOUS
  <1>2. SumFunctionOnSet(f, S) <= 0 * SumFunctionOnSet(f, S)
    BY <1>1, SumScaled
  <1>3. SumFunctionOnSet(f, S) \in Nat
    BY <1>1, SumNat
  <1> QED
    BY <1>2, <1>3
==============================================================================
