-------------------------- MODULE RecursionLemmas --------------------------
(***************************************************************************)
(* What recursive definitions compute.  The induction is over a set of     *)
(* arguments: along a measure of natural numbers, a function is defined    *)
(* by what it is at smaller arguments; over the subsets of a finite set,   *)
(* a sum is a number of units, so that whatever holds of how many elements *)
(* sets have holds of sums.                                                *)
(***************************************************************************)
EXTENDS Integers, FiniteSetsExt, FiniteSetTheorems, TLAPS

-----------------------------------------------------------------------------
(* Recursion along a measure. *)

LEMMA NatHasLeast ==
  ASSUME NEW N \in SUBSET Nat, N # {}
  PROVE  \E n \in N : \A k \in N : n <= k
<1> DEFINE R == {ss \in Nat \X Nat : ss[1] < ss[2]}
<1>1. IsWellFoundedOn(R, Nat)
  BY NatLessThanWellFounded DEF OpToRel
<1>2. N \subseteq Nat
  OBVIOUS
<1> HIDE DEF R
<1>3. PICK n \in N : \A k \in N : ~(<<k, n>> \in R)
  BY <1>1, <1>2, WFMin
<1>4. \A k \in N : ~(k < n)
  BY <1>2, <1>3 DEF R
<1> QED
  BY <1>2, <1>4

\* Induction along a measure, by a set.
LEMMA MeasureInduction ==
  ASSUME NEW S, NEW m \in [S -> Nat], NEW T,
         \A x \in S : (\A y \in S : m[y] < m[x] => y \in T) => x \in T
  PROVE  S \subseteq T
<1> SUFFICES ASSUME S \ T # {} PROVE FALSE
  OBVIOUS
<1> DEFINE N == {m[x] : x \in S \ T}
<1>1. N \in SUBSET Nat /\ N # {}
  OBVIOUS
<1> HIDE DEF N
<1>2. PICK n \in N : \A k \in N : n <= k
  BY <1>1, NatHasLeast
<1>3. PICK x \in S \ T : n = m[x]
  BY DEF N
<1>4. ASSUME NEW y \in S, m[y] < m[x]
      PROVE  y \in T
  <2> SUFFICES ASSUME y \notin T PROVE FALSE
    OBVIOUS
  <2>1. m[y] \in N
    BY DEF N
  <2> QED
    BY <1>2, <1>3, <1>4, <2>1
<1> QED
  BY <1>3, <1>4

LEMMA NatInductionBySet ==
  ASSUME NEW T, 0 \in T, \A n \in Nat : n \in T => n + 1 \in T
  PROVE  Nat \subseteq T
<1> DEFINE m == [n \in Nat |-> n]
<1>1. m \in [Nat -> Nat]
  OBVIOUS
<1>2. ASSUME NEW x \in Nat, \A y \in Nat : m[y] < m[x] => y \in T
      PROVE  x \in T
  <2>1. CASE x = 0
    BY <2>1
  <2>2. CASE x # 0
    <3>1. x - 1 \in Nat /\ x - 1 < x /\ (x - 1) + 1 = x
      BY <2>2
    <3>2. x - 1 \in T
      BY <1>2, <3>1
    <3> QED
      BY <3>1, <3>2
  <2> QED
    BY <2>1, <2>2
<1> HIDE DEF m
<1> QED
  BY <1>1, <1>2, MeasureInduction

-----------------------------------------------------------------------------
\* F says what a function to V is at each place of S, and may ask for what it
\* is at the places of a smaller measure.
IsRecursion(S, m, V, F) ==
  /\ m \in [S -> Nat] /\ V # {} /\ F \in [S -> [[S -> V] -> V]]
  /\ \A x \in S : \A g, h \in [S -> V] :
       (\A y \in S : m[y] < m[x] => g[y] = h[y]) => F[x][g] = F[x][h]

LEMMA RecursionExists ==
  ASSUME NEW S, NEW m, NEW V, NEW F, IsRecursion(S, m, V, F)
  PROVE  \E f \in [S -> V] : \A x \in S : f[x] = F[x][f]
<1> USE DEF IsRecursion
<1> PICK v \in V : TRUE
  OBVIOUS
<1> DEFINE Good(n, g) == \A x \in S : m[x] < n => g[x] = F[x][g]
           T == {n \in Nat : \E g \in [S -> V] : Good(n, g)}
<1>0. \A x \in S : \A g \in [S -> V] : F[x][g] \in V
  OBVIOUS
<1>1. 0 \in T
  <2>1. [x \in S |-> v] \in [S -> V] /\ Good(0, [x \in S |-> v])
    OBVIOUS
  <2> QED
    BY <2>1
<1>2. ASSUME NEW n \in Nat, n \in T
      PROVE  n + 1 \in T
  <2>1. PICK g \in [S -> V] : Good(n, g)
    BY <1>2
  <2> DEFINE h == [x \in S |-> IF m[x] < n THEN g[x] ELSE F[x][g]]
  <2>2. h \in [S -> V]
    BY <1>0
  <2>3. ASSUME NEW x \in S, m[x] < n + 1
        PROVE  h[x] = F[x][h]
    <3>1. \A y \in S : m[y] < m[x] => g[y] = h[y]
      BY <2>3
    <3> HIDE DEF h
    <3>2. F[x][g] = F[x][h]
      BY <2>2, <3>1
    <3>3. h[x] = F[x][g]
      BY <2>1 DEF h
    <3> QED
      BY <3>2, <3>3
  <2> HIDE DEF h
  <2> QED
    BY <2>2, <2>3
<1> HIDE DEF T
<1>3. Nat \subseteq T
  BY <1>1, <1>2, NatInductionBySet
<1>4. \A n \in Nat : \E g \in [S -> V] : Good(n, g)
  BY <1>3 DEF T
<1>5. ASSUME NEW k \in Nat, NEW n \in Nat, k <= n,
             NEW g \in [S -> V], NEW h \in [S -> V], Good(k, g), Good(n, h)
      PROVE  \A x \in S : m[x] < k => g[x] = h[x]
  <2> DEFINE U == {x \in S : m[x] < k => g[x] = h[x]}
  <2>1. ASSUME NEW x \in S, \A y \in S : m[y] < m[x] => y \in U
        PROVE  x \in U
    <3> SUFFICES ASSUME m[x] < k PROVE g[x] = h[x]
      OBVIOUS
    <3>1. \A y \in S : m[y] < m[x] => g[y] = h[y]
      BY <2>1
    <3>2. F[x][g] = F[x][h]
      BY <3>1
    <3>3. m[x] < n
      BY <1>5
    <3> QED
      BY <1>5, <3>2, <3>3
  <2> HIDE DEF U
  <2>2. S \subseteq U
    BY <2>1, MeasureInduction
  <2> QED
    BY <2>2 DEF U
<1> DEFINE G(n) == CHOOSE g \in [S -> V] : Good(n, g)
<1>6. \A n \in Nat : G(n) \in [S -> V] /\ Good(n, G(n))
  BY <1>4
<1> DEFINE f == [x \in S |-> G(m[x] + 1)[x]]
<1> HIDE DEF G
<1>7. f \in [S -> V]
  BY <1>6
<1>8. ASSUME NEW x \in S
      PROVE  f[x] = F[x][f]
  <2> DEFINE g == G(m[x] + 1)
  <2>1. m[x] \in Nat /\ g \in [S -> V] /\ Good(m[x] + 1, g)
    BY <1>6
  <2>2. ASSUME NEW y \in S, m[y] < m[x]
        PROVE  f[y] = g[y]
    <3>1. /\ m[y] + 1 \in Nat /\ m[x] + 1 \in Nat /\ m[y] + 1 <= m[x] + 1 /\ m[y] < m[y] + 1
          /\ G(m[y] + 1) \in [S -> V] /\ Good(m[y] + 1, G(m[y] + 1))
      BY <1>6, <2>2
    <3> HIDE DEF Good, g, IsRecursion
    <3>2. G(m[y] + 1)[y] = g[y]
      BY <1>5, <2>1, <3>1
    <3> QED
      BY <3>2
  <2>3. g[x] = F[x][g] /\ f[x] = g[x]
    BY <2>1
  <2> HIDE DEF g, f
  <2>4. F[x][f] = F[x][g]
    BY <1>7, <2>1, <2>2
  <2> QED
    BY <2>3, <2>4
<1> HIDE DEF f
<1> QED
  BY <1>7, <1>8

-----------------------------------------------------------------------------
(* Sums over finite sets. *)

Sum(w, S) == MapThenSumSet(LAMBDA x : w[x], S)

\* As many pairs with each element as its number says.
Units(w, S) == {p \in S \X Nat : 1 <= p[2] /\ p[2] <= w[p[1]]}

\* Induction over the subsets of a finite set, by a set of subsets.
LEMMA SubsetInduction ==
  ASSUME NEW S, IsFiniteSet(S), NEW T,
         {} \in T,
         \A s \in SUBSET S : s # {} /\ (\A x \in s : s \ {x} \in T) => s \in T
  PROVE  SUBSET S \subseteq T
<1> DEFINE U == (SUBSET S) \ T
<1> SUFFICES ASSUME U # {} PROVE FALSE
  OBVIOUS
<1>1. IsWellFoundedOn(StrictSubsetOrdering(S), SUBSET S)
  BY FS_StrictSubsetOrderingWellFounded, FS_FiniteSubsetsOfFinite
<1>2. U \subseteq SUBSET S
  OBVIOUS
<1> HIDE DEF U
<1>3. PICK s \in U : \A t \in U : ~(<<t, s>> \in StrictSubsetOrdering(S))
  BY <1>1, <1>2, WFMin
<1>4. \A x \in s : s \ {x} \in T
  <2> TAKE x \in s
  <2>1. <<s \ {x}, s>> \in StrictSubsetOrdering(S)
    BY <1>2 DEF StrictSubsetOrdering
  <2> QED
    BY <1>2, <1>3, <2>1 DEF U
<1> QED
  BY <1>4 DEF U

-----------------------------------------------------------------------------
LEMMA UnitsOfOne ==
  ASSUME NEW w, NEW x, w[x] \in Nat
  PROVE  IsFiniteSet(Units(w, {x})) /\ Cardinality(Units(w, {x})) = w[x]
<1>1. Units(w, {x}) = {x} \X (1 .. w[x])
  BY DEF Units
<1>2. IsFiniteSet({x}) /\ Cardinality({x}) = 1
  BY FS_Singleton
<1> DEFINE n == w[x]
           X == {x}
           Y == 1 .. n
<1>3. IsFiniteSet(Y) /\ Cardinality(Y) = n /\ n \in Nat
  <2>1. n \in Nat /\ 1 \in Int /\ n \in Int
    OBVIOUS
  <2> HIDE DEF n
  <2>2. IsFiniteSet(Y) /\ Cardinality(Y) = IF 1 > n THEN 0 ELSE n - 1 + 1
    BY <2>1, FS_Interval
  <2> QED
    BY <2>1, <2>2
<1>4. IsFiniteSet(X) /\ Cardinality(X) = 1 /\ Units(w, {x}) = X \X Y
  BY <1>1, <1>2
<1> HIDE DEF n, X, Y
<1>5. IsFiniteSet(X \X Y) /\ Cardinality(X \X Y) = Cardinality(X) * Cardinality(Y)
  BY <1>3, <1>4, FS_Product
<1>6. Cardinality(X \X Y) = n
  BY <1>3, <1>4, <1>5
<1> QED
  BY <1>4, <1>5, <1>6 DEF n

LEMMA UnitsFinite ==
  ASSUME NEW S, IsFiniteSet(S), NEW w, \A x \in S : w[x] \in Nat
  PROVE  IsFiniteSet(Units(w, S))
<1> DEFINE T == {s \in SUBSET S : IsFiniteSet(Units(w, s))}
<1>1. {} \in T
  BY FS_EmptySet DEF Units
<1>2. ASSUME NEW s \in SUBSET S, s # {}, \A x \in s : s \ {x} \in T
      PROVE  s \in T
  <2>1. PICK x \in s : TRUE
    BY <1>2
  <2>2. Units(w, s) = Units(w, s \ {x}) \cup Units(w, {x})
    BY DEF Units
  <2>3. IsFiniteSet(Units(w, s \ {x})) /\ IsFiniteSet(Units(w, {x}))
    BY <1>2, <2>1, UnitsOfOne
  <2>4. IsFiniteSet(Units(w, s))
    BY <2>2, <2>3, FS_Union, Zenon
  <2> QED
    BY <2>4
<1> HIDE DEF T
<1>3. SUBSET S \subseteq T
  BY <1>1, <1>2, SubsetInduction
<1> QED
  BY <1>3 DEF T

LEMMA UnitsOfUnion ==
  ASSUME NEW A, NEW B, IsFiniteSet(A), IsFiniteSet(B), A \cap B = {},
         NEW w, \A x \in A \cup B : w[x] \in Nat
  PROVE  Cardinality(Units(w, A \cup B))
           = Cardinality(Units(w, A)) + Cardinality(Units(w, B))
<1>1. Units(w, A \cup B) = Units(w, A) \cup Units(w, B)
  BY DEF Units
<1>2. Units(w, A) \cap Units(w, B) = {}
  BY DEF Units
<1>3. IsFiniteSet(Units(w, A)) /\ IsFiniteSet(Units(w, B))
  BY UnitsFinite
<1> DEFINE a == Units(w, A)
           b == Units(w, B)
<1> HIDE DEF a, b
<1>4. Cardinality(a \cup b) = Cardinality(a) + Cardinality(b) - Cardinality(a \cap b)
  BY <1>3, FS_Union DEF a, b
<1>5. Cardinality(a \cap b) = 0 /\ Cardinality(a) \in Nat /\ Cardinality(b) \in Nat
  BY <1>2, <1>3, FS_EmptySet, FS_CardinalityType DEF a, b
<1>6. Cardinality(a \cup b) = Cardinality(a) + Cardinality(b)
  BY <1>4, <1>5
<1> QED
  BY <1>1, <1>6 DEF a, b

-----------------------------------------------------------------------------
(***************************************************************************)
(* The recursion of the fold takes one element after another, in an order  *)
(* that the definition leaves open; it ends with the number of units.      *)
(***************************************************************************)
LEMMA SumIsUnits ==
  ASSUME NEW S, IsFiniteSet(S), NEW w, \A x \in S : w[x] \in Nat
  PROVE  Sum(w, S) = Cardinality(Units(w, S))
<1> DEFINE Body(f, s) == IF s = {} THEN 0
                         ELSE w[CHOOSE x \in s : TRUE] + f[s \ {CHOOSE x \in s : TRUE}]
           iter == CHOOSE f : f = [s \in SUBSET S |-> Body(f, s)]
           g == [s \in SUBSET S |-> Cardinality(Units(w, s))]
<1>1. Sum(w, S) = iter[S]
  BY DEF Sum, MapThenSumSet, MapThenFoldSet
<1>2. ASSUME NEW s \in SUBSET S, s # {}, NEW x \in s
      PROVE  Cardinality(Units(w, s)) = w[x] + Cardinality(Units(w, s \ {x}))
  <2>1. IsFiniteSet(s \ {x}) /\ IsFiniteSet({x})
    BY FS_Subset, FS_Singleton
  <2>2. s = {x} \cup (s \ {x})
    OBVIOUS
  <2>3. Cardinality(Units(w, {x} \cup (s \ {x})))
          = Cardinality(Units(w, {x})) + Cardinality(Units(w, s \ {x}))
    BY <2>1, UnitsOfUnion
  <2>4. Cardinality(Units(w, {x})) = w[x]
    BY UnitsOfOne
  <2> QED
    BY <2>2, <2>3, <2>4, Zenon
<1>3. g = [s \in SUBSET S |-> Body(g, s)]
  <2> SUFFICES ASSUME NEW s \in SUBSET S
               PROVE  Cardinality(Units(w, s)) = Body(g, s)
    BY Zenon
  <2>1. CASE s = {}
    BY <2>1, FS_EmptySet DEF Units
  <2>2. CASE s # {}
    <3> DEFINE x == CHOOSE y \in s : TRUE
    <3>1. x \in s
      BY <2>2
    <3>2. g[s \ {x}] = Cardinality(Units(w, s \ {x}))
      OBVIOUS
    <3> HIDE DEF x, g
    <3>3. Cardinality(Units(w, s)) = w[x] + g[s \ {x}]
      BY <1>2, <2>2, <3>1, <3>2
    <3> QED
      BY <2>2, <3>3 DEF x
  <2> QED
    BY <2>1, <2>2
<1>4. iter = [s \in SUBSET S |-> Body(iter, s)]
  <2> HIDE DEF Body, g
  <2> QED
    BY <1>3
<1> DEFINE T == {s \in SUBSET S : iter[s] = Cardinality(Units(w, s))}
<1> HIDE DEF iter, g
<1>5. {} \in T
  BY <1>4, FS_EmptySet DEF Units
<1>6. ASSUME NEW s \in SUBSET S, s # {}, \A x \in s : s \ {x} \in T
      PROVE  s \in T
  <2> DEFINE x == CHOOSE y \in s : TRUE
  <2>1. x \in s
    BY <1>6
  <2>2. iter[s] = w[x] + iter[s \ {x}]
    BY <1>4, <1>6
  <2> HIDE DEF x
  <2>3. iter[s \ {x}] = Cardinality(Units(w, s \ {x}))
    BY <1>6, <2>1
  <2> QED
    BY <1>2, <1>6, <2>1, <2>2, <2>3
<1> HIDE DEF T
<1>7. SUBSET S \subseteq T
  BY <1>5, <1>6, SubsetInduction
<1> QED
  BY <1>1, <1>7 DEF T

-----------------------------------------------------------------------------
(* What is used of sums. *)

LEMMA SumTyped ==
  ASSUME NEW S, IsFiniteSet(S), NEW w, \A x \in S : w[x] \in Nat
  PROVE  Sum(w, S) \in Nat
  BY SumIsUnits, UnitsFinite, FS_CardinalityType

LEMMA SumOfNone ==
  ASSUME NEW w
  PROVE  Sum(w, {}) = 0
<1>1. Units(w, {}) = {} /\ \A x \in {} : w[x] \in Nat
  BY DEF Units
<1> QED
  BY <1>1, SumIsUnits, FS_EmptySet

LEMMA SumOfOne ==
  ASSUME NEW w, NEW x, w[x] \in Nat
  PROVE  Sum(w, {x}) = w[x]
<1>1. IsFiniteSet({x}) /\ \A y \in {x} : w[y] \in Nat
  BY FS_Singleton
<1>2. Sum(w, {x}) = Cardinality(Units(w, {x}))
  BY <1>1, SumIsUnits
<1> QED
  BY <1>2, UnitsOfOne

LEMMA SumOfUnion ==
  ASSUME NEW A, NEW B, IsFiniteSet(A), IsFiniteSet(B), A \cap B = {},
         NEW w, \A x \in A \cup B : w[x] \in Nat
  PROVE  Sum(w, A \cup B) = Sum(w, A) + Sum(w, B)
<1>1. IsFiniteSet(A \cup B)
  BY FS_Union
<1>2. Sum(w, A \cup B) = Cardinality(Units(w, A \cup B))
  BY <1>1, SumIsUnits
<1>3. Sum(w, A) = Cardinality(Units(w, A)) /\ Sum(w, B) = Cardinality(Units(w, B))
  BY SumIsUnits
<1> QED
  BY <1>2, <1>3, UnitsOfUnion

LEMMA SumOfSubset ==
  ASSUME NEW S, IsFiniteSet(S), NEW A \in SUBSET S,
         NEW w, \A x \in S : w[x] \in Nat
  PROVE  /\ Sum(w, A) \in Nat /\ Sum(w, S) \in Nat /\ Sum(w, S \ A) \in Nat
         /\ Sum(w, S) = Sum(w, A) + Sum(w, S \ A)
<1>1. IsFiniteSet(A) /\ IsFiniteSet(S \ A) /\ A \cap (S \ A) = {} /\ S = A \cup (S \ A)
  BY FS_Subset
<1> QED
  BY <1>1, SumOfUnion, SumTyped, Zenon

LEMMA SumOfCover ==
  ASSUME NEW B, NEW C, IsFiniteSet(B), IsFiniteSet(C), NEW A \in SUBSET (B \cup C),
         NEW w, \A x \in B \cup C : w[x] \in Nat
  PROVE  Sum(w, A) <= Sum(w, B) + Sum(w, C)
<1>1. IsFiniteSet(A) /\ \A x \in A : w[x] \in Nat
  BY FS_Union, FS_Subset
<1>2. A \cap B \in SUBSET A /\ A \cap B \in SUBSET B /\ A \ (A \cap B) \in SUBSET C
  OBVIOUS
<1> DEFINE ab == A \cap B
           ac == A \ ab
<1> HIDE DEF ab, ac
<1>3. Sum(w, A) = Sum(w, ab) + Sum(w, ac)
  BY <1>1, <1>2, SumOfSubset DEF ab, ac
<1>4. /\ Sum(w, B) = Sum(w, ab) + Sum(w, B \ ab)
      /\ Sum(w, ab) \in Nat /\ Sum(w, B \ ab) \in Nat
  BY <1>2, SumOfSubset DEF ab
<1>5. /\ Sum(w, C) = Sum(w, ac) + Sum(w, C \ ac)
      /\ Sum(w, ac) \in Nat /\ Sum(w, C \ ac) \in Nat
  BY <1>2, SumOfSubset DEF ac, ab
<1> QED
  BY <1>3, <1>4, <1>5

LEMMA SumOfSame ==
  ASSUME NEW S, IsFiniteSet(S), NEW w, NEW v,
         \A x \in S : w[x] \in Nat /\ v[x] = w[x]
  PROVE  Sum(v, S) = Sum(w, S)
<1>1. Units(v, S) = Units(w, S)
  BY DEF Units
<1> QED
  BY <1>1, SumIsUnits

\* The sum of the sums of disjoint sets.
LEMMA SumOfSums ==
  ASSUME NEW L, IsFiniteSet(L), NEW D, IsFiniteSet(D), NEW w, \A x \in D : w[x] \in Nat,
         NEW A \in [L -> SUBSET D], \A e, g \in L : e # g => A[e] \cap A[g] = {},
         NEW v, \A e \in L : v[e] = Sum(w, A[e])
  PROVE  Sum(v, L) = Sum(w, UNION {A[e] : e \in L})
<1> DEFINE All(s) == UNION {A[e] : e \in s}
           T == {s \in SUBSET L : Sum(v, s) = Sum(w, All(s))}
<1>1. ASSUME NEW s \in SUBSET D
      PROVE  IsFiniteSet(s) /\ (\A x \in s : w[x] \in Nat) /\ Sum(w, s) \in Nat
  <2>1. IsFiniteSet(s) /\ \A x \in s : w[x] \in Nat
    BY FS_Subset
  <2> QED
    BY <2>1, SumTyped
<1>2. \A e \in L : v[e] \in Nat
  BY <1>1
<1>3. {} \in T
  <2>1. All({}) = {}
    OBVIOUS
  <2> QED
    BY <2>1, SumOfNone
<1>4. ASSUME NEW s \in SUBSET L, s # {}, \A x \in s : s \ {x} \in T
      PROVE  s \in T
  <2>1. PICK x \in s : s \ {x} \in T
    BY <1>4
  <2> DEFINE r == s \ {x}
  <2>2. /\ s = {x} \cup r /\ {x} \cap r = {} /\ IsFiniteSet({x}) /\ IsFiniteSet(r)
        /\ \A y \in {x} \cup r : v[y] \in Nat
    BY <1>2, FS_Subset, FS_Singleton
  <2>3. Sum(v, s) = Sum(v, {x}) + Sum(v, r)
    BY <2>2, SumOfUnion
  <2>4. All(s) = A[x] \cup All(r) /\ A[x] \in SUBSET D /\ All(r) \in SUBSET D
    OBVIOUS
  <2>5. A[x] \cap All(r) = {}
    OBVIOUS
  <2>6. Sum(v, r) = Sum(w, All(r))
    BY <2>1
  <2> HIDE DEF All, r
  <2>7. Sum(w, All(s)) = Sum(w, A[x]) + Sum(w, All(r))
    <3>1. /\ IsFiniteSet(A[x]) /\ IsFiniteSet(All(r))
          /\ \A y \in A[x] \cup All(r) : w[y] \in Nat
      BY <1>1, <2>4
    <3> QED
      BY <2>4, <2>5, <3>1, SumOfUnion
  <2>8. Sum(v, {x}) = Sum(w, A[x])
    BY <1>2, <2>2, SumOfOne
  <2> QED
    BY <2>3, <2>6, <2>7, <2>8
<1> HIDE DEF T
<1>5. SUBSET L \subseteq T
  BY <1>3, <1>4, SubsetInduction
<1> QED
  BY <1>5 DEF T
=============================================================================
