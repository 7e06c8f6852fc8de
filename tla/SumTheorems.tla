---------------------------- MODULE SumTheorems ----------------------------
(***************************************************************************)
(* Facts about SumFunction, the sum of the values of a function with a     *)
(* finite domain, which the community modules define by recursion over the *)
(* subsets of the domain.  The values here are natural numbers, and such a *)
(* sum counts something: draw f[x] cells for each x; SumFunction(f) is the *)
(* number of cells.  Everything else follows from the theorems about       *)
(* cardinalities.                                                          *)
(***************************************************************************)
EXTENDS Integers, FiniteSets, Functions, FiniteSetTheorems, TLAPS

-----------------------------------------------------------------------------
(* A sum is a number of cells.                                             *)

\* The cells drawn in the rows of T.
Cells(f, T) == {p \in T \X Nat : p[2] \in 1..f[p[1]]}

\* Induction over a finite set by its smallest counterexample: a set of
\* subsets has one that contains no other.
LEMMA SmallestSubset ==
  ASSUME NEW S, IsFiniteSet(S), NEW Q \in SUBSET SUBSET S, Q # {}
  PROVE  \E T \in Q : \A U \in Q : U \subseteq T => U = T
<1>1. Q \subseteq FiniteSubsetsOf(S)
  BY FS_FiniteSubsetsOfFinite
<1>2. PICK T \in Q : \A U \in Q : ~ (<<U, T>> \in StrictSubsetOrdering(S))
  BY <1>1, FS_StrictSubsetOrderingWellFounded, WFMin
<1>3. QED
  BY <1>1, <1>2 DEF StrictSubsetOrdering

\* The cells of one more element.
LEMMA CellsMore ==
  ASSUME NEW S, NEW f \in [S -> Nat], NEW T \in SUBSET S, NEW x \in T,
         IsFiniteSet(Cells(f, T \ {x}))
  PROVE  /\ IsFiniteSet(Cells(f, T))
         /\ Cardinality(Cells(f, T)) = f[x] + Cardinality(Cells(f, T \ {x}))
<1> DEFINE row == {x} \X (1..f[x])
<1>1. f[x] \in Nat
  OBVIOUS
<1>2. IsFiniteSet(row) /\ Cardinality(row) = f[x]
  <2>1. IsFiniteSet(1..f[x]) /\ Cardinality(1..f[x]) = f[x]
    BY <1>1, FS_Interval
  <2>2. IsFiniteSet({x}) /\ Cardinality({x}) = 1
    BY FS_Singleton
  <2>3. QED
    BY <1>1, <2>1, <2>2, FS_Product
<1>3. Cells(f, T) = row \cup Cells(f, T \ {x})
  BY <1>1 DEF Cells
<1>4. row \cap Cells(f, T \ {x}) = {}
  BY DEF Cells
<1> HIDE DEF row
<1>5. Cardinality(Cells(f, T \ {x})) \in Nat
  BY FS_CardinalityType
<1>6. Cardinality(row \cap Cells(f, T \ {x})) = 0
  BY <1>4, FS_EmptySet
<1>7. /\ IsFiniteSet(Cells(f, T))
      /\ Cardinality(Cells(f, T)) = Cardinality(row) + Cardinality(Cells(f, T \ {x})) - 0
  BY <1>2, <1>3, <1>6, FS_Union
<1>8. QED
  BY <1>1, <1>2, <1>5, <1>7

\* A finite table has finitely many cells.
LEMMA CellsFinite ==
  ASSUME NEW S, IsFiniteSet(S), NEW f \in [S -> Nat], NEW T \in SUBSET S
  PROVE  IsFiniteSet(Cells(f, T)) /\ Cardinality(Cells(f, T)) \in Nat
<1> DEFINE Q == {U \in SUBSET S : ~ IsFiniteSet(Cells(f, U))}
<1>1. ASSUME Q # {} PROVE FALSE
  <2>1. PICK U \in Q : \A V \in Q : V \subseteq U => V = U
    <3>1. Q \in SUBSET SUBSET S
      OBVIOUS
    <3> HIDE DEF Q
    <3>2. QED
      BY <1>1, <3>1, SmallestSubset
  <2>2. CASE U = {}
    BY <2>1, <2>2, FS_EmptySet DEF Cells
  <2>3. CASE U # {}
    <3>1. PICK x \in U : TRUE
      BY <2>3
    <3>2. IsFiniteSet(Cells(f, U \ {x}))
      BY <2>1, <3>1
    <3>3. QED
      BY <2>1, <3>1, <3>2, CellsMore
  <2>4. QED
    BY <2>2, <2>3
<1>2. QED
  BY <1>1, FS_CardinalityType

\* One round of the recursion by which the sum is defined.
OneRound(f, g, s) == IF s = {} THEN 0
                  ELSE LET x == CHOOSE x \in s : TRUE IN f[x] + g[s \ {x}]
\* The functions the CHOOSE of a recursive definition chooses from.
Recursion(f, S, g) == g = [s \in SUBSET S |-> OneRound(f, g, s)]

\* What SumFunction is defined to be.
LEMMA SumUnfolded ==
  ASSUME NEW S, NEW f \in [S -> Nat]
  PROVE  SumFunction(f) = (CHOOSE g : Recursion(f, S, g))[S]
<1>1. DOMAIN f = S
  OBVIOUS
<1>2. QED
  BY <1>1, Zenon DEF SumFunction, SumFunctionOnSet, FoldFunctionOnSet, MapThenFoldSet, Recursion, OneRound

\* There is such a function: it counts cells.
LEMMA RecursionSolved ==
  ASSUME NEW S, IsFiniteSet(S), NEW f \in [S -> Nat]
  PROVE  \E g : Recursion(f, S, g)
<1> DEFINE g == [s \in SUBSET S |-> Cardinality(Cells(f, s))]
<1>1. ASSUME NEW s \in SUBSET S PROVE g[s] = OneRound(f, g, s)
  <2>1. CASE s = {}
    <3>1. Cells(f, s) = {}
      BY <2>1 DEF Cells
    <3>2. QED
      BY <2>1, <3>1, FS_EmptySet DEF OneRound
  <2>2. CASE s # {}
    <3> DEFINE x == CHOOSE x \in s : TRUE
    <3>1. x \in s
      BY <2>2
    <3>2. OneRound(f, g, s) = f[x] + g[s \ {x}]
      BY <2>2 DEF OneRound
    <3> HIDE DEF x
    <3>3. Cardinality(Cells(f, s)) = f[x] + Cardinality(Cells(f, s \ {x}))
      BY <3>1, CellsMore, CellsFinite
    <3>4. QED
      BY <3>2, <3>3
  <2>3. QED
    BY <2>1, <2>2
<1>2. g = [s \in SUBSET S |-> OneRound(f, g, s)]
  BY <1>1
<1>3. QED
  BY <1>2 DEF Recursion

\* Every solution of the recursion counts cells.
LEMMA RecursionCounts ==
  ASSUME NEW S, IsFiniteSet(S), NEW f \in [S -> Nat], NEW g, Recursion(f, S, g)
  PROVE  g[S] = Cardinality(Cells(f, S))
<1> DEFINE Q == {s \in SUBSET S : g[s] # Cardinality(Cells(f, s))}
<1>1. ASSUME Q # {} PROVE FALSE
  <2>1. PICK s \in Q : \A t \in Q : t \subseteq s => t = s
    <3>1. Q \in SUBSET SUBSET S
      OBVIOUS
    <3> HIDE DEF Q
    <3>2. QED
      BY <1>1, <3>1, SmallestSubset
  <2>2. g[s] = OneRound(f, g, s)
    BY <2>1 DEF Recursion
  <2>3. CASE s = {}
    <3>1. Cells(f, s) = {}
      BY <2>3 DEF Cells
    <3>2. QED
      BY <2>1, <2>2, <2>3, <3>1, FS_EmptySet DEF OneRound
  <2>4. CASE s # {}
    <3> DEFINE x == CHOOSE x \in s : TRUE
    <3>1. x \in s
      BY <2>4
    <3>2. g[s] = f[x] + g[s \ {x}]
      BY <2>2, <2>4 DEF OneRound
    <3> HIDE DEF x
    <3>3. Cardinality(Cells(f, s)) = f[x] + Cardinality(Cells(f, s \ {x}))
      BY <2>1, <3>1, CellsMore, CellsFinite
    <3>4. g[s \ {x}] = Cardinality(Cells(f, s \ {x}))
      BY <2>1, <3>1
    <3>5. QED
      BY <2>1, <3>2, <3>3, <3>4
  <2>5. QED
    BY <2>3, <2>4
<1>2. QED
  BY <1>1

\* The sum of a function is the number of its cells, which is what the
\* theorems about EarnedRows, SpentRows, GrantedTo and LuhnSum rest on.
THEOREM SumCounts ==
  ASSUME NEW S, IsFiniteSet(S), NEW f \in [S -> Nat]
  PROVE  SumFunction(f) = Cardinality(Cells(f, S))
<1> DEFINE g == CHOOSE g : Recursion(f, S, g)
<1>1. Recursion(f, S, g)
  BY RecursionSolved
<1> HIDE DEF g
<1>2. g[S] = Cardinality(Cells(f, S))
  BY <1>1, RecursionCounts
<1>3. QED
  BY <1>2, SumUnfolded DEF g
-----------------------------------------------------------------------------
(* What follows for sums.                                                  *)

\* The sum of natural numbers is one.
LEMMA SumNat ==
  ASSUME NEW S, IsFiniteSet(S), NEW f \in [S -> Nat]
  PROVE  SumFunction(f) \in Nat
BY SumCounts, CellsFinite

\* Nothing adds up to nothing, and so do zeroes.
LEMMA SumZero ==
  ASSUME NEW S, IsFiniteSet(S), NEW f \in [S -> Nat], \A x \in S : f[x] = 0
  PROVE  SumFunction(f) = 0
<1>1. Cells(f, S) = {}
  BY DEF Cells
<1>2. QED
  BY <1>1, SumCounts, FS_EmptySet

\* One value changes.
LEMMA SumChanged ==
  ASSUME NEW S, IsFiniteSet(S), NEW f \in [S -> Nat], NEW g \in [S -> Nat],
         NEW x \in S, \A y \in S \ {x} : g[y] = f[y]
  PROVE  SumFunction(g) = SumFunction(f) - f[x] + g[x]
<1>1. Cells(g, S \ {x}) = Cells(f, S \ {x})
  BY DEF Cells
<1>2. IsFiniteSet(Cells(f, S \ {x})) /\ Cardinality(Cells(f, S \ {x})) \in Nat
  BY CellsFinite
<1>3. /\ Cardinality(Cells(f, S)) = f[x] + Cardinality(Cells(f, S \ {x}))
      /\ Cardinality(Cells(g, S)) = g[x] + Cardinality(Cells(f, S \ {x}))
  BY <1>1, <1>2, CellsMore
<1>4. f[x] \in Nat /\ g[x] \in Nat
  OBVIOUS
<1>5. QED
  BY <1>2, <1>3, <1>4, SumCounts

\* Values that are not there count for nothing.
LEMMA SumPadded ==
  ASSUME NEW S, IsFiniteSet(S), NEW R \in SUBSET S,
         NEW f \in [R -> Nat], NEW g \in [S -> Nat],
         \A x \in S : g[x] = IF x \in R THEN f[x] ELSE 0
  PROVE  SumFunction(f) = SumFunction(g)
<1>1. IsFiniteSet(R)
  BY FS_Subset
<1>2. Cells(f, R) = Cells(g, S)
  <2>1. \A x \in S \ R : 1..g[x] = {}
    OBVIOUS
  <2>2. QED
    BY <2>1 DEF Cells
<1>3. QED
  BY <1>1, <1>2, SumCounts

\* More, or greater, values add up to no less.
LEMMA SumMonotonic ==
  ASSUME NEW S, IsFiniteSet(S), NEW R \in SUBSET S,
         NEW f \in [R -> Nat], NEW g \in [S -> Nat],
         \A x \in R : f[x] <= g[x]
  PROVE  SumFunction(f) <= SumFunction(g)
<1>1. IsFiniteSet(R)
  BY FS_Subset
<1>2. Cells(f, R) \in SUBSET Cells(g, S)
  BY DEF Cells
<1>3. Cardinality(Cells(f, R)) <= Cardinality(Cells(g, S))
  BY <1>2, CellsFinite, FS_Subset
<1>4. QED
  BY <1>1, <1>3, SumCounts

\* No value is more than the sum.
LEMMA SumAtLeast ==
  ASSUME NEW S, IsFiniteSet(S), NEW f \in [S -> Nat], NEW x \in S
  PROVE  f[x] <= SumFunction(f)
<1>1. IsFiniteSet(Cells(f, S \ {x})) /\ Cardinality(Cells(f, S \ {x})) \in Nat
  BY CellsFinite
<1>2. Cardinality(Cells(f, S)) = f[x] + Cardinality(Cells(f, S \ {x}))
  BY <1>1, CellsMore
<1>3. f[x] \in Nat
  OBVIOUS
<1>4. QED
  BY <1>1, <1>2, <1>3, SumCounts

\* Values that grow by one at most, and only in T, add up to no more than one
\* more for each element of T.
LEMMA SumGrows ==
  ASSUME NEW S, IsFiniteSet(S), NEW f \in [S -> Nat], NEW g \in [S -> Nat],
         NEW T \in SUBSET S, \A x \in S : g[x] <= IF x \in T THEN f[x] + 1 ELSE f[x]
  PROVE  SumFunction(g) <= SumFunction(f) + Cardinality(T)
<1> DEFINE top == {p \in S \X Nat : p[1] \in T /\ p[2] = f[p[1]] + 1}
           b == [x \in T |-> <<x, f[x] + 1>>]
<1>1. b \in Bijection(T, top)
  <2>1. b \in [T -> top]
    OBVIOUS
  <2>2. \A x, y \in T : b[x] = b[y] => x = y
    OBVIOUS
  <2>3. \A p \in top : \E x \in T : b[x] = p
    <3>1. ASSUME NEW p \in top PROVE p[1] \in T /\ b[p[1]] = p
      OBVIOUS
    <3>2. QED
      BY <3>1
  <2> HIDE DEF top, b
  <2>4. QED
    BY <2>1, <2>2, <2>3 DEF Bijection, Injection, Surjection, IsInjective
<1>2. IsFiniteSet(T) /\ Cardinality(T) \in Nat
  BY FS_Subset, FS_CardinalityType
<1>3. IsFiniteSet(top) /\ Cardinality(top) = Cardinality(T)
  <2> HIDE DEF top, b
  <2>1. QED
    BY <1>1, <1>2, FS_Bijection DEF ExistsBijection
<1>4. Cells(g, S) \in SUBSET (Cells(f, S) \cup top)
  BY DEF Cells
<1> HIDE DEF top, b
<1>5. IsFiniteSet(Cells(f, S)) /\ Cardinality(Cells(f, S)) \in Nat
  BY CellsFinite
<1>6. /\ IsFiniteSet(Cells(f, S) \cup top)
      /\ Cardinality(Cells(f, S) \cup top)
            = Cardinality(Cells(f, S)) + Cardinality(top) - Cardinality(Cells(f, S) \cap top)
  BY <1>3, <1>5, FS_Union
<1>7. Cardinality(Cells(f, S) \cap top) \in Nat
  BY <1>3, FS_Subset, FS_CardinalityType
<1>8. /\ Cardinality(Cells(g, S)) <= Cardinality(Cells(f, S) \cup top)
      /\ Cardinality(Cells(g, S)) \in Nat
  BY <1>4, <1>6, FS_Subset, CellsFinite
<1>9. QED
  BY <1>2, <1>3, <1>5, <1>6, <1>7, <1>8, SumCounts

\* No greater values, and one that is less, add up to less.
LEMMA SumLess ==
  ASSUME NEW S, IsFiniteSet(S), NEW f \in [S -> Nat], NEW g \in [S -> Nat],
         NEW x \in S, \A y \in S : g[y] <= f[y], g[x] < f[x]
  PROVE  SumFunction(g) < SumFunction(f)
<1> DEFINE h == [g EXCEPT ![x] = @ + 1]
<1>1. /\ h \in [S -> Nat] /\ h[x] = g[x] + 1 /\ g[x] \in Nat
      /\ \A y \in S \ {x} : h[y] = g[y]
  OBVIOUS
<1>2. \A y \in S : h[y] <= f[y]
  OBVIOUS
<1> HIDE DEF h
<1>3. SumFunction(h) = SumFunction(g) - g[x] + h[x]
  BY <1>1, SumChanged
<1>4. SumFunction(h) <= SumFunction(f)
  BY <1>1, <1>2, SumMonotonic
<1>5. SumFunction(g) \in Nat /\ SumFunction(f) \in Nat
  BY SumNat
<1>6. QED
  BY <1>1, <1>3, <1>4, <1>5

\* The order of the values does not matter.
LEMMA SumReindexed ==
  ASSUME NEW S, IsFiniteSet(S), NEW T, IsFiniteSet(T),
         NEW f \in [S -> Nat], NEW g \in [T -> Nat],
         NEW b \in Bijection(S, T), \A x \in S : f[x] = g[b[x]]
  PROVE  SumFunction(f) = SumFunction(g)
<1> DEFINE c == [p \in Cells(f, S) |-> <<b[p[1]], p[2]>>]
<1>1. /\ b \in [S -> T]
      /\ \A x, y \in S : b[x] = b[y] => x = y
      /\ \A t \in T : \E x \in S : b[x] = t
  BY DEF Bijection, Injection, Surjection, IsInjective
<1>2. c \in [Cells(f, S) -> Cells(g, T)]
  BY <1>1 DEF Cells
<1>3. ASSUME NEW p \in Cells(f, S), NEW q \in Cells(f, S), c[p] = c[q] PROVE p = q
  BY <1>1, <1>3 DEF Cells
<1>4. ASSUME NEW q \in Cells(g, T) PROVE \E p \in Cells(f, S) : c[p] = q
  <2>1. PICK x \in S : b[x] = q[1]
    BY <1>1 DEF Cells
  <2>2. <<x, q[2]>> \in Cells(f, S)
    BY <2>1 DEF Cells
  <2>3. c[<<x, q[2]>>] = q
    BY <2>1, <2>2 DEF Cells
  <2>4. QED
    BY <2>2, <2>3
<1> HIDE DEF c
<1>5. c \in Bijection(Cells(f, S), Cells(g, T))
  BY <1>2, <1>3, <1>4 DEF Bijection, Injection, Surjection, IsInjective
<1>6. Cardinality(Cells(f, S)) = Cardinality(Cells(g, T))
  BY <1>5, CellsFinite, FS_Bijection DEF ExistsBijection
<1>7. QED
  BY <1>6, SumCounts

=============================================================================
