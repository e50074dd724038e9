------------------------------ MODULE SumFacts ------------------------------
(***************************************************************************)
(* Facts about sums over finite sets, for the proofs about what the pool   *)
(* credits. Sum is the library's MapThenSumSet for weights that are given  *)
(* by a function, and is computed there by a recursive function on the     *)
(* subsets. Every fact is proved by a smallest counterexample.             *)
(***************************************************************************)
EXTENDS Integers, FiniteSets, FiniteSetsExt, TLAPS, FiniteSetTheorems, WellFoundedInduction

\* The sum of w[x] for x in S.
Sum(w, S) == MapThenSumSet(LAMBDA x : w[x], S)

\* The element that the library takes next.
Picked(s) == CHOOSE x \in s : TRUE

\* One step of the library's recursion, with r for the sums of smaller sets.
Step(w, r, s) == IF s = {} THEN 0 ELSE w[Picked(s)] + r[s \ {Picked(s)}]

\* The recursive function of the library.
Sums(w, S) == CHOOSE r : r = [s \in SUBSET S |-> Step(w, r, s)]

-----------------------------------------------------------------------------
\* A set of finite sets that is not empty has a smallest element.
LEMMA SmallestSet ==
  ASSUME NEW S, IsFiniteSet(S), NEW T \in SUBSET (SUBSET S), T # {}
  PROVE  \E s \in T : \A u \in SUBSET s : u # s => u \notin T
<1>1. IsWellFoundedOn(StrictSubsetOrdering(S), SUBSET S)
  BY FS_StrictSubsetOrderingWellFounded, FS_FiniteSubsetsOfFinite
<1>2. PICK s \in T : \A u \in T : ~(<<u, s>> \in StrictSubsetOrdering(S))
  BY <1>1, WFMin
<1>3. ASSUME NEW u \in SUBSET s, u # s, u \in T
      PROVE  FALSE
  BY <1>2, <1>3 DEF StrictSubsetOrdering
<1> QED
  BY <1>3

\* The element that the fold takes out is one of the set's.
LEMMA PickedIn ==
  ASSUME NEW s, s # {}
  PROVE  Picked(s) \in s
BY DEF Picked

\* A sum is the value at its set of the function that the fold is defined by.
LEMMA SumIsSums == \A w, S : Sum(w, S) = Sums(w, S)[S]
BY Zenon DEF Sum, MapThenSumSet, MapThenFoldSet, Sums, Step, Picked

\* The library's recursion is well defined: the sum of a finite set is that of the
\* set without the picked element, plus its weight.
LEMMA SumStep ==
  ASSUME NEW w, NEW S, IsFiniteSet(S)
  PROVE  Sum(w, S) = IF S = {} THEN 0 ELSE w[Picked(S)] + Sum(w, S \ {Picked(S)})
<1> DEFINE Good(s) == Sum(w, s) = IF s = {} THEN 0 ELSE w[Picked(s)] + Sum(w, s \ {Picked(s)})
           T == {s \in SUBSET S : ~Good(s)}
<1> SUFFICES ASSUME T # {} PROVE FALSE
  OBVIOUS
<1>1. PICK s \in T : \A u \in SUBSET s : u # s => u \notin T
  <2>1. T \in SUBSET (SUBSET S)
    OBVIOUS
  <2> HIDE DEF T
  <2> QED
    BY <2>1, SmallestSet
<1>2. s \in SUBSET S /\ IsFiniteSet(s) /\ ~Good(s)
  BY FS_Subset
<1>3. \A u \in SUBSET s : u # s => Good(u)
  BY <1>1, <1>2
<1> HIDE DEF Good, T
<1> DEFINE r == [u \in SUBSET s |-> IF u # s THEN Sum(w, u)
                                    ELSE IF s = {} THEN 0
                                    ELSE w[Picked(s)] + Sum(w, s \ {Picked(s)})]
<1>4. r = [u \in SUBSET s |-> Step(w, r, u)]
  <2> SUFFICES ASSUME NEW u \in SUBSET s PROVE r[u] = Step(w, r, u)
    BY Zenon
  <2>1. CASE u = {}
    <3>1. u # s => Sum(w, u) = 0
      BY <1>3, <2>1 DEF Good
    <3> QED
      BY <2>1, <3>1 DEF Step
  <2>2. CASE u # {}
    <3> DEFINE v == u \ {Picked(u)}
    <3>1. v \in SUBSET s /\ v # s
      BY <2>2, PickedIn
    <3>2. r[v] = Sum(w, v)
      BY <3>1
    <3>3. r[u] = w[Picked(u)] + Sum(w, v)
      BY <1>3, <2>2 DEF Good
    <3> QED
      BY <2>2, <3>2, <3>3 DEF Step
  <2> QED
    BY <2>1, <2>2
<1> HIDE DEF r
<1>5. PICK q : q = Sums(w, s)
  OBVIOUS
<1>6. q = [u \in SUBSET s |-> Step(w, q, u)]
  BY <1>4, <1>5, Zenon DEF Sums
<1>7. \A u \in SUBSET s : q[u] = Step(w, q, u)
  BY <1>6, Zenon
<1>8. \A u \in SUBSET s : u # s => q[u] = Sum(w, u)
  <2> DEFINE D == {u \in SUBSET s : u # s /\ q[u] # Sum(w, u)}
  <2> SUFFICES ASSUME D # {} PROVE FALSE
    OBVIOUS
  <2>1. PICK u \in D : \A v \in SUBSET u : v # u => v \notin D
    <3>1. D \in SUBSET (SUBSET s)
      OBVIOUS
    <3> HIDE DEF D
    <3> QED
      BY <1>2, <3>1, SmallestSet
  <2>2. Good(u) /\ q[u] = Step(w, q, u)
    BY <1>3, <1>7
  <2>3. CASE u = {}
    BY <2>2, <2>3 DEF Good, Step
  <2>4. CASE u # {}
    <3>1. PICK v : v = u \ {Picked(u)}
      OBVIOUS
    <3>2. v \in SUBSET u /\ v # u /\ v # s
      BY <2>4, <3>1, PickedIn
    <3>3. q[v] = Sum(w, v)
      BY <2>1, <3>2
    <3> QED
      BY <2>2, <2>4, <3>1, <3>3 DEF Good, Step
  <2> QED
    BY <2>3, <2>4
<1>9. Sum(w, s) = Step(w, q, s)
  BY <1>5, <1>7, SumIsSums
<1>10. CASE s = {}
  BY <1>2, <1>9, <1>10 DEF Good, Step
<1>11. CASE s # {}
  <2>1. PICK v : v = s \ {Picked(s)}
    OBVIOUS
  <2>2. v \in SUBSET s /\ v # s
    BY <1>11, <2>1, PickedIn
  <2>3. q[v] = Sum(w, v)
    BY <1>8, <2>2
  <2> QED
    BY <1>2, <1>9, <1>11, <2>1, <2>3 DEF Good, Step
<1> QED
  BY <1>10, <1>11

\* The sum of nothing.
LEMMA SumEmpty == \A w : Sum(w, {}) = 0
BY SumStep, FS_EmptySet

\* The sum of natural numbers is one.
LEMMA SumType ==
  ASSUME NEW D, NEW w \in [D -> Nat], NEW S \in SUBSET D, IsFiniteSet(S)
  PROVE  Sum(w, S) \in Nat
<1> DEFINE T == {s \in SUBSET S : Sum(w, s) \notin Nat}
<1> SUFFICES ASSUME T # {} PROVE FALSE
  OBVIOUS
<1>1. PICK s \in T : \A u \in SUBSET s : u # s => u \notin T
  <2>1. T \in SUBSET (SUBSET S)
    OBVIOUS
  <2> HIDE DEF T
  <2> QED
    BY <2>1, SmallestSet
<1>2. IsFiniteSet(s)
  BY FS_Subset
<1>3. CASE s = {}
  BY <1>3, SumEmpty
<1>4. CASE s # {}
  <2>1. PICK v : v = s \ {Picked(s)}
    OBVIOUS
  <2>2. v \in SUBSET s /\ v # s /\ Picked(s) \in D
    BY <1>4, <2>1, PickedIn
  <2>3. Sum(w, v) \in Nat /\ w[Picked(s)] \in Nat
    BY <1>1, <2>2
  <2>4. Sum(w, s) = w[Picked(s)] + Sum(w, v)
    BY <1>2, <1>4, <2>1, SumStep
  <2> QED
    BY <2>3, <2>4
<1> QED
  BY <1>3, <1>4

\* Whichever element is taken out, the sum is its weight and that of the rest.
LEMMA SumRemove ==
  ASSUME NEW D, NEW w \in [D -> Nat], NEW S \in SUBSET D, IsFiniteSet(S), NEW x \in S
  PROVE  Sum(w, S) = w[x] + Sum(w, S \ {x})
<1> DEFINE Good(s) == \A y \in s : Sum(w, s) = w[y] + Sum(w, s \ {y})
           T == {s \in SUBSET S : ~Good(s)}
<1> SUFFICES ASSUME T # {} PROVE FALSE
  OBVIOUS
<1>1. PICK s \in T : \A u \in SUBSET s : u # s => u \notin T
  <2>1. T \in SUBSET (SUBSET S)
    OBVIOUS
  <2> HIDE DEF T
  <2> QED
    BY <2>1, SmallestSet
<1>2. s \in SUBSET S /\ IsFiniteSet(s)
  BY FS_Subset
<1>3. PICK y \in s : Sum(w, s) # w[y] + Sum(w, s \ {y})
  BY <1>1
<1>4. PICK z : z = Picked(s)
  OBVIOUS
<1>5. z \in s /\ Sum(w, s) = w[z] + Sum(w, s \ {z})
  BY <1>2, <1>3, <1>4, PickedIn, SumStep
<1>6. y # z
  BY <1>3, <1>5
<1>7. Good(s \ {y}) /\ Good(s \ {z})
  BY <1>1, <1>2, <1>5
<1>8. PICK v : v = (s \ {y}) \ {z}
  OBVIOUS
<1>9. v = (s \ {z}) \ {y}
  BY <1>8
<1>10. Sum(w, s \ {y}) = w[z] + Sum(w, v) /\ Sum(w, s \ {z}) = w[y] + Sum(w, v)
  BY <1>5, <1>6, <1>7, <1>8, <1>9
<1>11. w[y] \in Nat /\ w[z] \in Nat /\ Sum(w, v) \in Nat
  <2>1. v \in SUBSET S /\ y \in D /\ z \in D
    BY <1>2, <1>5, <1>8
  <2> QED
    BY <2>1, FS_Subset, SumType
<1> QED
  BY <1>3, <1>5, <1>10, <1>11

\* A new element adds its weight.
LEMMA SumAdd ==
  ASSUME NEW D, NEW w \in [D -> Nat], NEW S \in SUBSET D, IsFiniteSet(S), NEW x \in D, x \notin S
  PROVE  Sum(w, S \cup {x}) = Sum(w, S) + w[x]
<1>1. PICK U : U = S \cup {x}
  OBVIOUS
<1>2. U \in SUBSET D /\ IsFiniteSet(U) /\ x \in U /\ U \ {x} = S
  BY <1>1, FS_AddElement
<1>3. Sum(w, U) = w[x] + Sum(w, S)
  BY <1>2, SumRemove
<1>4. Sum(w, S) \in Nat /\ w[x] \in Nat
  BY SumType
<1> QED
  BY <1>1, <1>3, <1>4

\* A part sums up to no more than the whole.
LEMMA SumMonotone ==
  ASSUME NEW D, NEW w \in [D -> Nat], NEW S \in SUBSET D, IsFiniteSet(S), NEW U \in SUBSET S
  PROVE  Sum(w, U) <= Sum(w, S)
<1> DEFINE T == {s \in SUBSET S : U \subseteq s /\ ~(Sum(w, U) <= Sum(w, s))}
<1> SUFFICES ASSUME T # {} PROVE FALSE
  OBVIOUS
<1>1. PICK s \in T : \A u \in SUBSET s : u # s => u \notin T
  <2>1. T \in SUBSET (SUBSET S)
    OBVIOUS
  <2> HIDE DEF T
  <2> QED
    BY <2>1, SmallestSet
<1>2. s \in SUBSET D /\ IsFiniteSet(s) /\ IsFiniteSet(U) /\ U \in SUBSET D
  BY FS_Subset
<1>3. Sum(w, s) \in Nat /\ Sum(w, U) \in Nat
  BY <1>2, SumType
<1>4. PICK x \in s : x \notin U
  <2>1. U \subseteq s /\ ~(Sum(w, U) <= Sum(w, s))
    OBVIOUS
  <2>2. s # U
    BY <1>3, <2>1
  <2> HIDE DEF T
  <2> QED
    BY <2>1, <2>2
<1>5. PICK v : v = s \ {x}
  OBVIOUS
<1>6. v \in SUBSET s /\ v # s /\ U \subseteq v
  BY <1>4, <1>5
<1>7. Sum(w, U) <= Sum(w, v)
  BY <1>1, <1>6
<1>8. Sum(w, s) = w[x] + Sum(w, v)
  BY <1>2, <1>5, SumRemove
<1>9. Sum(w, v) \in Nat /\ w[x] \in Nat
  <2>1. IsFiniteSet(v) /\ v \in SUBSET D
    BY <1>2, <1>6, FS_Subset
  <2> QED
    BY <1>2, <2>1, SumType
<1> QED
  BY <1>1, <1>3, <1>7, <1>8, <1>9

\* A sum of multiples, element by element, is the sum of the multiples of the sums.
LEMMA SumLinear ==
  ASSUME NEW D, IsFiniteSet(D), NEW w \in [D -> Nat], NEW u \in [D -> Nat], NEW t \in [D -> Nat],
         NEW a \in Nat, \A x \in D : w[x] = a * u[x] + t[x]
  PROVE  Sum(w, D) = a * Sum(u, D) + Sum(t, D)
<1> DEFINE Good(s) == Sum(w, s) = a * Sum(u, s) + Sum(t, s)
           T == {s \in SUBSET D : ~Good(s)}
<1> SUFFICES ASSUME T # {} PROVE FALSE
  OBVIOUS
<1>1. PICK s \in T : \A v \in SUBSET s : v # s => v \notin T
  <2>1. T \in SUBSET (SUBSET D)
    OBVIOUS
  <2> HIDE DEF T
  <2> QED
    BY <2>1, SmallestSet
<1>2. s \in SUBSET D /\ IsFiniteSet(s) /\ ~Good(s)
  BY FS_Subset
<1>3. s # {}
  <2>1. a * 0 = 0
    OBVIOUS
  <2>2. Good({})
    BY <2>1, SumEmpty
  <2> QED
    BY <1>2, <2>2
<1>4. PICK x \in s : TRUE
  BY <1>3
<1>5. PICK v : v = s \ {x}
  OBVIOUS
<1>6. v \in SUBSET s /\ v # s /\ v \in SUBSET D /\ IsFiniteSet(v)
  BY <1>2, <1>4, <1>5, FS_Subset
<1>7. Good(v)
  BY <1>1, <1>6
<1>8. /\ Sum(w, s) = w[x] + Sum(w, v)
      /\ Sum(u, s) = u[x] + Sum(u, v)
      /\ Sum(t, s) = t[x] + Sum(t, v)
  BY <1>2, <1>5, SumRemove
<1>9. Sum(w, v) \in Nat /\ Sum(u, v) \in Nat /\ Sum(t, v) \in Nat
  BY <1>6, SumType
<1>10. x \in D
  BY <1>2
<1>11. PICK wv, uv, tv, wx, ux, tx :
          /\ wv = Sum(w, v) /\ uv = Sum(u, v) /\ tv = Sum(t, v)
          /\ wx = w[x] /\ ux = u[x] /\ tx = t[x]
  OBVIOUS
<1>12. wv \in Nat /\ uv \in Nat /\ tv \in Nat /\ wx \in Nat /\ ux \in Nat /\ tx \in Nat
  BY <1>9, <1>10, <1>11
<1>13. wx + wv = a * (ux + uv) + (tx + tv)
  <2>1. wx = a * ux + tx /\ wv = a * uv + tv
    BY <1>7, <1>10, <1>11
  <2> HIDE DEF Good, T
  <2> QED
    BY <1>12, <2>1
<1> QED
  BY <1>2, <1>8, <1>11, <1>13

\* Weights that are at most a in the elements of X, and nothing elsewhere, sum up to
\* at most a times their number.
LEMMA SumAtMost ==
  ASSUME NEW D, IsFiniteSet(D), NEW w \in [D -> Nat], NEW X \in SUBSET D, NEW a \in Nat,
         \A x \in D : w[x] <= IF x \in X THEN a ELSE 0
  PROVE  Sum(w, D) <= a * Cardinality(X)
<1> DEFINE Good(s) == Sum(w, s) <= a * Cardinality(s \cap X)
           T == {s \in SUBSET D : ~Good(s)}
<1> SUFFICES ASSUME T # {} PROVE FALSE
  <2>1. D \cap X = X
    OBVIOUS
  <2> QED
    BY <2>1
<1>1. PICK s \in T : \A v \in SUBSET s : v # s => v \notin T
  <2>1. T \in SUBSET (SUBSET D)
    OBVIOUS
  <2> HIDE DEF T
  <2> QED
    BY <2>1, SmallestSet
<1>2. s \in SUBSET D /\ IsFiniteSet(s) /\ ~Good(s)
  BY FS_Subset
<1>3. s # {}
  <2>1. {} \cap X = {}
    OBVIOUS
  <2>2. Good({})
    BY <2>1, SumEmpty, FS_EmptySet
  <2> QED
    BY <1>2, <2>2
<1>4. PICK x \in s : TRUE
  BY <1>3
<1>5. PICK v : v = s \ {x}
  OBVIOUS
<1>6. v \in SUBSET s /\ v # s /\ v \in SUBSET D /\ IsFiniteSet(v)
  BY <1>2, <1>4, <1>5, FS_Subset
<1>7. Good(v)
  BY <1>1, <1>6
<1>8. Sum(w, s) = w[x] + Sum(w, v)
  BY <1>2, <1>5, SumRemove
<1>9. Sum(w, v) \in Nat /\ w[x] \in Nat /\ w[x] <= IF x \in X THEN a ELSE 0
  BY <1>2, <1>6, SumType
<1>10. PICK c, d : c = Cardinality(v \cap X) /\ d = Cardinality(s \cap X)
  OBVIOUS
<1>11. c \in Nat /\ d = IF x \in X THEN c + 1 ELSE c
  <2>1. IsFiniteSet(v \cap X) /\ x \notin v \cap X
    BY <1>5, <1>6, FS_Intersection
  <2>2. s \cap X = IF x \in X THEN (v \cap X) \cup {x} ELSE v \cap X
    BY <1>5
  <2> QED
    BY <1>10, <2>1, <2>2, FS_AddElement, FS_CardinalityType
<1>12. PICK p, q, r : p = Sum(w, v) /\ q = w[x] /\ r = Sum(w, s)
  OBVIOUS
<1>13. p <= a * c /\ ~(r <= a * d)
  BY <1>2, <1>7, <1>10, <1>12
<1>14. r = q + p /\ p \in Nat /\ q \in Nat /\ q <= IF x \in X THEN a ELSE 0
  BY <1>8, <1>9, <1>12
<1> HIDE DEF Good, T
<1>15. CASE x \in X
  <2>1. a * d = a * c + a
    BY <1>11, <1>15
  <2>2. a * c \in Nat
    BY <1>11
  <2> QED
    BY <1>13, <1>14, <1>15, <2>1, <2>2
<1>16. CASE x \notin X
  <2>1. a * c \in Nat
    BY <1>11
  <2> QED
    BY <1>11, <1>13, <1>14, <1>16, <2>1
<1> QED
  BY <1>15, <1>16

\* The sum of ones over the elements of X, and nothing elsewhere, is their number.
LEMMA SumCounts ==
  ASSUME NEW D, IsFiniteSet(D), NEW X \in SUBSET D
  PROVE  Sum([x \in D |-> IF x \in X THEN 1 ELSE 0], D) = Cardinality(X)
<1> DEFINE w == [x \in D |-> IF x \in X THEN 1 ELSE 0]
           Good(s) == Sum(w, s) = Cardinality(s \cap X)
           T == {s \in SUBSET D : ~Good(s)}
<1> SUFFICES ASSUME T # {} PROVE FALSE
  <2>1. D \cap X = X
    OBVIOUS
  <2> QED
    BY <2>1
<1>1. PICK s \in T : \A v \in SUBSET s : v # s => v \notin T
  <2>1. T \in SUBSET (SUBSET D)
    OBVIOUS
  <2> HIDE DEF T
  <2> QED
    BY <2>1, SmallestSet
<1>2. s \in SUBSET D /\ IsFiniteSet(s) /\ ~Good(s)
  BY FS_Subset
<1>3. s # {}
  <2>1. {} \cap X = {}
    OBVIOUS
  <2>2. Good({})
    BY <2>1, SumEmpty, FS_EmptySet
  <2> QED
    BY <1>2, <2>2
<1>4. PICK x \in s : TRUE
  BY <1>3
<1>5. PICK v : v = s \ {x}
  OBVIOUS
<1>6. v \in SUBSET s /\ v # s /\ v \in SUBSET D /\ IsFiniteSet(v)
  BY <1>2, <1>4, <1>5, FS_Subset
<1>7. Good(v)
  BY <1>1, <1>6
<1>8. w \in [D -> Nat] /\ w[x] = IF x \in X THEN 1 ELSE 0
  BY <1>2
<1>9. Sum(w, s) = w[x] + Sum(w, v)
  <2> HIDE DEF w
  <2> QED
    BY <1>2, <1>5, <1>8, SumRemove
<1>10. Cardinality(v \cap X) \in Nat /\ Cardinality(s \cap X) = w[x] + Cardinality(v \cap X)
  <2>1. IsFiniteSet(v \cap X) /\ x \notin v \cap X
    BY <1>5, <1>6, FS_Intersection
  <2>2. PICK c : c = v \cap X
    OBVIOUS
  <2>3. Cardinality(c) \in Nat /\ Cardinality(c \cup {x}) = Cardinality(c) + 1
    BY <2>1, <2>2, FS_AddElement, FS_CardinalityType
  <2>4. CASE x \in X
    <3>1. s \cap X = c \cup {x}
      BY <1>5, <2>2, <2>4
    <3>2. Cardinality(s \cap X) = Cardinality(c \cup {x}) /\ Cardinality(v \cap X) = Cardinality(c)
      BY <2>2, <3>1, Zenon
    <3>3. w[x] = 1
      BY <1>8, <2>4
    <3> HIDE DEF w, Good, T
    <3> QED
      BY <2>3, <3>2, <3>3
  <2>5. CASE x \notin X
    <3>1. s \cap X = c
      BY <1>5, <2>2, <2>5
    <3>2. w[x] = 0
      BY <1>8, <2>5
    <3> HIDE DEF w, Good, T
    <3> QED
      BY <2>2, <2>3, <3>1, <3>2
  <2> QED
    BY <2>4, <2>5
<1> QED
  BY <1>2, <1>7, <1>9, <1>10
=============================================================================
