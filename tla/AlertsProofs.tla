---------------------------- MODULE AlertsProofs ----------------------------
(***************************************************************************)
(* Proofs about Alerts and the Migrations in it: for any number of         *)
(* processes and releases, every policy, and all active sets.              *)
(***************************************************************************)
EXTENDS Alerts, PolicyFacts, SumFacts, FunctionTheorems

-----------------------------------------------------------------------------
(* Slot shares.                                                            *)

\* The library has two ways to say it.
LEMMA SumFunctionIsSum == \A f : SumFunction(f) = Sum(f, DOMAIN f)
BY DEF SumFunction, SumFunctionOnSet, FoldFunctionOnSet, Sum, MapThenSumSet

\* In a strict total order of a finite set, where b[v] are those before v, there are
\* k elements with fewer than k before them.
LEMMA Ranks ==
  ASSUME NEW D, IsFiniteSet(D), NEW b \in [D -> SUBSET D], NEW k \in Nat, k <= Cardinality(D),
         \A v \in D : v \notin b[v],
         \A v, w \in D : w \in b[v] => b[w] \subseteq b[v],
         \A v, w \in D : v # w => v \in b[w] \/ w \in b[v]
  PROVE  Cardinality({v \in D : Cardinality(b[v]) < k}) = k
<1> DEFINE rank == [v \in D |-> Cardinality(b[v])]
           X == {v \in D : Cardinality(b[v]) < k}
<1>1. PICK n \in Nat : n = Cardinality(D)
  BY FS_CardinalityType
<1>2. \A v \in D : IsFiniteSet(b[v]) /\ rank[v] \in 0..(n - 1)
  <2> SUFFICES ASSUME NEW v \in D PROVE IsFiniteSet(b[v]) /\ rank[v] \in 0..(n - 1)
    OBVIOUS
  <2>1. IsFiniteSet(D \ {v}) /\ Cardinality(D \ {v}) = n - 1
    BY <1>1, FS_RemoveElement
  <2>2. b[v] \in SUBSET (D \ {v})
    OBVIOUS
  <2>3. IsFiniteSet(b[v]) /\ Cardinality(b[v]) <= n - 1
    BY <2>1, <2>2, FS_Subset
  <2> QED
    BY <1>1, <2>3, FS_CardinalityType
<1>3. \A v, w \in D : w \in b[v] => rank[w] < rank[v]
  <2> SUFFICES ASSUME NEW v \in D, NEW w \in D, w \in b[v] PROVE rank[w] < rank[v]
    OBVIOUS
  <2>1. b[w] \in SUBSET b[v] /\ b[w] # b[v]
    OBVIOUS
  <2>2. Cardinality(b[w]) <= Cardinality(b[v]) /\ Cardinality(b[w]) # Cardinality(b[v])
    BY <1>2, <2>1, FS_Subset
  <2> QED
    BY <1>2, <2>2
<1>4. rank \in Injection(D, 0..(n - 1))
  <2>1. rank \in [D -> 0..(n - 1)]
    BY <1>2
  <2>2. \A v, w \in D : v # w => rank[v] # rank[w]
    BY <1>2, <1>3
  <2> HIDE DEF rank
  <2> QED
    BY <2>1, <2>2 DEF Injection, IsInjective
<1>5. rank \in Surjection(D, 0..(n - 1))
  <2>1. IsFiniteSet(0..(n - 1)) /\ Cardinality(0..(n - 1)) = n
    <3>1. 0 \in Int /\ n - 1 \in Int
      OBVIOUS
    <3>2. (n - 1) - 0 + 1 = n
      OBVIOUS
    <3> QED
      BY <3>1, <3>2, FS_Interval
  <2> QED
    BY <1>1, <1>4, <2>1, FS_Injection
<1> DEFINE f == [v \in X |-> rank[v]]
<1>6. f \in Bijection(X, 0..(k - 1))
  <2>1. f \in [X -> 0..(k - 1)]
    BY <1>2
  <2>2. \A v, w \in X : v # w => f[v] # f[w]
    BY <1>4 DEF Injection, IsInjective
  <2>3. \A i \in 0..(k - 1) : \E v \in X : f[v] = i
    <3> SUFFICES ASSUME NEW i \in 0..(k - 1) PROVE \E v \in X : f[v] = i
      OBVIOUS
    <3>1. i \in 0..(n - 1) /\ i < k
      BY <1>1
    <3>2. PICK v \in D : rank[v] = i
      BY <1>5, <3>1 DEF Surjection
    <3>3. v \in X
      BY <3>1, <3>2
    <3> QED
      BY <3>2, <3>3
  <2> HIDE DEF f, X
  <2> QED
    BY <2>1, <2>2, <2>3 DEF Bijection, Injection, IsInjective, Surjection
<1>7. IsFiniteSet(X)
  BY FS_Subset
<1>8. Cardinality(0..(k - 1)) = Cardinality(X)
  <2>1. ExistsBijection(X, 0..(k - 1))
    BY <1>6 DEF ExistsBijection
  <2> HIDE DEF X, f
  <2> QED
    BY <1>7, <2>1, FS_Bijection
<1>9. Cardinality(0..(k - 1)) = k
  <2>1. k - 1 \in Int /\ (k - 1) - 0 + 1 = k
    OBVIOUS
  <2> QED
    BY <2>1, FS_Interval
<1> QED
  BY <1>8, <1>9

\* The parts of Assigned: the quotas rounded down, their remainders, how many slots
\* are left, who comes before whom, and who gets one of the slots that are left.
Down(set)  == [v \in DOMAIN set |-> (set[v] * Slots) \div Stakes(set)]
Rest(set)  == [v \in DOMAIN set |-> (set[v] * Slots) % Stakes(set)]
Left(set)  == Slots - SumFunction(Down(set))
Ahead(set) == [v \in DOMAIN set |-> {w \in DOMAIN set : \/ Rest(set)[w] > Rest(set)[v]
                                                        \/ Rest(set)[w] = Rest(set)[v] /\ w < v}]
Extra(set) == {v \in DOMAIN set : Cardinality(Ahead(set)[v]) < Left(set)}

\* The slots of Assigned, in these parts.
LEMMA AssignedParts ==
  ASSUME NEW set
  PROVE  Assigned(set) = [v \in DOMAIN set |-> Down(set)[v] + IF v \in Extra(set) THEN 1 ELSE 0]
<1> DEFINE before(v) == {w \in DOMAIN set : \/ Rest(set)[w] > Rest(set)[v]
                                            \/ Rest(set)[w] = Rest(set)[v] /\ w < v}
<1>1. Assigned(set) = [v \in DOMAIN set |-> Down(set)[v] + IF Cardinality(before(v)) < Left(set) THEN 1 ELSE 0]
  BY DEF Assigned, Down, Rest, Left
<1>2. \A v \in DOMAIN set : before(v) = Ahead(set)[v]
  BY DEF Ahead
<1>3. \A v \in DOMAIN set : (v \in Extra(set)) <=> (Cardinality(before(v)) < Left(set))
  BY <1>2, Zenon DEF Extra
<1> HIDE DEF before
<1> QED
  BY <1>1, <1>3

\* The active sets there may be.
LEMMA SetFacts ==
  ASSUME NEW set \in ActiveSets
  PROVE  /\ DOMAIN set \in SUBSET Nat /\ IsFiniteSet(DOMAIN set)
         /\ set \in [DOMAIN set -> Nat]
         /\ Stakes(set) = Sum(set, DOMAIN set) /\ Stakes(set) \in Nat
<1>1. DOMAIN set \in SUBSET Nat /\ IsFiniteSet(DOMAIN set) /\ set \in [DOMAIN set -> Nat]
  <2>1. DOMAIN set \in SUBSET Validators /\ set \in [DOMAIN set -> Nat]
    BY AlertsAssumption
  <2>2. IsFiniteSet(DOMAIN set)
    BY <2>1, AlertsAssumption, FS_Subset
  <2> QED
    BY <2>1, <2>2, AlertsAssumption
<1>2. Stakes(set) = Sum(set, DOMAIN set)
  BY SumFunctionIsSum DEF Stakes
<1> QED
  BY <1>1, <1>2, SumType

\* A quota is what is given of it and the remainder.
LEMMA Quotas ==
  ASSUME NEW set \in ActiveSets, Stakes(set) > 0
  PROVE  /\ Down(set) \in [DOMAIN set -> Nat] /\ Rest(set) \in [DOMAIN set -> Nat]
         /\ \A v \in DOMAIN set :
              /\ set[v] * Slots = Stakes(set) * Down(set)[v] + Rest(set)[v]
              /\ Rest(set)[v] < Stakes(set)
<1>1. PICK total \in Nat \ {0} : total = Stakes(set)
  BY SetFacts
<1>2. ASSUME NEW v \in DOMAIN set
      PROVE  /\ Down(set)[v] \in Nat /\ Rest(set)[v] \in Nat /\ Rest(set)[v] < total
             /\ set[v] * Slots = total * Down(set)[v] + Rest(set)[v]
  <2>1. PICK n \in Nat : n = set[v] * Slots
    BY SetFacts, AlertsAssumption
  <2>2. PICK q, r : q = n \div total /\ r = n % total
    OBVIOUS
  <2>3. q \in Int /\ q * total <= n /\ n < q * total + total /\ r = n - q * total
    BY <2>2, DivBounds
  <2>4. q \in Nat
    <3>1. (q + 1) * total > 0
      BY <2>1, <2>3
    <3>2. q + 1 > 0
      BY <2>3, <3>1
    <3> QED
      BY <2>3, <3>2
  <2>5. r \in Nat /\ r < total /\ n = total * q + r
    BY <2>3
  <2>6. Down(set)[v] = q /\ Rest(set)[v] = r
    BY <1>1, <2>1, <2>2 DEF Down, Rest
  <2> QED
    BY <2>1, <2>4, <2>5, <2>6
<1> QED
  BY <1>1, <1>2 DEF Down, Rest

\* The remainders add up to the slots that are left, each for the whole stake.
LEMMA LeftIsRest ==
  ASSUME NEW set \in ActiveSets, Stakes(set) > 0
  PROVE  /\ Left(set) \in Nat
         /\ Left(set) * Stakes(set) = Sum(Rest(set), DOMAIN set)
         /\ Left(set) = Slots - Sum(Down(set), DOMAIN set)
<1>1. PICK D : D = DOMAIN set
  OBVIOUS
<1>2. PICK w : w = [v \in D |-> set[v] * Slots]
  OBVIOUS
<1>3. PICK zero : zero = [v \in D |-> 0]
  OBVIOUS
<1>4. IsFiniteSet(D) /\ set \in [D -> Nat] /\ Stakes(set) = Sum(set, D) /\ Stakes(set) \in Nat
  BY <1>1, SetFacts
<1>5. w \in [D -> Nat] /\ zero \in [D -> Nat]
  BY <1>2, <1>3, <1>4, AlertsAssumption
<1>6. Down(set) \in [D -> Nat] /\ Rest(set) \in [D -> Nat]
  BY <1>1, Quotas
<1>7. \A v \in D : w[v] = Stakes(set) * Down(set)[v] + Rest(set)[v]
  BY <1>1, <1>2, Quotas
<1>8. Sum(w, D) = Stakes(set) * Sum(Down(set), D) + Sum(Rest(set), D)
  BY <1>4, <1>5, <1>6, <1>7, SumLinear
<1>9. \A v \in D : w[v] = Slots * set[v] + zero[v]
  BY <1>2, <1>3, <1>4, AlertsAssumption
<1>10. Sum(w, D) = Slots * Sum(set, D) + Sum(zero, D)
  <2>1. Slots \in Nat
    BY AlertsAssumption
  <2> QED
    BY <1>4, <1>5, <1>9, <2>1, SumLinear
<1>11. Sum(zero, D) = 0
  <2>1. D \in SUBSET D /\ \A v \in D : zero[v] <= IF v \in D THEN 0 ELSE 0
    BY <1>3
  <2>2. Sum(zero, D) <= 0 * Cardinality(D)
    BY <1>4, <1>5, <2>1, SumAtMost
  <2>3. Sum(zero, D) \in Nat /\ Cardinality(D) \in Nat
    BY <1>4, <1>5, SumType, FS_CardinalityType
  <2> QED
    BY <2>2, <2>3
<1>12. PICK total, down, rest : total = Stakes(set) /\ down = Sum(Down(set), D) /\ rest = Sum(Rest(set), D)
  OBVIOUS
<1>13. total \in Nat /\ total > 0 /\ down \in Nat /\ rest \in Nat
  BY <1>4, <1>6, <1>12, SumType
<1>14. total * down + rest = Slots * total
  BY <1>4, <1>8, <1>10, <1>11, <1>12, <1>13, AlertsAssumption
<1>15. Left(set) = Slots - down
  <2>1. DOMAIN Down(set) = D
    BY <1>1 DEF Down
  <2> QED
    BY <1>12, <2>1, SumFunctionIsSum DEF Left
<1>16. (Slots - down) * total = rest /\ Slots - down >= 0
  <2>1. PICK n \in Nat : n = Slots
    BY AlertsAssumption
  <2>2. total * down + rest = n * total
    BY <1>14, <2>1
  <2>3. (n - down) * total = n * total - total * down
    BY <1>13
  <2>4. (n - down) * total = rest
    <3>1. n * total \in Nat /\ total * down \in Nat
      BY <1>13
    <3> QED
      BY <1>13, <2>2, <2>3, <3>1
  <2>5. n - down >= 0
    BY <1>13, <2>4
  <2> QED
    BY <2>1, <2>4, <2>5
<1> QED
  BY <1>1, <1>12, <1>13, <1>15, <1>16, AlertsAssumption

\* There are no more slots left than validators with a remainder, and only those get
\* one of them.
LEMMA ExtraHasRest ==
  ASSUME NEW set \in ActiveSets, Stakes(set) > 0
  PROVE  /\ Left(set) <= Cardinality(DOMAIN set)
         /\ \A v \in Extra(set) : Rest(set)[v] > 0
<1>1. PICK D : D = DOMAIN set
  OBVIOUS
<1>2. PICK P : P = {v \in D : Rest(set)[v] > 0}
  OBVIOUS
<1>3. PICK c \in Nat : c = Cardinality(P)
  BY <1>1, <1>2, SetFacts, FS_Subset, FS_CardinalityType
<1>4. PICK total \in Nat \ {0} : total = Stakes(set)
  BY SetFacts
<1>5. PICK l \in Nat : l = Left(set)
  BY LeftIsRest
<1>6. P \in SUBSET D /\ IsFiniteSet(D) /\ Rest(set) \in [D -> Nat]
  BY <1>1, <1>2, SetFacts, Quotas
<1>7. l * total <= (total - 1) * c
  <2>1. \A v \in D : Rest(set)[v] <= IF v \in P THEN total - 1 ELSE 0
    BY <1>1, <1>2, <1>4, <1>6, Quotas
  <2>2. Sum(Rest(set), D) <= (total - 1) * Cardinality(P)
    BY <1>4, <1>6, <2>1, SumAtMost
  <2> QED
    BY <1>1, <1>3, <1>4, <1>5, <2>2, LeftIsRest
<1>8. l <= c
  <2>1. SUFFICES ASSUME l >= c + 1 PROVE FALSE
    OBVIOUS
  <2>2. l * total >= (c + 1) * total
    BY <2>1
  <2>3. (c + 1) * total = (total - 1) * c + c + total
    OBVIOUS
  <2> QED
    BY <1>7, <2>2, <2>3
<1>9. ASSUME NEW v \in Extra(set), Rest(set)[v] = 0 PROVE FALSE
  <2>1. v \in D /\ Cardinality(Ahead(set)[v]) < l
    BY <1>1, <1>5 DEF Extra
  <2>2. P \subseteq Ahead(set)[v] /\ Ahead(set)[v] \subseteq D
    BY <1>1, <1>2, <1>9, <2>1 DEF Ahead
  <2>3. PICK a : a = Ahead(set)[v]
    OBVIOUS
  <2>4. IsFiniteSet(a) /\ P \in SUBSET a
    BY <1>6, <2>2, <2>3, FS_Subset
  <2>5. Cardinality(P) <= Cardinality(a) /\ Cardinality(a) \in Nat
    BY <2>4, FS_Subset, FS_CardinalityType
  <2> QED
    BY <1>3, <1>8, <2>1, <2>3, <2>5
<1>10. c <= Cardinality(D) /\ Cardinality(D) \in Nat
  BY <1>3, <1>6, FS_Subset, FS_CardinalityType
<1>11. \A v \in Extra(set) : Rest(set)[v] \in Nat
  BY <1>1, <1>6 DEF Extra
<1> QED
  BY <1>1, <1>5, <1>8, <1>9, <1>10, <1>11

\* As many get one as there are left.
LEMMA ExtraCount ==
  ASSUME NEW set \in ActiveSets, Stakes(set) > 0
  PROVE  Cardinality(Extra(set)) = Left(set)
<1>1. PICK D : D = DOMAIN set
  OBVIOUS
<1>2. PICK b : b = Ahead(set)
  OBVIOUS
<1>3. PICK r \in [D -> Nat] : r = Rest(set)
  BY <1>1, Quotas
<1>4. D \in SUBSET Nat /\ IsFiniteSet(D)
  BY <1>1, SetFacts
<1>5. b = [v \in D |-> {w \in D : r[w] > r[v] \/ (r[w] = r[v] /\ w < v)}]
  BY <1>1, <1>2, <1>3 DEF Ahead
<1>6. b \in [D -> SUBSET D]
  BY <1>5
<1>7. \A v \in D : v \notin b[v]
  BY <1>4, <1>5
<1>8. \A v, w \in D : w \in b[v] => b[w] \subseteq b[v]
  <2> SUFFICES ASSUME NEW v \in D, NEW w \in D, w \in b[v], NEW x \in b[w] PROVE x \in b[v]
    OBVIOUS
  <2>1. x \in D /\ r[v] \in Nat /\ r[w] \in Nat /\ r[x] \in Nat /\ v \in Nat /\ w \in Nat /\ x \in Nat
    BY <1>4, <1>6
  <2>2. r[w] > r[v] \/ (r[w] = r[v] /\ w < v)
    BY <1>5
  <2>3. r[x] > r[w] \/ (r[x] = r[w] /\ x < w)
    BY <1>5
  <2>4. r[x] > r[v] \/ (r[x] = r[v] /\ x < v)
    BY <2>1, <2>2, <2>3
  <2> QED
    BY <1>5, <2>1, <2>4
<1>9. \A v, w \in D : v # w => v \in b[w] \/ w \in b[v]
  BY <1>4, <1>5
<1>10. Left(set) \in Nat /\ Left(set) <= Cardinality(D)
  BY <1>1, LeftIsRest, ExtraHasRest
<1>11. Cardinality({v \in D : Cardinality(b[v]) < Left(set)}) = Left(set)
  BY <1>4, <1>6, <1>7, <1>8, <1>9, <1>10, Ranks
<1> QED
  BY <1>1, <1>2, <1>11 DEF Extra

\* What Assigned gives, for any active set with a stake (slotShare).
LEMMA SharesOfSet ==
  ASSUME NEW set \in ActiveSets, Stakes(set) > 0
  PROVE  /\ Assigned(set) \in [DOMAIN set -> Nat]
         /\ SumFunction(Assigned(set)) = Slots
         /\ \A v \in DOMAIN set :
              /\ set[v] * Slots - Stakes(set) < Assigned(set)[v] * Stakes(set)
              /\ Assigned(set)[v] * Stakes(set) < set[v] * Slots + Stakes(set)
              /\ \A w \in DOMAIN set : set[v] > set[w] => Assigned(set)[v] >= Assigned(set)[w]
<1>1. PICK D : D = DOMAIN set
  OBVIOUS
<1>2. PICK one : one = [v \in D |-> IF v \in Extra(set) THEN 1 ELSE 0]
  OBVIOUS
<1>3. PICK down \in [D -> Nat] : down = Down(set)
  BY <1>1, Quotas
<1>4. PICK rest \in [D -> Nat] : rest = Rest(set)
  BY <1>1, Quotas
<1>5. PICK share : share = Assigned(set)
  OBVIOUS
<1>6. PICK total \in Nat \ {0} : total = Stakes(set)
  BY SetFacts
<1>7. PICK slots \in Nat \ {0} : slots = Slots
  BY AlertsAssumption
<1>8. IsFiniteSet(D) /\ D \in SUBSET Nat /\ set \in [D -> Nat] /\ Extra(set) \in SUBSET D
  BY <1>1, SetFacts DEF Extra
<1>9. one \in [D -> Nat] /\ \A v \in D : one[v] \in {0, 1} /\ (one[v] = 1 <=> v \in Extra(set))
  BY <1>2
<1>10. share \in [D -> Nat] /\ \A v \in D : share[v] = down[v] + one[v]
  <2>1. share = [v \in D |-> down[v] + IF v \in Extra(set) THEN 1 ELSE 0]
    BY <1>1, <1>3, <1>5, AssignedParts
  <2> QED
    BY <1>2, <1>9, <2>1
<1>11. \A v \in D : /\ set[v] * slots = total * down[v] + rest[v] /\ rest[v] < total
                    /\ v \in Extra(set) => rest[v] > 0
  BY <1>1, <1>3, <1>4, <1>6, <1>7, Quotas, ExtraHasRest
<1>12. SumFunction(share) = slots
  <2>1. PICK a \in Nat : a = 1
    OBVIOUS
  <2>2. Sum(share, D) = a * Sum(down, D) + Sum(one, D)
    <3>1. \A v \in D : share[v] = a * down[v] + one[v]
      BY <1>9, <1>10, <2>1
    <3>2. IsFiniteSet(D) /\ share \in [D -> Nat] /\ one \in [D -> Nat]
      BY <1>8, <1>9, <1>10
    <3> QED
      BY <3>1, <3>2, SumLinear
  <2>3. Sum(one, D) = Left(set)
    BY <1>2, <1>8, SumCounts, ExtraCount
  <2>4. Left(set) = slots - Sum(down, D) /\ Sum(down, D) \in Nat
    BY <1>1, <1>3, <1>7, <1>8, LeftIsRest, SumType
  <2>5. SumFunction(share) = Sum(share, D)
    BY <1>10, SumFunctionIsSum
  <2> QED
    BY <2>1, <2>2, <2>3, <2>4, <2>5
<1>13. ASSUME NEW v \in D
       PROVE  /\ set[v] * slots - total < share[v] * total
              /\ share[v] * total < set[v] * slots + total
  <2>1. PICK n, d, r, o : n = set[v] * slots /\ d = down[v] /\ r = rest[v] /\ o = one[v]
    OBVIOUS
  <2>2. /\ d \in Nat /\ r \in Nat /\ n = total * d + r /\ r < total
        /\ o \in {0, 1} /\ (o = 1 => r > 0)
    BY <1>9, <1>11, <2>1
  <2>3. n - total < (d + o) * total /\ (d + o) * total < n + total
    <3>1. CASE o = 0
      <4>1. (d + o) * total = total * d /\ total * d \in Nat
        BY <2>2, <3>1
      <4> QED
        BY <2>2, <4>1
    <3>2. CASE o = 1
      <4>1. (d + o) * total = total * d + total /\ total * d \in Nat
        BY <2>2, <3>2
      <4> QED
        BY <2>2, <3>2, <4>1
    <3> QED
      BY <2>2, <3>1, <3>2
  <2> QED
    BY <1>10, <2>1, <2>3
<1>14. ASSUME NEW v \in D, NEW w \in D, set[v] > set[w] PROVE share[v] >= share[w]
  <2>1. PICK a, b, c, d, r, q : /\ a = set[v] /\ b = set[w] /\ c = down[v] /\ d = down[w]
                                /\ r = rest[v] /\ q = rest[w]
    OBVIOUS
  <2>2. /\ a \in Nat /\ b \in Nat /\ c \in Nat /\ d \in Nat /\ r \in Nat /\ q \in Nat
        /\ a * slots = total * c + r /\ r < total
        /\ b * slots = total * d + q /\ q < total
        /\ a > b
    BY <1>8, <1>11, <1>14, <2>1
  <2>3. a * slots > b * slots
    <3>1. a = b + (a - b) /\ a - b >= 1
      BY <2>2
    <3>2. (b + (a - b)) * slots = b * slots + (a - b) * slots
      BY <2>2
    <3>3. (a - b) * slots >= 1
      BY <2>2, <3>1
    <3> QED
      BY <2>2, <3>1, <3>2, <3>3
  <2>4. total * c + r > total * d + q
    BY <2>2, <2>3
  <2>5. c >= d
    <3> SUFFICES ASSUME c + 1 <= d PROVE FALSE
      BY <2>2
    <3>1. total * (c + 1) <= total * d
      BY <2>2
    <3>2. total * (c + 1) = total * c + total
      BY <2>2
    <3>3. total * c \in Nat /\ total * d \in Nat
      BY <2>2
    <3> QED
      BY <2>2, <2>4, <3>1, <3>2, <3>3
  <2>6. CASE c > d
    BY <1>9, <1>10, <2>1, <2>2, <2>6
  <2>7. CASE c = d
    <3>1. r > q
      BY <2>2, <2>4, <2>7
    <3>2. PICK before, after : before = Ahead(set)[v] /\ after = Ahead(set)[w]
      OBVIOUS
    <3>3. before \subseteq after /\ after \subseteq D
      <4>1. before = {x \in D : rest[x] > r \/ (rest[x] = r /\ x < v)}
        BY <1>1, <1>4, <2>1, <3>2 DEF Ahead
      <4>2. after = {x \in D : rest[x] > q \/ (rest[x] = q /\ x < w)}
        BY <1>1, <1>4, <2>1, <3>2 DEF Ahead
      <4> QED
        BY <2>2, <3>1, <4>1, <4>2
    <3>4. IsFiniteSet(after) /\ before \in SUBSET after
      BY <1>8, <3>3, FS_Subset
    <3>5. Cardinality(before) <= Cardinality(after) /\ Cardinality(before) \in Nat /\ Cardinality(after) \in Nat
      BY <3>4, FS_Subset, FS_CardinalityType
    <3>6. Left(set) \in Nat
      BY LeftIsRest
    <3>7. w \in Extra(set) => v \in Extra(set)
      BY <1>1, <3>2, <3>5, <3>6 DEF Extra
    <3>8. one[v] \in {0, 1} /\ one[w] \in {0, 1} /\ (one[w] = 1 => one[v] = 1)
      BY <1>9, <3>7
    <3>9. share[v] = c + one[v] /\ share[w] = d + one[w]
      BY <1>10, <2>1
    <3> QED
      BY <2>2, <2>7, <3>8, <3>9
  <2> QED
    BY <2>2, <2>5, <2>6, <2>7
<1>15. \A v \in D : /\ set[v] * slots - total < share[v] * total
                    /\ share[v] * total < set[v] * slots + total
                    /\ \A w \in D : set[v] > set[w] => share[v] >= share[w]
  BY <1>13, <1>14
<1> QED
  BY <1>1, <1>5, <1>6, <1>7, <1>10, <1>12, <1>15

\* The pool's share is a number of slots.
LEMMA ShareType ==
  ASSUME NEW set \in ActiveSets
  PROVE  SlotShare[set] \in 0..Slots
<1>1. Slots \in Nat
  BY AlertsAssumption
<1>2. CASE ~(Me \in DOMAIN set /\ Stakes(set) > 0)
  <2>1. SlotShare[set] = 0
    BY <1>2 DEF SlotShare
  <2> QED
    BY <1>1, <2>1
<1>3. CASE Me \in DOMAIN set /\ Stakes(set) > 0
  <2>1. PICK share \in [DOMAIN set -> Nat] : share = Assigned(set)
    BY <1>3, SharesOfSet
  <2>2. Sum(share, DOMAIN set) = Slots
    BY <1>3, <2>1, SharesOfSet, SumFunctionIsSum
  <2>3. IsFiniteSet(DOMAIN set)
    BY SetFacts
  <2>4. Sum(share, DOMAIN set) = share[Me] + Sum(share, DOMAIN set \ {Me})
    BY <1>3, <2>3, SumRemove
  <2>5. Sum(share, DOMAIN set \ {Me}) \in Nat
    BY <2>3, FS_Subset, SumType
  <2>6. SlotShare[set] = share[Me]
    BY <1>3, <2>1 DEF SlotShare
  <2> QED
    BY <1>1, <1>3, <2>2, <2>4, <2>5, <2>6
<1> QED
  BY <1>2, <1>3

-----------------------------------------------------------------------------
(* The inductive invariant.                                                *)

\* What a migrating process knows to be applied is; the versions applied are the
\* first ones, and each took effect once.
SchemaOK ==
  /\ MigratedOnce
  /\ \A p \in Procs : phase[p] = "migrating" => known[p] \subseteq schema_migrations

\* There is an active set for each epoch up to the one that follows the last election,
\* and a tick has not lasted longer than it may.
ChainOK ==
  /\ head > Genesis
  /\ Len(active) = (head - Genesis) \div BlocksPerEpoch + 1
  /\ pc = "observe" => seen > Genesis /\ head - seen <= TickBlocks

\* Each warning but that of the lag under way has its excuse, and each error its warning.
LagOK ==
  /\ lagAlert.error => lagAlert.warning
  /\ incident.warnings <= incident.excuses + IF lagAlert.warning THEN 1 ELSE 0
  /\ incident.errors + (IF lagAlert.warning /\ ~lagAlert.error THEN 1 ELSE 0) <= incident.warnings

\* The epoch that a tick under way, or the next one, is about.
TickEpoch == EpochAt(IF pc = "observe" THEN seen ELSE head)

\* The epochs told are told in order, the last one is the one remembered, and no tick
\* goes back behind it.
ToldOK ==
  /\ \A i, j \in DOMAIN told : i < j => told[i] < told[j]
  /\ told # <<>> => unelected # Never /\ \A i \in DOMAIN told : told[i] <= unelected
  /\ unelected # Never => unelected <= TickEpoch
  /\ told \in Seq(Epochs)

IInv == TypeOK /\ SchemaOK /\ ChainOK /\ LagOK /\ ToldOK /\ ParticipationTrue

-----------------------------------------------------------------------------
(* The migrations.                                                         *)

\* What the library calls the minimum is one.
LEMMA MinFacts ==
  ASSUME NEW S \in SUBSET Nat, S # {}
  PROVE  Min(S) \in S /\ \A y \in S : Min(S) <= y
<1>1. PICK x \in S : \A y \in S : ~(<<y, x>> \in OpToRel(<, Nat))
  BY NatLessThanWellFounded, WFMin
<1>2. \A y \in S : x <= y
  <2>1. ASSUME NEW y \in S, y < x PROVE FALSE
    <3>1. <<y, x>> \in Nat \X Nat /\ <<y, x>>[1] < <<y, x>>[2]
      BY <2>1
    <3>2. <<y, x>> \in {ss \in Nat \X Nat : ss[1] < ss[2]}
      BY <3>1, Zenon
    <3>3. <<y, x>> \in OpToRel(<, Nat)
      BY <3>2, Zenon DEF OpToRel
    <3> QED
      BY <1>1, <3>3
  <2>2. x \in Nat /\ \A y \in S : y \in Nat
    OBVIOUS
  <2> QED
    BY <2>1, <2>2
<1>3. \E m \in S : \A y \in S : m <= y
  BY <1>2
<1> QED
  BY <1>3, Zenon DEF Min

\* Each release has the versions from 1 to its last one.
LEMMA EmbeddedFacts ==
  /\ Versions \in SUBSET (Nat \ {0})
  /\ \A p \in Procs : Embedded[p] \in SUBSET Versions /\ \E n \in Nat : Embedded[p] = 1..n
<1>1. ASSUME NEW p \in Procs PROVE \E n \in Nat : Embedded[p] = 1..n
  <2>1. IsFiniteSet(Embedded[p]) /\ Embedded[p] = 1..Cardinality(Embedded[p])
    BY MigrationsAssumption
  <2>2. Cardinality(Embedded[p]) \in Nat
    BY <2>1, FS_CardinalityType
  <2> QED
    BY <2>1, <2>2
<1>2. \A p \in Procs : Embedded[p] \in SUBSET Versions
  BY DEF Versions
<1>3. ASSUME NEW v \in Versions PROVE v \in Nat \ {0}
  <2>1. PICK p \in Procs : v \in Embedded[p]
    BY DEF Versions
  <2>2. PICK n \in Nat : Embedded[p] = 1..n
    BY <1>1
  <2> QED
    BY <2>1, <2>2
<1> QED
  BY <1>1, <1>2, <1>3

\* The version that a process applies next: all the earlier ones are applied.
LEMMA NextVersion ==
  ASSUME MigrationsTypeOK, SchemaOK, NEW p \in Procs, phase[p] = "migrating", Missing(p) # {},
         NEW v, v = Min(Missing(p))
  PROVE  /\ v \in Versions /\ v \in Embedded[p]
         /\ \A w \in Versions : w < v => w \in schema_migrations
<1>1. PICK n \in Nat : Embedded[p] = 1..n
  BY EmbeddedFacts
<1>2. Missing(p) \in SUBSET Nat
  BY <1>1 DEF Missing
<1>3. v \in Missing(p) /\ \A y \in Missing(p) : v <= y
  BY <1>2, MinFacts
<1>4. v \in Embedded[p] /\ v \in Versions
  BY <1>3, EmbeddedFacts DEF Missing
<1>5. ASSUME NEW w \in Versions, w < v PROVE w \in schema_migrations
  <2>1. w \in Nat \ {0} /\ v \in Nat /\ v <= n
    BY <1>1, <1>4, EmbeddedFacts
  <2>2. w \in Embedded[p]
    BY <1>1, <1>5, <2>1
  <2>3. w \notin Missing(p)
    BY <1>3, <1>5, <2>1
  <2>4. w \in known[p]
    BY <2>2, <2>3 DEF Missing
  <2> QED
    BY <2>4 DEF SchemaOK
<1> QED
  BY <1>4, <1>5

\* A step of a start, or its end.
LEMMA SchemaSteps ==
  ASSUME MigrationsTypeOK, SchemaOK, NEW p \in Procs, Migrate(p) \/ StopProcess(p)
  PROVE  MigrationsTypeOK' /\ SchemaOK'
<1>1. /\ schema_migrations \in SUBSET Versions /\ done \in [Versions -> Nat]
      /\ phase \in [Procs -> {"down", "migrating", "up"}]
      /\ known \in [Procs -> SUBSET Versions] /\ stops \in 0..MaxStops
  BY DEF MigrationsTypeOK
<1>2. /\ \A v \in Versions : done[v] = IF v \in schema_migrations THEN 1 ELSE 0
      /\ \A v \in schema_migrations : \A w \in Versions : w < v => w \in schema_migrations
      /\ \A q \in Procs : phase[q] = "up" => Embedded[q] \subseteq schema_migrations
      /\ \A q \in Procs : phase[q] = "migrating" => known[q] \subseteq schema_migrations
  BY <1>1 DEF SchemaOK, MigratedOnce
<1>3. CASE StartProcess(p)
  <2>1. /\ UNCHANGED <<schema_migrations, done, stops>>
        /\ phase' = [phase EXCEPT ![p] = "migrating"]
        /\ known' = [known EXCEPT ![p] = schema_migrations]
    BY <1>3 DEF StartProcess, Applied
  <2>2. MigrationsTypeOK'
    BY <1>1, <2>1 DEF MigrationsTypeOK
  <2>3. /\ \A q \in Procs : phase'[q] = "up" => phase[q] = "up"
        /\ \A q \in Procs : phase'[q] = "migrating" => known'[q] \subseteq schema_migrations
    BY <1>1, <1>2, <2>1
  <2> QED
    BY <1>1, <1>2, <2>1, <2>2, <2>3 DEF SchemaOK, MigratedOnce
<1>4. CASE FinishStart(p)
  <2>1. /\ UNCHANGED <<schema_migrations, done, stops>>
        /\ phase' = [phase EXCEPT ![p] = "up"] /\ known' = [known EXCEPT ![p] = {}]
        /\ phase[p] = "migrating" /\ Embedded[p] \subseteq known[p]
    BY <1>4 DEF FinishStart, Migrated, Missing
  <2>2. MigrationsTypeOK'
    BY <1>1, <2>1 DEF MigrationsTypeOK
  <2>3. /\ \A q \in Procs : phase'[q] = "up" => Embedded[q] \subseteq schema_migrations
        /\ \A q \in Procs : phase'[q] = "migrating" => known'[q] \subseteq schema_migrations
    BY <1>1, <1>2, <2>1
  <2> QED
    BY <1>1, <1>2, <2>1, <2>2, <2>3 DEF SchemaOK, MigratedOnce
<1>5. ASSUME StopProcess(p) \/ (ApplyMigration(p) /\ Conflicts(Min(Missing(p))))
      PROVE  MigrationsTypeOK' /\ SchemaOK'
  <2>1. /\ UNCHANGED <<schema_migrations, done>>
        /\ phase' = [phase EXCEPT ![p] = "down"] /\ known' = [known EXCEPT ![p] = {}]
        /\ stops' \in 0..MaxStops
    <3>1. CASE StopProcess(p)
      BY <1>1, <3>1, MigrationsAssumption DEF StopProcess
    <3>2. CASE ApplyMigration(p) /\ Conflicts(Min(Missing(p)))
      BY <1>1, <3>2 DEF ApplyMigration
    <3> QED
      BY <1>5, <3>1, <3>2
  <2>2. MigrationsTypeOK'
    BY <1>1, <2>1 DEF MigrationsTypeOK
  <2>3. /\ \A q \in Procs : phase'[q] = "up" => phase[q] = "up"
        /\ \A q \in Procs : phase'[q] = "migrating" => known'[q] \subseteq schema_migrations
    BY <1>1, <1>2, <2>1
  <2> QED
    BY <1>1, <1>2, <2>1, <2>2, <2>3 DEF SchemaOK, MigratedOnce
<1>6. ASSUME ApplyMigration(p), ~Conflicts(Min(Missing(p)))
      PROVE  MigrationsTypeOK' /\ SchemaOK'
  <2>1. PICK v : v = Min(Missing(p))
    OBVIOUS
  <2>2. /\ phase[p] = "migrating" /\ Missing(p) # {} /\ v \notin schema_migrations
        /\ schema_migrations' = schema_migrations \cup {v}
        /\ done' = [done EXCEPT ![v] = done[v] + 1]
        /\ known' = [known EXCEPT ![p] = known[p] \cup {v}]
        /\ UNCHANGED <<phase, stops>>
    BY <1>6, <2>1 DEF ApplyMigration, Conflicts
  <2>3. v \in Versions /\ \A w \in Versions : w < v => w \in schema_migrations
    BY <2>1, <2>2, NextVersion
  <2>4. MigrationsTypeOK'
    BY <1>1, <2>2, <2>3 DEF MigrationsTypeOK
  <2>5. \A w \in Versions : done'[w] = IF w \in schema_migrations' THEN 1 ELSE 0
    <3> SUFFICES ASSUME NEW w \in Versions PROVE done'[w] = IF w \in schema_migrations' THEN 1 ELSE 0
      OBVIOUS
    <3>1. CASE w = v
      BY <1>1, <1>2, <2>2, <2>3, <3>1
    <3>2. CASE w # v
      BY <1>1, <1>2, <2>2, <3>2
    <3> QED
      BY <3>1, <3>2
  <2>6. \A x \in schema_migrations' : \A w \in Versions : w < x => w \in schema_migrations'
    BY <1>2, <2>2, <2>3
  <2>7. /\ \A q \in Procs : phase'[q] = "up" => Embedded[q] \subseteq schema_migrations'
        /\ \A q \in Procs : phase'[q] = "migrating" => known'[q] \subseteq schema_migrations'
    BY <1>1, <1>2, <2>2
  <2> QED
    BY <2>4, <2>5, <2>6, <2>7 DEF SchemaOK, MigratedOnce
<1> QED
  BY <1>3, <1>4, <1>5, <1>6 DEF Migrate

-----------------------------------------------------------------------------
(* The chain and the tick.                                                 *)

\* What the assumptions say of the numbers, one by one.
LEMMA Numbers ==
  /\ Genesis \in Nat /\ MaxHead \in Nat /\ Genesis < MaxHead /\ TickBlocks \in Nat /\ MaxErrors \in Nat
  /\ BlocksPerEpoch \in Nat \ {0} /\ TickBlocks < BlocksPerEpoch /\ 1 < BlocksPerEpoch
  /\ LagWarn \in Nat /\ LagRecover \in Nat /\ LagRecover < LagWarn
  /\ EscalateAfter \in Nat \ {0} /\ GaugeInterval \in Nat \ {0} /\ Never \notin Nat
BY AlertsAssumption, PolicyAssumption

\* Whatever the node answers with while a tick is under way is the set of the tick's
\* epoch or of the one that follows.
LEMMA TickFacts ==
  ASSUME TypeOK, ChainOK, pc = "observe"
  PROVE  /\ EpochAt(seen) \in Epochs
         /\ \A e \in ActiveEpochs : e \in DOMAIN active /\ e \in {EpochAt(seen), EpochAt(seen) + 1}
<1>1. /\ head \in Nat /\ seen \in Nat /\ Genesis < seen /\ seen <= head /\ head <= MaxHead
      /\ head - seen < BlocksPerEpoch
  BY Numbers DEF TypeOK, ChainOK
<1>2. PICK k : k = EpochAt(seen)
  OBVIOUS
<1>3. PICK c : c = EpochAt(head)
  OBVIOUS
<1>4. /\ k \in Nat /\ k > 0 /\ c \in Nat /\ k <= c
      /\ k <= EpochAt(MaxHead) /\ EpochAt(MaxHead) \in Nat
  BY <1>1, <1>2, <1>3, Numbers, HeightRange, EpochMonotone
<1>5. PICK s, h, d : s = seen - Genesis /\ h = head - Genesis /\ d = BlocksPerEpoch
  OBVIOUS
<1>6. s \in Nat /\ h \in Nat /\ d \in Nat \ {0} /\ h < s + d
  BY <1>1, <1>5, Numbers
<1>7. s <= k * d
  <2>1. k = DivCeil(s, d)
    BY <1>1, <1>2, <1>5, Numbers DEF EpochAt
  <2> QED
    BY <1>4, <1>6, <2>1, DivCeilUnique
<1>8. PICK f : f = h \div d
  OBVIOUS
<1>9. f \in Int /\ f * d <= h
  BY <1>6, <1>8, DivBounds
<1>10. f <= k
  <2> SUFFICES ASSUME f >= k + 1 PROVE FALSE
    BY <1>4, <1>9
  <2>1. f * d >= (k + 1) * d
    BY <1>4, <1>6, <1>9
  <2>2. (k + 1) * d = k * d + d
    BY <1>4, <1>6
  <2>3. k * d \in Nat /\ f * d \in Int
    BY <1>4, <1>6, <1>9
  <2> QED
    BY <1>6, <1>7, <1>9, <2>1, <2>2, <2>3
<1>11. Len(active) = f + 1 /\ DOMAIN active = 1..Len(active)
  BY <1>5, <1>8 DEF ChainOK, TypeOK
<1>12. EpochAt(seen) \in Epochs
  BY <1>2, <1>4 DEF Epochs
<1>13. \A e \in ActiveEpochs : e \in DOMAIN active /\ e \in {k, k + 1}
  BY <1>3, <1>4, <1>9, <1>10, <1>11 DEF ActiveEpochs
<1> QED
  BY <1>2, <1>12, <1>13

\* A block keeps the number of active sets in step with the height.
LEMMA BlockFacts ==
  ASSUME TypeOK, ChainOK, ProduceBlock
  PROVE  /\ active' \in Seq(ActiveSets)
         /\ Len(active') = (head' - Genesis) \div BlocksPerEpoch + 1
         /\ Len(active') >= Len(active) /\ \A i \in 1..Len(active) : active'[i] = active[i]
<1>1. head \in Nat /\ Genesis < head /\ head' = head + 1
  BY Numbers DEF TypeOK, ChainOK, ProduceBlock
<1>2. PICK h, d, q : h = head - Genesis /\ d = BlocksPerEpoch /\ q = h \div d
  OBVIOUS
<1>3. h \in Int /\ d \in Nat \ {0} /\ h + 1 = head' - Genesis
  BY <1>1, <1>2, Numbers
<1>4. q \in Int /\ q * d <= h /\ h < q * d + d
  <2>1. /\ h \div d \in Int /\ (h \div d) * d <= h /\ h < (h \div d) * d + d
    BY <1>3, DivBounds
  <2> QED
    BY <1>2, <2>1, Zenon
<1>5. active \in Seq(ActiveSets) /\ Len(active) = q + 1
  BY <1>2 DEF TypeOK, ChainOK
<1>6. PICK n \in Int : n = h + 1
  BY <1>3
<1>7. n = head' - Genesis
  BY <1>3, <1>6
<1>8. CASE IsElection(head')
  <2>1. PICK set \in ActiveSets : active' = Append(active, set)
    BY <1>8 DEF ProduceBlock
  <2>2. n % d = 0
    BY <1>2, <1>7, <1>8 DEF IsElection
  <2>3. PICK k \in Int : n = k * d
    BY <1>3, <2>2, Multiples
  <2>4. k = q + 1
    <3>1. k * d > q * d /\ k * d <= q * d + d
      BY <1>3, <1>4, <1>6, <2>3
    <3>2. q * d + d = (q + 1) * d
      BY <1>3, <1>4
    <3>3. k > q
      <4> SUFFICES ASSUME k <= q PROVE FALSE
        BY <1>4
      <4>1. k * d <= q * d
        BY <1>3, <1>4
      <4>2. k * d \in Int /\ q * d \in Int
        BY <1>3, <1>4
      <4> QED
        BY <3>1, <4>1, <4>2
    <3>4. k <= q + 1
      <4> SUFFICES ASSUME k >= q + 2 PROVE FALSE
        BY <1>4
      <4>1. k * d >= (q + 2) * d /\ (q + 2) * d = (q + 1) * d + d
        BY <1>3, <1>4
      <4>2. k * d \in Int /\ (q + 1) * d \in Int
        BY <1>3, <1>4
      <4> QED
        BY <1>3, <3>1, <3>2, <4>1, <4>2
    <3> QED
      BY <1>4, <3>3, <3>4
  <2>5. n \div d = q + 1
    <3>1. (q + 1) * d <= n /\ n < (q + 1) * d + d
      BY <1>3, <2>3, <2>4
    <3>2. n \in Int /\ q + 1 \in Int
      BY <1>3, <1>4
    <3> QED
      BY <1>3, <3>1, <3>2, DivUnique
  <2>6. (head' - Genesis) \div BlocksPerEpoch = q + 1
    BY <1>2, <1>7, <2>5
  <2>7. /\ active' \in Seq(ActiveSets) /\ Len(active') = Len(active) + 1
        /\ \A i \in 1..Len(active) : active'[i] = active[i]
    BY <1>5, <2>1
  <2> QED
    BY <1>4, <1>5, <2>6, <2>7
<1>9. CASE ~IsElection(head')
  <2>1. UNCHANGED active
    BY <1>9 DEF ProduceBlock
  <2>2. n % d # 0
    BY <1>2, <1>7, <1>9 DEF IsElection
  <2>3. n # (q + 1) * d
    <3> SUFFICES ASSUME n = (q + 1) * d PROVE FALSE
      OBVIOUS
    <3>1. \E k \in Int : n = k * d
      BY <1>4
    <3> QED
      BY <1>3, <2>2, <3>1, Multiples
  <2>4. (q + 1) * d = q * d + d
    BY <1>3, <1>4
  <2>5. n \div d = q
    <3>1. q * d <= n /\ n < q * d + d
      <4>1. q * d \in Int
        BY <1>3, <1>4
      <4> QED
        BY <1>3, <1>4, <1>6, <2>3, <2>4, <4>1
    <3>2. n \in Int
      BY <1>3
    <3> QED
      BY <1>3, <1>4, <3>1, <3>2, DivUnique
  <2>6. (head' - Genesis) \div BlocksPerEpoch = q
    BY <1>2, <1>7, <2>5
  <2> QED
    BY <1>4, <1>5, <2>1, <2>6
<1> QED
  BY <1>8, <1>9

\* The heights, and what a tick has read of them.
LEMMA ChainSteps ==
  ASSUME IInv, [Next]_vars
  PROVE  /\ ChainOK'
         /\ head' \in Genesis..MaxHead /\ active' \in Seq(ActiveSets) /\ cursor' \in Genesis..head'
         /\ pc' \in {"idle", "observe"} /\ seen' \in Genesis..head' /\ errors' \in 0..MaxErrors
<1>1. /\ ChainOK
      /\ head \in Genesis..MaxHead /\ active \in Seq(ActiveSets) /\ cursor \in Genesis..head
      /\ pc \in {"idle", "observe"} /\ seen \in Genesis..head /\ errors \in 0..MaxErrors
  BY DEF IInv, TypeOK
<1>2. CASE BeginTick
  <2>1. /\ pc' = "observe" /\ seen' = head /\ UNCHANGED <<head, active>>
        /\ cursor' \in cursor..head \/ cursor' \in Genesis..head
        /\ errors' = errors \/ (errors < MaxErrors /\ errors' = errors + 1)
    BY <1>2 DEF BeginTick
  <2>2. cursor' \in Genesis..head' /\ errors' \in 0..MaxErrors /\ seen' \in Genesis..head'
    BY <1>1, <2>1, Numbers
  <2>3. seen' > Genesis /\ head' - seen' <= TickBlocks
    BY <1>1, <2>1, Numbers DEF ChainOK
  <2> QED
    BY <1>1, <2>1, <2>2, <2>3 DEF ChainOK
<1>3. CASE Observe
  <2>1. /\ pc' = "idle" /\ seen' = Genesis /\ UNCHANGED <<head, active, cursor>>
        /\ errors' = errors \/ (errors < MaxErrors /\ errors' = errors + 1)
    BY <1>3 DEF Observe
  <2>2. seen' \in Genesis..head' /\ errors' \in 0..MaxErrors
    BY <1>1, <2>1, Numbers
  <2> QED
    BY <1>1, <2>1, <2>2 DEF ChainOK
<1>4. CASE Start \/ Elapse \/ UNCHANGED vars
  <2>1. UNCHANGED <<head, active, cursor, pc, seen, errors>>
    BY <1>4 DEF Start, Elapse, vars, chainDb, memory
  <2> QED
    BY <1>1, <2>1 DEF ChainOK
<1>5. CASE Stop \/ Reload
  <2>1. /\ UNCHANGED <<head, active, cursor, errors>>
        /\ (pc' = "idle" /\ seen' = Genesis) \/ UNCHANGED <<pc, seen>>
    BY <1>5 DEF Stop, Reload, Forget, chainDb, memory
  <2>2. seen' \in Genesis..head'
    BY <1>1, <2>1, Numbers
  <2> QED
    BY <1>1, <2>1, <2>2 DEF ChainOK
<1>6. CASE ProduceBlock
  <2>1. /\ head' = head + 1 /\ head < MaxHead /\ UNCHANGED <<cursor, pc, seen, errors>>
        /\ pc = "observe" => head - seen < TickBlocks
    BY <1>6 DEF ProduceBlock, memory
  <2>2. /\ active' \in Seq(ActiveSets)
        /\ Len(active') = (head' - Genesis) \div BlocksPerEpoch + 1
    BY <1>6, BlockFacts DEF IInv
  <2>3. head' \in Genesis..MaxHead /\ cursor' \in Genesis..head' /\ seen' \in Genesis..head' /\ head' > Genesis
    BY <1>1, <2>1, Numbers
  <2>4. pc' = "observe" => seen' > Genesis /\ head' - seen' <= TickBlocks
    BY <1>1, <2>1, Numbers DEF ChainOK
  <2> QED
    BY <1>1, <2>1, <2>2, <2>3, <2>4 DEF ChainOK
<1> QED
  BY <1>2, <1>3, <1>4, <1>5, <1>6 DEF Next

-----------------------------------------------------------------------------
(* The lag.                                                                *)

LagTypes ==
  /\ lagAlert \in [warning : BOOLEAN, error : BOOLEAN, age : 0..EscalateAfter]
  /\ incident \in [warnings : Nat, errors : Nat, excuses : Nat]

\* A tick that is within the recovery ends the incident, or counts as an excuse what
\* made it think so; any other tells at most what was not told.
LEMMA AlertFacts ==
  ASSUME TypeOK, LagOK, NEW processed \in {cursor, seen}, AlertChainLag(processed)
  PROVE  LagTypes' /\ LagOK'
<1>1. cursor \in Int /\ seen \in Int /\ processed \in Int
  BY Numbers DEF TypeOK
<1>2. PICK w, x, a : w = lagAlert.warning /\ x = lagAlert.error /\ a = lagAlert.age
  OBVIOUS
<1>3. /\ w \in BOOLEAN /\ x \in BOOLEAN /\ a \in 0..EscalateAfter
      /\ lagAlert = [warning |-> w, error |-> x, age |-> a]
  BY <1>2 DEF TypeOK
<1>4. PICK ws, es, xs : ws = incident.warnings /\ es = incident.errors /\ xs = incident.excuses
  OBVIOUS
<1>5. /\ ws \in Nat /\ es \in Nat /\ xs \in Nat
      /\ incident = [warnings |-> ws, errors |-> es, excuses |-> xs]
  BY <1>4 DEF TypeOK
<1>6. /\ x => w
      /\ ws <= xs + IF w THEN 1 ELSE 0
      /\ es + (IF w /\ ~x THEN 1 ELSE 0) <= ws
  BY <1>2, <1>4 DEF LagOK
<1>7. PICK next : next = NextLagAlert(seen - processed)
  OBVIOUS
<1>8. /\ lagAlert' = next
      /\ incident' = IF seen - cursor <= LagRecover THEN NoIncident
                     ELSE [warnings |-> ws + (IF next.warning /\ ~w THEN 1 ELSE 0),
                           errors   |-> es + (IF next.error /\ ~x THEN 1 ELSE 0),
                           excuses  |-> xs + IF processed # cursor THEN 1 ELSE 0]
  BY <1>2, <1>4, <1>7 DEF AlertChainLag
<1>9. 0 \in 0..EscalateAfter
  BY Numbers
<1>10. CASE Recovered(seen - processed)
  <2>1. next = [warning |-> FALSE, error |-> FALSE, age |-> 0]
    BY <1>7, <1>10 DEF NextLagAlert, NoLagAlert
  <2>2. CASE seen - cursor <= LagRecover
    <3>1. incident' = [warnings |-> 0, errors |-> 0, excuses |-> 0]
      BY <1>8, <2>2 DEF NoIncident
    <3> QED
      BY <1>8, <1>9, <2>1, <3>1 DEF LagTypes, LagOK
  <2>3. CASE ~(seen - cursor <= LagRecover)
    <3>1. processed # cursor
      BY <1>10, <2>3 DEF Recovered
    <3>2. incident' = [warnings |-> ws + 0, errors |-> es + 0, excuses |-> xs + 1]
      BY <1>8, <2>1, <2>3, <3>1
    <3> QED
      BY <1>5, <1>6, <1>8, <1>9, <2>1, <3>2 DEF LagTypes, LagOK
  <2> QED
    BY <2>2, <2>3
<1>11. CASE ~Recovered(seen - processed)
  <2>1. processed = cursor /\ ~(seen - cursor <= LagRecover)
    BY <1>1, <1>11, Numbers DEF Recovered
  <2>2. incident' = [warnings |-> ws + (IF next.warning /\ ~w THEN 1 ELSE 0),
                     errors   |-> es + (IF next.error /\ ~x THEN 1 ELSE 0),
                     excuses  |-> xs + 0]
    BY <1>8, <2>1
  <2>3. CASE ~w /\ seen - processed < LagWarn
    <3>1. next = lagAlert
      BY <1>2, <1>7, <1>11, <2>3 DEF NextLagAlert
    <3>2. next.warning = w /\ next.error = x
      BY <1>2, <3>1
    <3>3. incident' = [warnings |-> ws + 0, errors |-> es + 0, excuses |-> xs + 0]
      BY <2>2, <3>2
    <3>4. lagAlert' = lagAlert /\ incident' = incident
      BY <1>5, <1>8, <3>1, <3>3
    <3> QED
      BY <3>4 DEF LagTypes, LagOK, TypeOK
  <2>4. CASE ~w /\ ~(seen - processed < LagWarn)
    <3>1. next = [warning |-> TRUE, error |-> FALSE, age |-> 0]
      BY <1>2, <1>7, <1>11, <2>4 DEF NextLagAlert
    <3>2. incident' = [warnings |-> ws + 1, errors |-> es + 0, excuses |-> xs + 0]
      BY <2>2, <2>4, <3>1
    <3> QED
      BY <1>5, <1>6, <1>8, <1>9, <2>4, <3>1, <3>2 DEF LagTypes, LagOK
  <2>5. CASE w /\ ~x /\ a >= EscalateAfter
    <3>1. next = [warning |-> w, error |-> TRUE, age |-> a]
      BY <1>2, <1>3, <1>7, <1>11, <2>5 DEF NextLagAlert
    <3>2. incident' = [warnings |-> ws + 0, errors |-> es + 1, excuses |-> xs + 0]
      BY <2>2, <2>5, <3>1
    <3> QED
      BY <1>3, <1>5, <1>6, <1>8, <2>5, <3>1, <3>2 DEF LagTypes, LagOK
  <2>6. CASE w /\ ~(~x /\ a >= EscalateAfter)
    <3>1. next = lagAlert
      BY <1>2, <1>7, <1>11, <2>6 DEF NextLagAlert, LagAlertKept
    <3>2. next.warning = w /\ next.error = x
      BY <1>2, <3>1
    <3>3. incident' = [warnings |-> ws + 0, errors |-> es + 0, excuses |-> xs + 0]
      BY <2>2, <3>2
    <3>4. lagAlert' = lagAlert /\ incident' = incident
      BY <1>5, <1>8, <3>1, <3>3
    <3> QED
      BY <3>4 DEF LagTypes, LagOK, TypeOK
  <2> QED
    BY <2>3, <2>4, <2>5, <2>6
<1> QED
  BY <1>10, <1>11

\* The alerts about the lag.
LEMMA LagSteps ==
  ASSUME IInv, [Next]_vars
  PROVE  LagTypes' /\ LagOK'
<1>1. TypeOK /\ LagOK
  BY DEF IInv
<1>2. CASE BeginTick \/ Start \/ ProduceBlock \/ UNCHANGED vars
  <2>1. UNCHANGED <<lagAlert, incident>>
    BY <1>2 DEF BeginTick, Start, ProduceBlock, vars, memory
  <2> QED
    BY <1>1, <2>1 DEF TypeOK, LagTypes, LagOK
<1>3. CASE Observe
  <2>1. AlertChainLag(cursor) \/ AlertChainLag(seen)
    BY <1>3 DEF Observe
  <2> QED
    BY <1>1, <2>1, AlertFacts
<1>4. CASE Stop \/ Reload
  <2>1. UNCHANGED <<lagAlert, incident>> \/ Forget
    BY <1>4 DEF Stop, Reload, memory
  <2>2. CASE UNCHANGED <<lagAlert, incident>>
    BY <1>1, <2>2 DEF TypeOK, LagTypes, LagOK
  <2>3. CASE Forget
    <3>1. PICK ws, es, xs : ws = incident.warnings /\ es = incident.errors /\ xs = incident.excuses
      OBVIOUS
    <3>2. /\ ws \in Nat /\ es \in Nat /\ xs \in Nat
          /\ incident = [warnings |-> ws, errors |-> es, excuses |-> xs]
      BY <1>1, <3>1 DEF TypeOK
    <3>3. ws <= xs + 1 /\ es <= ws
      BY <1>1, <3>1, <3>2 DEF LagOK
    <3>4. incident' = [warnings |-> ws, errors |-> es, excuses |-> xs + 1]
      BY <2>3, <3>2 DEF Forget
    <3>5. lagAlert' = [warning |-> FALSE, error |-> FALSE, age |-> 0]
      BY <2>3 DEF Forget, NoLagAlert
    <3>6. 0 \in 0..EscalateAfter
      BY Numbers
    <3> QED
      BY <3>2, <3>3, <3>4, <3>5, <3>6 DEF LagTypes, LagOK
  <2> QED
    BY <2>1, <2>2, <2>3
<1>5. CASE Elapse
  <2>1. PICK a : /\ lagAlert' = [lagAlert EXCEPT !.age = a]
                 /\ a = IF lagAlert.warning THEN Min({EscalateAfter, lagAlert.age + 1}) ELSE 0
    BY <1>5 DEF Elapse
  <2>2. a \in 0..EscalateAfter
    <3>1. EscalateAfter \in Nat /\ lagAlert.age \in Nat
      BY <1>1, Numbers DEF TypeOK
    <3>2. {EscalateAfter, lagAlert.age + 1} \in SUBSET Nat /\ {EscalateAfter, lagAlert.age + 1} # {}
      BY <3>1
    <3>3. PICK m : m = Min({EscalateAfter, lagAlert.age + 1})
      OBVIOUS
    <3>4. m \in {EscalateAfter, lagAlert.age + 1} /\ m <= EscalateAfter
      BY <3>2, <3>3, MinFacts
    <3> QED
      BY <2>1, <3>1, <3>3, <3>4
  <2>3. UNCHANGED incident
    BY <1>5 DEF Elapse
  <2>4. LagTypes'
    BY <1>1, <2>1, <2>2, <2>3 DEF TypeOK, LagTypes
  <2>5. lagAlert'.warning = lagAlert.warning /\ lagAlert'.error = lagAlert.error
    BY <1>1, <2>1 DEF TypeOK
  <2> QED
    BY <1>1, <2>3, <2>4, <2>5 DEF LagOK
<1> QED
  BY <1>2, <1>3, <1>4, <1>5 DEF Next

-----------------------------------------------------------------------------
(* The participation.                                                      *)

\* Whether the validator has slots in an epoch, or in the one that follows.
Near(e) == {SlotShare[active[x]] > 0 : x \in {e, e + 1} \cap DOMAIN active}

PartTypes ==
  /\ runtime_status \in Part /\ epochPart \in Part
  /\ gauge \in 0..GaugeInterval \cup {Never}
  /\ unelected \in Epochs \cup {Never}

\* ParticipationTrue by the epochs near the one a reading is filed under.
LEMMA TruthIs ==
  ParticipationTrue <=>
    /\ \A part \in {epochPart, runtime_status} : part # NoPart => part.elected \in Near(part.epoch)
    /\ \A i \in DOMAIN told : FALSE \in Near(told[i])
BY DEF ParticipationTrue, Near

\* The same after a step.
LEMMA TruthWillBe ==
  ParticipationTrue' <=>
    /\ \A part \in {epochPart', runtime_status'} : part # NoPart => part.elected \in Near(part.epoch)'
    /\ \A e : (\E i \in DOMAIN told' : told'[i] = e) => FALSE \in Near(e)'
BY DEF ParticipationTrue, Near

\* An epoch is a number, and so never the mark of nothing told.
LEMMA EpochsAreNumbers == Epochs \in SUBSET Nat /\ Never \notin Epochs
BY Numbers, HeightRange DEF Epochs

\* What a tick reads of the active set is true of its epoch or of the next.
LEMMA ReadFacts ==
  ASSUME TypeOK, ChainOK, pc = "observe", NEW e \in ActiveEpochs,
         NEW part, part = ApplyActiveSet(active[e])
  PROVE  /\ part \in Part /\ part.epoch = EpochAt(seen)
         /\ part.elected \in Near(part.epoch) /\ part.elected \in BOOLEAN
<1>1. EpochAt(seen) \in Epochs /\ e \in DOMAIN active /\ e \in {EpochAt(seen), EpochAt(seen) + 1}
  BY TickFacts
<1>2. PICK n : n = SlotShare[active[e]]
  OBVIOUS
<1>3. n \in 0..Slots
  <2>1. active[e] \in ActiveSets
    BY <1>1 DEF TypeOK
  <2> QED
    BY <1>2, <2>1, ShareType
<1>4. part = [epoch |-> EpochAt(seen), elected |-> n > 0, slots |-> n]
  BY <1>2 DEF ApplyActiveSet
<1>5. (n > 0) \in Near(EpochAt(seen))
  BY <1>1, <1>2 DEF Near
<1>6. part.elected = (n > 0) /\ part.epoch = EpochAt(seen)
  BY <1>4
<1>7. (n > 0) \in BOOLEAN
  BY <1>3
<1>8. part \in Part
  BY <1>1, <1>3, <1>4, <1>7 DEF Part
<1> QED
  BY <1>5, <1>6, <1>7, <1>8

\* An epoch that is told is not the one told last, and none of those before it.
LEMMA TellFacts ==
  ASSUME TypeOK, ChainOK, ToldOK, pc = "observe",
         NEW e, e = EpochAt(seen), unelected # e, unelected' = e, told' = Append(told, e)
  PROVE  /\ \A i, j \in DOMAIN told' : i < j => told'[i] < told'[j]
         /\ \A i \in DOMAIN told' : told'[i] <= e
         /\ told' \in Seq(Epochs)
<1>1. e \in Epochs /\ e \in Nat /\ told \in Seq(Epochs)
  BY TickFacts, EpochsAreNumbers DEF ToldOK
<1>2. PICK n \in Nat : n = Len(told)
  BY <1>1
<1>3. /\ DOMAIN told = 1..n /\ DOMAIN told' = 1..(n + 1) /\ told'[n + 1] = e
      /\ \A i \in 1..n : told'[i] = told[i] /\ told[i] \in Nat
      /\ told' \in Seq(Epochs)
  <2>1. \A i \in 1..n : told[i] \in Epochs
    BY <1>1, <1>2
  <2>2. \A i \in 1..n : told[i] \in Nat
    BY <2>1, EpochsAreNumbers
  <2>3. DOMAIN told = 1..n /\ told' = Append(told, e)
    BY <1>1, <1>2
  <2>4. told' \in Seq(Epochs) /\ DOMAIN told' = 1..(n + 1) /\ told'[n + 1] = e /\ \A i \in 1..n : told'[i] = told[i]
    BY <1>1, <1>2, <2>3
  <2> QED
    BY <2>2, <2>3, <2>4
<1>4. \A i \in 1..n : told[i] < e
  <2> SUFFICES ASSUME NEW i \in 1..n PROVE told[i] < e
    OBVIOUS
  <2>1. told # <<>>
    BY <1>2
  <2>2. unelected # Never /\ told[i] <= unelected
    BY <1>3, <2>1 DEF ToldOK
  <2>3. unelected \in Nat
    BY <2>2, EpochsAreNumbers DEF TypeOK
  <2>4. unelected <= e
    BY <2>2 DEF ToldOK, TickEpoch
  <2> QED
    BY <1>1, <1>3, <2>2, <2>3, <2>4
<1>5. ASSUME NEW i \in 1..(n + 1), NEW j \in 1..(n + 1), i < j PROVE told'[i] < told'[j]
  <2>1. i \in 1..n
    BY <1>2, <1>5
  <2>2. CASE j = n + 1
    BY <1>3, <1>4, <2>1, <2>2
  <2>3. CASE j # n + 1
    <3>1. j \in 1..n
      BY <1>2, <2>3
    <3> QED
      BY <1>3, <1>5, <2>1, <3>1 DEF ToldOK
  <2> QED
    BY <2>2, <2>3
<1>6. ASSUME NEW i \in 1..(n + 1) PROVE told'[i] <= e
  <2>1. CASE i = n + 1
    BY <1>1, <1>3, <2>1
  <2>2. CASE i # n + 1
    <3>1. i \in 1..n
      BY <1>2, <2>2
    <3> QED
      BY <1>1, <1>3, <1>4, <3>1
  <2> QED
    BY <2>1, <2>2
<1> QED
  BY <1>3, <1>5, <1>6

\* The head is not behind the tick.
LEMMA TickBehindHead ==
  ASSUME TypeOK
  PROVE  TickEpoch \in Nat /\ EpochAt(head) \in Nat /\ TickEpoch <= EpochAt(head)
<1>1. head \in Nat /\ seen \in Nat /\ seen <= head
  BY Numbers DEF TypeOK
<1>2. EpochAt(seen) \in Nat /\ EpochAt(head) \in Nat /\ EpochAt(seen) <= EpochAt(head)
  BY <1>1, HeightRange, EpochMonotone
<1> QED
  BY <1>2 DEF TickEpoch

\* The end of a tick.
LEMMA ObserveTells ==
  ASSUME IInv, Observe
  PROVE  PartTypes' /\ ToldOK' /\ ParticipationTrue'
<1>1. TypeOK /\ ChainOK /\ ToldOK /\ ParticipationTrue /\ pc = "observe"
  BY DEF IInv, Observe
<1>2. UNCHANGED <<head, active>> /\ pc' = "idle" /\ runtime_status' \in {runtime_status, epochPart'}
  BY DEF Observe, RecordHeartbeat, UpsertRuntimeStatus
<1>3. TickEpoch \in Nat /\ TickEpoch' = EpochAt(head) /\ EpochAt(head) \in Nat /\ TickEpoch <= EpochAt(head)
  BY <1>1, <1>2, TickBehindHead DEF TickEpoch, EpochAt, DivCeil
<1>4. gauge' \in 0..GaugeInterval \cup {Never}
  BY <1>1, Numbers DEF Observe, RefreshParticipation, TypeOK
<1>5. \A x : Near(x)' = Near(x)
  BY <1>2 DEF Near
<1>6. CASE \E e \in ActiveEpochs :
             epochPart' = ApplyActiveSet(active[e]) /\ AlertNotElected(epochPart')
  <2>0. PICK e \in ActiveEpochs :
          epochPart' = ApplyActiveSet(active[e]) /\ AlertNotElected(epochPart')
    BY <1>6
  <2>1. PICK part :
          part = ApplyActiveSet(active[e]) /\ epochPart' = part /\ AlertNotElected(part)
    BY <2>0
  <2>2. /\ part \in Part /\ part.epoch = EpochAt(seen)
        /\ part.elected \in Near(part.epoch) /\ part.elected \in BOOLEAN
    BY <1>1, <2>1, ReadFacts
  <2>3. \A p \in {epochPart', runtime_status'} : p # NoPart => p.elected \in Near(p.epoch)
    BY <1>1, <1>2, <2>1, <2>2, TruthIs
  <2>4. epochPart' \in Part /\ runtime_status' \in Part
    BY <1>1, <1>2, <2>1, <2>2 DEF TypeOK
  <2>5. PICK k : k = EpochAt(seen)
    OBVIOUS
  <2>6. k \in Epochs
    BY <1>1, <2>5, TickFacts
  <2>7. CASE UNCHANGED <<unelected, told>>
    <3>1. PartTypes'
      BY <1>1, <1>4, <2>4, <2>7 DEF PartTypes, TypeOK
    <3>2. unelected' # Never => unelected' <= TickEpoch'
      <4>1. unelected # Never => unelected \in Nat
        BY <1>1, EpochsAreNumbers DEF TypeOK
      <4> QED
        BY <1>1, <1>3, <2>7, <4>1 DEF ToldOK
    <3>3. ToldOK'
      BY <1>1, <2>7, <3>2 DEF ToldOK
    <3>4. \A i \in DOMAIN told' : FALSE \in Near(told'[i])
      BY <1>1, <2>7, TruthIs
    <3> QED
      BY <1>5, <2>3, <3>1, <3>3, <3>4, TruthWillBe
  <2>8. CASE unelected # k /\ ~part.elected /\ unelected' = k /\ told' = Append(told, k)
    <3>1. /\ \A i, j \in DOMAIN told' : i < j => told'[i] < told'[j]
          /\ \A i \in DOMAIN told' : told'[i] <= k
          /\ told' \in Seq(Epochs)
      BY <1>1, <2>5, <2>8, TellFacts
    <3>2. PartTypes'
      BY <1>4, <2>4, <2>6, <2>8 DEF PartTypes
    <3>3. k <= TickEpoch' /\ k # Never
      BY <1>1, <1>3, <2>5, <2>6, EpochsAreNumbers DEF TickEpoch
    <3>4. ToldOK'
      BY <2>8, <3>1, <3>3 DEF ToldOK
    <3>5. FALSE \in Near(k)
      <4>1. part.elected = FALSE
        BY <2>2, <2>8, Zenon
      <4> QED
        BY <2>2, <2>5, <4>1
    <3>6. \A i \in DOMAIN told' : FALSE \in Near(told'[i])
      <4> SUFFICES ASSUME NEW i \in DOMAIN told' PROVE FALSE \in Near(told'[i])
        OBVIOUS
      <4>1. told \in Seq(Epochs)
        BY <1>1 DEF ToldOK
      <4>2. told'[i] = k \/ (i \in DOMAIN told /\ told'[i] = told[i])
        BY <2>6, <2>8, <4>1
      <4> QED
        BY <1>1, <3>5, <4>2, TruthIs
    <3> QED
      BY <1>5, <2>3, <3>2, <3>4, <3>6, TruthWillBe
  <2>9. UNCHANGED <<unelected, told>> \/ (unelected # k /\ ~part.elected /\ unelected' = k /\ told' = Append(told, k))
    BY <2>1, <2>2, <2>5 DEF AlertNotElected, AlertedAbout
  <2> QED
    BY <2>7, <2>8, <2>9
<1>7. CASE UNCHANGED <<epochPart, unelected, told>>
  <2>1. \A p \in {epochPart', runtime_status'} : p # NoPart => p.elected \in Near(p.epoch)
    BY <1>1, <1>2, <1>7, TruthIs
  <2>2. PartTypes'
    BY <1>1, <1>2, <1>4, <1>7 DEF PartTypes, TypeOK
  <2>3. unelected' # Never => unelected' <= TickEpoch'
    <3>1. unelected # Never => unelected \in Nat
      BY <1>1, EpochsAreNumbers DEF TypeOK
    <3> QED
      BY <1>1, <1>3, <1>7, <3>1 DEF ToldOK
  <2>4. ToldOK'
    BY <1>1, <1>7, <2>3 DEF ToldOK
  <2>5. \A i \in DOMAIN told' : FALSE \in Near(told'[i])
    BY <1>1, <1>7, TruthIs
  <2> QED
    BY <1>5, <2>1, <2>2, <2>4, <2>5, TruthWillBe
<1> QED
  BY <1>6, <1>7 DEF Observe, RefreshParticipation

\* Any other step that leaves the memory as it is or forgets it all.
LEMMA TruthSteps ==
  ASSUME IInv, [Next]_vars, ~Observe
  PROVE  PartTypes' /\ ToldOK' /\ ParticipationTrue'
<1>1. TypeOK /\ ChainOK /\ ToldOK /\ ParticipationTrue
  BY DEF IInv
<1>2. UNCHANGED runtime_status
  BY DEF Next, BeginTick, Start, Stop, Reload, ProduceBlock, Elapse, vars, chainDb
<1>3. gauge' \in 0..GaugeInterval \cup {Never}
  <2>1. CASE Elapse
    <3>1. gauge' = IF gauge = Never THEN Never ELSE Min({GaugeInterval, gauge + 1})
      BY <2>1 DEF Elapse
    <3>2. CASE gauge = Never
      BY <3>1, <3>2
    <3>3. CASE gauge # Never
      <4>1. GaugeInterval \in Nat /\ gauge \in Nat
        BY <1>1, <3>3, Numbers DEF TypeOK
      <4>2. {GaugeInterval, gauge + 1} \in SUBSET Nat /\ {GaugeInterval, gauge + 1} # {}
        BY <4>1
      <4>3. PICK m : m = Min({GaugeInterval, gauge + 1})
        OBVIOUS
      <4>4. m \in {GaugeInterval, gauge + 1} /\ m <= GaugeInterval
        BY <4>2, <4>3, MinFacts
      <4> QED
        BY <3>1, <3>3, <4>1, <4>3, <4>4
    <3> QED
      BY <3>2, <3>3
  <2>2. CASE ~Elapse
    <3>1. gauge' \in {gauge, Never}
      BY <2>2 DEF Next, BeginTick, Start, Stop, Reload, Forget, ProduceBlock, vars, memory
    <3> QED
      BY <1>1, <3>1 DEF TypeOK
  <2> QED
    BY <2>1, <2>2
<1>4. \A x : Near(x) \subseteq Near(x)'
  <2>1. CASE ProduceBlock
    <3>1. /\ active \in Seq(ActiveSets) /\ active' \in Seq(ActiveSets)
          /\ Len(active') >= Len(active) /\ \A i \in 1..Len(active) : active'[i] = active[i]
      BY <1>1, <2>1, BlockFacts DEF TypeOK
    <3>2. \A i \in DOMAIN active : i \in DOMAIN active' /\ active'[i] = active[i]
      BY <3>1
    <3> QED
      BY <3>2 DEF Near
  <2>2. CASE ~ProduceBlock
    <3>1. UNCHANGED active
      BY <2>2 DEF Next, BeginTick, Start, Stop, Reload, Elapse, vars, chainDb
    <3> QED
      BY <3>1 DEF Near
  <2> QED
    BY <2>1, <2>2
<1>5. CASE Forget
  <2>1. epochPart' = NoPart /\ unelected' = Never /\ told' = <<>>
    BY <1>5 DEF Forget
  <2>2. PartTypes'
    BY <1>1, <1>2, <1>3, <2>1 DEF PartTypes, TypeOK, Part
  <2>3. ToldOK'
    BY <2>1 DEF ToldOK
  <2>4. \A p \in {epochPart', runtime_status'} : p # NoPart => p.elected \in Near(p.epoch)'
    BY <1>1, <1>2, <1>4, <2>1, TruthIs
  <2>5. DOMAIN told' = {}
    BY <2>1
  <2> QED
    BY <2>2, <2>3, <2>4, <2>5, TruthWillBe
<1>6. CASE UNCHANGED <<epochPart, unelected, told>> /\ TickEpoch <= TickEpoch' /\ TickEpoch' \in Nat
  <2>1. PartTypes'
    BY <1>1, <1>2, <1>3, <1>6 DEF PartTypes, TypeOK
  <2>2. unelected' # Never => unelected' <= TickEpoch'
    <3>1. unelected # Never => unelected \in Nat
      BY <1>1, EpochsAreNumbers DEF TypeOK
    <3>2. TickEpoch \in Nat
      BY <1>1, TickBehindHead
    <3> QED
      BY <1>1, <1>6, <3>1, <3>2 DEF ToldOK
  <2>3. ToldOK'
    BY <1>1, <1>6, <2>2 DEF ToldOK
  <2>4. \A p \in {epochPart', runtime_status'} : p # NoPart => p.elected \in Near(p.epoch)'
    BY <1>1, <1>2, <1>4, <1>6, TruthIs
  <2>5. \A e : (\E i \in DOMAIN told' : told'[i] = e) => FALSE \in Near(e)'
    BY <1>1, <1>4, <1>6, TruthIs
  <2> QED
    BY <2>1, <2>3, <2>4, <2>5, TruthWillBe
<1>7. ASSUME ~Forget
      PROVE  UNCHANGED <<epochPart, unelected, told>> /\ TickEpoch <= TickEpoch' /\ TickEpoch' \in Nat
  <2>1. TickEpoch \in Nat /\ EpochAt(head) \in Nat
    BY <1>1, TickBehindHead
  <2>2. CASE BeginTick
    <3>1. UNCHANGED <<epochPart, unelected, told>> /\ pc = "idle" /\ pc' = "observe" /\ seen' = head
      BY <2>2 DEF BeginTick
    <3>2. TickEpoch' = EpochAt(seen') /\ TickEpoch = EpochAt(head)
      BY <3>1 DEF TickEpoch, EpochAt, DivCeil
    <3>3. TickEpoch' = TickEpoch
      BY <3>1, <3>2
    <3> QED
      BY <2>1, <3>1, <3>3
  <2>3. CASE Start \/ Stop \/ Elapse \/ UNCHANGED vars
    <3>1. UNCHANGED <<epochPart, unelected, told, pc, seen, head>>
      BY <1>7, <2>3 DEF Start, Stop, Elapse, vars, memory, chainDb
    <3>2. TickEpoch' = TickEpoch
      BY <3>1 DEF TickEpoch, EpochAt, DivCeil
    <3> QED
      BY <2>1, <3>1, <3>2
  <2>4. CASE ProduceBlock
    <3>1. UNCHANGED <<epochPart, unelected, told, pc, seen>> /\ head' = head + 1
      BY <2>4 DEF ProduceBlock, memory
    <3>2. head \in Nat
      BY <1>1, Numbers DEF TypeOK
    <3>3. EpochAt(head) <= EpochAt(head + 1) /\ EpochAt(head + 1) \in Nat
      BY <3>2, HeightRange, EpochMonotone
    <3>4. TickEpoch' = IF pc = "observe" THEN TickEpoch ELSE EpochAt(head + 1)
      BY <3>1 DEF TickEpoch, EpochAt, DivCeil
    <3>5. pc # "observe" => TickEpoch = EpochAt(head)
      BY DEF TickEpoch
    <3> QED
      BY <2>1, <3>1, <3>3, <3>4, <3>5
  <2>5. ~Reload
    BY <1>7 DEF Reload
  <2> QED
    BY <2>2, <2>3, <2>4, <2>5 DEF Next
<1> QED
  BY <1>5, <1>6, <1>7

-----------------------------------------------------------------------------
(* The whole.                                                              *)

\* Both processes start with a schema that holds what its versions say, and nothing was told.
LEMMA InitIInv == Init => IInv
<1> SUFFICES ASSUME Init PROVE IInv
  OBVIOUS
<1>1. PICK n \in {0} \cup Versions : schema_migrations = {v \in Versions : v <= n}
  BY DEF Init, MigrationsInit
<1>2. Versions \in SUBSET Nat /\ n \in Nat
  BY <1>1, EmbeddedFacts
<1>3. MigrationsTypeOK
  <2>1. schema_migrations \subseteq Versions /\ stops \in 0..MaxStops
    BY <1>1, MigrationsAssumption DEF Init, MigrationsInit
  <2>2. done \in [Versions -> Nat]
    BY DEF Init, MigrationsInit
  <2>3. phase \in [Procs -> {"down", "migrating", "up"}] /\ known \in [Procs -> SUBSET Versions]
    BY DEF Init, MigrationsInit
  <2> QED
    BY <2>1, <2>2, <2>3 DEF MigrationsTypeOK
<1>4. SchemaOK
  <2>1. \A v \in Versions : done[v] = IF v \in schema_migrations THEN 1 ELSE 0
    BY DEF Init, MigrationsInit
  <2>2. \A v \in Versions : v \in schema_migrations => \A w \in Versions : w < v => w \in schema_migrations
    BY <1>1, <1>2
  <2>3. \A p \in Procs : phase[p] = "down"
    BY DEF Init, MigrationsInit
  <2> QED
    BY <2>1, <2>2, <2>3 DEF SchemaOK, MigratedOnce
<1>5. PICK set \in ActiveSets : active = <<set>>
  BY DEF Init
<1>6. active \in Seq(ActiveSets) /\ Len(active) = 1
  BY <1>5
<1>7. /\ head = Genesis + 1 /\ cursor = Genesis /\ runtime_status = NoPart /\ pc = "idle" /\ seen = Genesis
      /\ gauge = Never /\ epochPart = NoPart /\ unelected = Never /\ told = <<>> /\ errors = 0
      /\ lagAlert = [warning |-> FALSE, error |-> FALSE, age |-> 0]
      /\ incident = [warnings |-> 0, errors |-> 0, excuses |-> 0]
  BY DEF Init, NoLagAlert, NoIncident
<1>8. head \in Genesis..MaxHead /\ cursor \in Genesis..head /\ seen \in Genesis..head /\ errors \in 0..MaxErrors
  BY <1>7, Numbers
<1>9. LagTypes /\ LagOK
  <2>1. 0 \in 0..EscalateAfter
    BY Numbers
  <2> QED
    BY <1>7, <2>1 DEF LagTypes, LagOK
<1>10. ChainOK
  <2>1. PICK one : one = head - Genesis
    OBVIOUS
  <2>2. one = 1
    BY <1>7, <2>1, Numbers
  <2>3. one \div BlocksPerEpoch = 0
    <3>1. 0 * BlocksPerEpoch <= one /\ one < 0 * BlocksPerEpoch + BlocksPerEpoch
      BY <2>2, Numbers
    <3>2. one \in Int /\ 0 \in Int
      BY <2>2
    <3> QED
      BY <3>1, <3>2, Numbers, DivUnique
  <2> QED
    BY <1>6, <1>7, <2>1, <2>3, Numbers DEF ChainOK
<1>11. ToldOK
  BY <1>7 DEF ToldOK
<1>12. ParticipationTrue
  BY <1>7, TruthIs
<1>13. PartTypes
  BY <1>7 DEF PartTypes, Part
<1>14. TypeOK
  BY <1>3, <1>6, <1>7, <1>8, <1>9, <1>13 DEF TypeOK, LagTypes, PartTypes
<1> QED
  BY <1>4, <1>9, <1>10, <1>11, <1>12, <1>14 DEF IInv

\* Every step of the composition keeps what the migrations rest on.
LEMMA MigrationSteps ==
  ASSUME IInv, [Next]_vars
  PROVE  MigrationsTypeOK' /\ SchemaOK'
<1>1. MigrationsTypeOK /\ SchemaOK
  BY DEF IInv, TypeOK
<1>2. CASE \E p \in Procs : Migrate(p) \/ StopProcess(p)
  BY <1>1, <1>2, SchemaSteps
<1>3. CASE UNCHANGED <<schema_migrations, done, phase, known>> /\ stops' \in 0..MaxStops
  BY <1>1, <1>3 DEF MigrationsTypeOK, SchemaOK, MigratedOnce
<1>4. CASE Reload
  <2>1. UNCHANGED <<schema_migrations, done, phase, known>> /\ stops' = stops + 1 /\ stops < MaxStops
    BY <1>4 DEF Reload
  <2>2. stops' \in 0..MaxStops
    BY <1>1, <2>1, MigrationsAssumption DEF MigrationsTypeOK
  <2> QED
    BY <1>3, <2>1, <2>2
<1>5. CASE BeginTick \/ Observe \/ ProduceBlock \/ Elapse \/ UNCHANGED vars
  <2>1. UNCHANGED <<schema_migrations, done, phase, known, stops>>
    BY <1>5 DEF BeginTick, Observe, ProduceBlock, Elapse, vars, migrations
  <2> QED
    BY <1>1, <1>3, <2>1 DEF MigrationsTypeOK
<1>6. CASE Start \/ Stop
  BY <1>2, <1>6 DEF Start, Stop
<1> QED
  BY <1>4, <1>5, <1>6 DEF Next

\* Every reachable state has the invariant.
THEOREM Invariance == Spec => []IInv
<1>1. IInv /\ [Next]_vars => IInv'
  <2> SUFFICES ASSUME IInv, [Next]_vars PROVE IInv'
    OBVIOUS
  <2>1. MigrationsTypeOK' /\ SchemaOK' /\ LagTypes' /\ LagOK'
    BY MigrationSteps, LagSteps
  <2>2. /\ ChainOK'
        /\ head' \in Genesis..MaxHead /\ active' \in Seq(ActiveSets) /\ cursor' \in Genesis..head'
        /\ pc' \in {"idle", "observe"} /\ seen' \in Genesis..head' /\ errors' \in 0..MaxErrors
    BY ChainSteps
  <2>3. PartTypes' /\ ToldOK' /\ ParticipationTrue'
    BY ObserveTells, TruthSteps
  <2>4. TypeOK'
    BY <2>1, <2>2, <2>3 DEF TypeOK, LagTypes, PartTypes
  <2> QED
    BY <2>1, <2>2, <2>3, <2>4 DEF IInv
<1> QED
  BY InitIInv, <1>1, PTL DEF Spec

\* Every variable keeps its type.
THEOREM TypeCorrect == Spec => []TypeOK
BY Invariance, PTL DEF IInv

\* However the starts of the processes interleave (internal/db/migrate.go), each
\* migration takes effect once and in order, for any number of processes and releases.
THEOREM MigratesOnce == Spec => []MigratedOnce
<1>1. IInv => MigratedOnce
  BY DEF IInv, SchemaOK
<1> QED
  BY Invariance, <1>1, PTL

\* Neither a lag (internal/pool/lag.go) nor an epoch without slots
\* (shouldAlertNotElected) is told twice.
THEOREM TellsOnce == Spec => []ToldOnce
<1>1. IInv => ToldOnce
  <2> SUFFICES ASSUME IInv PROVE ToldOnce
    OBVIOUS
  <2>1. LagOK /\ ToldOK /\ incident \in [warnings : Nat, errors : Nat, excuses : Nat]
    BY DEF IInv, TypeOK
  <2>2. incident.warnings <= 1 + incident.excuses /\ incident.errors <= incident.warnings
    BY <2>1 DEF LagOK
  <2>3. \A i, j \in DOMAIN told : told[i] = told[j] => i = j
    <3> SUFFICES ASSUME NEW i \in DOMAIN told, NEW j \in DOMAIN told, told[i] = told[j], i # j PROVE FALSE
      OBVIOUS
    <3>1. told \in Seq(Epochs)
      BY <2>1 DEF ToldOK
    <3>2. i \in Nat /\ j \in Nat /\ told[i] \in Epochs
      BY <3>1
    <3>3. told[i] \in Nat
      BY <3>2, EpochsAreNumbers
    <3>4. i < j \/ j < i
      BY <3>2
    <3>5. told[i] < told[j] \/ told[j] < told[i]
      BY <2>1, <3>4 DEF ToldOK
    <3> QED
      BY <3>3, <3>5
  <2> QED
    BY <2>2, <2>3 DEF ToldOnce
<1> QED
  BY Invariance, <1>1, PTL

\* The heartbeat and the alerts say what is true of their epoch or, since the active
\* set is read some time after the head, of the next (applyActiveSet).
THEOREM ParticipationIsTrue == Spec => []ParticipationTrue
BY Invariance, PTL DEF IInv

\* The slots are all given away, no share is a slot or more off its quota, and more
\* stake never means fewer slots (slotShare), for every active set that a tick may read.
THEOREM SharesAreFair == Spec => []SharesFair
<1>1. IInv => SharesFair
  <2> SUFFICES ASSUME IInv PROVE SharesFair
    OBVIOUS
  <2>1. PICK set : set = active[Len(active)]
    OBVIOUS
  <2>2. set \in ActiveSets
    <3>1. active \in Seq(ActiveSets) /\ Len(active) = (head - Genesis) \div BlocksPerEpoch + 1
      BY DEF IInv, TypeOK, ChainOK
    <3>2. head - Genesis \in Nat
      BY Numbers DEF IInv, TypeOK
    <3>3. PICK f : f = (head - Genesis) \div BlocksPerEpoch
      OBVIOUS
    <3>4. f \in Int /\ f >= 0
      BY <3>2, <3>3, Numbers
    <3>5. Len(active) = f + 1
      BY <3>1, <3>3
    <3>6. Len(active) \in Nat /\ Len(active) > 0
      BY <3>4, <3>5
    <3> QED
      BY <2>1, <3>1, <3>6
  <2>3. CASE Stakes(set) > 0
    BY <2>1, <2>2, <2>3, SharesOfSet DEF SharesFair
  <2>4. CASE ~(Stakes(set) > 0)
    BY <2>1, <2>4 DEF SharesFair
  <2> QED
    BY <2>3, <2>4
<1> QED
  BY Invariance, <1>1, PTL
=============================================================================
