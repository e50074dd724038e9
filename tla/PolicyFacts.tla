---------------------------- MODULE PolicyFacts ----------------------------
(***************************************************************************)
(* Facts about the height arithmetic of Policy, for the proofs about what  *)
(* is counted by heights, batches and epochs.                              *)
(***************************************************************************)
EXTENDS Policy, TLAPS

-----------------------------------------------------------------------------
(* Division.                                                               *)

\* What a division gives: the one quotient between whose multiples n lies.
LEMMA DivBounds ==
  ASSUME NEW n \in Int, NEW d \in Nat \ {0}
  PROVE  /\ n \div d \in Int
         /\ (n \div d) * d <= n
         /\ n < (n \div d) * d + d
         /\ n % d = n - (n \div d) * d
BY SMT

\* There is no other such quotient.
LEMMA DivUnique ==
  ASSUME NEW n \in Int, NEW d \in Nat \ {0}, NEW q \in Int, q * d <= n, n < q * d + d
  PROVE  n \div d = q
<1>1. PICK e : e = n \div d
  OBVIOUS
<1>2. e \in Int /\ e * d <= n /\ n < e * d + d
  BY <1>1, DivBounds
<1>3. CASE q <= e - 1
  <2>1. q * d <= (e - 1) * d
    BY <1>2, <1>3
  <2> QED
    BY <1>2, <2>1
<1>4. CASE e <= q - 1
  <2>1. e * d <= (q - 1) * d
    BY <1>2, <1>4
  <2> QED
    BY <1>2, <2>1
<1> QED
  BY <1>1, <1>2, <1>3, <1>4

\* A remainder is no more than the number itself.
LEMMA ModBound ==
  ASSUME NEW n \in Nat, NEW d \in Nat \ {0}
  PROVE  /\ n % d \in Nat
         /\ n % d <= n
         /\ n < d => n % d = n
<1>1. PICK q \in Int : q = n \div d
  OBVIOUS
<1>2. n % d = n - q * d /\ n < q * d + d
  BY <1>1, DivBounds
<1>3. q >= 0
  BY <1>1
<1>4. q * d >= 0
  BY <1>3
<1> QED
  BY <1>2, <1>4

\* A multiple is what leaves no remainder.
LEMMA Multiples ==
  ASSUME NEW n \in Int, NEW d \in Nat \ {0}
  PROVE  n % d = 0 <=> \E k \in Int : n = k * d
<1>1. ASSUME n % d = 0 PROVE n = (n \div d) * d /\ n \div d \in Int
  BY <1>1, DivBounds
<1>2. ASSUME NEW k \in Int, n = k * d PROVE n % d = 0
  <2>1. n \div d = k
    BY <1>2, DivUnique
  <2> QED
    BY <1>2, <2>1, DivBounds
<1> QED
  BY <1>1, <1>2

\* Division rounded up: the one q for which n lies in the q-th interval.
LEMMA DivCeilUnique ==
  ASSUME NEW n \in Int, NEW d \in Nat \ {0}, NEW q \in Int
  PROVE  DivCeil(n, d) = q <=> (q - 1) * d < n /\ n <= q * d
<1>1. PICK m \in Int : m = n + d - 1
  OBVIOUS
<1>2. DivCeil(n, d) = m \div d
  BY <1>1 DEF DivCeil
<1>3. ASSUME DivCeil(n, d) = q PROVE (q - 1) * d < n /\ n <= q * d
  <2>1. q * d <= m /\ m < q * d + d
    BY <1>2, <1>3, DivBounds
  <2>2. (q - 1) * d = q * d - d
    OBVIOUS
  <2> QED
    BY <1>1, <2>1, <2>2
<1>4. ASSUME (q - 1) * d < n, n <= q * d PROVE DivCeil(n, d) = q
  <2>1. (q - 1) * d = q * d - d
    OBVIOUS
  <2>2. q * d <= m /\ m < q * d + d
    BY <1>1, <1>4, <2>1
  <2> QED
    BY <1>2, <2>2, DivUnique
<1> QED
  BY <1>3, <1>4

\* A positive count makes at least one interval and at most as many as it is.
LEMMA DivCeilRange ==
  ASSUME NEW n \in Nat \ {0}, NEW d \in Nat \ {0}
  PROVE  DivCeil(n, d) \in 1..n
<1>1. PICK q \in Int : DivCeil(n, d) = q
  BY DivBounds DEF DivCeil
<1>2. (q - 1) * d < n /\ n <= q * d
  BY <1>1, DivCeilUnique
<1>3. q >= 1
  <2> SUFFICES ASSUME q <= 0 PROVE FALSE
    OBVIOUS
  <2>1. q * d <= 0
    OBVIOUS
  <2> QED
    BY <1>2, <2>1
<1>4. q <= n
  <2>1. (q - 1) * d >= q - 1
    BY <1>3
  <2> QED
    BY <1>2, <2>1
<1> QED
  BY <1>1, <1>3, <1>4

\* A larger number is not in an earlier interval.
LEMMA DivCeilMonotone ==
  ASSUME NEW n \in Int, NEW k \in Int, n <= k, NEW d \in Nat \ {0}
  PROVE  DivCeil(n, d) <= DivCeil(k, d)
<1>1. PICK p \in Int, q \in Int : p = DivCeil(n, d) /\ q = DivCeil(k, d)
  <2>1. n + d - 1 \in Int /\ k + d - 1 \in Int
    OBVIOUS
  <2> QED
    BY <2>1 DEF DivCeil
<1>2. (p - 1) * d < n /\ k <= q * d
  BY <1>1, DivCeilUnique
<1> SUFFICES ASSUME q <= p - 1 PROVE FALSE
  BY <1>1
<1>3. q * d <= (p - 1) * d
  OBVIOUS
<1> QED
  BY <1>2, <1>3

-----------------------------------------------------------------------------
(* Heights.                                                                *)

\* Heights have epochs and batches, those after the genesis block positive ones.
LEMMA HeightRange ==
  ASSUME NEW h \in Nat
  PROVE  /\ EpochAt(h) \in Nat /\ BatchAt(h) \in Nat
         /\ h <= Genesis => EpochAt(h) = 0 /\ BatchAt(h) = 0
         /\ h > Genesis => EpochAt(h) > 0 /\ BatchAt(h) > 0 /\ BatchAt(h) <= h
<1>1. CASE h <= Genesis
  BY <1>1, PolicyAssumption DEF EpochAt, BatchAt
<1>2. CASE h > Genesis
  <2>1. PICK n \in Nat \ {0} : n = h - Genesis
    BY <1>2, PolicyAssumption
  <2>2. DivCeil(n, BlocksPerEpoch) \in 1..n /\ DivCeil(n, BlocksPerBatch) \in 1..n
    BY PolicyAssumption, DivCeilRange
  <2>3. EpochAt(h) = DivCeil(n, BlocksPerEpoch) /\ BatchAt(h) = DivCeil(n, BlocksPerBatch)
    BY <1>2, <2>1, PolicyAssumption DEF EpochAt, BatchAt
  <2> QED
    BY <1>2, <2>1, <2>2, <2>3, PolicyAssumption
<1> QED
  BY <1>1, <1>2, PolicyAssumption

\* A later height is not in an earlier epoch.
LEMMA EpochMonotone ==
  ASSUME NEW g \in Nat, NEW h \in Nat, g <= h
  PROVE  EpochAt(g) <= EpochAt(h)
<1>1. CASE g <= Genesis
  BY <1>1, HeightRange, PolicyAssumption
<1>2. CASE g > Genesis
  BY <1>2, DivCeilMonotone, PolicyAssumption DEF EpochAt
<1> QED
  BY <1>1, <1>2, PolicyAssumption

\* Every election block closes a batch.
LEMMA ElectionEndsBatch ==
  ASSUME NEW h \in Nat, IsElection(h)
  PROVE  IsBatchEnd(h)
<1>1. PICK k \in Int : h - Genesis = k * BlocksPerEpoch
  BY PolicyAssumption, Multiples DEF IsElection
<1>2. PICK m \in Int : BlocksPerEpoch = m * BlocksPerBatch
  BY PolicyAssumption, Multiples
<1>3. h - Genesis = (k * m) * BlocksPerBatch
  BY <1>1, <1>2, PolicyAssumption
<1>4. k * m \in Int /\ h - Genesis \in Int
  BY PolicyAssumption
<1> QED
  BY <1>3, <1>4, PolicyAssumption, Multiples DEF IsBatchEnd

\* A multiple of d lies at the end of its interval.
LEMMA DivCeilMultiple ==
  ASSUME NEW n \in Int, NEW d \in Nat \ {0}, n % d = 0
  PROVE  n = DivCeil(n, d) * d
<1>1. PICK k \in Int : n = k * d
  BY Multiples
<1>2. (k - 1) * d < n /\ n <= k * d
  BY <1>1
<1>3. DivCeil(n, d) = k
  BY <1>2, DivCeilUnique
<1> QED
  BY <1>1, <1>3

\* The boundaries of batches and epochs, from their numbers.
LEMMA Boundaries ==
  ASSUME NEW h \in Nat, h >= Genesis
  PROVE  /\ IsBatchEnd(h) => h = Genesis + BatchAt(h) * BlocksPerBatch
         /\ IsElection(h) => h = Genesis + EpochAt(h) * BlocksPerEpoch
<1>1. PICK n \in Nat : n = h - Genesis
  BY PolicyAssumption
<1>2. CASE n = 0
  <2>1. EpochAt(h) = 0 /\ BatchAt(h) = 0
    BY <1>1, <1>2, HeightRange, PolicyAssumption
  <2> QED
    BY <1>1, <1>2, <2>1, PolicyAssumption
<1>3. CASE n > 0
  <2>1. EpochAt(h) = DivCeil(n, BlocksPerEpoch) /\ BatchAt(h) = DivCeil(n, BlocksPerBatch)
    BY <1>1, <1>3, PolicyAssumption DEF EpochAt, BatchAt
  <2>2. IsBatchEnd(h) => n = BatchAt(h) * BlocksPerBatch
    BY <1>1, <2>1, PolicyAssumption, DivCeilMultiple DEF IsBatchEnd
  <2>3. IsElection(h) => n = EpochAt(h) * BlocksPerEpoch
    BY <1>1, <2>1, PolicyAssumption, DivCeilMultiple DEF IsElection
  <2> QED
    BY <1>1, <2>2, <2>3, PolicyAssumption
<1> QED
  BY <1>2, <1>3

\* All the blocks of a batch belong to one epoch, that of its last block.
LEMMA BatchInEpoch ==
  ASSUME NEW b \in Nat, NEW h \in BlocksOf(b)
  PROVE  EpochAt(h) = EpochAt(Genesis + b * BlocksPerBatch)
<1>1. CASE b = 0
  BY <1>1, PolicyAssumption DEF BlocksOf
<1>2. CASE b > 0
  <2>1. PICK m \in Int : BlocksPerEpoch = m * BlocksPerBatch
    BY PolicyAssumption, Multiples
  <2> DEFINE B == BlocksPerBatch
             E == BlocksPerEpoch
  <2>2. h \in Nat /\ Genesis + (b - 1) * B < h /\ h <= Genesis + b * B
    <3>1. h \in (Genesis + (b - 1) * B + 1)..(Genesis + b * B)
      BY <1>2 DEF BlocksOf
    <3>2. (b - 1) * B \in Nat /\ b * B \in Nat
      BY <1>2, PolicyAssumption
    <3> QED
      BY <3>1, <3>2, PolicyAssumption
  <2>3. PICK n \in Int : n = h - Genesis
    BY <2>2, PolicyAssumption
  <2>4. PICK t \in Int : t = b * B
    BY PolicyAssumption
  <2>5. (b - 1) * B = t - B
    BY <2>4, PolicyAssumption
  <2>6. n > 0 /\ t - B < n /\ n <= t
    <3>1. (b - 1) * B >= 0
      BY <1>2, PolicyAssumption
    <3> QED
      BY <2>2, <2>3, <2>4, <2>5, <3>1, PolicyAssumption
  <2>7. EpochAt(h) = DivCeil(n, E) /\ EpochAt(Genesis + b * B) = DivCeil(t, E)
    BY <2>2, <2>3, <2>4, <2>6, PolicyAssumption DEF EpochAt
  <2>8. PICK q \in Int : q = DivCeil(t, E)
    <3>1. t \in Nat \ {0} /\ DivCeil(t, E) \in 1..t
      BY <2>6, DivCeilRange, PolicyAssumption
    <3> QED
      BY <3>1
  <2>9. (q - 1) * E < t /\ t <= q * E
    BY <2>8, DivCeilUnique, PolicyAssumption
  <2>10. (q - 1) * E <= t - B
    <3>1. PICK j \in Int : j = (q - 1) * m
      OBVIOUS
    <3>2. (q - 1) * E = j * B
      BY <2>1, <3>1, PolicyAssumption
    <3>3. j * B < b * B
      BY <2>4, <2>9, <3>2
    <3>4. j < b
      <4> SUFFICES ASSUME b <= j PROVE FALSE
        OBVIOUS
      <4>1. b * B <= j * B
        BY PolicyAssumption
      <4> QED
        BY <3>3, <4>1, PolicyAssumption
    <3>5. j * B <= (b - 1) * B
      BY <3>4, PolicyAssumption
    <3> QED
      BY <2>5, <3>2, <3>5
  <2>11. (q - 1) * E < n /\ n <= q * E
    <3>1. (q - 1) * E \in Int /\ q * E \in Int
      BY PolicyAssumption
    <3> QED
      BY <2>6, <2>9, <2>10, <3>1, PolicyAssumption
  <2> QED
    BY <2>7, <2>8, <2>11, DivCeilUnique, PolicyAssumption
<1> QED
  BY <1>1, <1>2
=============================================================================
