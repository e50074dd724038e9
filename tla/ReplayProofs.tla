---------------------------- MODULE ReplayProofs ----------------------------
(***************************************************************************)
(* Proofs about Replay, for every policy, set of addresses, stakes and     *)
(* rewards: nobody is credited twice, no batch is overspent, rewards and   *)
(* payslips go to the right epoch, the cursor covers what it has passed,   *)
(* and without a fault nobody is left out.                                 *)
(***************************************************************************)
EXTENDS Replay, PolicyFacts, SumFacts

-----------------------------------------------------------------------------
(* The arithmetic of the heights.                                          *)

\* Different boundaries have different numbers.
LEMMA BoundariesDiffer ==
  ASSUME NEW g \in Nat, NEW h \in Nat, g >= Genesis, h >= Genesis, g # h
  PROVE  /\ IsBatchEnd(g) /\ IsBatchEnd(h) => RewardBatch(g) # RewardBatch(h)
         /\ IsElection(g) /\ IsElection(h) => EpochAt(g) # EpochAt(h)
<1>1. EpochAt(g) \in Nat /\ EpochAt(h) \in Nat /\ BatchAt(g) \in Nat /\ BatchAt(h) \in Nat
  BY HeightRange
<1> QED
  BY <1>1, Boundaries DEF RewardBatch

\* What a checkpoint rewards: the batch before, which lies in the epoch of the
\* block one batch back.
LEMMA RewardedBatch ==
  ASSUME NEW h \in Nat, IsBatchEnd(h), h > Genesis
  PROVE  /\ RewardBatch(h) \in Nat /\ RewardBatch(h) < h
         /\ \A g \in BlocksOf(RewardBatch(h)) : EpochAt(g) = RewardEpoch(h)
<1>1. PICK k \in Nat : k = BatchAt(h)
  BY HeightRange
<1>2. k > 0 /\ k <= h /\ h = Genesis + k * BlocksPerBatch
  BY <1>1, HeightRange, Boundaries, PolicyAssumption
<1>3. h - BlocksPerBatch = Genesis + (k - 1) * BlocksPerBatch
  BY <1>2, PolicyAssumption
<1>4. RewardBatch(h) = k - 1 /\ k - 1 \in Nat
  BY <1>1, <1>2 DEF RewardBatch
<1> QED
  BY <1>2, <1>3, <1>4, BatchInEpoch DEF RewardEpoch

-----------------------------------------------------------------------------
(* The arithmetic of the shares.                                           *)

\* What is left of a reward after the fee.
LEMMA AfterFeeType ==
  ASSUME NEW r \in Nat
  PROVE  AfterFee(r) \in Nat
<1>1. PICK n \in Nat : n = r * FeeBp
  BY ReplayAssumption
<1>2. n <= r * 10000
  BY <1>1, ReplayAssumption
<1>word. Word \in Nat \ {0}
  BY ReplayAssumption
<1>3. PICK m \in Nat : m = n % Word
  BY <1>word, ModBound
<1>4. m <= n
  BY <1>3, <1>word, ModBound
<1>5. m \div 10000 \in Int /\ m \div 10000 >= 0 /\ m \div 10000 <= r
  BY <1>2, <1>4
<1>6. Fee(r) = m \div 10000
  BY <1>1, <1>3 DEF Fee
<1> QED
  BY <1>5, <1>6 DEF AfterFee

\* A sum of stakes is a number, and positive when one of them is.
LEMMA TotalType ==
  ASSUME NEW S \in SUBSET Addrs
  PROVE  /\ Total(S) = Sum(Stake, S)
         /\ IsFiniteSet(S)
         /\ Total(S) \in Nat
         /\ (\E a \in S : Stake[a] > 0) => Total(S) > 0
<1>1. Total(S) = Sum(Stake, S)
  BY DEF Total, Sum
<1>2. IsFiniteSet(S)
  BY ReplayAssumption, FS_Subset
<1>3. Stake \in [Addrs -> Nat]
  BY ReplayAssumption
<1>4. Total(S) \in Nat
  BY <1>1, <1>2, <1>3, SumType
<1>5. ASSUME NEW a \in S, Stake[a] > 0 PROVE Total(S) > 0
  <2>1. Sum(Stake, S) = Stake[a] + Sum(Stake, S \ {a})
    BY <1>2, <1>3, SumRemove
  <2>2. PICK U \in SUBSET Addrs : U = S \ {a}
    OBVIOUS
  <2>3. Sum(Stake, U) \in Nat
    BY <1>3, <2>2, ReplayAssumption, FS_Subset, SumType
  <2>4. Stake[a] \in Nat
    BY ReplayAssumption
  <2> QED
    BY <1>1, <1>5, <2>1, <2>2, <2>3, <2>4
<1> QED
  BY <1>1, <1>2, <1>4, <1>5

\* A share is a number, and no more than in proportion to the stake, whatever
\* the 64 bits cut off. Nothing is cut off while the product fits.
LEMMA ShareBound ==
  ASSUME NEW amount \in Nat, NEW S \in SUBSET Addrs, NEW a \in S, Stake[a] > 0
  PROVE  /\ Share(amount, a, S) \in Nat
         /\ Share(amount, a, S) * Total(S) <= amount * Stake[a]
         /\ amount * Stake[a] < Word => Share(amount, a, S) = (amount * Stake[a]) \div Total(S)
<1>1. PICK t \in Nat \ {0} : t = Total(S)
  BY TotalType
<1>2. PICK n \in Nat : n = amount * Stake[a]
  BY ReplayAssumption
<1>word. Word \in Nat \ {0}
  BY ReplayAssumption
<1>3. PICK m \in Nat : m = n % Word
  BY <1>word, ModBound
<1>4. m <= n /\ (n < Word => m = n)
  <2> PICK w \in Nat \ {0} : w = Word
    BY <1>word
  <2>1. m = n % w
    BY <1>3
  <2>2. m <= n /\ (n < w => m = n)
    BY <2>1, ModBound
  <2> QED
    BY <2>2
<1>5. PICK s \in Nat : s = m \div t
  OBVIOUS
<1>6. s * t <= m
  BY <1>5, DivBounds
<1>7. Share(amount, a, S) = s
  BY <1>1, <1>2, <1>3, <1>5 DEF Share
<1>8. s * t \in Nat
  OBVIOUS
<1>9. Share(amount, a, S) * Total(S) <= amount * Stake[a]
  BY <1>1, <1>2, <1>4, <1>6, <1>7, <1>8
<1>10. ASSUME amount * Stake[a] < Word
       PROVE  Share(amount, a, S) = (amount * Stake[a]) \div Total(S)
  BY <1>1, <1>2, <1>4, <1>5, <1>7, <1>10
<1> QED
  BY <1>7, <1>9, <1>10

Slip == [id : Nat, batch : Nat, addr : Addrs, amount : Nat]

Amounts == [p \in Slip |-> p.amount]

\* The sum of the payslips that NotOverspent speaks of.
SlipSum(P) == MapThenSumSet(LAMBDA p : p.amount, P)

\* It is a sum with weights that a function gives.
LEMMA SlipSums ==
  ASSUME NEW P \in SUBSET Slip
  PROVE  SlipSum(P) = Sum(Amounts, P)
<1> DEFINE F(r) == [s \in SUBSET P |-> IF s = {} THEN 0 ELSE Picked(s).amount + r[s \ {Picked(s)}]]
           G(r) == [s \in SUBSET P |-> Step(Amounts, r, s)]
<1>1. ASSUME NEW r PROVE F(r) = G(r)
  <2>1. ASSUME NEW s \in SUBSET P, s # {} PROVE Picked(s).amount = Amounts[Picked(s)]
    BY <2>1, PickedIn DEF Amounts
  <2>2. ASSUME NEW s \in SUBSET P
        PROVE  (IF s = {} THEN 0 ELSE Picked(s).amount + r[s \ {Picked(s)}]) = Step(Amounts, r, s)
    BY <2>1, Zenon DEF Step
  <2> QED
    BY <2>2, Zenon
<1>2. SlipSum(P) = (CHOOSE r : r = F(r))[P]
  BY Zenon DEF SlipSum, MapThenSumSet, MapThenFoldSet, Picked
<1>3. Sum(Amounts, P) = (CHOOSE r : r = G(r))[P]
  BY SumIsSums, Zenon DEF Sums
<1> HIDE DEF F, G
<1>4. (CHOOSE r : r = F(r)) = (CHOOSE r : r = G(r))
  BY <1>1, Zenon
<1> QED
  BY <1>2, <1>3, <1>4

-----------------------------------------------------------------------------
(* The inductive invariant.                                                *)

\* The loop is at a height.
Active == pc \notin {"tick", "down"}

\* The loop stays between the genesis block and the head it has read.
HeightsOK ==
  /\ Genesis <= head /\ (head = Genesis \/ head <= MaxHead)
  /\ cursor # NoCursor => Genesis <= cursor
  /\ Active => Genesis <= height /\ height <= target /\ target <= head

FiniteRows == IsFiniteSet(payslips)

\* The height has left its rows.
Covered(h) ==
  /\ IsElection(h) => EpochAt(h) + 1 \in DOMAIN epochs
  /\ IsBatchEnd(h) /\ h > Genesis => RewardBatch(h) \in DOMAIN rewards

\* Every height behind the loop has, and every one behind the cursor.
PassedCovered ==
  /\ Active => \A h \in Genesis..(height - 1) : Covered(h)
  /\ cursor # NoCursor => \A h \in Genesis..cursor : Covered(h)

\* What the loop has found out, or done, where it is.
PlaceOK ==
  /\ pc \in {"listing", "epochs", "stakers"} => IsElection(height)
  /\ pc \in {"checkpoint", "credits"} => IsBatchEnd(height)
  /\ pc \in {"stakers", "checkpoint", "credits"} =>
       (IsElection(height) => EpochAt(height) + 1 \in DOMAIN epochs)
  /\ pc = "credits" => height > Genesis /\ RewardBatch(height) \in DOMAIN rewards
  /\ pc = "cursor" => Covered(height)

Pending == {newEpochs[i] : i \in DOMAIN newEpochs}

\* The rows of epochs to come, in the order in which they are inserted. The rows
\* of a genesis election come with the next epoch first, which is why an epoch 0
\* that is there is as good as an epoch 1.
EpochsOK ==
  /\ 0 \in DOMAIN epochs => 1 \in DOMAIN epochs
  /\ pc = "listing" => ~KnownElection
  /\ pc # "epochs" => newEpochs = <<>>
  /\ pc = "epochs" =>
       /\ newEpochs = <<>> => EpochAt(height) + 1 \in DOMAIN epochs
       /\ newEpochs # <<>> =>
            \/ newEpochs = ElectedEpochs(height)
            \/ newEpochs = <<0>> /\ 1 \in DOMAIN epochs /\ EpochAt(height) = 0
       /\ \A e \in Pending : e \notin DOMAIN epochs

\* The rows of snapshots to come: of the epochs elected at this height, which
\* nothing has been rewarded for, so that a rewarded epoch's snapshot stays.
SnapshotOK ==
  /\ pc \notin {"epochs", "stakers"} => newStakers = {}
  /\ \A r \in newStakers :
       /\ r[1] \in DOMAIN epochs \cup Pending
       /\ r[1] \in {0, EpochAt(height) + 1}
       /\ \A b \in DOMAIN rewards : rewards[b].epoch # r[1]

\* Only stakers with an active balance have rows.
RowsStaked == \A r \in stakers : Stake[r[2]] > 0

\* The credits to come: stakers of the rewarded epoch, not credited yet.
CreditsOK ==
  pc = "credits" =>
    /\ credits \subseteq StakersOf(rewards[RewardBatch(height)].epoch)
    /\ \A p \in payslips : p.batch = RewardBatch(height) => p.addr \notin credits

\* The amount of a reward is what the fee leaves.
AmountsOK ==
  \A b \in DOMAIN rewards : b \in 0..MaxHead /\ rewards[b].amount = AfterFee(Reward[b])

SlipsOf(b) == {p \in payslips : p.batch = b}

PaidOf(b) == {p.addr : p \in SlipsOf(b)}

\* What a batch has paid, in proportion to the stakes it has paid for.
Proportional ==
  \A b \in DOMAIN rewards :
    SlipSum(SlipsOf(b)) * Total(StakersOf(rewards[b].epoch)) <= rewards[b].amount * Total(PaidOf(b))

\* The stakers of an epoch's snapshot, and those still to come.
Due(e) == {a \in Addrs : <<e, a>> \in stakers \/ (<<e, a>> \in newStakers /\ Stake[a] > 0)}

\* Without a fault no snapshot and no credit is cut short.
NothingLost ==
  faults = 0 =>
    /\ Active => cursor = NoCursor \/ cursor < height
    /\ \A e \in DOMAIN epochs : WithStake(epochs[e].counted) = Due(e)
    /\ \A b \in DOMAIN rewards :
         \A a \in Credited(rewards[b].amount, StakersOf(rewards[b].epoch)) :
           \/ a \in PaidOf(b)
           \/ pc = "credits" /\ b = RewardBatch(height) /\ a \in credits

IInv ==
  /\ TypeOK /\ HeightsOK /\ FiniteRows
  /\ PassedCovered /\ PlaceOK /\ EpochsOK /\ SnapshotOK /\ RowsStaked /\ CreditsOK
  /\ AmountsOK /\ CreditedOnce /\ RightEpoch /\ Proportional /\ NothingLost

\* A database without rows, and a loop that is nowhere.
LEMMA InitIInv == Init => IInv
<1> SUFFICES ASSUME Init PROVE IInv
  OBVIOUS
<1>1. TypeOK
  BY PolicyAssumption, ReplayAssumption DEF Init, TypeOK, Phases
<1>2. HeightsOK /\ PassedCovered /\ PlaceOK /\ EpochsOK /\ SnapshotOK /\ RowsStaked /\ CreditsOK
  BY PolicyAssumption DEF Init, HeightsOK, PassedCovered, PlaceOK, EpochsOK, SnapshotOK,
     RowsStaked, CreditsOK, Active, Pending
<1>3. FiniteRows
  BY FS_EmptySet DEF Init, FiniteRows
<1>4. AmountsOK /\ CreditedOnce /\ RightEpoch /\ Proportional /\ NothingLost
  BY DEF Init, AmountsOK, CreditedOnce, RightEpoch, Proportional, NothingLost, Active
<1> QED
  BY <1>1, <1>2, <1>3, <1>4 DEF IInv

-----------------------------------------------------------------------------
(* What the steps do.                                                      *)

\* The steps of which only the place of the loop, the chain and the counters
\* matter: the rows stay.
Aside ==
  /\ UNCHANGED <<epochs, stakers, rewards, payslips>>
  /\ \/ Tick \/ IdleTick \/ MicroBlock \/ Checkpoint \/ SkipElection \/ GetValidator \/ GetStakers
     \/ EpochsInserted \/ ElectionDone \/ SkipCheckpoint \/ MissingEpoch \/ CheckpointDone
     \/ UpsertCursor \/ Restart \/ Fail \/ StatementFails \/ CursorReadFails \/ Crash
     \/ ProduceBlock \/ Move \/ UNCHANGED vars

\* A step leaves the rows alone or inserts one of the four kinds.
LEMMA NextCases ==
  ASSUME [Next]_vars
  PROVE  \/ Aside
         \/ InsertEpoch
         \/ \E r \in newStakers : PassStaker(r) \/ InsertStaker(r)
         \/ InsertReward
         \/ \E a \in credits : InsertPayslip(a)
BY DEF Next, Work, Election, Collect, Aside, Tick, IdleTick, MicroBlock, Checkpoint, SkipElection,
   GetValidator, GetStakers, EpochsInserted, ElectionDone, SkipCheckpoint, MissingEpoch,
   CheckpointDone, UpsertCursor, Restart, Fail, StatementFails, CursorReadFails, Crash, ProduceBlock,
   Move, vars, db, StartAt

\* A turn of a staker.
LEMMA TurnFacts ==
  ASSUME IInv, NEW r \in newStakers, PassStaker(r) \/ InsertStaker(r)
  PROVE  /\ pc = "stakers" /\ newStakers' = newStakers \ {r}
         /\ r = <<r[1], r[2]>> /\ r[1] \in Nat /\ r[2] \in Addrs
         /\ UNCHANGED <<cursor, epochs, rewards, payslips, head, delegated, able, moves>>
         /\ UNCHANGED <<pc, height, target, status, newEpochs, credits, faults>>
         /\ \/ Stake[r[2]] = 0 /\ stakers' = stakers
            \/ Stake[r[2]] > 0 /\ stakers' = stakers \cup {r}
<1>1. r = <<r[1], r[2]>> /\ r[1] \in Nat /\ r[2] \in Addrs
  BY DEF IInv, TypeOK
<1> QED
  BY <1>1 DEF PassStaker, InsertStaker, StakerTurn, chain

\* The epochs of an election: the next one, and epoch 0 after it at genesis.
LEMMA ElectedFacts ==
  ASSUME NEW h \in Nat, h >= Genesis
  PROVE  /\ EpochAt(h) \in Nat
         /\ ElectedEpochs(h) = <<EpochAt(h) + 1>> \/ (ElectedEpochs(h) = <<1, 0>> /\ EpochAt(h) = 0)
         /\ \A i \in DOMAIN ElectedEpochs(h) : ElectedEpochs(h)[i] \in {0, EpochAt(h) + 1}
         /\ EpochAt(h) + 1 \in {ElectedEpochs(h)[i] : i \in DOMAIN ElectedEpochs(h)}
<1>1. EpochAt(h) \in Nat
  BY HeightRange
<1>2. CASE h = Genesis
  <2>1. EpochAt(h) = 0
    BY <1>2, HeightRange
  <2>2. ElectedEpochs(h) = <<1, 0>>
    BY <1>2, <2>1 DEF ElectedEpochs
  <2> QED
    BY <2>1, <2>2
<1>3. CASE h # Genesis
  <2>1. ElectedEpochs(h) = <<EpochAt(h) + 1>>
    BY <1>3 DEF ElectedEpochs
  <2> QED
    BY <1>1, <2>1
<1> QED
  BY <1>2, <1>3

\* The row of an epoch, which was not there.
LEMMA EpochRow ==
  ASSUME IInv, InsertEpoch
  PROVE  \E e \in Nat, C \in SUBSET Addrs :
           /\ e \notin DOMAIN epochs /\ e \in Pending
           /\ DOMAIN epochs' = DOMAIN epochs \cup {e}
           /\ epochs'[e] = [status |-> status, counted |-> C]
           /\ C = {a \in Addrs : <<e, a>> \in newStakers}
           /\ \A x \in DOMAIN epochs : epochs'[x] = epochs[x]
           /\ Pending = Pending' \cup {e} /\ e \notin Pending'
           /\ \/ e = EpochAt(height) + 1 /\ newEpochs' = <<>>
              \/ e = 1 /\ EpochAt(height) = 0 /\ newEpochs' = <<0>>
              \/ e = 0 /\ EpochAt(height) = 0 /\ newEpochs' = <<>> /\ 1 \in DOMAIN epochs
<1>1. PICK e : e = Head(newEpochs)
  OBVIOUS
<1>2. height \in Nat /\ height >= Genesis /\ newEpochs # <<>> /\ pc = "epochs"
  BY DEF IInv, TypeOK, HeightsOK, Active, InsertEpoch
<1>3. EpochAt(height) \in Nat
  BY <1>2, ElectedFacts
<1>4. \/ newEpochs = <<EpochAt(height) + 1>>
      \/ newEpochs = <<1, 0>> /\ EpochAt(height) = 0
      \/ newEpochs = <<0>> /\ 1 \in DOMAIN epochs /\ EpochAt(height) = 0
  BY <1>2, ElectedFacts DEF IInv, EpochsOK
<1>5. newEpochs' = Tail(newEpochs)
  BY DEF InsertEpoch
<1>6. /\ e \in Nat /\ e \in Pending
      /\ Pending = Pending' \cup {e} /\ e \notin Pending'
      /\ \/ e = EpochAt(height) + 1 /\ newEpochs' = <<>>
         \/ e = 1 /\ EpochAt(height) = 0 /\ newEpochs' = <<0>>
         \/ e = 0 /\ EpochAt(height) = 0 /\ newEpochs' = <<>> /\ 1 \in DOMAIN epochs
  <2>1. CASE newEpochs = <<EpochAt(height) + 1>>
    <3>1. newEpochs' = <<>> /\ e = EpochAt(height) + 1
      BY <1>1, <1>5, <2>1
    <3> QED
      BY <1>3, <2>1, <3>1 DEF Pending
  <2>2. CASE newEpochs = <<1, 0>> /\ EpochAt(height) = 0
    <3>1. newEpochs' = <<0>> /\ e = 1
      BY <1>1, <1>5, <2>2
    <3>2. Pending = {0, 1} /\ Pending' = {0}
      BY <2>2, <3>1 DEF Pending
    <3> QED
      BY <2>2, <3>1, <3>2
  <2>3. CASE newEpochs = <<0>> /\ 1 \in DOMAIN epochs /\ EpochAt(height) = 0
    <3>1. newEpochs' = <<>> /\ e = 0
      BY <1>1, <1>5, <2>3
    <3> QED
      BY <2>3, <3>1 DEF Pending
  <2> QED
    BY <1>4, <2>1, <2>2, <2>3
<1>7. e \notin DOMAIN epochs
  BY <1>2, <1>6 DEF IInv, EpochsOK
<1>8. PICK C \in SUBSET Addrs : C = {a \in Addrs : <<e, a>> \in newStakers}
  OBVIOUS
<1>9. epochs' = Put(epochs, e, [status |-> status, counted |-> C])
  BY <1>1, <1>8 DEF InsertEpoch
<1>10. /\ DOMAIN epochs' = DOMAIN epochs \cup {e}
       /\ epochs'[e] = [status |-> status, counted |-> C]
       /\ \A x \in DOMAIN epochs : epochs'[x] = epochs[x]
  BY <1>7, <1>9 DEF Put
<1> QED
  BY <1>6, <1>7, <1>8, <1>10

\* The row of a reward, which was not there.
LEMMA RewardRow ==
  ASSUME IInv, InsertReward
  PROVE  \E b \in Nat, e \in DOMAIN epochs, amount \in Nat :
           /\ b = RewardBatch(height) /\ height > Genesis
           /\ e = RewardEpoch(height)
           /\ b \in 0..MaxHead /\ amount = AfterFee(Reward[b])
           /\ b \notin DOMAIN rewards
           /\ DOMAIN rewards' = DOMAIN rewards \cup {b}
           /\ rewards'[b] = [epoch |-> e, amount |-> amount]
           /\ \A x \in DOMAIN rewards : rewards'[x] = rewards[x]
           /\ credits' = Credited(amount, StakersOf(e))
<1>1. /\ height \in Nat /\ IsBatchEnd(height) /\ height > Genesis
      /\ height <= head /\ head \in Nat /\ (head = Genesis \/ head <= MaxHead)
  <2>1. pc = "checkpoint" /\ BatchAt(height) > 0
    BY DEF InsertReward
  <2>2. height \in Nat /\ target \in Nat /\ head \in Nat
    BY DEF IInv, TypeOK
  <2>3. height > Genesis
    BY <2>1, <2>2, HeightRange, PolicyAssumption
  <2> QED
    BY <2>1, <2>2, <2>3 DEF IInv, HeightsOK, PlaceOK, Active
<1>2. PICK b : b = RewardBatch(height)
  OBVIOUS
<1>3. b \in Nat /\ b \in 0..MaxHead
  BY <1>1, <1>2, RewardedBatch, PolicyAssumption, ReplayAssumption
<1>4. PICK amount \in Nat : amount = AfterFee(Reward[b])
  BY <1>3, AfterFeeType, ReplayAssumption
<1>5. PICK e \in DOMAIN epochs : e = RewardEpoch(height)
  BY DEF InsertReward
<1>6. b \notin DOMAIN rewards
  BY <1>2 DEF InsertReward, RewardExists
<1>7. rewards' = Put(rewards, b, [epoch |-> e, amount |-> amount])
  BY <1>2, <1>4, <1>5 DEF InsertReward
<1>8. credits' = Credited(amount, StakersOf(e))
  BY <1>2, <1>4, <1>5 DEF InsertReward
<1>9. /\ DOMAIN rewards' = DOMAIN rewards \cup {b}
      /\ rewards'[b] = [epoch |-> e, amount |-> amount]
      /\ \A x \in DOMAIN rewards : rewards'[x] = rewards[x]
  BY <1>6, <1>7 DEF Put
<1> QED
  BY <1>1, <1>2, <1>3, <1>4, <1>5, <1>6, <1>8, <1>9

\* The row of a payslip, the first for its staker and batch.
LEMMA SlipRow ==
  ASSUME IInv, NEW a \in credits, InsertPayslip(a)
  PROVE  \E b \in DOMAIN rewards, p \in Slip :
           /\ b = RewardBatch(height) /\ pc = "credits"
           /\ a \in StakersOf(rewards[b].epoch) /\ Stake[a] > 0
           /\ p.batch = b /\ p.addr = a
           /\ p.amount = Share(rewards[b].amount, a, StakersOf(rewards[b].epoch))
           /\ \A q \in payslips : ~(q.batch = b /\ q.addr = a)
           /\ p \notin payslips
           /\ payslips' = payslips \cup {p}
           /\ credits' = credits \ {a}
<1>1. pc = "credits"
  BY DEF InsertPayslip
<1>2. PICK b \in DOMAIN rewards : b = RewardBatch(height)
  BY <1>1 DEF IInv, PlaceOK
<1>3. a \in StakersOf(rewards[b].epoch) /\ \A q \in payslips : ~(q.batch = b /\ q.addr = a)
  BY <1>1, <1>2 DEF IInv, CreditsOK
<1>4. PICK S \in SUBSET Addrs : S = StakersOf(rewards[b].epoch)
  BY DEF StakersOf
<1>5. b \in Nat /\ rewards[b].amount \in Nat
  BY DEF IInv, TypeOK
<1>staked. Stake[a] > 0
  BY <1>3 DEF IInv, RowsStaked, StakersOf
<1>6. PICK m \in Nat : m = Share(rewards[b].amount, a, S)
  BY <1>3, <1>4, <1>5, <1>staked, ShareBound
<1>7. PICK n \in Nat : n = Cardinality(payslips) + 1
  BY FS_CardinalityType DEF IInv, FiniteRows
<1>8. PICK p \in Slip : p = [id |-> n, batch |-> b, addr |-> a, amount |-> m]
  BY <1>3, <1>4, <1>5 DEF Slip
<1>9. payslips' = payslips \cup {p} /\ credits' = credits \ {a}
  BY <1>2, <1>4, <1>6, <1>7, <1>8 DEF InsertPayslip
<1>10. p.batch = b /\ p.addr = a /\ p.amount = m
  BY <1>8
<1>11. p \notin payslips
  BY <1>3, <1>10
<1> QED
  BY <1>1, <1>2, <1>3, <1>4, <1>staked, <1>6, <1>9, <1>10, <1>11

\* Rows are never changed or deleted.
LEMMA RowsStay ==
  ASSUME IInv, [Next]_vars
  PROVE  /\ DOMAIN epochs \subseteq DOMAIN epochs'
         /\ \A e \in DOMAIN epochs : epochs'[e] = epochs[e]
         /\ DOMAIN rewards \subseteq DOMAIN rewards'
         /\ \A b \in DOMAIN rewards : rewards'[b] = rewards[b]
         /\ stakers \subseteq stakers'
         /\ payslips \subseteq payslips'
<1>1. CASE Aside
  BY <1>1 DEF Aside
<1>2. CASE InsertEpoch
  <2>1. UNCHANGED <<rewards, stakers, payslips>>
    BY <1>2 DEF InsertEpoch
  <2> QED
    BY <1>2, <2>1, EpochRow
<1>3. CASE \E r \in newStakers : PassStaker(r) \/ InsertStaker(r)
  BY <1>3, TurnFacts
<1>4. CASE InsertReward
  <2>1. UNCHANGED <<epochs, stakers, payslips>>
    BY <1>4 DEF InsertReward
  <2> QED
    BY <1>4, <2>1, RewardRow
<1>5. CASE \E a \in credits : InsertPayslip(a)
  BY <1>5 DEF InsertPayslip
<1> QED
  BY <1>1, <1>2, <1>3, <1>4, <1>5, NextCases

\* Types: the rows come from what the checkpoint and the election computed.
LEMMA StepType == ASSUME IInv, [Next]_vars PROVE TypeOK'
<1> USE DEF IInv
<1>1. CASE Aside
  <2> USE DEF Phases
  <2> SUFFICES ASSUME UNCHANGED <<epochs, stakers, rewards, payslips>>
               PROVE  /\ cursor' \in Nat \cup {NoCursor}
                      /\ head' \in Nat /\ delegated' \subseteq Addrs /\ able' \in BOOLEAN
                      /\ pc' \in Phases /\ height' \in Nat /\ target' \in Nat
                      /\ status' \in {"in_progress", "not_elected", "unable", "no_stakers"}
                      /\ newEpochs' \in Seq(Nat) /\ newStakers' \subseteq Nat \X Addrs
                      /\ credits' \subseteq Addrs
                      /\ moves' \in 0..MaxMoves /\ faults' \in 0..MaxFaults
    BY <1>1 DEF Aside, TypeOK
  <2>1. CASE Tick \/ CursorReadFails
    <3>1. Start \in Nat /\ Genesis \in Nat
      BY PolicyAssumption DEF TypeOK, Start
    <3> QED
      <4>1. faults' \in 0..MaxFaults
        BY <2>1, ReplayAssumption DEF Tick, CursorReadFails, TypeOK
      <4>2. /\ pc' = "height" /\ height' \in {Start, Genesis} /\ target' = head
            /\ UNCHANGED <<cursor, head, delegated, able, moves>>
            /\ UNCHANGED <<status, newEpochs, newStakers, credits>>
        BY <2>1 DEF Tick, CursorReadFails, StartAt, db, chain
      <4> QED
        BY <3>1, <4>1, <4>2 DEF TypeOK
  <2>2. CASE GetValidator \/ GetStakers
    <3>1. height \in Nat /\ height >= Genesis
      BY <2>2 DEF TypeOK, HeightsOK, Active, GetValidator, GetStakers
    <3>2. PICK es : es = ElectedEpochs(height)
      OBVIOUS
    <3>3. es \in Seq(Nat)
      <4>1. PICK n \in Nat : n = EpochAt(height) /\ (es = <<n + 1>> \/ es = <<1, 0>>)
        BY <3>1, <3>2, ElectedFacts
      <4>2. <<n + 1>> \in Seq(Nat) /\ <<1, 0>> \in Seq(Nat)
        OBVIOUS
      <4> QED
        BY <4>1, <4>2
    <3>4. {es[i] : i \in DOMAIN es} \subseteq Nat
      BY <3>3
    <3>5. newStakers' = newStakers \/ newStakers' = {es[i] : i \in DOMAIN es} \X delegated
      BY <2>2, <3>2 DEF GetValidator, GetStakers
    <3>6. newStakers' \subseteq Nat \X Addrs
      BY <3>4, <3>5 DEF TypeOK
    <3>7. newEpochs' \in Seq(Nat)
      BY <2>2, <3>2, <3>3 DEF GetValidator, GetStakers, TypeOK
    <3>8. status' \in {"in_progress", "not_elected", "unable", "no_stakers"}
      BY <2>2 DEF GetValidator, GetStakers, ElectionStatuses, TypeOK
    <3>9. /\ UNCHANGED <<cursor, head, delegated, able, moves, height, target, credits, faults>>
          /\ pc' \in {"listing", "epochs"}
      BY <2>2 DEF GetValidator, GetStakers, db, chain
    <3> QED
      BY <3>6, <3>7, <3>8, <3>9 DEF TypeOK
  <2>3. CASE UpsertCursor
    BY <2>3 DEF UpsertCursor, EndLoop, TypeOK, chain
  <2>4. CASE StatementFails \/ Crash
    <3>1. faults' \in 0..MaxFaults
      BY <2>4, ReplayAssumption DEF StatementFails, Crash, TypeOK
    <3>2. /\ UNCHANGED <<cursor, head, delegated, able, moves>>
          /\ height' \in {0, height} /\ target' \in {0, target} /\ status' \in {"in_progress", status}
          /\ pc' \in {"tick", "down"} /\ newEpochs' = <<>> /\ newStakers' = {} /\ credits' = {}
      BY <2>4 DEF StatementFails, Crash, EndLoop, db, chain
    <3> QED
      BY <3>1, <3>2 DEF TypeOK
  <2>5. CASE ProduceBlock \/ Move
    <3>1. UNCHANGED <<cursor, pc, height, target, status, newEpochs, newStakers, credits, faults>>
      BY <2>5 DEF ProduceBlock, Move, db, local
    <3>2. head' \in Nat /\ delegated' \subseteq Addrs
      BY <2>5 DEF ProduceBlock, Move, TypeOK
    <3>3. able' \in BOOLEAN
      BY <2>5 DEF ProduceBlock, Move, TypeOK
    <3>4. moves' \in 0..MaxMoves
      <4>1. moves \in 0..MaxMoves /\ MaxMoves \in Nat
        BY ReplayAssumption DEF TypeOK
      <4>2. moves' = moves \/ (moves < MaxMoves /\ moves' = moves + 1)
        BY <2>5, Zenon DEF ProduceBlock, Move
      <4> QED
        BY <4>1, <4>2
    <3> QED
      BY <3>1, <3>2, <3>3, <3>4 DEF TypeOK
  <2>6. CASE EpochsInserted \/ MissingEpoch \/ Fail
    <3>1. /\ UNCHANGED <<db, chain, newEpochs, newStakers, credits, faults>> /\ pc' \in Phases
          /\ height' \in {0, height} /\ target' \in {0, target} /\ status' \in {"in_progress", status}
      BY <2>6 DEF EpochsInserted, MissingEpoch, Fail, EndLoop
    <3> QED
      BY <3>1 DEF TypeOK, db, chain
  <2>7. CASE IdleTick \/ UNCHANGED vars
    BY <2>7 DEF IdleTick, TypeOK, vars, db, chain, local
  <2>8. CASE \/ MicroBlock \/ Checkpoint \/ SkipElection \/ ElectionDone
             \/ SkipCheckpoint \/ CheckpointDone \/ Restart
    <3>1. UNCHANGED <<db, chain, local, faults>> /\ pc' \in Phases
      BY <2>8 DEF MicroBlock, Checkpoint, SkipElection, ElectionDone,
         SkipCheckpoint, CheckpointDone, Restart
    <3> QED
      BY <3>1 DEF TypeOK, db, chain, local
  <2> QED
    BY <1>1, <2>1, <2>2, <2>3, <2>4, <2>5, <2>6, <2>7, <2>8 DEF Aside
<1>2. CASE InsertEpoch
  <2>1. PICK e \in Nat, C \in SUBSET Addrs :
          /\ DOMAIN epochs' = DOMAIN epochs \cup {e}
          /\ epochs'[e] = [status |-> status, counted |-> C]
          /\ \A x \in DOMAIN epochs : epochs'[x] = epochs[x]
          /\ newEpochs' \in {<<>>, <<0>>}
    BY <1>2, EpochRow
  <2>2. newEpochs' \in Seq(Nat)
    <3>1. <<>> \in Seq(Nat) /\ <<0>> \in Seq(Nat)
      OBVIOUS
    <3> QED
      BY <2>1, <3>1
  <2>3. /\ UNCHANGED <<cursor, stakers, rewards, payslips, head, delegated, able, moves>>
        /\ UNCHANGED <<pc, height, target, status, newStakers, credits, faults>>
    BY <1>2 DEF InsertEpoch, chain
  <2>4. \A x \in DOMAIN epochs' :
          epochs'[x] \in [status : {"in_progress", "not_elected", "unable", "no_stakers"},
                           counted : SUBSET Addrs]
    BY <2>1 DEF TypeOK
  <2>5. \A b \in DOMAIN rewards : rewards[b] \in [epoch : DOMAIN epochs', amount : Nat]
    BY <2>1 DEF TypeOK
  <2> QED
    BY <2>1, <2>2, <2>3, <2>4, <2>5 DEF TypeOK
<1>3. ASSUME NEW r \in newStakers, PassStaker(r) \/ InsertStaker(r) PROVE TypeOK'
  <2>1. /\ pc = "stakers" /\ newStakers' = newStakers \ {r}
        /\ UNCHANGED <<cursor, epochs, rewards, payslips, head, delegated, able, moves>>
        /\ UNCHANGED <<pc, height, target, status, newEpochs, credits, faults>>
        /\ stakers' = stakers \/ stakers' = stakers \cup {r}
    BY <1>3, TurnFacts
  <2>2. Pending = {}
    BY <2>1 DEF EpochsOK, Pending
  <2>3. r \in (DOMAIN epochs) \X Addrs
    BY <2>2 DEF SnapshotOK, TypeOK
  <2> QED
    BY <2>1, <2>3 DEF TypeOK
<1>4. CASE InsertReward
  <2>1. PICK b \in Nat, e \in DOMAIN epochs, amount \in Nat :
          /\ DOMAIN rewards' = DOMAIN rewards \cup {b}
          /\ rewards'[b] = [epoch |-> e, amount |-> amount]
          /\ \A x \in DOMAIN rewards : rewards'[x] = rewards[x]
          /\ credits' = Credited(amount, StakersOf(e))
    BY <1>4, RewardRow
  <2>2. credits' \subseteq Addrs
    BY <2>1 DEF Credited, StakersOf
  <2>3. \A x \in DOMAIN rewards' : rewards'[x] \in [epoch : DOMAIN epochs, amount : Nat]
    BY <2>1 DEF TypeOK
  <2>4. payslips \subseteq [id : Nat, batch : DOMAIN rewards', addr : Addrs, amount : Nat]
    BY <2>1 DEF TypeOK
  <2>5. /\ UNCHANGED <<cursor, epochs, stakers, payslips, head, delegated, able, moves>>
        /\ UNCHANGED <<height, target, status, newEpochs, newStakers, faults>>
        /\ pc' = "credits"
    BY <1>4 DEF InsertReward, chain
  <2> QED
    BY <2>1, <2>2, <2>3, <2>4, <2>5 DEF TypeOK, Phases
<1>5. ASSUME NEW a \in credits, InsertPayslip(a) PROVE TypeOK'
  <2>1. PICK b \in DOMAIN rewards, p \in Slip :
          p.batch = b /\ payslips' = payslips \cup {p} /\ credits' = credits \ {a}
    BY <1>5, SlipRow
  <2>2. p \in [id : Nat, batch : DOMAIN rewards, addr : Addrs, amount : Nat]
    BY <2>1 DEF Slip
  <2>3. /\ UNCHANGED <<cursor, epochs, stakers, rewards, head, delegated, able, moves>>
        /\ UNCHANGED <<pc, height, target, status, newEpochs, newStakers, faults>>
    BY <1>5 DEF InsertPayslip, chain
  <2> QED
    BY <2>1, <2>2, <2>3 DEF TypeOK
<1> QED
  BY <1>1, <1>2, <1>3, <1>4, <1>5, NextCases

\* How the loop moves: it starts, it goes on to the next height, it stops, or it
\* stays at its height.
LEMMA LoopCases ==
  ASSUME IInv, [Next]_vars
  PROVE  \/ /\ pc = "tick" /\ pc' = "height" /\ target' = head
            /\ height' = Start \/ (height' = Genesis /\ faults' = faults + 1)
            /\ height' <= head
            /\ UNCHANGED <<db, chain, newEpochs, newStakers, credits>>
         \/ UpsertCursor
         \/ ~Active' /\ UNCHANGED <<cursor, head>>
         \/ Active /\ Active' /\ UNCHANGED <<cursor, height, target, head>>
         \/ ProduceBlock
<1>1. CASE Aside
  <2>1. CASE Tick \/ CursorReadFails
    BY <2>1 DEF Tick, CursorReadFails, StartAt
  <2>2. CASE \/ MicroBlock \/ Checkpoint \/ SkipElection \/ EpochsInserted \/ ElectionDone
             \/ SkipCheckpoint \/ CheckpointDone
    BY <2>2 DEF MicroBlock, Checkpoint, SkipElection, EpochsInserted, ElectionDone,
       SkipCheckpoint, CheckpointDone, Active, db, chain, local
  <2>3. CASE GetValidator \/ GetStakers
    BY <2>3 DEF GetValidator, GetStakers, Active, db, chain
  <2>4. CASE Restart \/ Fail \/ MissingEpoch \/ StatementFails \/ Crash
    BY <2>4 DEF Restart, Fail, MissingEpoch, StatementFails, Crash, EndLoop, Active, db, chain
  <2>5. CASE IdleTick \/ Move \/ UNCHANGED vars
    <3>1. UNCHANGED <<cursor, pc, height, target, head>>
      BY <2>5 DEF IdleTick, Move, vars, db, chain, local
    <3> QED
      BY <3>1 DEF Active
  <2>6. CASE UpsertCursor \/ ProduceBlock
    BY <2>6
  <2> QED
    BY <1>1, <2>1, <2>2, <2>3, <2>4, <2>5, <2>6 DEF Aside
<1>2. CASE InsertEpoch
  BY <1>2 DEF InsertEpoch, Active, chain
<1>3. CASE \E r \in newStakers : PassStaker(r) \/ InsertStaker(r)
  BY <1>3, TurnFacts DEF Active
<1>4. CASE InsertReward
  BY <1>4 DEF InsertReward, Active, chain
<1>5. CASE \E a \in credits : InsertPayslip(a)
  BY <1>5 DEF InsertPayslip, Active, chain
<1> QED
  BY <1>1, <1>2, <1>3, <1>4, <1>5, NextCases

\* The loop never gets ahead of the head it read, nor before the genesis block.
LEMMA StepHeights == ASSUME IInv, [Next]_vars PROVE HeightsOK'
<1>1. TypeOK /\ HeightsOK
  BY DEF IInv
<1>2. CASE /\ pc = "tick" /\ pc' = "height" /\ target' = head
           /\ height' = Genesis \/ height' = Start
           /\ height' <= head
           /\ UNCHANGED <<db, chain>>
  <2>1. Genesis <= height'
    BY <1>1, <1>2, PolicyAssumption DEF HeightsOK, TypeOK, Start
  <2> QED
    BY <1>1, <1>2, <2>1, PolicyAssumption DEF HeightsOK, TypeOK, Active, db, chain
<1>3. CASE UpsertCursor
  BY <1>1, <1>3, PolicyAssumption DEF UpsertCursor, EndLoop, HeightsOK, TypeOK, Active, chain
<1>4. CASE ~Active' /\ UNCHANGED <<cursor, head>>
  BY <1>1, <1>4 DEF HeightsOK
<1>5. CASE Active /\ Active' /\ UNCHANGED <<cursor, height, target, head>>
  BY <1>1, <1>5 DEF HeightsOK
<1>6. CASE ProduceBlock
  BY <1>1, <1>6, PolicyAssumption, ReplayAssumption
  DEF ProduceBlock, HeightsOK, TypeOK, Active, db, local
<1> QED
  BY <1>2, <1>3, <1>4, <1>5, <1>6, LoopCases

\* Finitely many payslips, one more at a time.
LEMMA StepFinite == ASSUME IInv, [Next]_vars PROVE FiniteRows'
<1>1. FiniteRows
  BY DEF IInv
<1>2. CASE payslips' = payslips
  BY <1>1, <1>2 DEF FiniteRows
<1>3. ASSUME NEW a \in credits, InsertPayslip(a) PROVE FiniteRows'
  <2>1. PICK p : payslips' = payslips \cup {p}
    BY <1>3, SlipRow
  <2> QED
    BY <1>1, <2>1, FS_AddElement DEF FiniteRows
<1> QED
  BY <1>2, <1>3, NextCases, TurnFacts DEF Aside, InsertEpoch, InsertReward

\* A height that has left its rows keeps them.
LEMMA CoveredStays ==
  ASSUME IInv, [Next]_vars, NEW h \in Nat, Covered(h)
  PROVE  Covered(h)'
BY RowsStay DEF Covered

\* The cursor and the loop pass a height only when its rows are there: UpsertCursor comes
\* last, and rows are not deleted.
LEMMA StepPassed == ASSUME IInv, [Next]_vars PROVE PassedCovered'
<1>1. TypeOK /\ HeightsOK /\ PassedCovered /\ PlaceOK /\ Genesis \in Nat
  BY PolicyAssumption DEF IInv
<1>2. CASE /\ pc = "tick" /\ pc' = "height"
           /\ height' = Genesis \/ height' = Start
           /\ UNCHANGED <<db, chain>>
  <2>1. ASSUME NEW h \in Genesis..(height' - 1) PROVE Covered(h)
    <3>1. height' = cursor + 1 /\ cursor # NoCursor
      BY <1>1, <1>2 DEF Start
    <3> QED
      BY <1>1, <3>1 DEF PassedCovered, TypeOK
  <2>2. cursor' = cursor
    BY <1>2 DEF db
  <2>3. ASSUME NEW h \in Genesis..(height' - 1) PROVE Covered(h)'
    <3>1. h \in Nat
      BY <1>1
    <3> QED
      BY <2>1, <3>1, CoveredStays
  <2>4. ASSUME cursor # NoCursor, NEW h \in Genesis..cursor PROVE Covered(h)'
    <3>1. h \in Nat /\ Covered(h)
      BY <1>1, <2>4 DEF PassedCovered
    <3> QED
      BY <3>1, CoveredStays
  <2> QED
    BY <2>2, <2>3, <2>4 DEF PassedCovered
<1>3. CASE UpsertCursor
  <2>1. Covered(height) /\ height \in Nat /\ height >= Genesis /\ pc = "cursor"
    BY <1>1, <1>3 DEF UpsertCursor, PlaceOK, HeightsOK, TypeOK, Active
  <2>2. ASSUME NEW h \in Genesis..height PROVE Covered(h)'
    <3>1. h \in Nat /\ (h = height \/ h \in Genesis..(height - 1))
      BY <1>1, <2>1
    <3>2. Covered(h)
      BY <1>1, <2>1, <3>1 DEF PassedCovered, Active
    <3> QED
      BY <3>1, <3>2, CoveredStays
  <2>3. cursor' = height /\ (Active' => height' = height + 1)
    BY <1>3 DEF UpsertCursor, EndLoop, Active
  <2>4. Active' => \A h \in Genesis..(height' - 1) : Covered(h)'
    BY <2>1, <2>2, <2>3
  <2> QED
    BY <2>2, <2>3, <2>4 DEF PassedCovered
<1>4. CASE \/ ~Active' /\ UNCHANGED <<cursor, head>>
           \/ Active /\ Active' /\ UNCHANGED <<cursor, height, target, head>>
           \/ ProduceBlock
  <2>1. cursor' = cursor /\ (Active' => Active /\ height' = height)
    BY <1>4 DEF ProduceBlock, Active, db, local
  <2>2. ASSUME NEW h \in Nat, Covered(h) PROVE Covered(h)'
    BY <2>2, CoveredStays
  <2>3. ASSUME Active', NEW h \in Genesis..(height' - 1) PROVE Covered(h)'
    <3>1. h \in Nat /\ Covered(h)
      BY <1>1, <2>1, <2>3 DEF PassedCovered
    <3> QED
      BY <2>2, <3>1
  <2>4. ASSUME cursor' # NoCursor, NEW h \in Genesis..cursor' PROVE Covered(h)'
    <3>1. h \in Nat /\ Covered(h)
      BY <1>1, <2>1, <2>4 DEF PassedCovered
    <3> QED
      BY <2>2, <3>1
  <2> QED
    BY <2>3, <2>4 DEF PassedCovered
<1> QED
  BY <1>2, <1>3, <1>4, LoopCases

\* Each step leaves behind what the next one in processHeight takes for granted.
LEMMA StepPlace == ASSUME IInv, [Next]_vars PROVE PlaceOK'
<1>1. TypeOK /\ HeightsOK /\ PlaceOK /\ EpochsOK
  BY DEF IInv
<1>2. /\ DOMAIN epochs \subseteq DOMAIN epochs' /\ DOMAIN rewards \subseteq DOMAIN rewards'
      /\ TypeOK'
  BY RowsStay, StepType
<1>3. CASE pc' \in {"tick", "height", "down"}
  BY <1>3 DEF PlaceOK
<1>4. CASE UNCHANGED <<pc, height>>
  <2>1. (pc = "cursor" => Covered(height)) /\ height \in Nat
    BY <1>1 DEF PlaceOK, TypeOK
  <2>2. PICK h \in Nat : h = height
    BY <2>1
  <2>3. pc = "cursor" => Covered(h)'
    BY <2>1, <2>2, CoveredStays
  <2>4. pc' = "cursor" => Covered(height)'
    BY <1>4, <2>2, <2>3 DEF Covered
  <2> QED
    BY <1>1, <1>2, <1>4, <2>4 DEF PlaceOK
<1>5. CASE MicroBlock \/ Checkpoint
  <2>1. height \in Nat /\ UNCHANGED <<height, epochs, rewards>>
    BY <1>1, <1>5 DEF MicroBlock, Checkpoint, TypeOK, db, local
  <2>2. CASE MicroBlock
    <3>1. ~IsBatchEnd(height) /\ ~IsElection(height) /\ pc' = "cursor"
      BY <2>1, <2>2, ElectionEndsBatch DEF MicroBlock
    <3>2. Covered(height)'
      BY <2>1, <3>1 DEF Covered
    <3> QED
      BY <3>1, <3>2 DEF PlaceOK
  <2>3. CASE Checkpoint
    BY <2>1, <2>3 DEF Checkpoint, PlaceOK
  <2> QED
    BY <1>5, <2>2, <2>3
<1>6. CASE SkipElection \/ GetValidator
  <2>1. height \in Nat /\ height >= Genesis /\ UNCHANGED <<height, epochs, rewards>> /\ IsElection(height)
    BY <1>1, <1>6 DEF SkipElection, GetValidator, TypeOK, HeightsOK, Active, db, local
  <2>2. IsBatchEnd(height)
    BY <2>1, ElectionEndsBatch
  <2>3. CASE SkipElection
    <3>1. EpochAt(height) + 1 \in DOMAIN epochs
      BY <1>1, <2>1, <2>3, ElectedFacts DEF SkipElection, KnownElection, EpochsOK
    <3> QED
      BY <2>1, <2>2, <2>3, <3>1 DEF SkipElection, PlaceOK
  <2>4. CASE GetValidator
    BY <2>1, <2>4 DEF GetValidator, PlaceOK
  <2> QED
    BY <1>6, <2>3, <2>4
<1>7. CASE GetStakers
  BY <1>1, <1>7 DEF GetStakers, PlaceOK
<1>8. CASE EpochsInserted
  BY <1>1, <1>8 DEF EpochsInserted, PlaceOK, EpochsOK, db
<1>9. CASE ElectionDone
  <2>1. IsElection(height) /\ height \in Nat
    BY <1>1, <1>9 DEF ElectionDone, PlaceOK, TypeOK
  <2>2. IsBatchEnd(height)
    BY <2>1, ElectionEndsBatch
  <2> QED
    BY <1>1, <1>9, <2>2 DEF ElectionDone, PlaceOK, db, local
<1>10. CASE SkipCheckpoint
  <2>1. height \in Nat /\ (BatchAt(height) = 0 => height <= Genesis)
    BY <1>1, HeightRange, PolicyAssumption DEF TypeOK
  <2>2. Covered(height)
    BY <1>1, <1>10, <2>1, PolicyAssumption DEF SkipCheckpoint, RewardExists, PlaceOK, Covered
  <2>3. UNCHANGED <<height, epochs, rewards>> /\ pc' = "cursor"
    BY <1>10 DEF SkipCheckpoint, db, local
  <2>4. Covered(height)'
    BY <2>2, <2>3 DEF Covered
  <2> QED
    BY <2>3, <2>4 DEF PlaceOK
<1>11. CASE CheckpointDone
  <2>1. Covered(height)
    BY <1>1, <1>11 DEF CheckpointDone, PlaceOK, Covered
  <2>2. UNCHANGED <<height, epochs, rewards>> /\ pc' = "cursor"
    BY <1>11 DEF CheckpointDone, db, local
  <2>3. Covered(height)'
    BY <2>1, <2>2 DEF Covered
  <2> QED
    BY <2>2, <2>3 DEF PlaceOK
<1>12. CASE InsertReward
  <2>1. height > Genesis /\ RewardBatch(height) \in DOMAIN rewards'
    BY <1>12, RewardRow
  <2>2. UNCHANGED <<height, epochs>> /\ pc = "checkpoint" /\ pc' = "credits"
    BY <1>12 DEF InsertReward
  <2> QED
    BY <1>1, <2>1, <2>2 DEF PlaceOK
<1>13. CASE \/ InsertEpoch
            \/ \E r \in newStakers : PassStaker(r) \/ InsertStaker(r)
            \/ \E a \in credits : InsertPayslip(a)
  BY <1>4, <1>13, TurnFacts DEF InsertEpoch, InsertPayslip
<1>14. CASE \/ Tick \/ IdleTick \/ MissingEpoch \/ UpsertCursor \/ Restart \/ Fail \/ StatementFails
            \/ CursorReadFails \/ Crash \/ ProduceBlock \/ Move \/ UNCHANGED vars
  BY <1>3, <1>4, <1>14 DEF Tick, IdleTick, MissingEpoch, UpsertCursor, Restart, Fail, StatementFails,
     CursorReadFails, Crash, ProduceBlock, Move, StartAt, EndLoop, vars, local
<1> QED
  BY <1>5, <1>6, <1>8, <1>9, <1>10, <1>11, <1>12, <1>13, <1>14, <1>7, NextCases DEF Aside

\* The epochs still to be inserted are those of the election the loop is at.
LEMMA StepEpochs == ASSUME IInv, [Next]_vars PROVE EpochsOK'
<1>1. TypeOK /\ HeightsOK /\ EpochsOK
  BY DEF IInv
<1>2. CASE InsertEpoch
  <2>1. PICK e \in Nat :
          /\ DOMAIN epochs' = DOMAIN epochs \cup {e}
          /\ Pending = Pending' \cup {e} /\ e \notin Pending'
          /\ \/ e = EpochAt(height) + 1 /\ newEpochs' = <<>>
             \/ e = 1 /\ EpochAt(height) = 0 /\ newEpochs' = <<0>>
             \/ e = 0 /\ EpochAt(height) = 0 /\ newEpochs' = <<>> /\ 1 \in DOMAIN epochs
    BY <1>2, EpochRow
  <2>2. UNCHANGED <<pc, height>> /\ pc = "epochs" /\ height \in Nat
    BY <1>1, <1>2 DEF InsertEpoch, TypeOK
  <2>3. EpochAt(height) \in Nat
    BY <2>2, HeightRange
  <2>4. 0 \in DOMAIN epochs' => 1 \in DOMAIN epochs'
    BY <1>1, <2>1, <2>3 DEF EpochsOK
  <2>5. \A x \in Pending' : x \notin DOMAIN epochs'
    BY <1>1, <2>1, <2>2 DEF EpochsOK
  <2>6. newEpochs' = <<>> => EpochAt(height) + 1 \in DOMAIN epochs'
    <3>1. <<0>> # <<>>
      OBVIOUS
    <3> QED
      BY <2>1, <3>1
  <2>7. newEpochs' # <<>> => newEpochs' = <<0>> /\ 1 \in DOMAIN epochs' /\ EpochAt(height) = 0
    BY <2>1
  <2> QED
    BY <2>2, <2>4, <2>5, <2>6, <2>7 DEF EpochsOK
<1>3. CASE newEpochs' = ElectedEpochs(height) /\ (GetValidator \/ GetStakers)
  <2>1. height \in Nat /\ height >= Genesis
    BY <1>1, <1>3 DEF GetValidator, GetStakers, TypeOK, HeightsOK, Active
  <2>2. ~KnownElection /\ UNCHANGED <<height, epochs>>
    BY <1>1, <1>3 DEF GetValidator, GetStakers, EpochsOK, db
  <2>3. \A x \in Pending' : x \notin DOMAIN epochs
    BY <1>3, <2>2 DEF KnownElection, Pending
  <2>4. newEpochs' # <<>>
    BY <1>3, <2>1, ElectedFacts
  <2>5. newEpochs' = ElectedEpochs(height)'
    BY <1>3, <2>2 DEF ElectedEpochs
  <2>6. pc' = "epochs"
    <3>1. CASE GetStakers
      BY <3>1 DEF GetStakers
    <3>2. CASE GetValidator
      <4>1. pc = "height" /\ newEpochs = <<>>
        BY <1>1, <3>2 DEF GetValidator, EpochsOK
      <4> QED
        BY <2>4, <3>2, <4>1 DEF GetValidator
    <3> QED
      BY <1>3, <3>1, <3>2
  <2> QED
    BY <1>1, <2>2, <2>3, <2>4, <2>5, <2>6 DEF EpochsOK
<1>4. CASE newEpochs' # ElectedEpochs(height) /\ (GetValidator \/ GetStakers)
  <2>1. /\ pc = "height" /\ pc' = "listing" /\ ~KnownElection
        /\ UNCHANGED <<newEpochs, height, epochs>>
    BY <1>4 DEF GetValidator, GetStakers, db
  <2>2. ~KnownElection'
    BY <2>1 DEF KnownElection, ElectedEpochs
  <2> QED
    BY <1>1, <2>1, <2>2 DEF EpochsOK
<1>5. CASE /\ epochs' = epochs
           /\ \/ UNCHANGED <<pc, height, newEpochs>>
              \/ pc' \notin {"listing", "epochs"} /\ newEpochs' = <<>>
  <2>1. CASE UNCHANGED <<pc, height, newEpochs>>
    BY <1>1, <1>5, <2>1 DEF EpochsOK, Pending, ElectedEpochs, KnownElection
  <2>2. CASE pc' \notin {"listing", "epochs"} /\ newEpochs' = <<>>
    BY <1>1, <1>5, <2>2 DEF EpochsOK
  <2> QED
    BY <1>5, <2>1, <2>2
<1>6. CASE (\E r \in newStakers : PassStaker(r) \/ InsertStaker(r)) \/ (\E a \in credits : InsertPayslip(a))
  BY <1>5, <1>6, TurnFacts DEF InsertPayslip
<1>7. CASE InsertReward
  BY <1>1, <1>5, <1>7 DEF InsertReward, EpochsOK
<1>8. CASE Aside /\ ~GetValidator /\ ~GetStakers
  <2>1. epochs' = epochs
    BY <1>8 DEF Aside
  <2>2. CASE \/ Tick \/ CursorReadFails \/ MicroBlock \/ Checkpoint \/ SkipElection \/ EpochsInserted
             \/ ElectionDone \/ SkipCheckpoint \/ MissingEpoch \/ CheckpointDone \/ UpsertCursor
             \/ Restart \/ Fail \/ StatementFails \/ Crash
    <3>1. pc' \notin {"listing", "epochs"} /\ newEpochs' \in {<<>>, newEpochs} /\ (pc = "epochs" => newEpochs' = <<>>)
      BY <2>2 DEF Tick, CursorReadFails, MicroBlock, Checkpoint, SkipElection, EpochsInserted,
         ElectionDone, SkipCheckpoint, MissingEpoch, CheckpointDone, UpsertCursor, Restart, Fail,
         StatementFails, Crash, StartAt, EndLoop, local
    <3> QED
      BY <1>1, <1>5, <2>1, <3>1 DEF EpochsOK
  <2>3. CASE IdleTick \/ ProduceBlock \/ Move \/ UNCHANGED vars
    BY <1>5, <2>1, <2>3 DEF IdleTick, ProduceBlock, Move, vars, local
  <2> QED
    BY <1>8, <2>2, <2>3 DEF Aside
<1> QED
  BY <1>2, <1>3, <1>6, <1>7, <1>8, <1>4, NextCases DEF Aside

\* A snapshot to come is that of an epoch nothing has been rewarded for.
LEMMA StepSnapshot == ASSUME IInv, [Next]_vars PROVE SnapshotOK'
<1>1. TypeOK /\ HeightsOK /\ EpochsOK /\ SnapshotOK
  BY DEF IInv
<1>2. ASSUME newStakers' = {} PROVE SnapshotOK'
  BY <1>2 DEF SnapshotOK
<1>3. ASSUME newStakers' \subseteq newStakers,
             pc' = pc \/ pc' \in {"epochs", "stakers"},
             UNCHANGED <<height, rewards>>,
             DOMAIN epochs \cup Pending \subseteq DOMAIN epochs' \cup Pending'
      PROVE  SnapshotOK'
  BY <1>1, <1>3 DEF SnapshotOK
<1>4. CASE InsertEpoch
  <2>1. DOMAIN epochs \cup Pending \subseteq DOMAIN epochs' \cup Pending'
    BY <1>4, EpochRow
  <2> QED
    BY <1>3, <1>4, <2>1 DEF InsertEpoch
<1>5. ASSUME NEW r \in newStakers, PassStaker(r) \/ InsertStaker(r) PROVE SnapshotOK'
  <2>1. UNCHANGED <<pc, height, rewards, epochs, newEpochs>> /\ newStakers' = newStakers \ {r}
    BY <1>5, TurnFacts
  <2>2. DOMAIN epochs \cup Pending \subseteq DOMAIN epochs' \cup Pending'
    BY <2>1 DEF Pending
  <2> QED
    BY <1>3, <2>1, <2>2
<1>6. CASE InsertReward \/ (\E a \in credits : InsertPayslip(a))
  BY <1>1, <1>2, <1>6 DEF InsertReward, InsertPayslip, SnapshotOK
<1>7. CASE GetStakers
  <2>1. height \in Nat /\ height >= Genesis /\ ~KnownElection
    BY <1>1, <1>7 DEF GetStakers, TypeOK, HeightsOK, EpochsOK, Active
  <2>2. /\ newEpochs' = ElectedEpochs(height) /\ pc' = "epochs" /\ UNCHANGED <<height, epochs, rewards>>
        /\ newStakers' \subseteq {ElectedEpochs(height)[i] : i \in DOMAIN ElectedEpochs(height)} \X delegated
    BY <1>7 DEF GetStakers, db
  <2>3. \A b \in DOMAIN rewards : rewards[b].epoch \in DOMAIN epochs
    BY <1>1 DEF TypeOK
  <2>4. ASSUME NEW r \in newStakers'
        PROVE  /\ r[1] \in Pending' /\ r[1] \in {0, EpochAt(height) + 1}
               /\ r[1] \notin DOMAIN epochs
    <3>1. PICK i \in DOMAIN ElectedEpochs(height) : r[1] = ElectedEpochs(height)[i]
      BY <2>2, <2>4
    <3>2. r[1] \in Pending'
      BY <2>2, <3>1 DEF Pending
    <3>3. r[1] \in {0, EpochAt(height) + 1}
      BY <2>1, <3>1, ElectedFacts
    <3>4. r[1] \notin DOMAIN epochs
      BY <2>1, <3>1 DEF KnownElection
    <3> QED
      BY <3>2, <3>3, <3>4
  <2> QED
    BY <2>2, <2>3, <2>4 DEF SnapshotOK
<1>8. CASE EpochsInserted \/ IdleTick \/ ProduceBlock \/ Move \/ UNCHANGED vars
  <2>1. /\ UNCHANGED <<newStakers, newEpochs, height, rewards, epochs>>
        /\ pc' = pc \/ pc' = "stakers"
    BY <1>8 DEF EpochsInserted, IdleTick, ProduceBlock, Move, vars, db, local
  <2>2. DOMAIN epochs \cup Pending \subseteq DOMAIN epochs' \cup Pending'
    BY <2>1 DEF Pending
  <2> QED
    BY <1>3, <2>1, <2>2
<1>9. CASE \/ Tick \/ CursorReadFails \/ MicroBlock \/ Checkpoint \/ SkipElection \/ GetValidator
           \/ ElectionDone \/ SkipCheckpoint \/ MissingEpoch \/ CheckpointDone \/ UpsertCursor
           \/ Restart \/ Fail \/ StatementFails \/ Crash
  <2>1. \/ newStakers' = {}
        \/ newStakers' = newStakers /\ pc \notin {"epochs", "stakers"}
    BY <1>9 DEF Tick, CursorReadFails, MicroBlock, Checkpoint, SkipElection, GetValidator,
         ElectionDone, SkipCheckpoint, MissingEpoch, CheckpointDone, UpsertCursor, Restart, Fail,
         StatementFails, Crash, StartAt, local
  <2> QED
    BY <1>1, <1>2, <2>1 DEF SnapshotOK
<1> QED
  BY <1>4, <1>5, <1>6, <1>7, <1>8, <1>9, NextCases DEF Aside

\* A rewarded epoch's stakers stay as they are.
LEMMA StakersStay ==
  ASSUME IInv, [Next]_vars, NEW b \in DOMAIN rewards
  PROVE  StakersOf(rewards[b].epoch)' = StakersOf(rewards[b].epoch)
<1>1. rewards'[b] = rewards[b]
  BY RowsStay
<1>2. \/ stakers' = stakers
      \/ \E r \in newStakers : stakers' = stakers \cup {r}
  BY NextCases, TurnFacts DEF Aside, InsertEpoch, InsertReward, InsertPayslip
<1>3. CASE stakers' = stakers
  BY <1>1, <1>3 DEF StakersOf
<1>4. ASSUME NEW r \in newStakers, stakers' = stakers \cup {r}
      PROVE  StakersOf(rewards[b].epoch)' = StakersOf(rewards[b].epoch)
  <2>1. rewards[b].epoch # r[1]
    BY DEF IInv, SnapshotOK
  <2>2. \A a : <<rewards[b].epoch, a>> \in stakers' <=> <<rewards[b].epoch, a>> \in stakers
    BY <1>4, <2>1
  <2> QED
    BY <1>1, <2>2 DEF StakersOf
<1> QED
  BY <1>2, <1>3, <1>4

\* A staker without an active balance is passed over.
LEMMA StepStaked == ASSUME IInv, [Next]_vars PROVE RowsStaked'
<1>1. RowsStaked
  BY DEF IInv
<1>2. CASE stakers' = stakers
  BY <1>1, <1>2 DEF RowsStaked
<1>3. ASSUME NEW r \in newStakers, PassStaker(r) \/ InsertStaker(r) PROVE RowsStaked'
  BY <1>1, <1>2, <1>3, TurnFacts DEF RowsStaked
<1> QED
  BY <1>2, <1>3, NextCases DEF Aside, InsertEpoch, InsertReward, InsertPayslip

\* The rows that the credits are about change by two kinds of steps.
LEMMA CreditCases ==
  ASSUME IInv, [Next]_vars
  PROVE  \/ UNCHANGED <<rewards, payslips>> /\ (pc' # "credits" \/ UNCHANGED <<pc, height, credits>>)
         \/ InsertReward
         \/ \E a \in credits : InsertPayslip(a)
BY NextCases, TurnFacts DEF Aside, InsertEpoch, Tick, CursorReadFails, MicroBlock, Checkpoint,
   SkipElection, GetValidator, GetStakers, EpochsInserted, ElectionDone, SkipCheckpoint, MissingEpoch,
   CheckpointDone, UpsertCursor, Restart, Fail, StatementFails, Crash, StartAt, EndLoop, IdleTick,
   ProduceBlock, Move, vars, db, local

\* The credits to come are those of stakers whom the batch has not credited.
LEMMA StepCredits == ASSUME IInv, [Next]_vars PROVE CreditsOK'
<1>1. TypeOK /\ PlaceOK /\ CreditsOK
  BY DEF IInv
<1>2. CASE UNCHANGED <<rewards, payslips>> /\ (pc' # "credits" \/ UNCHANGED <<pc, height, credits>>)
  <2> SUFFICES ASSUME pc' = "credits", UNCHANGED <<pc, height, credits>> PROVE CreditsOK'
    BY <1>2 DEF CreditsOK
  <2>1. PICK b \in DOMAIN rewards : b = RewardBatch(height)
    BY <1>1 DEF PlaceOK
  <2>2. StakersOf(rewards[b].epoch)' = StakersOf(rewards[b].epoch)
    BY StakersStay
  <2>3. RewardBatch(height)' = b
    BY <2>1 DEF RewardBatch
  <2>4. credits' \subseteq StakersOf(rewards[RewardBatch(height)].epoch)'
    BY <1>1, <2>1, <2>2, <2>3 DEF CreditsOK, StakersOf
  <2> QED
    BY <1>1, <1>2, <2>1, <2>3, <2>4 DEF CreditsOK
<1>3. CASE InsertReward
  <2>1. PICK b \in Nat, e \in DOMAIN epochs, amount \in Nat :
          /\ b = RewardBatch(height) /\ b \notin DOMAIN rewards
          /\ rewards'[b] = [epoch |-> e, amount |-> amount]
          /\ credits' = Credited(amount, StakersOf(e))
    BY <1>3, RewardRow
  <2>2. UNCHANGED <<height, stakers, payslips>>
    BY <1>3 DEF InsertReward
  <2>3. RewardBatch(height)' = b /\ rewards'[b].epoch = e
    BY <2>1, <2>2 DEF RewardBatch
  <2>4. credits' \subseteq StakersOf(rewards[RewardBatch(height)].epoch)'
    BY <2>1, <2>2, <2>3 DEF Credited, StakersOf
  <2>5. \A p \in payslips : p.batch # b
    BY <1>1, <2>1 DEF TypeOK
  <2> QED
    BY <2>2, <2>3, <2>4, <2>5 DEF CreditsOK
<1>4. ASSUME NEW a \in credits, InsertPayslip(a) PROVE CreditsOK'
  <2>1. PICK b \in DOMAIN rewards, p \in Slip :
          /\ b = RewardBatch(height) /\ pc = "credits"
          /\ p.batch = b /\ p.addr = a
          /\ payslips' = payslips \cup {p} /\ credits' = credits \ {a}
    BY <1>4, SlipRow
  <2>2. UNCHANGED <<height, stakers, rewards>>
    BY <1>4 DEF InsertPayslip
  <2>3. RewardBatch(height)' = b /\ StakersOf(rewards[b].epoch)' = StakersOf(rewards[b].epoch)
    BY <2>1, <2>2 DEF RewardBatch, StakersOf
  <2>4. credits' \subseteq StakersOf(rewards[RewardBatch(height)].epoch)'
    BY <1>1, <2>1, <2>2, <2>3 DEF CreditsOK, StakersOf
  <2>5. \A q \in payslips' : q.batch = b => q.addr \notin credits'
    BY <1>1, <2>1 DEF CreditsOK
  <2> QED
    BY <2>3, <2>4, <2>5 DEF CreditsOK
<1> QED
  BY <1>2, <1>3, <1>4, CreditCases

\* A batch that is handled again finds its reward, or inserts no payslip.
LEMMA StepOnce == ASSUME IInv, [Next]_vars PROVE CreditedOnce'
<1>1. CreditedOnce
  BY DEF IInv
<1>2. CASE payslips' = payslips
  BY <1>1, <1>2 DEF CreditedOnce
<1>3. ASSUME NEW a \in credits, InsertPayslip(a) PROVE CreditedOnce'
  <2>1. PICK b \in DOMAIN rewards, p \in Slip :
          /\ p.batch = b /\ p.addr = a
          /\ \A q \in payslips : ~(q.batch = b /\ q.addr = a)
          /\ payslips' = payslips \cup {p}
    BY <1>3, SlipRow
  <2> QED
    BY <1>1, <2>1 DEF CreditedOnce
<1> QED
  BY <1>2, <1>3, CreditCases DEF InsertReward

\* A reward is filed under the epoch of the blocks of its batch: it is the batch before,
\* and so is the block that the epoch is taken from.
LEMMA StepEpochOf == ASSUME IInv, [Next]_vars PROVE RightEpoch'
<1>1. TypeOK /\ RightEpoch
  BY DEF IInv
<1>2. CASE UNCHANGED <<rewards, payslips>>
  <2>1. stakers \subseteq stakers'
    BY RowsStay
  <2> QED
    BY <1>1, <1>2, <2>1 DEF RightEpoch
<1>3. CASE InsertReward
  <2>1. PICK b \in Nat, e \in DOMAIN epochs, amount \in Nat :
          /\ b = RewardBatch(height) /\ height > Genesis /\ e = RewardEpoch(height)
          /\ b \notin DOMAIN rewards
          /\ DOMAIN rewards' = DOMAIN rewards \cup {b}
          /\ rewards'[b] = [epoch |-> e, amount |-> amount]
          /\ \A x \in DOMAIN rewards : rewards'[x] = rewards[x]
    BY <1>3, RewardRow
  <2>2. UNCHANGED <<stakers, payslips>> /\ pc = "checkpoint"
    BY <1>3 DEF InsertReward
  <2>3. \A g \in BlocksOf(b) : EpochAt(g) = e
    BY <2>1, <2>2, RewardedBatch DEF IInv, TypeOK, PlaceOK
  <2>4. \A x \in DOMAIN rewards' : \A g \in BlocksOf(x) : EpochAt(g) = rewards'[x].epoch
    BY <1>1, <2>1, <2>3 DEF RightEpoch
  <2>5. \A p \in payslips : p.batch \in DOMAIN rewards
    BY <1>1 DEF TypeOK
  <2>6. \A p \in payslips' : <<rewards'[p.batch].epoch, p.addr>> \in stakers'
    BY <1>1, <2>1, <2>2, <2>5 DEF RightEpoch
  <2> QED
    BY <2>4, <2>6 DEF RightEpoch
<1>4. ASSUME NEW a \in credits, InsertPayslip(a) PROVE RightEpoch'
  <2>1. PICK b \in DOMAIN rewards, p \in Slip :
          /\ a \in StakersOf(rewards[b].epoch)
          /\ p.batch = b /\ p.addr = a
          /\ payslips' = payslips \cup {p}
    BY <1>4, SlipRow
  <2>2. UNCHANGED <<stakers, rewards>>
    BY <1>4 DEF InsertPayslip
  <2>3. <<rewards[p.batch].epoch, p.addr>> \in stakers
    BY <2>1 DEF StakersOf
  <2> QED
    BY <1>1, <2>1, <2>2, <2>3 DEF RightEpoch
<1> QED
  BY <1>2, <1>3, <1>4, CreditCases

\* A reward is stored as what the fee leaves.
LEMMA StepAmounts == ASSUME IInv, [Next]_vars PROVE AmountsOK'
<1>1. AmountsOK
  BY DEF IInv
<1>2. CASE rewards' = rewards
  BY <1>1, <1>2 DEF AmountsOK
<1>3. CASE InsertReward
  <2>1. PICK b \in 0..MaxHead, e \in DOMAIN epochs, amount \in Nat :
          /\ amount = AfterFee(Reward[b])
          /\ DOMAIN rewards' = DOMAIN rewards \cup {b}
          /\ rewards'[b] = [epoch |-> e, amount |-> amount]
          /\ \A x \in DOMAIN rewards : rewards'[x] = rewards[x]
    BY <1>3, RewardRow
  <2> QED
    BY <1>1, <2>1 DEF AmountsOK
<1> QED
  BY <1>2, <1>3, CreditCases DEF InsertPayslip

\* The payslips of a batch, and their stakers.
LEMMA SlipsFacts ==
  ASSUME IInv, NEW b
  PROVE  /\ SlipsOf(b) \in SUBSET Slip /\ IsFiniteSet(SlipsOf(b))
         /\ SlipSum(SlipsOf(b)) \in Nat
         /\ PaidOf(b) \in SUBSET Addrs
         /\ b \in DOMAIN rewards => PaidOf(b) \subseteq StakersOf(rewards[b].epoch)
<1>1. SlipsOf(b) \in SUBSET Slip
  BY DEF IInv, TypeOK, SlipsOf, Slip
<1>2. IsFiniteSet(SlipsOf(b))
  BY FS_Subset DEF IInv, FiniteRows, SlipsOf
<1>3. SlipSum(SlipsOf(b)) \in Nat
  <2>1. Amounts \in [Slip -> Nat]
    BY DEF Amounts, Slip
  <2> QED
    BY <1>1, <1>2, <2>1, SlipSums, SumType
<1>4. PaidOf(b) \in SUBSET Addrs
  BY <1>1 DEF PaidOf, Slip
<1>5. ASSUME b \in DOMAIN rewards PROVE PaidOf(b) \subseteq StakersOf(rewards[b].epoch)
  BY <1>4 DEF IInv, RightEpoch, PaidOf, SlipsOf, StakersOf
<1> QED
  BY <1>1, <1>2, <1>3, <1>4, <1>5

\* A credit adds at most its share to what the batch has paid, and its stake to what it has
\* paid for; the snapshot of a rewarded epoch does not change.
LEMMA StepProportional == ASSUME IInv, [Next]_vars PROVE Proportional'
<1>1. TypeOK /\ Proportional
  BY DEF IInv
<1>2. ASSUME NEW b \in DOMAIN rewards, SlipsOf(b)' = SlipsOf(b)
      PROVE  (SlipSum(SlipsOf(b)) * Total(StakersOf(rewards[b].epoch))
               <= rewards[b].amount * Total(PaidOf(b)))'
  <2>1. PICK s : s = SlipsOf(b)
    OBVIOUS
  <2>2. PICK S : S = StakersOf(rewards[b].epoch)
    OBVIOUS
  <2>3. SlipsOf(b)' = s /\ StakersOf(rewards[b].epoch)' = S /\ rewards'[b] = rewards[b]
    BY <1>2, <2>1, <2>2, StakersStay, RowsStay
  <2>4. SlipSum(s) * Total(S) <= rewards[b].amount * Total({p.addr : p \in s})
    BY <1>1, <2>1, <2>2 DEF Proportional, PaidOf
  <2>5. PaidOf(b)' = {p.addr : p \in s}
    BY <2>3 DEF PaidOf
  <2> QED
    BY <2>3, <2>4, <2>5
<1>3. CASE UNCHANGED <<rewards, payslips>>
  <2>1. \A b \in DOMAIN rewards : SlipsOf(b)' = SlipsOf(b)
    BY <1>3 DEF SlipsOf
  <2> QED
    BY <1>2, <1>3, <2>1 DEF Proportional
<1>4. CASE InsertReward
  <2>1. PICK b \in Nat, e \in DOMAIN epochs, amount \in Nat :
          /\ b \notin DOMAIN rewards /\ DOMAIN rewards' = DOMAIN rewards \cup {b}
          /\ rewards'[b] = [epoch |-> e, amount |-> amount]
    BY <1>4, RewardRow
  <2>2. payslips' = payslips
    BY <1>4 DEF InsertReward
  <2>3. SlipsOf(b)' = {} /\ PaidOf(b)' = {}
    <3>1. \A p \in payslips : p.batch # b
      BY <1>1, <2>1 DEF TypeOK
    <3>2. SlipsOf(b)' = {}
      BY <2>2, <3>1 DEF SlipsOf
    <3> QED
      BY <3>2 DEF PaidOf
  <2>4. SlipSum({}) = 0 /\ Total({}) = 0
    <3>1. SlipSum({}) = Sum(Amounts, {})
      BY SlipSums
    <3>2. Total({}) = Sum(Stake, {})
      BY TotalType
    <3> QED
      BY <3>1, <3>2, SumEmpty
  <2>5. PICK S \in SUBSET Addrs : S = StakersOf(rewards[b].epoch)'
    BY DEF StakersOf
  <2>6. Total(S) \in Nat
    BY TotalType
  <2>7. (SlipSum(SlipsOf(b)) * Total(StakersOf(rewards[b].epoch))
           <= rewards[b].amount * Total(PaidOf(b)))'
    <3>1. 0 * Total(S) <= amount * 0
      BY <2>6
    <3> QED
      BY <2>1, <2>3, <2>4, <2>5, <3>1
  <2>8. \A x \in DOMAIN rewards : SlipsOf(x)' = SlipsOf(x)
    BY <2>2 DEF SlipsOf
  <2> QED
    BY <1>2, <2>1, <2>7, <2>8 DEF Proportional
<1>5. ASSUME NEW a \in credits, InsertPayslip(a) PROVE Proportional'
  <2>1. PICK b \in DOMAIN rewards, p \in Slip :
          /\ a \in StakersOf(rewards[b].epoch) /\ Stake[a] > 0
          /\ p.batch = b /\ p.addr = a
          /\ p.amount = Share(rewards[b].amount, a, StakersOf(rewards[b].epoch))
          /\ \A q \in payslips : ~(q.batch = b /\ q.addr = a)
          /\ p \notin payslips
          /\ payslips' = payslips \cup {p}
    BY <1>5, SlipRow
  <2>2. rewards' = rewards /\ stakers' = stakers
    BY <1>5 DEF InsertPayslip
  <2>3. ASSUME NEW x \in DOMAIN rewards, x # b PROVE SlipsOf(x)' = SlipsOf(x)
    BY <2>1, <2>3 DEF SlipsOf
  <2>4. PICK P \in SUBSET Slip : P = SlipsOf(b) /\ IsFiniteSet(P)
    BY SlipsFacts
  <2>5. PICK A \in SUBSET Addrs : A = PaidOf(b)
    BY SlipsFacts
  <2>6. PICK S \in SUBSET Addrs : S = StakersOf(rewards[b].epoch)
    BY DEF StakersOf
  <2>7. PICK amount \in Nat : amount = rewards[b].amount
    BY <1>1 DEF TypeOK
  <2>8. SlipsOf(b)' = P \cup {p} /\ p \notin P
    BY <2>1, <2>4 DEF SlipsOf
  <2>9. PaidOf(b)' = A \cup {a} /\ a \notin A
    <3>1. PaidOf(b)' = {q.addr : q \in P \cup {p}}
      BY <2>8 DEF PaidOf
    <3>2. A = {q.addr : q \in P}
      BY <2>4, <2>5 DEF PaidOf
    <3>3. a \notin A
      BY <2>1, <2>4, <3>2 DEF SlipsOf
    <3> QED
      BY <2>1, <3>1, <3>2, <3>3
  <2>10. SlipSum(P \cup {p}) = SlipSum(P) + p.amount /\ SlipSum(P) \in Nat
    <3>1. Amounts \in [Slip -> Nat] /\ Amounts[p] = p.amount
      BY DEF Amounts, Slip
    <3>2. Sum(Amounts, P \cup {p}) = Sum(Amounts, P) + Amounts[p]
      BY <2>4, <2>8, <3>1, SumAdd
    <3>3. SlipSum(P) = Sum(Amounts, P) /\ SlipSum(P \cup {p}) = Sum(Amounts, P \cup {p})
      BY SlipSums
    <3> QED
      BY <2>4, <3>1, <3>2, <3>3, SumType
  <2>11. Total(A \cup {a}) = Total(A) + Stake[a] /\ Total(A) \in Nat
    <3>1. Stake \in [Addrs -> Nat] /\ IsFiniteSet(A) /\ a \in Addrs
      BY <2>1, <2>6, ReplayAssumption, TotalType
    <3>2. Sum(Stake, A \cup {a}) = Sum(Stake, A) + Stake[a]
      BY <2>9, <3>1, SumAdd
    <3>3. A \cup {a} \in SUBSET Addrs
      BY <3>1
    <3> QED
      BY <3>2, <3>3, TotalType
  <2>12. SlipSum(P) * Total(S) <= amount * Total(A)
    BY <1>1, <2>4, <2>5, <2>6, <2>7 DEF Proportional
  <2>13. p.amount \in Nat /\ p.amount * Total(S) <= amount * Stake[a]
    BY <2>1, <2>6, <2>7, ShareBound
  <2>14. (SlipSum(P) + p.amount) * Total(S) <= amount * (Total(A) + Stake[a])
    <3>1. Total(S) \in Nat /\ Stake[a] \in Nat
      BY <2>1, <2>6, ReplayAssumption, TotalType
    <3>2. (SlipSum(P) + p.amount) * Total(S) = SlipSum(P) * Total(S) + p.amount * Total(S)
      BY <2>10, <2>13, <3>1
    <3>3. amount * (Total(A) + Stake[a]) = amount * Total(A) + amount * Stake[a]
      BY <2>11, <3>1
    <3>4. SlipSum(P) * Total(S) \in Nat /\ p.amount * Total(S) \in Nat
          /\ amount * Total(A) \in Nat /\ amount * Stake[a] \in Nat
      BY <2>10, <2>11, <2>13, <3>1
    <3> QED
      BY <2>12, <2>13, <3>2, <3>3, <3>4
  <2>15. StakersOf(rewards[b].epoch)' = S /\ rewards'[b].amount = amount
    BY <2>2, <2>6, <2>7 DEF StakersOf
  <2>16. (SlipSum(SlipsOf(b)) * Total(StakersOf(rewards[b].epoch))
            <= rewards[b].amount * Total(PaidOf(b)))'
    BY <2>8, <2>9, <2>10, <2>11, <2>14, <2>15
  <2> QED
    BY <1>2, <2>2, <2>3, <2>16 DEF Proportional
<1> QED
  BY <1>3, <1>4, <1>5, CreditCases

\* Without a fault, the credits of a batch are done before the loop goes on.
LEMMA NoFaultCases ==
  ASSUME IInv, [Next]_vars, faults' = 0
  PROVE  /\ faults = 0
         /\ pc = "credits" /\ pc' # "credits" => credits = {}
         /\ ~StatementFails /\ ~Crash
<1>1. faults \in Nat
  BY ReplayAssumption DEF IInv, TypeOK
<1>2. faults = 0 /\ ~StatementFails /\ ~Crash /\ ~CursorReadFails
  <2>1. faults' \in {faults, faults + 1}
    BY NextCases, TurnFacts DEF Aside, InsertEpoch, InsertReward, InsertPayslip, Tick,
       CursorReadFails, MicroBlock, Checkpoint, SkipElection, GetValidator, GetStakers, EpochsInserted,
       ElectionDone, SkipCheckpoint, MissingEpoch, CheckpointDone, UpsertCursor, Restart, Fail,
       StatementFails, Crash, IdleTick, ProduceBlock, Move, vars
  <2>2. StatementFails \/ Crash \/ CursorReadFails => faults' = faults + 1
    BY DEF StatementFails, Crash, CursorReadFails
  <2> QED
    BY <1>1, <2>1, <2>2
<1>3. ASSUME pc = "credits", pc' # "credits" PROVE credits = {}
  BY <1>2, <1>3, NextCases, TurnFacts DEF Aside, InsertEpoch, InsertReward, InsertPayslip, Tick,
     MicroBlock, Checkpoint, SkipElection, GetValidator, GetStakers, EpochsInserted, ElectionDone,
     SkipCheckpoint, MissingEpoch, CheckpointDone, UpsertCursor, Restart, Fail, IdleTick,
     ProduceBlock, Move, StartAt, vars
<1> QED
  BY <1>2, <1>3

\* The cursor stays behind the loop.
LEMMA StepBehind ==
  ASSUME IInv, [Next]_vars, faults' = 0, Active'
  PROVE  cursor' = NoCursor \/ cursor' < height'
<1>1. TypeOK /\ faults = 0 /\ (Active => cursor = NoCursor \/ cursor < height)
  BY NoFaultCases DEF IInv, NothingLost
<1>2. CASE /\ height' = Start \/ (height' = Genesis /\ faults' = faults + 1)
           /\ UNCHANGED <<db, chain>>
  BY <1>1, <1>2 DEF Start, TypeOK, db
<1>3. CASE UpsertCursor
  BY <1>1, <1>3 DEF UpsertCursor, EndLoop, Active, TypeOK
<1>4. CASE (Active /\ UNCHANGED <<cursor, height, target, head>>) \/ ProduceBlock
  BY <1>1, <1>4 DEF ProduceBlock, Active, db, local
<1> QED
  BY <1>2, <1>3, <1>4, LoopCases

\* Every staker with an active balance that an epoch counts has its row, or is still to come.
LEMMA StepCounted ==
  ASSUME IInv, [Next]_vars, faults' = 0
  PROVE  \A e \in DOMAIN epochs' : WithStake(epochs'[e].counted) = Due(e)'
<1>1. /\ TypeOK /\ HeightsOK /\ SnapshotOK /\ EpochsOK /\ RowsStaked
      /\ \A e \in DOMAIN epochs : WithStake(epochs[e].counted) = Due(e)
  BY NoFaultCases DEF IInv, NothingLost
<1>2. ASSUME epochs' = epochs, \A e \in DOMAIN epochs : Due(e)' = Due(e)
      PROVE  \A e \in DOMAIN epochs' : WithStake(epochs'[e].counted) = Due(e)'
  BY <1>1, <1>2
<1>3. ASSUME UNCHANGED <<stakers, newStakers>>
      PROVE  \A e : Due(e)' = Due(e)
  BY <1>3 DEF Due
<1>4. CASE InsertEpoch
  <2>1. PICK e \in Nat, C \in SUBSET Addrs :
          /\ e \notin DOMAIN epochs
          /\ DOMAIN epochs' = DOMAIN epochs \cup {e}
          /\ epochs'[e] = [status |-> status, counted |-> C]
          /\ C = {a \in Addrs : <<e, a>> \in newStakers}
          /\ \A x \in DOMAIN epochs : epochs'[x] = epochs[x]
    BY <1>4, EpochRow
  <2>2. UNCHANGED <<stakers, newStakers>>
    BY <1>4 DEF InsertEpoch
  <2>3. Due(e)' = WithStake(C)
    <3>1. \A a : <<e, a>> \notin stakers
      BY <1>1, <2>1 DEF TypeOK
    <3> QED
      BY <2>1, <2>2, <3>1 DEF Due, WithStake
  <2>4. \A x \in DOMAIN epochs : WithStake(epochs'[x].counted) = Due(x)'
    BY <1>1, <1>3, <2>1, <2>2
  <2>5. epochs'[e].counted = C
    BY <2>1
  <2> QED
    BY <2>1, <2>3, <2>4, <2>5
<1>5. ASSUME NEW r \in newStakers, PassStaker(r) \/ InsertStaker(r)
      PROVE  epochs' = epochs /\ \A e \in DOMAIN epochs : Due(e)' = Due(e)
  <2>1. /\ newStakers' = newStakers \ {r} /\ epochs' = epochs
        /\ r = <<r[1], r[2]>>
        /\ \/ Stake[r[2]] = 0 /\ stakers' = stakers
           \/ Stake[r[2]] > 0 /\ stakers' = stakers \cup {r}
    BY <1>5, TurnFacts
  <2>2. ASSUME NEW e, NEW a \in Addrs
        PROVE  (<<e, a>> \in stakers' \/ (<<e, a>> \in newStakers' /\ Stake[a] > 0))
                 <=> (<<e, a>> \in stakers \/ (<<e, a>> \in newStakers /\ Stake[a] > 0))
    <3>1. CASE <<e, a>> = r
      <4>1. r[2] = a
        BY <3>1
      <4>2. CASE Stake[a] = 0
        BY <2>1, <3>1, <4>1, <4>2
      <4>3. CASE Stake[a] > 0
        BY <2>1, <3>1, <4>1, <4>3
      <4> QED
        BY <2>1, <4>1, <4>2, <4>3
    <3>2. CASE <<e, a>> # r
      BY <2>1, <3>2
    <3> QED
      BY <3>1, <3>2
  <2> QED
    BY <2>1, <2>2 DEF Due
<1>6. CASE InsertReward \/ (\E a \in credits : InsertPayslip(a))
  BY <1>2, <1>3, <1>6 DEF InsertReward, InsertPayslip
<1>7. CASE GetStakers
  <2>1. newStakers = {} /\ ~KnownElection /\ UNCHANGED <<epochs, stakers>>
    BY <1>1, <1>7 DEF GetStakers, SnapshotOK, EpochsOK, db
  <2>2. ASSUME NEW r \in newStakers' PROVE r[1] \notin DOMAIN epochs
    <3>1. PICK i \in DOMAIN ElectedEpochs(height) : r[1] = ElectedEpochs(height)[i]
      BY <1>7, <2>2 DEF GetStakers
    <3> QED
      BY <2>1, <3>1 DEF KnownElection
  <2>3. \A e \in DOMAIN epochs : Due(e)' = Due(e)
    BY <2>1, <2>2 DEF Due
  <2> QED
    BY <1>2, <2>1, <2>3
<1>8. CASE Aside /\ ~GetStakers
  <2>1. UNCHANGED <<epochs, stakers>>
    BY <1>8 DEF Aside
  <2>2. newStakers' = newStakers
    BY <1>8, NoFaultCases DEF Aside, Tick, CursorReadFails, MicroBlock, Checkpoint, SkipElection,
       GetValidator, EpochsInserted, ElectionDone, SkipCheckpoint, MissingEpoch, CheckpointDone,
       UpsertCursor, Restart, Fail, StartAt, IdleTick, ProduceBlock, Move, vars, local
  <2> QED
    BY <1>2, <1>3, <2>1, <2>2
<1> QED
  BY <1>2, <1>4, <1>5, <1>6, <1>7, <1>8, NextCases

\* Every staker with a share is credited or still to be.
LEMMA StepCredited ==
  ASSUME IInv, [Next]_vars, faults' = 0,
         NEW b \in DOMAIN rewards',
         NEW a, (a \in Credited(rewards[b].amount, StakersOf(rewards[b].epoch)))'
  PROVE  \/ a \in PaidOf(b)'
         \/ pc' = "credits" /\ b = RewardBatch(height)' /\ a \in credits'
<1>1. /\ TypeOK /\ faults = 0 /\ NothingLost
      /\ pc = "credits" /\ pc' # "credits" => credits = {}
  BY NoFaultCases DEF IInv
<1>2. PaidOf(b) \subseteq PaidOf(b)'
  BY RowsStay DEF PaidOf, SlipsOf
<1>3. ASSUME b \in DOMAIN rewards
      PROVE  \/ a \in PaidOf(b)
             \/ pc = "credits" /\ b = RewardBatch(height) /\ a \in credits
  <2>1. PICK S : S = StakersOf(rewards[b].epoch)
    OBVIOUS
  <2>2. StakersOf(rewards[b].epoch)' = S /\ rewards'[b] = rewards[b]
    BY <1>3, <2>1, StakersStay, RowsStay
  <2>3. a \in Credited(rewards[b].amount, S)
    BY <2>2
  <2> QED
    BY <1>1, <1>3, <2>1, <2>3 DEF NothingLost
<1>4. CASE UNCHANGED <<rewards, payslips>> /\ (pc' # "credits" \/ UNCHANGED <<pc, height, credits>>)
  BY <1>1, <1>2, <1>3, <1>4 DEF RewardBatch
<1>5. CASE InsertReward
  <2>1. PICK x \in Nat, e \in DOMAIN epochs, amount \in Nat :
          /\ x = RewardBatch(height)
          /\ DOMAIN rewards' = DOMAIN rewards \cup {x}
          /\ rewards'[x] = [epoch |-> e, amount |-> amount]
          /\ credits' = Credited(amount, StakersOf(e))
    BY <1>5, RewardRow
  <2>2. UNCHANGED <<height, stakers>> /\ pc = "checkpoint" /\ pc' = "credits"
    BY <1>5 DEF InsertReward
  <2>3. CASE b \in DOMAIN rewards
    BY <1>2, <1>3, <2>2, <2>3
  <2>4. CASE b = x
    <3>1. rewards'[b].amount = amount /\ rewards'[b].epoch = e
      BY <2>1, <2>4
    <3>2. StakersOf(rewards[b].epoch)' = StakersOf(e)
      BY <2>2, <3>1 DEF StakersOf
    <3>3. a \in Credited(amount, StakersOf(e))
      BY <3>1, <3>2
    <3> QED
      BY <2>1, <2>2, <2>4, <3>3 DEF RewardBatch
  <2> QED
    BY <2>1, <2>3, <2>4
<1>6. ASSUME NEW x \in credits, InsertPayslip(x)
      PROVE  \/ a \in PaidOf(b)'
             \/ pc' = "credits" /\ b = RewardBatch(height)' /\ a \in credits'
  <2>1. PICK y \in DOMAIN rewards, p \in Slip :
          /\ y = RewardBatch(height) /\ p.batch = y /\ p.addr = x
          /\ payslips' = payslips \cup {p} /\ credits' = credits \ {x}
    BY <1>6, SlipRow
  <2>2. UNCHANGED <<height, rewards, pc>>
    BY <1>6 DEF InsertPayslip
  <2>3. x \in PaidOf(y)'
    BY <2>1 DEF PaidOf, SlipsOf
  <2> QED
    BY <1>2, <1>3, <2>1, <2>2, <2>3 DEF RewardBatch
<1> QED
  BY <1>4, <1>5, <1>6, CreditCases

\* Without a fault the loop leaves a height only when it has inserted all its rows.
LEMMA StepNothingLost == ASSUME IInv, [Next]_vars PROVE NothingLost'
<1> SUFFICES ASSUME faults' = 0 PROVE NothingLost'
  BY DEF NothingLost
<1>1. Active' => cursor' = NoCursor \/ cursor' < height'
  BY StepBehind
<1>2. \A e \in DOMAIN epochs' : WithStake(epochs'[e].counted) = Due(e)'
  BY StepCounted
<1>3. \A b \in DOMAIN rewards' :
        \A a \in Credited(rewards[b].amount, StakersOf(rewards[b].epoch))' :
          \/ a \in PaidOf(b)'
          \/ pc' = "credits" /\ b = RewardBatch(height)' /\ a \in credits'
  BY StepCredited
<1>4. \A e \in DOMAIN epochs' : (WithStake(epochs[e].counted) = Due(e))'
  BY <1>2 DEF WithStake
<1> QED
  BY <1>1, <1>3, <1>4 DEF NothingLost

-----------------------------------------------------------------------------
(* The theorems.                                                           *)

\* The invariant is one.
THEOREM Invariance == Spec => []IInv
<1>1. Init => IInv
  BY InitIInv
<1>2. IInv /\ [Next]_vars => IInv'
  <2> SUFFICES ASSUME IInv, [Next]_vars PROVE IInv'
    OBVIOUS
  <2>1. TypeOK' /\ HeightsOK' /\ FiniteRows' /\ PassedCovered' /\ PlaceOK' /\ EpochsOK'
    BY StepType, StepHeights, StepFinite, StepPassed, StepPlace, StepEpochs
  <2>2. SnapshotOK' /\ RowsStaked'
    BY StepSnapshot, StepStaked
  <2>3. CreditsOK' /\ AmountsOK' /\ CreditedOnce' /\ RightEpoch' /\ Proportional' /\ NothingLost'
    BY StepCredits, StepAmounts, StepOnce, StepEpochOf, StepProportional, StepNothingLost
  <2> QED
    BY <2>1, <2>3, <2>2 DEF IInv
<1> QED
  BY <1>1, <1>2, PTL DEF Spec

\* The rows and the daemon's variables keep their types: among others, every staker
\* has the row of its epoch, every payslip that of its reward, and no payslip is negative.
THEOREM TypeCorrect == Spec => []TypeOK
<1>1. IInv => TypeOK
  BY DEF IInv
<1> QED
  BY <1>1, Invariance, PTL

\* However often the loop goes over a height again, InsertPayslip runs once for a
\* staker and a batch.
THEOREM CreditsOnce == Spec => []CreditedOnce
<1>1. IInv => CreditedOnce
  BY DEF IInv
<1> QED
  BY <1>1, Invariance, PTL

\* The shares of handleCheckpoint never add up to more than what the fee left of
\* the reward, whatever the stakes are and the 64 bits cut off.
THEOREM NeverOverspent == Spec => []NotOverspent
<1>1. ASSUME IInv, NEW b \in DOMAIN rewards
      PROVE  SlipSum(SlipsOf(b)) <= rewards[b].amount
  <2>1. PICK S \in SUBSET Addrs : S = StakersOf(rewards[b].epoch)
    BY DEF StakersOf
  <2>2. PICK A \in SUBSET S : A = PaidOf(b)
    BY <1>1, <2>1, SlipsFacts
  <2>3. PICK P \in SUBSET Slip : P = SlipsOf(b)
    BY <1>1, SlipsFacts
  <2>4. PICK n \in Nat : n = SlipSum(P)
    BY <1>1, <2>3, SlipsFacts
  <2>5. PICK amount \in Nat : amount = rewards[b].amount
    BY <1>1 DEF IInv, TypeOK
  <2>6. n * Total(S) <= amount * Total(A)
    BY <1>1, <2>1, <2>2, <2>3, <2>4, <2>5 DEF IInv, Proportional
  <2>7. Total(A) <= Total(S)
    <3>1. Stake \in [Addrs -> Nat] /\ IsFiniteSet(S)
      BY ReplayAssumption, TotalType
    <3>2. Sum(Stake, A) <= Sum(Stake, S)
      BY <3>1, SumMonotone
    <3> QED
      BY <3>2, TotalType
  <2>8. CASE S = {}
    <3>1. P = {}
      BY <2>2, <2>3, <2>8 DEF PaidOf
    <3>2. SlipSum(P) = 0
      BY <3>1, SlipSums, SumEmpty
    <3> QED
      BY <2>3, <2>4, <2>5, <3>2
  <2>9. CASE S # {}
    <3>1. PICK t \in Nat \ {0} : t = Total(S)
      <4>1. \E a \in S : Stake[a] > 0
        BY <1>1, <2>1, <2>9 DEF IInv, RowsStaked, StakersOf
      <4> QED
        BY <4>1, TotalType
    <3>2. PICK u \in Nat : u = Total(A)
      BY TotalType
    <3>3. amount * u <= amount * t
      BY <2>7, <3>1, <3>2
    <3>4. n * t <= amount * t
      BY <2>6, <3>1, <3>2, <3>3
    <3>5. n <= amount
      <4> SUFFICES ASSUME n >= amount + 1 PROVE FALSE
        OBVIOUS
      <4>1. n * t >= (amount + 1) * t
        OBVIOUS
      <4> QED
        BY <3>4, <4>1
    <3> QED
      BY <2>3, <2>4, <2>5, <3>5
  <2> QED
    BY <2>8, <2>9
<1>2. IInv => NotOverspent
  BY <1>1 DEF NotOverspent, SlipSum, SlipsOf
<1> QED
  BY <1>2, Invariance, PTL

\* epochAt, batchAt and the batch that rewards lag behind fit together for every
\* policy: a reward goes to the epoch of all of its batch's blocks, a payslip to a
\* staker of that epoch.
THEOREM RightEpochs == Spec => []RightEpoch
<1>1. IInv => RightEpoch
  BY DEF IInv
<1> QED
  BY <1>1, Invariance, PTL

\* Run never moves the cursor past a height that has not left its rows.
THEOREM CursorIsCovered == Spec => []CursorCovers
<1>1. IInv => CursorCovers
  BY DEF IInv, PassedCovered, Covered, CursorCovers
<1> QED
  BY <1>1, Invariance, PTL

\* The product of a share's 64 bits does not overflow.
NoOverflow == \A b \in 0..MaxHead, a \in Addrs : AfterFee(Reward[b]) * Stake[a] < Word

\* While the 64 bits suffice and nothing fails but calls to the node, the cursor has
\* passed only elections with a whole snapshot and batches with every payslip.
THEOREM CreditsAreComplete == ASSUME NoOverflow PROVE Spec => []CreditsComplete
<1>1. ASSUME IInv, faults = 0, cursor # NoCursor, NEW h \in Genesis..cursor
      PROVE  /\ h \in Nat /\ h >= Genesis /\ Covered(h)
             /\ Active => /\ height \in Nat /\ height >= Genesis /\ h # height
  BY <1>1, PolicyAssumption DEF IInv, TypeOK, HeightsOK, PassedCovered, NothingLost
<1>2. ASSUME IInv, faults = 0, cursor # NoCursor, NEW h \in Genesis..cursor, IsElection(h)
      PROVE  StakersOf(EpochAt(h) + 1) = WithStake(epochs[EpochAt(h) + 1].counted)
  <2>1. PICK e \in Nat : e = EpochAt(h) + 1 /\ e # 0
    BY <1>1, <1>2, HeightRange
  <2>2. e \in DOMAIN epochs
    BY <1>1, <1>2, <2>1 DEF Covered
  <2>3. \A r \in newStakers : r[1] # e
    <3> SUFFICES ASSUME NEW r \in newStakers PROVE r[1] # e
      OBVIOUS
    <3>1. Active /\ IsElection(height) /\ r[1] \in {0, EpochAt(height) + 1}
      BY <1>2 DEF IInv, SnapshotOK, PlaceOK, Active
    <3>2. EpochAt(h) # EpochAt(height)
      BY <1>1, <1>2, <3>1, BoundariesDiffer
    <3>3. EpochAt(h) \in Nat /\ EpochAt(height) \in Nat
      BY <1>1, <1>2, <3>1, HeightRange
    <3> QED
      BY <2>1, <3>1, <3>2, <3>3
  <2>4. WithStake(epochs[e].counted) = Due(e)
    BY <1>2, <2>2 DEF IInv, NothingLost
  <2>5. Due(e) = StakersOf(e)
    BY <2>3 DEF Due, StakersOf
  <2> QED
    BY <2>1, <2>4, <2>5
<1>3. ASSUME IInv, faults = 0, cursor # NoCursor, NEW h \in Genesis..cursor,
             IsBatchEnd(h), h > Genesis,
             NEW a \in StakersOf(rewards[RewardBatch(h)].epoch),
             (rewards[RewardBatch(h)].amount * Stake[a])
               \div Total(StakersOf(rewards[RewardBatch(h)].epoch)) > 0
      PROVE  \E p \in payslips : p.batch = RewardBatch(h) /\ p.addr = a
  <2>1. PICK b \in DOMAIN rewards : b = RewardBatch(h)
    BY <1>1, <1>3 DEF Covered
  <2>2. PICK S \in SUBSET Addrs : S = StakersOf(rewards[b].epoch)
    BY DEF StakersOf
  <2>3. PICK amount \in Nat : amount = rewards[b].amount
    BY <1>3 DEF IInv, TypeOK
  <2>4. amount * Stake[a] < Word
    BY <1>3, <2>1, <2>2, <2>3 DEF IInv, AmountsOK, NoOverflow
  <2>5. Share(amount, a, S) = (amount * Stake[a]) \div Total(S)
    <3>1. Stake[a] > 0
      BY <1>3 DEF IInv, RowsStaked, StakersOf
    <3> QED
      BY <1>3, <2>1, <2>2, <2>4, <3>1, ShareBound
  <2>6. a \in Credited(amount, S)
    BY <1>3, <2>1, <2>2, <2>3, <2>5 DEF Credited
  <2>7. ~(pc = "credits" /\ b = RewardBatch(height))
    <3> SUFFICES ASSUME pc = "credits" PROVE b # RewardBatch(height)
      OBVIOUS
    <3>1. Active /\ IsBatchEnd(height)
      BY <1>3 DEF IInv, PlaceOK, Active
    <3> QED
      BY <1>1, <1>3, <2>1, <3>1, BoundariesDiffer
  <2>8. a \in PaidOf(b)
    BY <1>3, <2>2, <2>3, <2>6, <2>7 DEF IInv, NothingLost
  <2> QED
    BY <2>1, <2>8 DEF PaidOf, SlipsOf
<1>4. IInv => CreditsComplete
  BY <1>2, <1>3 DEF CreditsComplete, AllCredited
<1> QED
  BY <1>4, Invariance, PTL
=============================================================================
