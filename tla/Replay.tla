------------------------------- MODULE Replay -------------------------------
(***************************************************************************)
(* How the daemon replays the chain into the database: the catch-up loop   *)
(* of Manager.Run and processHeight (internal/pool/pool.go), the snapshot  *)
(* of the stakers at every election (election.go) and the credit of every  *)
(* batch's reward at its checkpoint (checkpoint.go).                       *)
(*                                                                         *)
(* No database transaction spans two statements here: a step of this       *)
(* module is one of them, or one call to the node, and the daemon may stop *)
(* between any two.                                                        *)
(***************************************************************************)
EXTENDS Policy, Sequences, FiniteSets, FiniteSetsExt

CONSTANTS
  Addrs,      \* addresses that may delegate to the validator
  Stake,      \* Stake[a], a's active balance while it delegates; it may have none
  Reward,     \* Reward[b], the validator's reward for batch b
  FeeBp,      \* config: the pool fee in basis points
  Word,       \* 2^64, modulo which the products of the shares are computed
  NoCursor,   \* the cursor row does not exist
  MaxHead,    \* bound: height of the last block
  MaxMoves,   \* bound: changes of the delegations and of the validator
  MaxFaults   \* bound: crashes and database errors

ASSUME ReplayAssumption ==
  /\ IsFiniteSet(Addrs)
  /\ Stake \in [Addrs -> Nat]
  /\ Reward \in [0..MaxHead -> Nat]
  /\ FeeBp \in 0..9999
  /\ Word \in Nat \ {0}
  /\ NoCursor \notin Nat
  /\ MaxHead \in Nat /\ MaxMoves \in Nat /\ MaxFaults \in Nat

VARIABLES
  \* the database
  cursor,      \* the last height processed
  epochs,      \* epoch -> [status, counted], for the rows inserted
  stakers,     \* rows of the snapshots: <<epoch, address>>
  rewards,     \* batch -> [epoch, amount], for the rows inserted
  payslips,    \* set of [id, batch, addr, amount]
  \* the chain
  head,        \* its height
  delegated,   \* the addresses that delegate now
  able,        \* the validator is neither retired, inactive nor jailed
  \* the daemon: lost in a crash
  pc,          \* where in processHeight it is
  height,      \* the height being processed
  target,      \* the head that this tick read
  status,      \* handleElection: the status of the new epoch
  newEpochs,   \* handleElection: the epoch rows left to insert
  newStakers,  \* handleElection: the <<epoch, staker>> left to go through
  credits,     \* handleCheckpoint: the stakers left to credit
  \* bookkeeping of the model
  moves,       \* changes of the delegations and of the validator so far
  faults       \* crashes and database errors so far

db    == <<cursor, epochs, stakers, rewards, payslips>>
chain == <<head, delegated, able, moves>>
local == <<height, target, status, newEpochs, newStakers, credits>>
vars  == <<db, chain, pc, local, faults>>

Batches == 0..MaxHead
Phases  == {"tick", "height", "listing", "epochs", "stakers", "checkpoint", "credits", "cursor", "down"}

\* The stakers of S that have an active balance.
WithStake(S) == {a \in S : Stake[a] > 0}

Total(S) == MapThenSumSet(LAMBDA a : Stake[a], S)

TypeOK ==
  /\ cursor \in Nat \cup {NoCursor}
  /\ DOMAIN epochs \subseteq Nat
  /\ \A e \in DOMAIN epochs :
       epochs[e] \in [status : {"in_progress", "not_elected", "unable", "no_stakers"},
                      counted : SUBSET Addrs]
  /\ stakers \subseteq (DOMAIN epochs) \X Addrs
  /\ DOMAIN rewards \subseteq Nat
  /\ \A b \in DOMAIN rewards : rewards[b] \in [epoch : DOMAIN epochs, amount : Nat]
  /\ payslips \subseteq [id : Nat, batch : DOMAIN rewards, addr : Addrs, amount : Nat]
  /\ head \in Nat
  /\ delegated \subseteq Addrs
  /\ able \in BOOLEAN
  /\ pc \in Phases
  /\ height \in Nat /\ target \in Nat
  /\ status \in {"in_progress", "not_elected", "unable", "no_stakers"}
  /\ newEpochs \in Seq(Nat)
  /\ newStakers \subseteq Nat \X Addrs
  /\ credits \subseteq Addrs
  /\ moves \in 0..MaxMoves
  /\ faults \in 0..MaxFaults

Init ==
  /\ cursor = NoCursor
  /\ epochs = <<>> /\ stakers = {} /\ rewards = <<>> /\ payslips = {}
  /\ head = Genesis
  /\ delegated \in SUBSET Addrs
  /\ able = TRUE
  /\ pc = "tick"
  /\ height = 0 /\ target = 0 /\ status = "in_progress"
  /\ newEpochs = <<>> /\ newStakers = {} /\ credits = {}
  /\ moves = 0 /\ faults = 0

Put(f, k, v) == [x \in DOMAIN f \cup {k} |-> IF x = k THEN v ELSE f[x]]

-----------------------------------------------------------------------------
(* Manager.Run: one tick of the catch-up loop                              *)

\* The loop ends, and its variables with it.
EndLoop == pc' = "tick" /\ height' = 0 /\ target' = 0

\* The loop goes from start to the head that was read.
StartAt(start) ==
  /\ pc = "tick"
  /\ start <= head
  /\ pc' = "height"
  /\ height' = start
  /\ target' = head
  /\ UNCHANGED <<db, chain, status, newEpochs, newStakers, credits>>

\* A missing cursor row means "never started": begin with the genesis block.
Start == IF cursor = NoCursor THEN Genesis ELSE cursor + 1

Tick == StartAt(Start) /\ UNCHANGED faults

\* The cursor is at the head: nothing to do in this tick.
IdleTick ==
  /\ pc = "tick"
  /\ Start > head
  /\ UNCHANGED vars

\* Any other error of GetCursor is taken for a missing row.
CursorReadFails ==
  /\ faults < MaxFaults
  /\ StartAt(Genesis)
  /\ faults' = faults + 1

\* processHeight on a block that is no batch boundary.
MicroBlock ==
  /\ pc = "height"
  /\ ~IsBatchEnd(height)
  /\ pc' = "cursor"
  /\ UNCHANGED <<db, chain, local, faults>>

Checkpoint ==
  /\ pc = "height"
  /\ IsBatchEnd(height) /\ ~IsElection(height)
  /\ pc' = "checkpoint"
  /\ UNCHANGED <<db, chain, local, faults>>

\* Mutant: the loop goes on with the next height after an error.
FailSkips ==
  /\ pc \in {"height", "listing", "checkpoint"}
  /\ pc' = "cursor"
  /\ UNCHANGED <<db, chain, local, faults>>

\* The node does not answer: the error breaks the loop, and the next tick comes
\* back to the same height.
Fail ==
  /\ pc \in {"height", "listing", "checkpoint"}
  /\ EndLoop
  /\ UNCHANGED <<db, chain, status, newEpochs, newStakers, credits, faults>>

\* A statement fails: the same, but the statements before it stay done.
StatementFails ==
  /\ pc \in {"epochs", "stakers", "credits", "cursor"}
  /\ faults < MaxFaults
  /\ faults' = faults + 1
  /\ EndLoop
  /\ status' = "in_progress" /\ newEpochs' = <<>> /\ newStakers' = {} /\ credits' = {}
  /\ UNCHANGED <<db, chain>>

UpsertCursor ==
  /\ pc = "cursor"
  /\ cursor' = height
  /\ IF height < target THEN pc' = "height" /\ height' = height + 1 /\ UNCHANGED target
     ELSE EndLoop
  /\ UNCHANGED <<epochs, stakers, rewards, payslips, chain, status,
                 newEpochs, newStakers, credits, faults>>

-----------------------------------------------------------------------------
(* handleElection                                                          *)

\* Mutant: the genesis election is like any other.
ElectedNextOnly(h) == <<EpochAt(h) + 1>>

\* The epochs whose snapshot an election takes: the next one, and at genesis
\* epoch 0 as well.
ElectedEpochs(h) ==
  IF h = Genesis THEN <<EpochAt(h) + 1, EpochAt(h)>> ELSE <<EpochAt(h) + 1>>

\* Some of the epochs is there already: nothing to do.
KnownElection ==
  \E i \in DOMAIN ElectedEpochs(height) : ElectedEpochs(height)[i] \in DOMAIN epochs

SkipElection ==
  /\ pc = "height"
  /\ IsElection(height)
  /\ KnownElection
  /\ pc' = "checkpoint"
  /\ UNCHANGED <<db, chain, local, faults>>

\* The status the election may give its epochs: not_elected when the node does not
\* describe the validator, and otherwise that of the validator as it is now. The
\* stakers that the node counts may include those without an active balance.
ElectionStatuses ==
  {"not_elected"} \cup
    IF ~able THEN {"unable"}
    ELSE {IF S = {} THEN "no_stakers" ELSE "in_progress" : S \in {delegated, WithStake(delegated)}}

\* The first call to the node. Unless the epochs are in progress their rows, without
\* any staker, are all there is to insert.
GetValidator ==
  /\ pc = "height"
  /\ IsElection(height)
  /\ ~KnownElection
  /\ status' \in ElectionStatuses
  /\ IF status' = "in_progress" THEN pc' = "listing" /\ UNCHANGED newEpochs
     ELSE pc' = "epochs" /\ newEpochs' = ElectedEpochs(height)
  /\ UNCHANGED <<db, chain, height, target, newStakers, credits, faults>>

\* The second call: the stakers as they are by then, those without an active balance
\* among them. None may be left, although the epochs are in progress.
GetStakers ==
  /\ pc = "listing"
  /\ newEpochs' = ElectedEpochs(height)
  /\ newStakers' = {ElectedEpochs(height)[i] : i \in DOMAIN ElectedEpochs(height)} \X delegated
  /\ pc' = "epochs"
  /\ UNCHANGED <<db, chain, height, target, status, credits, faults>>

\* The row's num_stakers is the number of stakers listed, with or without an active
\* balance; the set that it counts is kept here.
InsertEpoch ==
  /\ pc = "epochs"
  /\ newEpochs # <<>>
  /\ epochs' = Put(epochs, Head(newEpochs),
       [status |-> status, counted |-> {a \in Addrs : <<Head(newEpochs), a>> \in newStakers}])
  /\ newEpochs' = Tail(newEpochs)
  /\ UNCHANGED <<cursor, stakers, rewards, payslips, chain, pc, height, target,
                 status, newStakers, credits, faults>>

EpochsInserted ==
  /\ pc = "epochs"
  /\ newEpochs = <<>>
  /\ pc' = "stakers"
  /\ status' = "in_progress"
  /\ UNCHANGED <<db, chain, height, target, newEpochs, newStakers, credits, faults>>

\* The loop comes to r: the next epoch's stakers first, in whatever order the node
\* listed them.
StakerTurn(r) ==
  /\ pc = "stakers"
  /\ \A q \in newStakers : q[1] <= r[1]
  /\ newStakers' = newStakers \ {r}
  /\ UNCHANGED <<cursor, epochs, rewards, payslips, chain, pc, height, target,
                 status, newEpochs, credits, faults>>

\* A staker without an active balance has been counted, but gets no row.
PassStaker(r) ==
  /\ StakerTurn(r)
  /\ Stake[r[2]] = 0
  /\ UNCHANGED stakers

InsertStaker(r) ==
  /\ StakerTurn(r)
  /\ Stake[r[2]] > 0
  /\ stakers' = stakers \cup {r}

\* An election block closes a batch as well.
ElectionDone ==
  /\ pc = "stakers"
  /\ newStakers = {}
  /\ pc' = "checkpoint"
  /\ UNCHANGED <<db, chain, local, faults>>

-----------------------------------------------------------------------------
(* handleCheckpoint                                                        *)

RewardBatch(h) == BatchAt(h) - 1

\* Mutant: the epoch of the checkpoint block instead of that of the batch.
RewardEpochOfBlock(h) == EpochAt(h)

\* The epoch of the batch that closed one batch size back.
RewardEpoch(h) == EpochAt(h - BlocksPerBatch)

\* Query GetStakersForEpoch.
StakersOf(e) == {a \in Addrs : <<e, a>> \in stakers}

\* Mutant: the fee is taken for a percentage.
FeeOfPercent(reward) == (reward * FeeBp) \div 100

\* splitReward, in basis points.
Fee(reward) == ((reward * FeeBp) % Word) \div 10000

AfterFee(reward) == reward - Fee(reward)

\* Mutant: shares are rounded up.
ShareRoundedUp(amount, a, S) == (amount * Stake[a] + Total(S) - 1) \div Total(S)

\* The staker's part of a reward: a product of 64 bits, divided.
Share(amount, a, S) == ((amount * Stake[a]) % Word) \div Total(S)

\* Mutant: a batch that was credited in part is credited again.
RewardFullyCredited(b) ==
  /\ b \in DOMAIN rewards
  /\ \A a \in StakersOf(rewards[b].epoch) : \E p \in payslips : p.batch = b /\ p.addr = a

\* Query RewardExists.
RewardExists(b) == b \in DOMAIN rewards

\* Mutant: a zero share ends the loop instead of being passed over.
CreditedUntilZero(amount, S) ==
  IF \E a \in S : Share(amount, a, S) = 0 THEN {} ELSE S

\* The stakers that get a payslip: those whose share is not zero.
Credited(amount, S) == {a \in S : Share(amount, a, S) > 0}

\* The first batch has no predecessor, and a reward that is there is not
\* collected again.
SkipCheckpoint ==
  /\ pc = "checkpoint"
  /\ BatchAt(height) = 0 \/ RewardExists(RewardBatch(height))
  /\ pc' = "cursor"
  /\ UNCHANGED <<db, chain, local, faults>>

\* InsertReward, with the stakers of the epoch's snapshot. The foreign key wants
\* the epoch row (see MissingEpoch).
InsertReward ==
  LET b == RewardBatch(height)
      e == RewardEpoch(height)
      amount == AfterFee(Reward[b])
      S == StakersOf(e)
  IN  /\ pc = "checkpoint"
      /\ BatchAt(height) > 0 /\ ~RewardExists(b)
      /\ e \in DOMAIN epochs
      /\ rewards' = Put(rewards, b, [epoch |-> e, amount |-> amount])
      /\ credits' = Credited(amount, S)
      /\ pc' = "credits"
      /\ UNCHANGED <<cursor, epochs, stakers, payslips, chain, height, target,
                     status, newEpochs, newStakers, faults>>

\* The foreign key fails: the height is tried again by the next tick.
MissingEpoch ==
  /\ pc = "checkpoint"
  /\ BatchAt(height) > 0 /\ ~RewardExists(RewardBatch(height))
  /\ RewardEpoch(height) \notin DOMAIN epochs
  /\ EndLoop
  /\ UNCHANGED <<db, chain, status, newEpochs, newStakers, credits, faults>>

InsertPayslip(a) ==
  LET b == RewardBatch(height)
      S == StakersOf(rewards[b].epoch)
  IN  /\ pc = "credits"
      /\ payslips' = payslips \cup
           {[id |-> Cardinality(payslips) + 1, batch |-> b, addr |-> a,
             amount |-> Share(rewards[b].amount, a, S)]}
      /\ credits' = credits \ {a}
      /\ UNCHANGED <<cursor, epochs, stakers, rewards, chain, pc, height, target,
                     status, newEpochs, newStakers, faults>>

CheckpointDone ==
  /\ pc = "credits"
  /\ credits = {}
  /\ pc' = "cursor"
  /\ UNCHANGED <<db, chain, local, faults>>

-----------------------------------------------------------------------------
(* The daemon stops, between any two statements, and starts again.         *)

Crash ==
  /\ pc # "down"
  /\ faults < MaxFaults
  /\ faults' = faults + 1
  /\ pc' = "down"
  /\ height' = 0 /\ target' = 0 /\ status' = "in_progress"
  /\ newEpochs' = <<>> /\ newStakers' = {} /\ credits' = {}
  /\ UNCHANGED <<db, chain>>

Restart ==
  /\ pc = "down"
  /\ pc' = "tick"
  /\ UNCHANGED <<db, chain, local, faults>>

-----------------------------------------------------------------------------
(* The chain: blocks, delegations, and the validator's standing.           *)

ProduceBlock ==
  /\ head < MaxHead
  /\ head' = head + 1
  /\ UNCHANGED <<db, delegated, able, moves, pc, local, faults>>

Move ==
  /\ moves < MaxMoves
  /\ moves' = moves + 1
  /\ \/ /\ \E a \in Addrs : delegated' \in {delegated \cup {a}, delegated \ {a}}
        /\ UNCHANGED able
     \/ able' = ~able /\ UNCHANGED delegated
  /\ UNCHANGED <<db, head, pc, local, faults>>

-----------------------------------------------------------------------------
Election ==
  \/ SkipElection \/ GetValidator \/ GetStakers
  \/ InsertEpoch \/ EpochsInserted
  \/ \E r \in newStakers : PassStaker(r) \/ InsertStaker(r)
  \/ ElectionDone

Collect ==
  \/ SkipCheckpoint \/ InsertReward \/ MissingEpoch
  \/ \E a \in credits : InsertPayslip(a)
  \/ CheckpointDone

Work == Tick \/ IdleTick \/ MicroBlock \/ Checkpoint \/ Election \/ Collect \/ UpsertCursor \/ Restart

Next ==
  \/ Work
  \/ Fail \/ StatementFails \/ CursorReadFails \/ Crash
  \/ ProduceBlock \/ Move

Spec == Init /\ [][Next]_vars

\* The daemon keeps ticking and is restarted; the node answers a call that is
\* made again and again, which processHeight makes at three places; the chain grows.
Fairness ==
  /\ WF_vars(Work)
  /\ SF_vars(MicroBlock \/ Checkpoint \/ SkipElection \/ GetValidator)
  /\ SF_vars(GetStakers)
  /\ SF_vars(SkipCheckpoint \/ InsertReward)
  /\ WF_vars(ProduceBlock)

FairSpec == Spec /\ Fairness

-----------------------------------------------------------------------------
(* What the replay guarantees.                                             *)

\* Nobody is credited twice for a batch, although a crash, an error or a failed
\* read of the cursor makes the loop go over a height again.
CreditedOnce ==
  \A p, q \in payslips : p.batch = q.batch /\ p.addr = q.addr => p = q

\* The payslips of a batch never add up to more than its reward after the fee.
NotOverspent ==
  \A b \in DOMAIN rewards :
    MapThenSumSet(LAMBDA p : p.amount, {p \in payslips : p.batch = b}) <= rewards[b].amount

\* A batch's reward goes to the epoch that all of its blocks belong to, and its
\* payslips to stakers in the snapshot of that epoch: the arithmetic of epochAt,
\* batchAt and the one batch that rewards lag behind fit together.
RightEpoch ==
  /\ \A b \in DOMAIN rewards : \A h \in BlocksOf(b) : EpochAt(h) = rewards[b].epoch
  /\ \A p \in payslips : <<rewards[p.batch].epoch, p.addr>> \in stakers

\* Every boundary up to the cursor has left its row: the epoch that follows an
\* election, and the reward of the batch before a checkpoint. The loop never
\* moves the cursor past a height it did not finish.
CursorCovers ==
  cursor # NoCursor => \A h \in Genesis..cursor :
    /\ IsElection(h) => EpochAt(h) + 1 \in DOMAIN epochs
    /\ IsBatchEnd(h) /\ h > Genesis => RewardBatch(h) \in DOMAIN rewards

\* The comments on handleElection and handleCheckpoint: once the cursor has
\* passed an election every staker that its epoch counts has its snapshot row,
\* unless it has no active balance, and once it has passed a checkpoint every staker
\* of the batch's epoch has its payslip, unless its share is zero.
AllCredited ==
  cursor # NoCursor => \A h \in Genesis..cursor :
    /\ IsElection(h) =>
         LET e == EpochAt(h) + 1 IN StakersOf(e) = WithStake(epochs[e].counted)
    /\ IsBatchEnd(h) /\ h > Genesis =>
         LET b == RewardBatch(h)
             S == StakersOf(rewards[b].epoch)
         IN  \A a \in S : (rewards[b].amount * Stake[a]) \div Total(S) > 0 =>
               \E p \in payslips : p.batch = b /\ p.addr = a

\* Without a fault the snapshots and the credits are complete, although a call to
\* the node may fail after any row.
CreditsComplete ==
  faults = 0 => AllCredited

\* The replay catches up: whatever batch boundary the chain has reached, the
\* cursor gets there, through crashes, errors and calls that fail. The exception is
\* a genesis election cut short by a fault before its second epoch row: the comment
\* on handleElection says that the loop is stuck without it, and so it is.
CatchesUp ==
  \A h \in {g \in Genesis..MaxHead : IsBatchEnd(g)} :
    (head >= h) ~> \/ cursor # NoCursor /\ cursor >= h
                   \/ faults > 0 /\ EpochAt(Genesis) \notin DOMAIN epochs
=============================================================================
