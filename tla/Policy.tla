------------------------------- MODULE Policy -------------------------------
(***************************************************************************)
(* The height arithmetic of internal/pool/pool.go: blocks are counted from *)
(* the genesis block, every BlocksPerBatch-th block closes a batch and     *)
(* every BlocksPerEpoch-th block is an election block.                     *)
(***************************************************************************)
EXTENDS Integers

CONSTANTS
  Genesis,         \* policy: GenesisBlockNumber
  BlocksPerBatch,  \* policy
  BlocksPerEpoch   \* policy: a multiple of BlocksPerBatch

ASSUME PolicyAssumption ==
  /\ Genesis \in Nat
  /\ BlocksPerBatch \in Nat \ {0}
  /\ BlocksPerEpoch \in Nat \ {0}
  /\ BlocksPerEpoch % BlocksPerBatch = 0

DivCeil(n, d) == (n + d - 1) \div d

\* Rounded up: genesis is epoch and batch 0, the block after it opens 1.
EpochAt(height) ==
  IF height <= Genesis THEN 0 ELSE DivCeil(height - Genesis, BlocksPerEpoch)

BatchAt(height) ==
  IF height <= Genesis THEN 0 ELSE DivCeil(height - Genesis, BlocksPerBatch)

\* classify: an election block is also a batch boundary, and comes first.
IsElection(height) == (height - Genesis) % BlocksPerEpoch = 0

IsBatchEnd(height) == (height - Genesis) % BlocksPerBatch = 0

\* epochEndHeight: the election block that closes an epoch.
EpochEndHeight(epoch) == Genesis + epoch * BlocksPerEpoch

\* The blocks of a batch, counted from the genesis block; the genesis block
\* alone is batch 0. What EpochAt and BatchAt must agree with.
BlocksOf(batch) ==
  IF batch = 0 THEN {Genesis}
  ELSE (Genesis + (batch - 1) * BlocksPerBatch + 1)..(Genesis + batch * BlocksPerBatch)
=============================================================================
