SPECIFICATION FairSpec
CONSTANTS
  alice = alice
  bob = bob
  carol = carol
  NoCursor = NoCursor
  Addrs <- ThreeAddrs
  Stake <- Stakes
  Reward <- Rewards
  FeeBp = 1500
  Word = 16384
  Genesis = 1
  BlocksPerBatch = 2
  BlocksPerEpoch = 4
  MaxHead = 7
  MaxMoves = 1
  MaxFaults = 1
INVARIANTS
  TypeOK
  CreditedOnce
  NotOverspent
  RightEpoch
  CursorCovers
  CreditsComplete
PROPERTY CatchesUp
