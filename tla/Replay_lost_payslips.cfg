SPECIFICATION Spec
CONSTANTS
  alice = alice
  bob = bob
  carol = carol
  NoCursor = NoCursor
  Addrs <- ThreeAddrs
  Stake <- Stakes
  Reward <- Rewards
  FeeBp = 1500
  Word = 16384
  Genesis = 0
  BlocksPerBatch = 2
  BlocksPerEpoch = 4
  MaxHead = 4
  MaxMoves = 0
  MaxFaults = 1
INVARIANT AllCredited
