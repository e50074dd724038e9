SPECIFICATION FairSpec
CONSTANTS
  good = good
  wrong = wrong
  invalid = invalid
  token = token
  h1 = h1
  h2 = h2
  NoSecret = NoSecret
  NoFile = NoFile
  Broken = Broken
  Drafts <- MixedDrafts
  Settings <- MixedSettings
  ApiSettings = {good}
  PoolWallet = {good}
  Secrets = {}
  Handlers = {h1}
  MaxRequests = 1
  MaxTrouble = 0
  Deposit = 2
  MinStake = 1
  FeeReserve = 1
  FaucetTarget = 4
PROPERTY FollowsFile
