SPECIFICATION FairSpec
CONSTANTS
  NoTx = NoTx
  PageLimit = 3
  MaxRequests = 1
  MaxRows = 2
  MaxSends = 2
  MaxJails = 2
  MaxFaults = 0
PROPERTY PendingClears
