SPECIFICATION FairSpec
CONSTANTS
  alice = alice
  bob = bob
  NoTx = NoTx
  Addrs <- OneAddr
  Slips <- Slips1
  Epochs <- Slips1
  Owner <- Owner1
  Amount <- Amount1
  EpochOf <- Amount1
  MinPayout = 1
  Window = 2
  FinalLag = 1
  StuckAfter = 2
  DryRunModes = {FALSE}
  MaxHead = 5
  MaxSubmit = 2
  MaxAudits = 2
  MaxFaults = 1
PROPERTIES
  PayoutsSettle
