SPECIFICATION Spec
CONSTANTS
  alice = alice
  bob = bob
  NoTx = NoTx
  Addrs <- OneAddr
  Slips <- Slips2
  Epochs <- Slips2
  Owner <- OwnerSame2
  Amount <- Amount2
  EpochOf <- Epoch2
  MinPayout = 1
  Window = 2
  FinalLag = 1
  StuckAfter = 2
  DryRunModes = {FALSE}
  MaxHead = 3
  MaxSubmit = 3
  MaxAudits = 2
  MaxFaults = 0
INVARIANT AmountReconciles
