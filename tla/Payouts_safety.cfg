SPECIFICATION Spec
CONSTANTS
  alice = alice
  bob = bob
  NoTx = NoTx
  Addrs <- OneAddr
  Slips <- Slips2
  Epochs <- Slips2
  Owner <- OwnerSame2
  Amount <- Amount2
  EpochOf <- Epoch2
  MinPayout = 1
  Window = 2
  FinalLag = 1
  StuckAfter = 2
  DryRunModes = {TRUE, FALSE}
  MaxHead = 6
  MaxSubmit = 4
  MaxAudits = 2
  MaxFaults = 1
INVARIANTS
  TypeOK
  OnePayoutPerAddress
  NoDoublePayment
  OwedIsUnpaid
  CompletedIsPaid
  SentIsTracked
PROPERTIES
  CompletedIsTerminal
  ImplementsLedger
