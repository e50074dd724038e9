SPECIFICATION Spec
CONSTANTS
  NoTx = NoTx
  PageLimit = 3
  MaxRequests = 2
  MaxRows = 3
  MaxSends = 2
  MaxJails = 1
  MaxFaults = 1
INVARIANTS
  TypeOK
  OneOutstanding
  RequestSentOnce
  ConfirmedIsFinal
PROPERTIES
  EndStatesStay
  ReactivationYields
