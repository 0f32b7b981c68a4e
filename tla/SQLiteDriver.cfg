CONSTANTS
  ClientQuery = {q1}
  DriverQuery = {d1}
  Null = Null
  Selects = {S1}
  Writes = {W1}
  OneParam = {W1}
  ParamCount <- MCParamCount
  MaxRows = 2
  MaxWrites = 1
  MaxBinds = 2
  MaxOrphans = 1
SPECIFICATION Spec
INVARIANTS
  PendingOnlyInTxn
  IndInv
PROPERTY
  TxnEndsQuiescent
