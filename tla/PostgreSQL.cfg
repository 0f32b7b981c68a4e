CONSTANTS
  Query = {q1, d1}
  ClientQuery = {q1}
  Null = Null
  Selects = {S1}
  Writes = {W1}
  MaxRows = 2
  MaxWrites = 2
  Faults = TRUE
  Rules = {"check_error", "rollback_after", "heed_refusal"}
SPECIFICATION Spec
INVARIANTS
  AckedIsDurable
  NoPhantomWrites
  PreparedStays
  OneSession
  FailuresExplained
PROPERTIES
  RowsInOrder
