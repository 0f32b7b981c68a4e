CONSTANTS
  Query = {q1}
  ClientQuery = {q1}
  Null = Null
  Selects = {S1}
  Writes = {W1}
  MaxRows = 2
  MaxWrites = 2
  Faults = TRUE
  Rules = {"rollback_after", "heed_refusal", "no_nesting",
           "prepared_first", "not_drained"}
SPECIFICATION Spec
INVARIANTS
  AckedIsDurable
  NoPhantomWrites
  PreparedStays
  FailuresExplained
PROPERTIES
  RowsInOrder
