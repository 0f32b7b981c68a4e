CONSTANTS
  Query = {q1}
  ClientQuery = {q1}
  Null = Null
  Selects = {S1}
  Writes = {W1}
  MaxRows = 2
  MaxWrites = 2
  Faults = TRUE
  CursorBehavior = "close"
  Rules = {"rollback_after", "heed_refusal", "prepared_first",
           "end_first", "fresh_queries", "toggle_works"}
SPECIFICATION Spec
INVARIANTS
  AckedIsDurable
  NoPhantomWrites
  PreparedStays
  HandlesLive
  OneSession
  FailuresExplained
PROPERTIES
  RowsInOrder
