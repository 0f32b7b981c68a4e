CONSTANTS
  ClientQuery = {q1}
  DriverQuery = {d1}
  Null = Null
  Selects = {S1}
  Writes = {W1}
  OneParam = {W1}
  ParamCount <- MCParamCount
  Dropped = "none"
  Rules <- MCRules
  MaxRows = 2
  MaxWrites = 2
  MaxBinds = 1
  MaxOrphans = 0
SPECIFICATION LoopingSpec
INVARIANTS
  WritesExactlyOnce
PROPERTIES
  RowsInOrder
  LoopsEnd
