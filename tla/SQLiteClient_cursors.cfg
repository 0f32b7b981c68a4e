CONSTANTS
  ClientQuery = {q1, q2}
  DriverQuery = {d1}
  Null = Null
  Selects = {S1}
  Writes = {}
  OneParam = {}
  ParamCount <- MCParamCount
  Dropped = "none"
  Rules <- MCRules
  MaxRows = 2
  MaxWrites = 0
  MaxBinds = 0
  MaxOrphans = 0
SPECIFICATION CSpec
INVARIANTS
  ClosedFinalizesAll
  RegistrySound
  RegistryBounded
PROPERTY
  RowsInOrder
