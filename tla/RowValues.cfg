CONSTANTS
  Object = {o1, o2, o3, o4, o5}
  Column = {c1, c2}
  Value = {v1, v2, b}
  NoData = {b}
  Null = Null
  MaxKept = 1
  Careful = TRUE
SYMMETRY Interchangeable
SPECIFICATION Spec
INVARIANTS
  RowIsCurrent
  KeptNeverChanges
