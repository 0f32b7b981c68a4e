CONSTANTS
  Object = {o1, o2, o3, o4}
  Value = {v1, v2, b}
  NoData = {b}
  Null = Null
  MaxBinds = 3
  Unshared = TRUE
SPECIFICATION Spec
INVARIANTS
  SentAsAsked
