SPECIFICATION Spec
CONSTANTS
  Write = {w1, w2, w3}
  Dialects = {"sqlite", "postgresql"}
  MaxDepth = 1
  Rules = {"unwind", "no_nesting"}
INVARIANT UndoneIsGone
