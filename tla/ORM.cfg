SPECIFICATION Spec
CONSTANTS
  Write = {w1, w2, w3}
  Dialects = {"sqlite", "postgresql"}
  MaxDepth = 2
  Rules = {"unwind", "no_nesting", "check_find"}
INVARIANTS KeptIsDurable UndoneIsGone NoTransactionLeft ShortListsMarked
PROPERTIES ThrowReleases
