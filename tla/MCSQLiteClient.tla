--------------------------- MODULE MCSQLiteClient ---------------------------
(***************************************************************************)
(* Small instances of SQLiteClient; Dropped is the rule the client breaks, *)
(* or "none".                                                              *)
(***************************************************************************)
EXTENDS SQLiteClient, TLC

CONSTANTS OneParam, Dropped

MCParamCount == [s \in ClientStmt |-> IF s \in OneParam THEN 1 ELSE 0]

MCRules == AllRules \ {Dropped}
=============================================================================
