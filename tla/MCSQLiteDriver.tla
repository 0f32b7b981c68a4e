--------------------------- MODULE MCSQLiteDriver ---------------------------
(***************************************************************************)
(* Small instances of SQLiteDriver.  Statements are model values; those in *)
(* OneParam have one ? placeholder, the others have none.                  *)
(***************************************************************************)
EXTENDS SQLiteDriver

CONSTANT OneParam

MCParamCount == [s \in ClientStmt |-> IF s \in OneParam THEN 1 ELSE 0]
=============================================================================
