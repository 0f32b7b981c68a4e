-------------------------------- MODULE DBType --------------------------------
(***************************************************************************)
(* The values of TDBType objects, as far as clear() tells them apart.      *)
(***************************************************************************)
EXTENDS NullObject

CONSTANTS
  Value,   \* the values an object may have, other than NULL
  NoData   \* of these, the blobs without a data pointer: TDBBlob.setBlob keeps the
           \* pointer it is given for a blob of no bytes, and sqlite3_column_blob
           \* gives none for such a blob

ASSUME ValueAssumption == Null \notin Value /\ NoData \subseteq Value

(* clear(): an object is null afterwards, unless it is a blob without data *)
(* pointer, which TDBBlob.clear leaves as it is.                           *)
AfterClear(v) == IF v \in NoData THEN v ELSE Null
=============================================================================
