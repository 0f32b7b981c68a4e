----------------------------- MODULE MCRowValues -----------------------------
(***************************************************************************)
(* The instance of RowValues for TLC.  Objects and columns are             *)
(* interchangeable; values are not, since some of them are blobs.          *)
(***************************************************************************)
EXTENDS RowValues, TLC

Interchangeable == Permutations(Object) \cup Permutations(Column)
=============================================================================
