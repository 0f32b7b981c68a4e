----------------------------- MODULE NullObject -----------------------------
(* The Null of the BlitzMax code: an empty slot, no object, a null pointer. *)
CONSTANT Null
=============================================================================
