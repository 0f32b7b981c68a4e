--------------------------- MODULE SQLiteResultSet ---------------------------
(***************************************************************************)
(* TSQLiteResultSet (with what it inherits from TQueryResultSet) as        *)
(* operators on a record.  The engine below it, an sqlite3 statement, is   *)
(* seen through the result of sqlite3_step:                                *)
(*   "row"    SQLITE_ROW        "done"   SQLITE_DONE                       *)
(*   "error"  anything else (busy, constraint, misuse of a null handle)    *)
(* and "buffered" stands for a fetch that does not reach the engine because*)
(* the row that execute() fetched in advance is still to be handed out.    *)
(***************************************************************************)
EXTENDS Integers, NullObject

BeforeFirst == -1     \* SQL_BeforeFirstRow
AfterLast   == -2     \* SQL_AfterLastRow
OnRow       == 0      \* stands for every index >= 0: no code tells them apart

(***************************************************************************)
(*   stmt          stmtHandle: the prepared statement, Null when finalized *)
(*   at            the engine's cursor: 0 when reset, k on the k-th row    *)
(*   cur           the row held by  values  (0: none, or cleared)          *)
(*   index         the row index: BeforeFirst, AfterLast or OnRow          *)
(*   isActive, initialFetch, fake (fakeFirstRowFetch), bindCount           *)
(*   rec           the statement whose columns the record describes        *)
(*   emptySet      the record's _isEmptySet                                *)
(***************************************************************************)
FreshRS ==
  [stmt |-> Null, at |-> 0, cur |-> 0, index |-> BeforeFirst,
   isActive |-> FALSE, initialFetch |-> TRUE, fake |-> FALSE,
   rec |-> Null, emptySet |-> FALSE, bindCount |-> 0]

(***************************************************************************)
(* clear / clearBindValues: bind values and row values are cleared.        *)
(***************************************************************************)
ClearRS(r) == [r EXCEPT !.bindCount = 0, !.cur = 0]

(***************************************************************************)
(* free: the statement is finalized.  Leaving the registry is RemoveQuery. *)
(***************************************************************************)
FreeRSDangling(r) == [r EXCEPT !.at = 0]   \* seeded fault: the handle is kept
FreeRS(r) == [r EXCEPT !.stmt = Null, !.at = 0]

(***************************************************************************)
(* reset: back before the first row; a row waiting to be handed out and    *)
(* the active flag survive.                                                *)
(***************************************************************************)
ResetRSHalf(r) == [r EXCEPT !.index = BeforeFirst, !.at = 0]   \* seeded fault
ResetRS(r) ==
  [r EXCEPT !.initialFetch = TRUE, !.index = BeforeFirst, !.at = 0]

(***************************************************************************)
(* cleanup: what prepare does to the previous statement.                   *)
(***************************************************************************)
CleanupRS(r) ==
  FreeRS(ClearRS([r EXCEPT !.index = BeforeFirst, !.initialFetch = TRUE]))

(***************************************************************************)
(* nextRow of the result set, one operator per outcome.  A fetch that      *)
(* reaches the engine for the first time since the last reset leaves the   *)
(* row it gets to be handed out by the fetch after it.  cols says whether  *)
(* the statement has columns.  The record is described once, on the first  *)
(* row or on the first empty result, and not again while it is not empty.  *)
(***************************************************************************)
HandedOutKept(r) == r          \* seeded fault: the flag is not taken down
HandedOut(r) == [r EXCEPT !.fake = FALSE]

Stepped(r) == [r EXCEPT !.fake = r.initialFetch, !.initialFetch = FALSE]

(* initRecord: the columns of the statement, if it has any.                *)
InitRecord(s, cols) == IF cols THEN s ELSE Null

OnNewRow(r) ==
  LET fresh == r.rec = Null
  IN [Stepped(r) EXCEPT !.at = r.at + 1, !.cur = r.at + 1, !.index = OnRow,
                        !.rec = IF fresh THEN InitRecord(r.stmt, TRUE) ELSE @,
                        !.emptySet = IF fresh THEN FALSE ELSE @]

(* Seeded fault: the flag stays up.                                        *)
OnDonePhantom(r, cols) ==
  LET fresh == r.rec = Null
  IN [Stepped(r) EXCEPT !.at = 0,
                        !.rec = IF fresh THEN InitRecord(r.stmt, cols) ELSE @,
                        !.emptySet = IF fresh THEN TRUE ELSE @]
OnDone(r, cols) ==
  LET fresh == r.rec = Null
  IN [Stepped(r) EXCEPT !.at = 0, !.fake = FALSE,
                        !.rec = IF fresh THEN InitRecord(r.stmt, cols) ELSE @,
                        !.emptySet = IF fresh THEN TRUE ELSE @]

OnError(r) == [Stepped(r) EXCEPT !.at = 0]

FetchRS(r, out, cols) ==
  CASE out = "buffered" -> HandedOut(r)
    [] out = "row"      -> OnNewRow(r)
    [] out = "done"     -> OnDone(r, cols)
    [] out = "error"    -> OnError(r)

(***************************************************************************)
(* TDatabaseQuery.nextRow on an active result set.  Before the first row it*)
(* is firstRow; after a failed fetch the index becomes AfterLast and       *)
(* reset() sets it back before the first row at once.                      *)
(***************************************************************************)
FetchSucceeds(out) == out \in {"buffered", "row"}

NextRowRS(r, out, cols) ==
  LET fetched == FetchRS(r, out, cols)
  IN IF r.index = BeforeFirst \/ FetchSucceeds(out)
     THEN fetched
     ELSE ResetRS([fetched EXCEPT !.index = AfterLast])
=============================================================================
