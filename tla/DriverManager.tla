---------------------------- MODULE DriverManager ----------------------------
(***************************************************************************)
(* The driver manager iODBC that the ODBC driver is linked with: what it   *)
(* makes of one statement handle.  Every call is first checked against the *)
(* state of the handle, is then passed on to the driver of the data source,*)
(* and moves the state by what that answers.                               *)
(*                                                                         *)
(*   state   "allocated", "prepared", "executed" without columns,          *)
(*           "cursoropen" executed with columns, "xfetched" once a row was *)
(*           asked for                                                     *)
(*   prep    prep_state, set by SQLPrepare and by SQLExecDirect            *)
(*                                                                         *)
(* The calls are synchronous and send no data at execution, so the states  *)
(* for those are left out.  So is executed_with_info, in which a handle is *)
(* after an execution that the data source answers with                    *)
(* SQL_SUCCESS_WITH_INFO: a success is SQL_SUCCESS here.                   *)
(***************************************************************************)

StmtStates == {"allocated", "prepared", "executed", "cursoropen", "xfetched"}
Handles == [state : StmtStates, prep : BOOLEAN]

SQLAllocStmt == [state |-> "allocated", prep |-> FALSE]

do_cursoropen(h, columns) ==
  [h EXCEPT !.state = IF columns THEN "cursoropen" ELSE "executed"]

(* SQLPrepare and SQLExecDirect are only called on a new handle here, which*)
(* passes their checks.                                                    *)
SQLPrepare(h, ok) ==
  CASE ok -> [state |-> "prepared", prep |-> TRUE]
    [] ~ok /\ h.state \in {"prepared", "executed"} -> SQLAllocStmt
    [] OTHER -> h

SQLExecDirect(h, ok, columns) ==
  CASE h.state = "cursoropen" -> h
    [] h.state # "cursoropen" /\ ok -> [do_cursoropen(h, columns) EXCEPT !.prep = TRUE]
    [] OTHER -> SQLAllocStmt

(* A statement that a row was asked of cannot be executed again: 24000.    *)
ExecuteAllowed(h) ==
  h.state = "prepared" \/ (h.state \in {"executed", "cursoropen"} /\ h.prep)

SQLExecute(h, ok, columns) ==
  CASE h.state = "prepared" /\ ok  -> do_cursoropen(h, columns)
    [] h.state = "executed" /\ ~ok -> [h EXCEPT !.state = "prepared"]
    [] OTHER -> h

FetchAllowed(h) == h.state \notin {"allocated", "prepared"}

(* reply: "row", "no_data" or an error.                                    *)
SQLFetchScroll(h, reply) ==
  IF h.state \in {"cursoropen", "xfetched"} /\ reply \in {"row", "no_data"}
  THEN [h EXCEPT !.state = "xfetched"] ELSE h

(***************************************************************************)
(* The end of a transaction, for every statement of the connection.  The   *)
(* driver says whether it deletes what is prepared, closes the cursors only*)
(* or preserves both (cb_commit and cb_rollback, taken to be the same).    *)
(***************************************************************************)
transactDeletes(h, behavior) == SQLAllocStmt       \* seeded fault
transact(h, behavior) ==
  IF h.state = "allocated" \/ behavior = "preserve" THEN h
  ELSE IF behavior = "delete" \/ ~h.prep THEN SQLAllocStmt
  ELSE [h EXCEPT !.state = "prepared"]
=============================================================================
