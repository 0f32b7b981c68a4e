---------------------------- MODULE ServerSession ----------------------------
(***************************************************************************)
(* A database server as the drivers for PostgreSQL, MariaDB and ODBC see it*)
(* through their client libraries: one session, which the server or the    *)
(* network may end at any call, and the table the clients write to, which  *)
(* outlives it.  External.                                                 *)
(***************************************************************************)
EXTENDS Naturals, NullObject

CONSTANTS
  Query,      \* bound: the query objects; each names at most one statement
  Faults      \* TRUE: the connection may be lost during a call

ASSUME FaultsAssumption == Faults \in BOOLEAN

(***************************************************************************)
(*   up         the session is alive                                       *)
(*   txn        its transaction: "none", "open", or "aborted" by an error  *)
(*   stmts      the prepared statement it holds for each query, or Null    *)
(*   committed  writes that are durable                                    *)
(*   pending    writes of the open transaction                             *)
(***************************************************************************)
NoStmts == [q \in Query |-> Null]

NoSession ==
  [up |-> FALSE, txn |-> "none", stmts |-> NoStmts, committed |-> 0, pending |-> 0]

Connected(s) == [NoSession EXCEPT !.up = TRUE, !.committed = s.committed]
Ended(s)     == [NoSession EXCEPT !.committed = s.committed]

Wrote(s) ==
  IF s.txn = "none" THEN [s EXCEPT !.committed = @ + 1]
  ELSE [s EXCEPT !.pending = @ + 1]

Began(s)      == [s EXCEPT !.txn = "open"]
RolledBack(s) == [s EXCEPT !.txn = "none", !.pending = 0]
Committed(s)  == [RolledBack(s) EXCEPT !.committed = @ + s.pending]

(***************************************************************************)
(* What a call may come back with: a reply and the server after it.  A lost*)
(* call ends the session, before or after the server has done the work.    *)
(***************************************************************************)
Answer(reply, s) == [reply |-> reply, server |-> s]

Lost(s, done) ==
  IF Faults THEN {Answer("lost", Ended(s)), Answer("lost", Ended(done))} ELSE {}

Sessions(Stmt) ==
  [up : BOOLEAN, txn : {"none", "open", "aborted"},
   stmts : [Query -> Stmt \cup {Null}], committed : Nat, pending : Nat]
=============================================================================
