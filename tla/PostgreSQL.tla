------------------------------ MODULE PostgreSQL ------------------------------
(***************************************************************************)
(* TDBPostgreSQL and its TPostgreSQLResultSet.  A result is stored whole on*)
(* the client's side; a prepared statement lives on the server under a name*)
(* made of the address of its result set, and is released only by the      *)
(* result set's finalizer, when the collector runs it.                     *)
(*                                                                         *)
(* A call that asks the server is a set of outcomes, one for each answer;  *)
(* calls that ask twice compose two such sets.                             *)
(***************************************************************************)
EXTENDS ServerClient

DriverQuery == Query \ ClientQuery   \* made by tableExists and getTableInfo

AllRules ==
  {"check_error",      \* commit only if no error is outstanding, and leave an
                       \* error in place while in a transaction
   "rollback_after",   \* when a call in a transaction returns False, roll back
                       \* before anything else
   "heed_refusal"}     \* no nextRow after a call that returned False

ASSUME PGAssumption == Rules \subseteq AllRules

-----------------------------------------------------------------------------
(* The server.  Within a transaction an error aborts it, and everything but*)
(* the end of the transaction is refused from then on.                     *)

RefusedBy(s) ==
  Answer("error",
         IF s.txn = "open" THEN [RolledBack(s) EXCEPT !.txn = "aborted"] ELSE s)

(* A dead connection gives no result at all.                               *)
Ask(s, possible, done) ==
  LET able == possible /\ s.txn # "aborted"
  IN IF ~s.up THEN {Answer("none", s)}
     ELSE {RefusedBy(s)} \cup Lost(s, IF able THEN done ELSE s)
            \cup (IF able THEN {Answer("ok", done)} ELSE {})

AskRun(s, st) ==
  IF st \in Writes THEN Ask(s, CanWrite(s), Wrote(s)) ELSE Ask(s, TRUE, s)

(* A statement's name is that of the result set: "prep" + Self.toString(). *)
Name(q) == q

AskPrepare(s, q, st) ==
  Ask(s, s.stmts[Name(q)] = Null, [s EXCEPT !.stmts[Name(q)] = st])
AskDeallocate(s, q) ==
  Ask(s, s.stmts[Name(q)] # Null, [s EXCEPT !.stmts[Name(q)] = Null])
AskExecute(s, q) ==
  IF s.stmts[Name(q)] = Null THEN Ask(s, FALSE, s) ELSE AskRun(s, s.stmts[Name(q)])

(* BEGIN within a transaction changes nothing.                             *)
AskBegin(s) ==
  IF s.txn = "open" THEN {Answer("ok", s)} \cup Lost(s, s) ELSE Ask(s, TRUE, Began(s))

(* COMMIT of an aborted transaction is carried out as a ROLLBACK, and is a *)
(* success; COMMIT of an open one may fail on a deferred constraint.       *)
AskCommit(s) ==
  LET done == IF s.txn = "open" THEN Committed(s) ELSE RolledBack(s)
  IN IF ~s.up THEN {Answer("none", s)}
     ELSE {Answer("ok", done), Answer("error", RolledBack(s))} \cup Lost(s, done)

AskRollbackCommits(s) == AskCommit(s)      \* seeded fault: the wrong command
AskRollback(s) ==
  IF ~s.up THEN {Answer("none", s)}
  ELSE {Answer("ok", RolledBack(s))} \cup Lost(s, RolledBack(s))

-----------------------------------------------------------------------------
(* The result set.                                                         *)
(*   named     _preparedStatementName is set                               *)
(*   result    pgResult is held            rows   _queryRows               *)
(*   isActive, index                                                       *)

FreshRS ==
  [named |-> FALSE, result |-> FALSE, rows |-> 0,
   isActive |-> FALSE, index |-> BeforeFirst]

CleanupRS(r) ==
  [r EXCEPT !.result = FALSE, !.index = BeforeFirst, !.isActive = FALSE, !.rows = -1]

StoredRS(r, n) ==
  [CleanupRS(r) EXCEPT !.result = TRUE, !.rows = n, !.isActive = TRUE]

FetchedRSEarly(r) ==     \* seeded fault: the result is dropped a row too soon
  [r EXCEPT !.index = @ + 1, !.result = r.index + 3 < r.rows]
FetchedRS(r) ==
  [r EXCEPT !.index = @ + 1, !.result = r.index + 2 < r.rows]

HasNextRow(r) == r.isActive /\ r.index # AfterLast /\ r.index < r.rows - 1

(* nextRow of the query: at the end the result set cleans itself up; past  *)
(* the first row the index is then set to AfterLast.                       *)
NextRowRS(r) ==
  IF HasNextRow(r) THEN FetchedRS(r)
  ELSE IF ~r.isActive \/ r.index = AfterLast THEN r
  ELSE IF r.index = BeforeFirst THEN CleanupRS(r)
  ELSE [CleanupRS(r) EXCEPT !.index = AfterLast]

-----------------------------------------------------------------------------
(* The calls of the driver, as sets of outcomes.                           *)

(* isOpen(): the flag is taken down when the connection turns out bad.     *)
CheckOpen(c) == [c EXCEPT !.isOpen = @ /\ c.server.up]

(* The connection after an answer; no result at all sets no error.         *)
ToldSilent(c, a) == [c EXCEPT !.server = a.server]       \* seeded fault
Told(c, a) ==
  [c EXCEPT !.server = a.server,
            !.lastError = IF a.reply \in {"error", "lost"} THEN "statement" ELSE @]

(* DEALLOCATE through executeQuery, by prepare and by the finalizer.       *)
Deallocated(c, q, named) ==
  LET c1 == CheckOpen(c)
  IN IF ~named THEN {c}
     ELSE IF ~c1.isOpen THEN {c1}
     ELSE {Told(c1, a) : a \in AskDeallocate(c1.server, q)}

DriverPrepareUnchecked(c, q, r, s) ==   \* seeded fault: the status is not looked at
  UNION {{Outcome(Told(c1, a), [CleanupRS(r) EXCEPT !.named = TRUE],
                  IF a.reply = "error" THEN "ok" ELSE a.reply, 0) :
            a \in AskPrepare(c1.server, q, s)} :
           c1 \in Deallocated(c, q, r.named)}
DriverPrepare(c, q, r, s) ==
  UNION {{Outcome(Told(c1, a), [CleanupRS(r) EXCEPT !.named = TRUE], a.reply, 0) :
            a \in AskPrepare(c1.server, q, s)} :
           c1 \in Deallocated(c, q, r.named)}

DriverExecuteQuery(c, r, s) ==
  UNION {{Outcome(Told(c, a),
                  IF a.reply = "ok" /\ s \in Selects THEN StoredRS(r, n) ELSE CleanupRS(r),
                  a.reply, n) :
            n \in RowsOf(a.reply, s \in Selects)} :
           a \in AskRun(c.server, s)}

(* Without a prepared statement the name sent is empty, and no statement   *)
(* has that name.  No result at all sets an error here.                    *)
DriverExecute(c, q, r) ==
  LET s    == c.server.stmts[Name(q)]
      asks == IF r.named THEN AskExecute(c.server, q) ELSE Ask(c.server, FALSE, c.server)
  IN UNION {{Outcome(IF a.reply = "none" THEN SetError(c, "statement") ELSE Told(c, a),
                     IF n > 0 THEN StoredRS(r, n) ELSE CleanupRS(r),
                     a.reply, n) :
               n \in RowsOf(a.reply, s \in Selects)} :
              a \in asks}

(* The same through TDatabaseQuery.                                        *)
QueryPrepare(c, q, r, s) ==
  LET c1 == CheckOpen(c) r1 == [r EXCEPT !.isActive = FALSE]
  IN IF c1.isOpen THEN Settled(DriverPrepare(c1, q, r1, s)) ELSE NotOpen(c1, r1)

QueryExecuteStatement(c, r, s) ==
  LET c1 == CheckOpen(c) r1 == [r EXCEPT !.isActive = FALSE]
  IN IF c1.isOpen THEN Settled(DriverExecuteQuery(c1, r1, s)) ELSE NotOpen(c1, r1)

QueryExecute(c, q, r) ==
  LET c1 == CheckOpen(c)
  IN IF c1.isOpen THEN Settled(DriverExecute(c1, q, r)) ELSE NotOpen(c1, r)

-----------------------------------------------------------------------------
Init == ClientInit /\ rs = [q \in Query |-> FreshRS]

(* close(): only an open connection is finished.                           *)
ClosedConn(c) ==
  IF c.isOpen THEN [c EXCEPT !.isOpen = FALSE, !.handle = FALSE, !.server = Ended(@)]
  ELSE c

Close ==
  /\ conn' = ClosedConn(conn)
  /\ LearnNewSession
  /\ UNCHANGED <<obj, rs, stray>>

(***************************************************************************)
(* open(): a connection that is open is closed first; a handle that is     *)
(* still there is overwritten.                                             *)
(***************************************************************************)
ReadyConnUnclosed(c) == c          \* seeded fault: open() does not close first
ReadyConn(c) == ClosedConn(c)

Open ==
  /\ LET c == ReadyConn(conn)
     IN /\ stray' = (stray \/ c.server.up)
        /\ \/ conn' = [c EXCEPT !.isOpen = TRUE, !.handle = TRUE,
                                !.server = Connected(@)]
           \/ conn' = [c EXCEPT !.isOpen = FALSE, !.handle = FALSE,
                                !.lastError = "connection", !.server = Ended(@)]
  /\ LearnNewSession
  /\ UNCHANGED <<obj, rs>>

(* isOpen() called by the client.                                          *)
IsOpen == ConnOnly(CheckOpen(conn)) /\ UNCHANGED <<obj, rs>>

(* An empty statement is turned down by the query itself.                  *)
Reject(q) ==
  /\ Usable(q)
  /\ LET o == Outcome(SetError(conn, "statement"),
                      [rs[q] EXCEPT !.isActive = FALSE], "refused", 0)
     IN Take(q, o)
  /\ view' = [view EXCEPT ![q] = Refused]
  /\ UNCHANGED <<ack, said>>

Prepare(q, s) ==
  /\ Usable(q)
  /\ \E o \in QueryPrepare(conn, q, rs[q], s) : Take(q, o) /\ LearnPrepare(q, o, s)

ExecuteStatement(q, s) ==
  /\ Usable(q)
  /\ \E o \in QueryExecuteStatement(conn, rs[q], s) : Take(q, o) /\ LearnRun(q, o, s)

MayExecute(q) == Usable(q) /\ obj[q] = "held"

Execute(q) ==
  /\ MayExecute(q)
  /\ \E o \in QueryExecute(conn, q, rs[q]) :
       Take(q, o) /\ LearnRun(q, o, conn.server.stmts[Name(q)])

NextRow(q) ==
  /\ obj[q] = "held"
  /\ Keeps("heed_refusal", view[q].status # "refused")
  /\ rs' = [rs EXCEPT ![q] = NextRowRS(@)]
  /\ view' = [view EXCEPT ![q] =
                Fetched(@, HasNextRow(rs[q]),
                        IF rs[q].result THEN rs[q].index + 2 ELSE 0)]
  /\ UNCHANGED <<conn, obj, stray, ack, began, said, lost>>

(* free(), or the last reference is dropped: the result set is garbage.    *)
Drop(q) ==
  /\ obj[q] = "held"
  /\ obj' = [obj EXCEPT ![q] = "garbage"]
  /\ rs' = [rs EXCEPT ![q] = [FreshRS EXCEPT !.named = rs[q].named]]
  /\ view' = [view EXCEPT ![q] = NoView]
  /\ said' = [said EXCEPT ![q] = Null]
  /\ UNCHANGED <<conn, stray, ack, began, lost>>

(* Delete(), run by the collector at a moment of its own.                  *)
Collect(q) ==
  /\ obj[q] = "garbage"
  /\ \E c \in Deallocated(conn, q, rs[q].named) : ConnOnly(c)
  /\ obj' = [obj EXCEPT ![q] = "unused"]
  /\ rs' = [rs EXCEPT ![q] = FreshRS]

-----------------------------------------------------------------------------
(* Transactions.                                                           *)

StartTransaction ==
  /\ MayStart
  /\ \E a \in AskBegin(conn.server) : Transact(a) /\ LearnStart(a.reply = "ok")

CommitUnchecked ==       \* seeded fault: the answer is not looked at
  /\ MayCommit
  /\ \E a \in AskCommit(conn.server) : Transact(a) /\ LearnCommit(TRUE)
Commit ==
  /\ MayCommit
  /\ \E a \in AskCommit(conn.server) : Transact(a) /\ LearnCommit(a.reply = "ok")

Rollback ==
  \E a \in AskRollback(conn.server) : Transact(a) /\ LearnRollback(a.reply = "ok")

-----------------------------------------------------------------------------
(* The catalogue.                                                          *)

(***************************************************************************)
(* tableExists: prepare, whose result is not looked at, execute, one       *)
(* nextRow, and free, which leaves the prepared statement to the collector.*)
(* getTableInfo is tableExists and then the same again with another query. *)
(***************************************************************************)
TableExists(q) ==
  /\ conn.isOpen
  /\ obj[q] = "unused"
  /\ \E s \in Selects :
       \E p \in QueryPrepare(conn, q, FreshRS, s) :
         \E o \in QueryExecute(p.conn, q, p.rs) :
           /\ ConnOnly(o.conn)
           /\ rs' = [rs EXCEPT ![q] = [FreshRS EXCEPT !.named = p.rs.named]]
  /\ obj' = [obj EXCEPT ![q] = "garbage"]

(* getTables: one statement, its rows read to the end, and free.           *)
GetTables ==
  /\ conn.isOpen
  /\ \E s \in Selects :
       \E o \in QueryExecuteStatement(conn, FreshRS, s) : ConnOnly(o.conn)
  /\ UNCHANGED <<obj, rs>>

-----------------------------------------------------------------------------
Next ==
  \/ Open \/ Close \/ ResetError \/ IsOpen
  \/ StartTransaction \/ Commit \/ Rollback \/ GetTables
  \/ \E q \in ClientQuery :
       \/ Reject(q) \/ Execute(q) \/ NextRow(q) \/ Drop(q)
       \/ \E s \in Selects \cup Writes : Prepare(q, s) \/ ExecuteStatement(q, s)
  \/ \E q \in DriverQuery : TableExists(q)
  \/ \E q \in Query : Collect(q)

Spec == Init /\ [][Next]_vars

-----------------------------------------------------------------------------
(***************************************************************************)
(* Every variable keeps its type, and an open connection has a handle.     *)
(***************************************************************************)
TypeOK ==
  /\ ClientTypeOK
  /\ conn.isOpen => conn.handle
  /\ rs \in [Query -> [named : BOOLEAN, result : BOOLEAN, rows : -1..MaxRows,
                       isActive : BOOLEAN, index : -2..MaxRows]]

(***************************************************************************)
(* Once prepare() has reported success, the server holds that statement for*)
(* that query as long as the session lives and the query is not prepared   *)
(* again: no finalizer of another result set releases it.                  *)
(***************************************************************************)
PreparedStays ==
  \A q \in Query : said[q] # Null => conn.server.stmts[Name(q)] = said[q]

(***************************************************************************)
(* Whenever prepare() or execute() can return False it leaves an error to  *)
(* look at: "Check connection hasError and error for details of any        *)
(* problems".  In every state, for every call the rules allow and every    *)
(* answer to it, also for a query whose last call has failed already.      *)
(***************************************************************************)
FailuresExplained ==
  \A q \in ClientQuery :
    /\ Usable(q) =>
         \A s \in Selects \cup Writes :
           \A o \in QueryPrepare(conn, q, rs[q], s) \cup QueryExecuteStatement(conn, rs[q], s) :
             Explained(o)
    /\ MayExecute(q) => \A o \in QueryExecute(conn, q, rs[q]) : Explained(o)
=============================================================================
