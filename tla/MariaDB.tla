------------------------------- MODULE MariaDB -------------------------------
(***************************************************************************)
(* TDBMariaDB and its TMySQLResultSet.  Results are stored whole on the    *)
(* client's side, in a result handle for execute(sql) and in the statement *)
(* handle for a prepared query; cleanup() closes them all, and reading a   *)
(* result to its end calls it.                                             *)
(***************************************************************************)
EXTENDS ServerClient

AllRules ==
  {"rollback_after",   \* when a call in a transaction returns False, roll back
                       \* before anything else
   "heed_refusal",     \* no nextRow after a call that returned False
   "no_nesting",       \* startTransaction only outside a transaction
   "prepared_first",   \* execute() only on a query that was prepared last
   "not_drained"}      \* and whose rows were not read to their end since

ASSUME MariaDBAssumption == Rules \subseteq AllRules

-----------------------------------------------------------------------------
(* The server.  An error leaves the transaction open or, on a deadlock,    *)
(* rolls it back; BEGIN commits the transaction that is open.              *)

Ask(s, possible, done) ==
  IF ~s.up THEN {Answer("lost", s)}
  ELSE {Answer("error", s), Answer("error", RolledBack(s))}
         \cup Lost(s, IF possible THEN done ELSE s)
         \cup (IF possible THEN {Answer("ok", done)} ELSE {})

AskRun(s, st) ==
  IF st \in Writes THEN Ask(s, CanWrite(s), Wrote(s)) ELSE Ask(s, TRUE, s)

AskPing(s) ==
  IF s.up THEN {Answer("ok", s)} \cup Lost(s, s) ELSE {Answer("lost", s)}

(* mysql_stmt_close has no answer; a prepared statement gone with its      *)
(* session cannot be reset any more.                                       *)
StmtClosed(s, q) == [s EXCEPT !.stmts[q] = Null]
AskStmtPrepare(s, q, st) == Ask(s, TRUE, [s EXCEPT !.stmts[q] = st])
AskStmtReset(s, q) ==
  IF s.stmts[q] = Null THEN {Answer("error", s)} ELSE AskPing(s) \cup {Answer("error", s)}
AskStmtExecute(s, q) == AskRun(s, s.stmts[q])

(* Rows are copied to the client after the statement has run.              *)
AskStore(s) == AskPing(s)

(* The catalogue takes no row locks, so it is never a deadlock's victim.    *)
AskCatalogue(s) == AskPing(s) \cup {Answer("error", s)}

AskBegin(s)  == Ask(s, TRUE, Began(Committed(s)))
AskCommit(s) == Ask(s, TRUE, Committed(s))
AskRollbackCommits(s) == AskCommit(s)      \* seeded fault: the wrong command
AskRollback(s) == Ask(s, TRUE, RolledBack(s))

-----------------------------------------------------------------------------
(* The result set.                                                         *)
(*   stmt        the statement of stmtHandle, or Null                      *)
(*   prepared    preparedQuery                                             *)
(*   rows, at    rows stored in the handle that is read, rows fetched      *)
(*   isActive, index                                                       *)

FreshRS ==
  [stmt |-> Null, prepared |-> FALSE, rows |-> 0, at |-> 0,
   isActive |-> FALSE, index |-> BeforeFirst]

CleanupRS(r) == [FreshRS EXCEPT !.prepared = TRUE]

(* cleanup() closes the statement on the server too; clear, reset, free and*)
(* Delete come down to it.                                                 *)
CleanupConn(c, q, r) ==
  IF r.stmt = Null THEN c ELSE [c EXCEPT !.server = StmtClosed(@, q)]

-----------------------------------------------------------------------------
(* The calls of the driver, as sets of outcomes.                           *)

ToldSilent(c, a, e) == [c EXCEPT !.server = a.server]       \* seeded fault
Told(c, a, e) ==
  [c EXCEPT !.server = a.server, !.lastError = IF a.reply = "ok" THEN @ ELSE e]

(* isOpen(): asks the server, and takes the flag down if there is no answer.*)
Checked(c) ==
  IF ~c.isOpen THEN {c}
  ELSE {[Told(c, a, "connection") EXCEPT !.isOpen = a.reply = "ok"] :
          a \in AskPing(c.server)}

DriverPrepare(c, q, r, s) ==
  {Outcome(Told(c, a, "statement"),
           IF a.reply = "ok" THEN [CleanupRS(r) EXCEPT !.stmt = s] ELSE CleanupRS(r),
           a.reply, 0) :
     a \in AskStmtPrepare(c.server, q, s)}

DirectRSPrepared(r, n) ==      \* seeded fault: preparedQuery stays set
  [r EXCEPT !.isActive = TRUE, !.rows = n, !.at = 0]
DirectRS(r, n) ==
  [r EXCEPT !.prepared = FALSE, !.isActive = TRUE, !.rows = n, !.at = 0]

(* executeQuery asks whether the connection is open once more, runs the    *)
(* statement and stores its rows.                                          *)
DriverExecuteQuery(c, r, s) ==
  UNION {IF ~c1.isOpen THEN {Outcome(c1, r, "lost", 0)}
         ELSE UNION {
           LET c2 == Told(c1, a, "statement")
           IN IF a.reply # "ok" THEN {Outcome(c2, [r EXCEPT !.prepared = FALSE], a.reply, 0)}
              ELSE IF s \notin Selects THEN {Outcome(c2, DirectRS(r, 0), "ok", 0)}
              ELSE UNION {{Outcome(Told(c2, b, "statement"),
                                   IF b.reply = "ok" THEN DirectRS(r, n)
                                   ELSE [r EXCEPT !.prepared = FALSE],
                                   b.reply, n) :
                             n \in RowsOf(b.reply, TRUE)} : b \in AskStore(c2.server)} :
           a \in AskRun(c1.server, s)} :
         c1 \in Checked(c)}

(***************************************************************************)
(* execute(): without a statement False and no error.  The row index is    *)
(* put back and the statement is reset first, which drops its rows; the    *)
(* active flag of an earlier execution survives a failure.                 *)
(***************************************************************************)
ResetRS(r) == [r EXCEPT !.index = BeforeFirst, !.rows = 0, !.at = 0]

RanRS(r, n) == [ResetRS(r) EXCEPT !.isActive = TRUE, !.rows = n]

DriverExecute(c, q, r) ==
  IF ~r.prepared \/ r.stmt = Null THEN {Outcome(c, r, "refused", 0)}
  ELSE UNION {
    LET c1 == Told(c, a, "statement")
    IN IF a.reply # "ok" THEN {Outcome(c1, ResetRS(r), a.reply, 0)}
       ELSE UNION {
         LET c2 == Told(c1, b, "statement")
         IN IF b.reply # "ok" THEN {Outcome(c2, ResetRS(r), b.reply, 0)}
            ELSE IF r.stmt \notin Selects THEN {Outcome(c2, RanRS(r, 0), "ok", 0)}
            ELSE UNION {{Outcome(Told(c2, d, "statement"),
                                 IF d.reply = "ok" THEN RanRS(r, n) ELSE ResetRS(r),
                                 d.reply, n) :
                           n \in RowsOf(d.reply, TRUE)} : d \in AskStore(c2.server)} :
         b \in AskStmtExecute(c1.server, q)} :
    a \in AskStmtReset(c.server, q)}

(* The same through TDatabaseQuery, which clears the result set before it  *)
(* gives it another statement.                                             *)
QueryPrepare(c, q, r, s) ==
  UNION {IF c1.isOpen THEN Settled(DriverPrepare(c1, q, CleanupRS(r), s))
         ELSE NotOpen(c1, CleanupRS(r)) : c1 \in Checked(CleanupConn(c, q, r))}

QueryExecuteStatement(c, q, r, s) ==
  UNION {IF c1.isOpen THEN Settled(DriverExecuteQuery(c1, CleanupRS(r), s))
         ELSE NotOpen(c1, CleanupRS(r)) : c1 \in Checked(CleanupConn(c, q, r))}

QueryExecute(c, q, r) ==
  UNION {IF c1.isOpen THEN Settled(DriverExecute(c1, q, r)) ELSE NotOpen(c1, r) :
           c1 \in Checked(c)}

(* nextRow of the query: a False after a row resets the result set, which  *)
(* closes its statement; a False before any row leaves all as it is.       *)
HasRow(r) == r.isActive /\ (r.prepared => r.stmt # Null) /\ r.at < r.rows

ResetsAlways(r) == r.isActive /\ ~HasRow(r)       \* seeded fault
Resets(r) == r.isActive /\ ~HasRow(r) /\ r.index # BeforeFirst

-----------------------------------------------------------------------------
Init == ClientInit /\ rs = [q \in Query |-> FreshRS]

(***************************************************************************)
(* Reading a prepared result after the session that ran it was closed is   *)
(* undefined in the client library, so the client does not close under one.*)
(***************************************************************************)
ReadingPrepared(q) == view[q].status = "open" /\ rs[q].prepared
MayClose == conn.isOpen => \A q \in Query : ~ReadingPrepared(q)

(* close(): of an open connection only; free() forgets the error.          *)
ClosedConn(c) ==
  IF c.isOpen THEN [Unconnected EXCEPT !.server = Ended(c.server)] ELSE c

Close ==
  /\ MayClose
  /\ conn' = ClosedConn(conn)
  /\ LearnNewSession
  /\ UNCHANGED <<obj, rs, stray>>

(***************************************************************************)
(* open(): a connection that is open is closed first.  A new handle        *)
(* replaces the old one; it is kept when connecting fails, and so is the   *)
(* session when its database cannot be selected.                           *)
(***************************************************************************)
ReadyConn(c) == ClosedConn(c)

OpenedConn(c) ==
  LET h == [c EXCEPT !.handle = TRUE, !.isOpen = FALSE, !.server = Ended(@)]
      failed == SetError(h, "connection")
  IN {[h EXCEPT !.isOpen = TRUE, !.server = Connected(@)],
      failed,
      [failed EXCEPT !.handle = FALSE],
      [failed EXCEPT !.server = Connected(@)]}

Open ==
  /\ MayClose
  /\ LET c == ReadyConn(conn)
     IN /\ stray' = (stray \/ c.server.up)
        /\ conn' \in OpenedConn(c)
  /\ LearnNewSession
  /\ UNCHANGED <<obj, rs>>

IsOpen == (\E c \in Checked(conn) : ConnOnly(c)) /\ UNCHANGED <<obj, rs>>

-----------------------------------------------------------------------------
(* An empty statement is turned down by the query once the result set has  *)
(* been cleared.                                                           *)
Reject(q) ==
  /\ Usable(q)
  /\ LET c == SetError(CleanupConn(conn, q, rs[q]), "statement")
     IN Take(q, Outcome(c, CleanupRS(rs[q]), "refused", 0))
  /\ view' = [view EXCEPT ![q] = Refused]
  /\ said' = [said EXCEPT ![q] = Null]
  /\ UNCHANGED ack

Prepare(q, s) ==
  /\ Usable(q)
  /\ \E o \in QueryPrepare(conn, q, rs[q], s) : Take(q, o) /\ LearnPrepare(q, o, s)

ExecuteStatement(q, s) ==
  /\ Usable(q)
  /\ \E o \in QueryExecuteStatement(conn, q, rs[q], s) :
       /\ Take(q, o)
       /\ view' = RanView(q, o, s)
       /\ ack' = RanAck(o, s)
       /\ said' = [SaidAfter(o.conn.server.up) EXCEPT ![q] = Null]

Drained(q) == view[q].status = "ended" /\ view[q].row > 0

MayExecute(q) ==
  /\ Usable(q)
  /\ obj[q] = "held"
  /\ Keeps("prepared_first", rs[q].prepared
                               /\ (rs[q].stmt # Null \/ (Drained(q) /\ said[q] # Null)))
  /\ Keeps("not_drained", ~Drained(q))

Execute(q) ==
  /\ MayExecute(q)
  /\ \E o \in QueryExecute(conn, q, rs[q]) : Take(q, o) /\ LearnRun(q, o, rs[q].stmt)

NextRow(q) ==
  /\ obj[q] = "held"
  /\ Keeps("heed_refusal", view[q].status # "refused")
  /\ LET r == rs[q]
     IN /\ rs' = [rs EXCEPT ![q] =
                    CASE HasRow(r) -> [r EXCEPT !.at = @ + 1, !.index = @ + 1]
                      [] Resets(r) -> CleanupRS(r)
                      [] OTHER     -> r]
        /\ conn' = IF Resets(r) THEN CleanupConn(conn, q, r) ELSE conn
        /\ view' = [view EXCEPT ![q] = Fetched(@, HasRow(r), r.at + 1)]
  /\ UNCHANGED <<obj, stray, ack, began, said, lost>>

Release(q) ==
  /\ conn' = CleanupConn(conn, q, rs[q])
  /\ rs' = [rs EXCEPT ![q] = FreshRS]
  /\ obj' = [obj EXCEPT ![q] = "unused"]
  /\ UNCHANGED <<stray, ack, began, lost>>

(* free() of the query, and the same by the finalizer at a moment of the   *)
(* collector's own, once the last reference is dropped.                    *)
Free(q) ==
  /\ obj[q] = "held"
  /\ Release(q)
  /\ view' = [view EXCEPT ![q] = NoView]
  /\ said' = [said EXCEPT ![q] = Null]

Drop(q) ==
  /\ obj[q] = "held"
  /\ obj' = [obj EXCEPT ![q] = "garbage"]
  /\ view' = [view EXCEPT ![q] = NoView]
  /\ said' = [said EXCEPT ![q] = Null]
  /\ UNCHANGED <<conn, rs, stray, ack, began, lost>>

Collect(q) == obj[q] = "garbage" /\ Release(q) /\ UNCHANGED <<view, said>>

-----------------------------------------------------------------------------
(* Transactions.                                                           *)

StartTransaction ==
  /\ MayStart
  /\ \E a \in AskBegin(conn.server) : Transact(a) /\ LearnStart(a.reply = "ok")

CommitUnchecked ==       \* seeded fault: the answer is not looked at
  /\ MayCommit
  /\ \E a \in AskCommit(conn.server) : Transact(a) /\ LearnCommit(TRUE)
Commit ==
  /\ MayCommit
  /\ \E a \in AskCommit(conn.server) : Transact(a) /\ LearnCommit(a.reply = "ok")

Rollback ==
  \E a \in AskRollback(conn.server) : Transact(a) /\ LearnRollback(a.reply = "ok")

-----------------------------------------------------------------------------
(* The catalogue.                                                          *)

(* getTables asks through the handle, and a failure is not reported.       *)
GetTables ==
  /\ conn.isOpen
  /\ \E a \in AskCatalogue(conn.server) : ConnOnly([conn EXCEPT !.server = a.server])
  /\ UNCHANGED <<obj, rs>>

(* getTableInfo: a query of its own, run once or, for the DDL, twice; none *)
(* of its rows outlives the call.                                          *)
Described(c) ==
  UNION {IF ~c1.isOpen THEN {SetError(c1, "connection")}
         ELSE {IF a.reply = "ok" THEN SetError(Told(c1, a, "statement"), "none")
               ELSE Told(c1, a, "statement") : a \in AskCatalogue(c1.server)} :
         c1 \in Checked(c)}

GetTableInfo ==
  /\ conn.isOpen
  /\ \E c \in Described(conn) : \E c1 \in {c} \cup Described(c) : ConnOnly(c1)
  /\ UNCHANGED <<obj, rs>>

-----------------------------------------------------------------------------
Next ==
  \/ Open \/ Close \/ ResetError \/ IsOpen
  \/ StartTransaction \/ Commit \/ Rollback \/ GetTables \/ GetTableInfo
  \/ \E q \in Query :
       \/ Reject(q) \/ Execute(q) \/ NextRow(q) \/ Free(q) \/ Drop(q) \/ Collect(q)
       \/ \E s \in Selects \cup Writes : Prepare(q, s) \/ ExecuteStatement(q, s)

Spec == Init /\ [][Next]_vars

-----------------------------------------------------------------------------
(***************************************************************************)
(* Every variable keeps its type, and an open connection has a handle.     *)
(***************************************************************************)
TypeOK ==
  /\ ClientTypeOK
  /\ conn.isOpen => conn.handle
  /\ rs \in [Query -> [stmt : Selects \cup Writes \cup {Null}, prepared : BOOLEAN,
                       rows : 0..MaxRows, at : 0..MaxRows,
                       isActive : BOOLEAN, index : -1..MaxRows]]

(***************************************************************************)
(* Once prepare() has reported success, the query and the server hold the  *)
(* statement, through executions, refusals and empty results, until its    *)
(* rows are read to their end, it is replaced or the session ends.         *)
(***************************************************************************)
PreparedStays ==
  \A q \in Query :
    said[q] # Null /\ ~Drained(q)
      => rs[q].stmt = said[q] /\ conn.server.stmts[q] = said[q]

(***************************************************************************)
(* Whenever prepare() or execute() can return False it leaves an error to  *)
(* look at: "Check connection hasError and error for details of any        *)
(* problems".  In every state, for every call the rules allow and every    *)
(* answer to it, also for a query whose last call has failed already.      *)
(***************************************************************************)
FailuresExplained ==
  \A q \in Query :
    /\ Usable(q) =>
         \A s \in Selects \cup Writes :
           \A o \in QueryPrepare(conn, q, rs[q], s) \cup QueryExecuteStatement(conn, q, rs[q], s) :
             Explained(o)
    /\ MayExecute(q) => \A o \in QueryExecute(conn, q, rs[q]) : Explained(o)
=============================================================================
