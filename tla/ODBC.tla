--------------------------------- MODULE ODBC ---------------------------------
(***************************************************************************)
(* TDBODBC and its TODBCResultSet.  Rows are fetched from the data source  *)
(* one by one, a transaction is autocommit switched off, and the result set*)
(* never gives its statement handle back: it is freed when the query gets  *)
(* another statement or with the connection.                               *)
(***************************************************************************)
EXTENDS ServerClient, DriverManager

CONSTANT CursorBehavior     \* what the end of a transaction does to statements

AllRules ==
  {"rollback_after",   \* when a call in a transaction returns False, roll back
                       \* before anything else
   "heed_refusal",     \* no nextRow after a call that returned False
   "prepared_first",   \* execute() only on a query that has a statement handle, as
                       \* one that was prepared does
   "end_first",        \* end the transaction before the connection is closed
   "fresh_queries",    \* drop every query before the connection is closed
   "toggle_works"}     \* autocommit can be switched on whenever the session lives

ASSUME ODBCAssumption ==
  Rules \subseteq AllRules /\ CursorBehavior \in {"delete", "close", "preserve"}

-----------------------------------------------------------------------------
(* The data source.  txn is "open" while autocommit is off; an error leaves*)
(* the work of the transaction or undoes it.                               *)

Undone(s) == [s EXCEPT !.pending = 0]
Kept(s)   == [Undone(s) EXCEPT !.committed = @ + s.pending]

Ask(s, possible, done) ==
  IF ~s.up THEN {Answer("error", s)}
  ELSE {Answer("error", s), Answer("error", Undone(s))}
         \cup Lost(s, IF possible THEN done ELSE s)
         \cup (IF possible THEN {Answer("ok", done)} ELSE {})

AskRun(s, st) ==
  IF st \in Writes THEN Ask(s, CanWrite(s), Wrote(s)) ELSE Ask(s, TRUE, s)

(* What reads only the catalogue, or one more row, undoes nothing.         *)
AskRead(s) ==
  {Answer("error", s)} \cup Lost(s, s) \cup (IF s.up THEN {Answer("ok", s)} ELSE {})

AskEndTranKeeps(s, done) == AskRead(s)      \* seeded fault: nothing is ended
AskEndTran(s, done) == Ask(s, TRUE, done)

(* Switching autocommit on commits what is pending.                        *)
AskAutocommit(s, on) ==
  LET done == IF on THEN Committed(s) ELSE Began(s)
  IN {Answer("error", s)} \cup Lost(s, done)
       \cup (IF s.up THEN {Answer("ok", done)} ELSE {})

-----------------------------------------------------------------------------
(* The result set.                                                         *)
(*   stmt      stmtHandle: "none", "held", "freed" under it by a disconnect,*)
(*             or "misused" once a freed handle was passed on              *)
(*   h         the statement at its end, see DriverManager                 *)
(*   sql       what it was prepared with or has executed                   *)
(*   rows, at  the rows of the execution, and those fetched                *)
(*   isActive, index                                                       *)

FreshRS ==
  [stmt |-> "none", h |-> SQLAllocStmt, sql |-> Null, rows |-> 0, at |-> 0,
   isActive |-> FALSE, index |-> BeforeFirst]

AllocatedRS == [FreshRS EXCEPT !.stmt = "held"]

Misused(r) == [r EXCEPT !.stmt = "misused"]

ToldSilent(c, a) == [c EXCEPT !.server = a.server]       \* seeded fault
Told(c, a) ==
  [c EXCEPT !.server = a.server,
            !.lastError = IF a.reply = "ok" THEN @ ELSE "statement"]

(***************************************************************************)
(* prepare and executeQuery begin alike: the old statement is freed, a new *)
(* one allocated and its cursor type set, and each of these may fail.      *)
(***************************************************************************)
NoStatementKept(c, r) ==       \* seeded fault: stmtHandle is not cleared
  {Outcome(SetError(c, "statement"), f, "error", 0) :
     f \in {[r EXCEPT !.stmt = IF @ = "held" THEN "freed" ELSE @], AllocatedRS}}
NoStatement(c, r) ==
  {Outcome(SetError(c, "statement"), f, "error", 0) : f \in {FreshRS, AllocatedRS}}

DriverPrepare(c, r, s) ==
  IF r.stmt = "freed" THEN {Outcome(c, Misused(r), "error", 0)}
  ELSE NoStatement(c, r) \cup
       {Outcome(Told(c, a),
                [AllocatedRS EXCEPT !.h = SQLPrepare(@, a.reply = "ok"),
                                    !.sql = IF a.reply = "ok" THEN s ELSE Null],
                a.reply, 0) : a \in Ask(c.server, TRUE, c.server)}

(***************************************************************************)
(* What executeQuery and execute make of the driver's answer.  Once it has *)
(* run, a statement with columns can still fail on their description.      *)
(***************************************************************************)
Ran(c, r, s, h, a) ==
  LET c1 == Told(c, a)
      r1 == [r EXCEPT !.h = h, !.sql = s, !.at = 0]
  IN {Outcome(c1, [r1 EXCEPT !.isActive = a.reply = "ok", !.rows = n], a.reply, n) :
        n \in RowsOf(a.reply, s \in Selects)}
     \cup (IF a.reply = "ok" /\ s \in Selects
           THEN {Outcome(SetError(c1, "statement"), r1, "error", 0)} ELSE {})

DriverExecuteQuery(c, r, s) ==
  IF r.stmt = "freed" THEN {Outcome(c, Misused(r), "error", 0)}
  ELSE NoStatement(c, r) \cup
       UNION {Ran(c, AllocatedRS, s,
                  SQLExecDirect(SQLAllocStmt, a.reply = "ok", s \in Selects), a) :
                a \in AskRun(c.server, s)}

(* Without a statement handle False, and no error.                         *)
IdleRSKept(r) == [r EXCEPT !.isActive = FALSE]       \* seeded fault: index is kept
IdleRS(r) == [r EXCEPT !.isActive = FALSE, !.index = BeforeFirst]

DriverExecute(c, r) ==
  CASE r.stmt = "none"  -> {Outcome(c, IdleRS(r), "refused", 0)}
    [] r.stmt = "freed" -> {Outcome(c, Misused(r), "error", 0)}
    [] r.stmt = "held" /\ ~ExecuteAllowed(r.h) ->
         {Outcome(SetError(c, "statement"), IdleRS(r), "error", 0)}
    [] OTHER -> UNION {Ran(c, IdleRS(r), r.sql,
                           SQLExecute(r.h, a.reply = "ok", r.sql \in Selects), a) :
                         a \in AskRun(c.server, r.sql)}

(* The same through TDatabaseQuery, whose isOpen() is the flag here.       *)
QueryPrepare(c, r, s) ==
  IF c.isOpen THEN Settled(DriverPrepare(c, r, s))
  ELSE NotOpen(c, [r EXCEPT !.isActive = FALSE])

QueryExecuteStatement(c, r, s) ==
  IF c.isOpen THEN Settled(DriverExecuteQuery(c, r, s))
  ELSE NotOpen(c, [r EXCEPT !.isActive = FALSE])

QueryExecute(c, r) ==
  IF c.isOpen THEN Settled(DriverExecute(c, r)) ELSE NotOpen(c, r)

-----------------------------------------------------------------------------
Init == ClientInit /\ rs = [q \in Query |-> FreshRS]

(***************************************************************************)
(* close(): the disconnect frees the statements of the connection.  Within *)
(* a transaction the data source may refuse it; the handle is forgotten    *)
(* all the same and the session goes on.                                   *)
(***************************************************************************)
MayClose ==
  /\ Keeps("end_first", conn.server.up => began = "no")
  /\ Keeps("fresh_queries", conn.isOpen => \A q \in Query : obj[q] = "unused")

DisconnectRefused(c) == c.handle /\ c.server.up /\ c.server.txn = "open"

ClosedConn(c) == [c EXCEPT !.isOpen = FALSE, !.handle = FALSE, !.server = Ended(@)]

FreedRS(r) == [r EXCEPT !.stmt = IF @ = "held" THEN "freed" ELSE @]

DisconnectedKept(c) ==       \* seeded fault: open() does not close first
  /\ stray' = (stray \/ c.server.up)
  /\ UNCHANGED rs
Disconnected(c) ==
  /\ stray' \in {stray, stray \/ DisconnectRefused(c)}
  /\ rs' = IF c.handle THEN [q \in Query |-> FreedRS(rs[q])] ELSE rs

Close ==
  /\ MayClose
  /\ conn' = ClosedConn(conn)
  /\ Disconnected(conn)
  /\ LearnNewSession
  /\ UNCHANGED obj

(* open(): an open connection is closed first; what a failed call has      *)
(* allocated is kept.                                                      *)
OpenedConn(c) ==
  LET failed == [SetError(c, "connection") EXCEPT !.isOpen = FALSE]
  IN {[c EXCEPT !.isOpen = TRUE, !.handle = TRUE, !.server = Connected(@)],
      failed, [failed EXCEPT !.handle = TRUE]}

Open ==
  /\ MayClose
  /\ IF conn.isOpen THEN Disconnected(conn) /\ conn' \in OpenedConn(ClosedConn(conn))
     ELSE conn' \in OpenedConn(conn) /\ UNCHANGED <<rs, stray>>
  /\ LearnNewSession
  /\ UNCHANGED obj

-----------------------------------------------------------------------------
(* An empty statement is turned down by the query itself.                  *)
Reject(q) ==
  /\ Usable(q)
  /\ Take(q, Outcome(SetError(conn, "statement"),
                     [rs[q] EXCEPT !.isActive = FALSE], "refused", 0))
  /\ view' = [view EXCEPT ![q] = Refused]
  /\ UNCHANGED <<ack, said>>

Prepare(q, s) ==
  /\ Usable(q)
  /\ \E o \in QueryPrepare(conn, rs[q], s) :
       Take(q, o) /\ LearnPrepare(q, o, s)

ExecuteStatement(q, s) ==
  /\ Usable(q)
  /\ \E o \in QueryExecuteStatement(conn, rs[q], s) :
       /\ Take(q, o)
       /\ view' = RanView(q, o, s)
       /\ ack' = RanAck(o, s)
       /\ said' = [SaidAfter(o.conn.server.up) EXCEPT ![q] = Null]

MayExecute(q) ==
  /\ Usable(q)
  /\ obj[q] = "held"
  /\ Keeps("prepared_first", rs[q].stmt # "none")

Execute(q) ==
  /\ MayExecute(q)
  /\ \E o \in QueryExecute(conn, rs[q]) : Take(q, o) /\ LearnRun(q, o, rs[q].sql)

(***************************************************************************)
(* nextRow: "row", "no_data", or "error", which sets one.  After a False   *)
(* that was not the first answer the index is AfterLast; the result set    *)
(* stays active, and its reset() does nothing.                             *)
(***************************************************************************)
FetchReplies(r) ==
  IF r.stmt = "freed" \/ ~FetchAllowed(r.h) \/ r.h.state = "executed"
  THEN {[reply |-> "error", server |-> conn.server]}
  ELSE {[reply |-> IF a.reply # "ok" THEN "error"
                   ELSE IF r.at < r.rows THEN "row" ELSE "no_data",
         server |-> a.server] : a \in AskRead(conn.server)}

FetchedRS(r, reply) ==
  LET r1 == [r EXCEPT !.h = SQLFetchScroll(@, reply)]
  IN CASE r.stmt = "freed"                            -> Misused(r)
       [] r.stmt # "freed" /\ reply = "row"           -> [r1 EXCEPT !.at = @ + 1, !.index = @ + 1]
       [] r.stmt # "freed" /\ reply # "row" /\ r.index # BeforeFirst -> [r1 EXCEPT !.index = AfterLast]
       [] OTHER                                       -> r1

FetchedView(v, reply, row) ==
  IF reply = "error" /\ v.status = "open" THEN Refused
  ELSE Fetched(v, reply = "row", row)

NextRow(q) ==
  /\ obj[q] = "held"
  /\ Keeps("heed_refusal", view[q].status # "refused")
  /\ IF rs[q].isActive /\ rs[q].index # AfterLast
     THEN \E f \in FetchReplies(rs[q]) :
            /\ rs' = [rs EXCEPT ![q] = FetchedRS(@, f.reply)]
            /\ conn' = Told(conn, [f EXCEPT !.reply = IF @ = "error" THEN @ ELSE "ok"])
            /\ lost' = (lost \/ (conn.server.up /\ ~f.server.up))
            /\ said' = SaidAfter(f.server.up)
            /\ view' = [view EXCEPT ![q] = FetchedView(@, f.reply, rs[q].at + 1)]
     ELSE /\ view' = [view EXCEPT ![q] = Fetched(@, FALSE, 0)]
          /\ UNCHANGED <<rs, conn, lost, said>>
  /\ UNCHANGED <<obj, stray, ack, began>>

(* free(), or the last reference is dropped: the statement handle stays    *)
(* allocated in the driver manager, and nothing refers to it any more.     *)
Drop(q) ==
  /\ obj[q] = "held"
  /\ obj' = [obj EXCEPT ![q] = "unused"]
  /\ rs' = [rs EXCEPT ![q] = FreshRS]
  /\ view' = [view EXCEPT ![q] = NoView]
  /\ said' = [said EXCEPT ![q] = Null]
  /\ UNCHANGED <<conn, stray, ack, began, lost>>

-----------------------------------------------------------------------------
(* Transactions.                                                           *)

StartTransaction ==
  /\ MayStart
  /\ \E a \in AskAutocommit(conn.server, FALSE) :
       Transact(a) /\ LearnStart(a.reply = "ok")

(***************************************************************************)
(* commit and rollback: SQLEndTran and then autocommit on.  The first goes *)
(* to every statement of the connection; the second may fail alone.        *)
(***************************************************************************)
EndReplies(done) ==
  UNION {IF a.reply # "ok" THEN {[a |-> a, ended |-> FALSE]}
         ELSE {[a |-> b, ended |-> TRUE] :
                 b \in {x \in AskAutocommit(a.server, TRUE) :
                           Keeps("toggle_works", x.reply # "error")}} :
           a \in AskEndTran(conn.server, done)}

EndedBy(e) ==
  /\ conn.isOpen
  /\ conn' = TxnTold(e.a)
  /\ rs' = IF e.ended
           THEN [q \in Query |-> [rs[q] EXCEPT !.h = transact(@, CursorBehavior)]]
           ELSE rs
  /\ lost' = (lost \/ e.a.reply = "lost")
  /\ said' = SaidAfter(e.a.server.up)
  /\ UNCHANGED <<obj, stray, view>>

CommitUnchecked ==       \* seeded fault: the answers are not looked at
  /\ MayCommit
  /\ \E e \in EndReplies(Kept(conn.server)) : EndedBy(e) /\ LearnCommit(TRUE)
Commit ==
  /\ MayCommit
  /\ \E e \in EndReplies(Kept(conn.server)) : EndedBy(e) /\ LearnCommit(e.a.reply = "ok")

Rollback ==
  \E e \in EndReplies(Undone(conn.server)) : EndedBy(e) /\ LearnRollback(e.a.reply = "ok")

-----------------------------------------------------------------------------
(* getTables: a statement of its own, freed in the end.  A failure before  *)
(* the first row sets an error, a later one only ends the list.            *)
GetTables ==
  /\ conn.isOpen
  /\ \E a \in AskRead(conn.server) :
       \/ ConnOnly(Told(conn, a))
       \/ ConnOnly([conn EXCEPT !.server = a.server])
  /\ UNCHANGED <<obj, rs>>

-----------------------------------------------------------------------------
Next ==
  \/ Open \/ Close \/ ResetError
  \/ StartTransaction \/ Commit \/ Rollback \/ GetTables
  \/ \E q \in Query :
       \/ Reject(q) \/ Execute(q) \/ NextRow(q) \/ Drop(q)
       \/ \E s \in Selects \cup Writes : Prepare(q, s) \/ ExecuteStatement(q, s)

Spec == Init /\ [][Next]_vars

-----------------------------------------------------------------------------
(***************************************************************************)
(* Every variable keeps its type, and an open connection has a handle.     *)
(***************************************************************************)
TypeOK ==
  /\ ClientTypeOK
  /\ conn.isOpen => conn.handle
  /\ rs \in [Query -> [stmt : {"none", "held", "freed", "misused"}, h : Handles,
                       sql : Selects \cup Writes \cup {Null},
                       rows : 0..MaxRows, at : 0..MaxRows,
                       isActive : BOOLEAN, index : -2..MaxRows]]

(***************************************************************************)
(* Once prepare() has reported success the statement stays prepared,       *)
(* through executions, fetches and the ends of transactions, unless the    *)
(* data source deletes it there.                                           *)
(***************************************************************************)
PreparedStays ==
  CursorBehavior # "delete" =>
    \A q \in Query :
      said[q] # Null => rs[q].stmt = "held" /\ rs[q].h.prep /\ rs[q].sql = said[q]

(***************************************************************************)
(* No statement handle is passed to the driver manager after it was freed. *)
(***************************************************************************)
HandlesLive == \A q \in Query : rs[q].stmt # "misused"

(***************************************************************************)
(* Whenever prepare() or execute() can return False it leaves an error to  *)
(* look at: "Check connection hasError and error for details of any        *)
(* problems".  In every state, for every call the rules allow and every    *)
(* answer to it, also for a query whose last call has failed already.      *)
(***************************************************************************)
FailuresExplained ==
  \A q \in Query :
    /\ Usable(q) =>
         \A s \in Selects \cup Writes :
           \A o \in QueryPrepare(conn, rs[q], s) \cup QueryExecuteStatement(conn, rs[q], s) :
             Explained(o)
    /\ MayExecute(q) => \A o \in QueryExecute(conn, rs[q]) : Explained(o)

(***************************************************************************)
(* What is prepared and has been executed and read to its end can be       *)
(* executed again: "For a previously prepared statement, pass Null into    *)
(* this method".                                                           *)
(***************************************************************************)
PreparedRuns ==
  \A q \in Query :
    said[q] # Null /\ view[q].status = "ended" => ExecuteAllowed(rs[q].h)
=============================================================================
