----------------------------- MODULE ServerClient -----------------------------
(***************************************************************************)
(* What the models of the drivers for database servers share: one          *)
(* connection, its queries, and a client with what it has been told.  The  *)
(* client makes its calls in any order that the rules in Rules allow.      *)
(***************************************************************************)
EXTENDS Integers, ServerSession

CONSTANTS
  ClientQuery,  \* bound: the queries of the client
  Selects,      \* statements that produce rows
  Writes,       \* statements that change the database
  MaxRows,      \* bound: rows of one result
  MaxWrites,    \* bound: rows written
  Rules         \* the rules the client keeps to

ASSUME ClientAssumption ==
  /\ ClientQuery \subseteq Query
  /\ MaxRows \in Nat /\ MaxWrites \in Nat
  /\ Null \notin Selects \cup Writes /\ Selects \cap Writes = {}

VARIABLES
  conn,    \* isOpen (_isOpen), handle, lastError; and the server at its end
  obj,     \* "unused", "held", or "garbage": a result set nobody refers to
  rs,      \* the result sets
  stray,   \* a live session that no connection refers to any more
  ack,     \* history: the writes the client may count on
  began,   \* history: "yes" in a transaction, "failed" once a call in it failed
  view,    \* history: how far the rows of each query have come, see RowCursor
  said,    \* history: what prepare() last reported as prepared this session
  lost     \* history: a call was lost

historyVars == <<ack, began, view, said, lost>>
vars == <<conn, obj, rs, stray, historyVars>>

BeforeFirst == -1     \* SQL_BeforeFirstRow
AfterLast   == -2     \* SQL_AfterLastRow

Keeps(rule, condition) == rule \in Rules => condition

CanWrite(s) == s.committed + s.pending < MaxWrites

-----------------------------------------------------------------------------
(* The connection, as a record.                                            *)

Unconnected ==
  [isOpen |-> FALSE, handle |-> FALSE, lastError |-> "none", server |-> NoSession]

SetError(c, e) == [c EXCEPT !.lastError = e]

(* The outcome of a call: the connection and the result set after it, what *)
(* it answered, and how many rows it has produced.                         *)
Outcome(c, r, reply, n) ==
  [conn |-> c, rs |-> r, ok |-> reply = "ok", rows |-> n, lost |-> reply = "lost"]

(* There is an error to look at when the call returned False.              *)
Explained(o) == ~o.ok => o.conn.lastError # "none"

RowsOf(reply, select) == IF reply = "ok" /\ select THEN 0..MaxRows ELSE {0}

(* TDatabaseQuery: a connection that is not open is turned down, and a     *)
(* success resets the error.                                               *)
NotOpen(c, r) == {Outcome(SetError(c, "connection"), r, "refused", 0)}

Settled(outcomes) ==
  {[o EXCEPT !.conn.lastError = IF o.ok THEN "none" ELSE @] : o \in outcomes}

-----------------------------------------------------------------------------
(* What the client learns.                                                 *)

NoView  == [status |-> "idle", row |-> 0, made |-> 0]
Refused == [NoView EXCEPT !.status = "refused"]

Started(select, n) ==
  [status |-> IF select THEN "open" ELSE "ended", row |-> 0, made |-> n]

(* nextRow returned True with the row at a position, or False.             *)
Fetched(v, returned, row) ==
  IF returned THEN [v EXCEPT !.row = row]
  ELSE [v EXCEPT !.status = IF @ = "open" THEN "ended" ELSE @]

Spoiled(b) == IF b = "yes" THEN "failed" ELSE b

AckWrite == IF began = "no" THEN [ack EXCEPT !.committed = @ + 1]
            ELSE [ack EXCEPT !.pending = @ + 1]
AckCommit   == [committed |-> ack.committed + ack.pending, pending |-> 0]
AckRollback == [ack EXCEPT !.pending = 0]

SaidAfter(up) == IF up THEN said ELSE NoStmts

RanView(q, o, s) ==
  [view EXCEPT ![q] = IF o.ok THEN Started(s \in Selects, o.rows) ELSE Refused]
RanAck(o, s) == IF o.ok /\ s \in Writes THEN AckWrite ELSE ack

LearnRun(q, o, s) ==
  /\ view' = RanView(q, o, s)
  /\ ack' = RanAck(o, s)
  /\ said' = SaidAfter(o.conn.server.up)

LearnPrepare(q, o, s) ==
  /\ view' = [view EXCEPT ![q] = IF o.ok THEN NoView ELSE Refused]
  /\ said' = [SaidAfter(o.conn.server.up) EXCEPT ![q] = IF o.ok THEN s ELSE Null]
  /\ UNCHANGED ack

(* What it knows of its statements and its transaction is void once the    *)
(* session has been ended.                                                 *)
LearnNewSession ==
  /\ ack' = AckRollback
  /\ began' = "no"
  /\ said' = NoStmts
  /\ UNCHANGED <<view, lost>>

-----------------------------------------------------------------------------
ClientInit ==
  /\ conn = Unconnected
  /\ obj = [q \in Query |-> "unused"]
  /\ stray = FALSE
  /\ ack = [committed |-> 0, pending |-> 0]
  /\ began = "no"
  /\ view = [q \in Query |-> NoView]
  /\ said = NoStmts
  /\ lost = FALSE

(* The client makes a call that gives q a statement, or runs one.          *)
Usable(q) == obj[q] # "garbage" /\ Keeps("rollback_after", began # "failed")

Take(q, o) ==
  /\ conn' = o.conn
  /\ rs' = [rs EXCEPT ![q] = o.rs]
  /\ obj' = [obj EXCEPT ![q] = "held"]
  /\ lost' = (lost \/ o.lost)
  /\ began' = IF o.ok THEN began ELSE Spoiled(began)
  /\ UNCHANGED stray

(* A call that only changes the connection, and tells the client nothing.  *)
ConnOnly(c) ==
  /\ conn' = c
  /\ lost' = (lost \/ (conn.server.up /\ ~c.server.up))
  /\ said' = SaidAfter(c.server.up)
  /\ UNCHANGED <<stray, ack, began, view>>

ResetError ==
  /\ Keeps("check_error", began = "no")
  /\ conn' = SetError(conn, "none")
  /\ UNCHANGED <<obj, rs, stray, historyVars>>

(* One command of a transaction has answered a, told says what is then     *)
(* made of the connection.                                                 *)
TxnTold(a) ==
  [conn EXCEPT !.server = a.server,
               !.lastError = IF a.reply = "ok" THEN @ ELSE "transaction"]

Transact(a) ==
  /\ conn.isOpen
  /\ conn' = TxnTold(a)
  /\ lost' = (lost \/ a.reply = "lost")
  /\ said' = SaidAfter(a.server.up)
  /\ UNCHANGED <<obj, rs, stray, view>>

MayStart  == Keeps("rollback_after", began # "failed") /\ Keeps("no_nesting", began = "no")
MayCommit ==
  /\ Keeps("rollback_after", began # "failed")
  /\ Keeps("check_error", conn.lastError = "none")

LearnStart(ok)  == began' = (IF ok THEN "yes" ELSE began) /\ UNCHANGED ack
LearnCommit(ok) ==
  IF ok THEN ack' = AckCommit /\ began' = "no"
  ELSE began' = Spoiled(began) /\ UNCHANGED ack
LearnRollback(ok) ==
  IF ok THEN ack' = AckRollback /\ began' = "no"
  ELSE began' = Spoiled(began) /\ UNCHANGED ack

-----------------------------------------------------------------------------
(* What the drivers promise.                                               *)

ClientTypeOK ==
  /\ conn \in [isOpen : BOOLEAN, handle : BOOLEAN,
               lastError : {"none", "connection", "statement", "transaction"},
               server : Sessions(Selects \cup Writes)]
  /\ obj \in [Query -> {"unused", "held", "garbage"}]
  /\ stray \in BOOLEAN /\ lost \in BOOLEAN
  /\ ack \in [committed : Nat, pending : Nat]
  /\ began \in {"no", "yes", "failed"}
  /\ view \in [Query -> [status : {"idle", "open", "ended", "refused"},
                         row : Nat, made : Nat]]
  /\ said \in [Query -> Selects \cup Writes \cup {Null}]

Contract == INSTANCE RowCursor WITH cursor <- view

(***************************************************************************)
(* Rows come in order, each exactly once and out of a result that is still *)
(* held, and nextRow returns False exactly at the end, also when the       *)
(* connection is lost, closed or reopened in between.                      *)
(***************************************************************************)
RowsInOrder == Contract!Spec

(***************************************************************************)
(* What the client was told is committed is in the database: commit()      *)
(* "returns: True if successful".                                          *)
(***************************************************************************)
AckedIsDurable == ack.committed <= conn.server.committed

(***************************************************************************)
(* The database has no write that the client was told had failed, or that  *)
(* it rolled back, unless the answer to a call was lost.                   *)
(***************************************************************************)
NoPhantomWrites == ~lost => conn.server.committed <= ack.committed

(***************************************************************************)
(* Opening a connection never leaves an earlier live session, with its     *)
(* transaction and its locks, behind.                                      *)
(***************************************************************************)
OneSession == ~stray
=============================================================================
