----------------------------- MODULE ODBCProofs -----------------------------
(***************************************************************************)
(* Proofs about ODBC, for any number of queries, statements, rows and      *)
(* writes, with and without lost calls.  They are about clients that keep  *)
(* all the rules.                                                          *)
(***************************************************************************)
EXTENDS ODBC, ServerClientProofs

Counts  == 0..MaxRows
Indexes == -2..MaxRows

(* A statement handle is never freed under its result set.                 *)
RSType ==
  [stmt : {"none", "held"}, h : Handles, sql : Stmt \cup {Null},
   rows : Counts, at : Counts, isActive : BOOLEAN, index : Indexes]

-----------------------------------------------------------------------------
(* The inductive invariant.                                                *)

(* A connection as it is between two calls: only an open one has a live    *)
(* session.                                                                *)
GoodConn(c) ==
  /\ c \in ConnType
  /\ c.isOpen => c.handle
  /\ GoodSession(c.server)
  /\ c.server.up => c.isOpen

(* The result set agrees with how far its client has come.                 *)
Agrees(v, r) ==
  /\ v.status = "idle" => ~r.isActive
  /\ v.status = "open" =>
       /\ r.isActive /\ v.row = r.at /\ v.made = r.rows
       /\ r.at <= r.rows /\ r.index = r.at - 1
  /\ v.status = "ended" /\ r.isActive => r.at >= r.rows

(* A result set in use has lost its statement only to a failed call.       *)
Fits(v, r) == Agrees(v, r) /\ (r.stmt = "none" => v = Refused)

ConnParts ==
  /\ OneSession /\ stray \in BOOLEAN
  /\ GoodConn(conn)
  /\ Accounted

QueryParts ==
  /\ obj \in [Query -> {"unused", "held", "garbage"}]
  /\ rs \in [Query -> RSType] /\ view \in [Query -> ViewType]
  /\ \A q \in Query : IF obj[q] = "held" THEN Fits(view[q], rs[q])
                      ELSE rs[q] = FreshRS /\ view[q] = NoView
  /\ ~conn.isOpen => \A q \in Query : rs[q].stmt = "none"

SaidParts ==
  /\ said \in [Query -> Stmt \cup {Null}]
  /\ PreparedStays

IndInv == ConnParts /\ QueryParts /\ SaidParts

-----------------------------------------------------------------------------
(* The answers of the data source.                                         *)

LEMMA AskAnswers ==
  ASSUME NEW s, NEW possible, NEW done, NEW a \in Ask(s, possible, done)
  PROVE  \/ a = Answer("error", s)
         \/ s.up /\ a = Answer("error", Undone(s))
         \/ s.up /\ a = Answer("lost", Ended(s))
         \/ s.up /\ a = Answer("lost", Ended(done)) /\ possible
         \/ s.up /\ a = Answer("ok", done) /\ possible
BY DEF Ask, Lost

(***************************************************************************)
(* What the end of a piece of work makes of a session.                     *)
(***************************************************************************)
LEMMA UndoneKept ==
  ASSUME NEW s, GoodSession(s)
  PROVE  /\ GoodSession(Undone(s)) /\ Idle(s, Undone(s))
         /\ Undone(s).up = s.up /\ Undone(s).txn = s.txn /\ Undone(s).pending = 0
         /\ Undone(s).committed = s.committed
         /\ GoodSession(Kept(s)) /\ Kept(s).up = s.up /\ Kept(s).txn = s.txn
         /\ Kept(s).pending = 0 /\ Kept(s).committed = s.committed + s.pending
<1>1. s \in Sessions(Stmt) /\ s.committed \in Nat /\ s.pending \in Nat
  BY SessionNumbers DEF GoodSession
<1>2. /\ Undone(s) \in Sessions(Stmt) /\ Undone(s).up = s.up /\ Undone(s).txn = s.txn
      /\ Undone(s).pending = 0 /\ Undone(s).committed = s.committed
  BY <1>1 DEF Undone, Sessions
<1>3. /\ Kept(s) \in Sessions(Stmt) /\ Kept(s).up = s.up /\ Kept(s).txn = s.txn
      /\ Kept(s).pending = 0 /\ Kept(s).committed = s.committed + s.pending
  <2> DEFINE u == Undone(s)
             n == u.committed + s.pending
  <2>1. Kept(s) = [u EXCEPT !.committed = n]
    BY DEF Kept
  <2>2. n \in Nat /\ n = s.committed + s.pending
    BY <1>1, <1>2
  <2> HIDE DEF u, n
  <2> QED BY <1>2, <2>1, <2>2 DEF Sessions, u
<1>4. GoodSession(Undone(s)) /\ GoodSession(Kept(s))
  BY <1>2, <1>3 DEF GoodSession
<1>5. Idle(s, Undone(s))
  BY <1>2, <1>4 DEF Idle
<1> QED BY <1>2, <1>3, <1>4, <1>5

(* A command was answered: done is what it makes of the session s.         *)
Replied(s, done, a) ==
  \/ a = Answer("error", s)
  \/ s.up /\ a = Answer("error", Undone(s))
  \/ a = Answer("lost", Ended(s))
  \/ s.up /\ a = Answer("lost", Ended(done))
  \/ s.up /\ a = Answer("ok", done)

LEMMA AnswerDid ==
  ASSUME NEW s, GoodSession(s), NEW done, GoodSession(done), NEW w,
         s.up => Did(s, done, "ok", w), done.committed >= s.committed,
         NEW a, Replied(s, done, a)
  PROVE  /\ Did(s, a.server, a.reply, w)
         /\ a.reply \in {"ok", "error", "lost"}
<1>0. s \in Sessions(Stmt) /\ done \in Sessions(Stmt) /\ s.committed \in Nat
  BY SessionNumbers DEF GoodSession
<1>1. CASE a = Answer("error", s)
  BY <1>1, SteadyRefl DEF Did, Steady, Answer
<1>2. CASE s.up /\ a = Answer("error", Undone(s))
  <2>1. Idle(s, Undone(s))
    BY UndoneKept
  <2> QED BY <1>2, <2>1 DEF Did, Answer
<1>3. CASE a = Answer("lost", Ended(s)) \/ (s.up /\ a = Answer("lost", Ended(done)))
  <2>1. PICK x \in {s, done} : a = Answer("lost", Ended(x))
    BY <1>3
  <2>2. GoodSession(x) /\ x \in Sessions(Stmt) /\ x.committed >= s.committed
    BY <1>0, <2>1
  <2>3. GoodSession(Ended(x)) /\ ~Ended(x).up /\ Ended(x).committed = x.committed
    BY <2>2, EndedSteady, SessionFields
  <2>4. a.reply = "lost" /\ a.server = Ended(x)
    BY <2>1 DEF Answer
  <2>5. Cut(s, a.server)
    BY <2>2, <2>3, <2>4 DEF Cut
  <2> QED BY <2>4, <2>5 DEF Did
<1>4. CASE s.up /\ a = Answer("ok", done)
  BY <1>4 DEF Answer
<1> QED BY <1>1, <1>2, <1>3, <1>4 DEF Replied

LEMMA RunDid ==
  ASSUME NEW s, GoodSession(s), NEW st, NEW a \in AskRun(s, st)
  PROVE  /\ Did(s, a.server, a.reply, st \in Writes)
         /\ a.reply \in {"ok", "error", "lost"}
<1> DEFINE done == IF st \in Writes THEN Wrote(s) ELSE s
           w    == st \in Writes
<1>1. s \in Sessions(Stmt) /\ s.committed \in Nat
  BY SessionNumbers DEF GoodSession
<1>2. PICK possible : a \in Ask(s, possible, done)
  BY DEF AskRun
<1>3. /\ GoodSession(done) /\ (s.up => Did(s, done, "ok", w)) /\ done.committed >= s.committed
  <2>1. CASE w
    <3>1. done = Wrote(s)
      BY <2>1
    <3>2. Wrote(s).committed >= s.committed
      BY <1>1 DEF Wrote, Sessions
    <3> HIDE DEF done, w
    <3> QED BY <2>1, <3>1, <3>2, WroteGood DEF Did
  <2>2. CASE ~w
    <3>1. done = s
      BY <2>2
    <3> HIDE DEF done, w
    <3> QED BY <1>1, <2>2, <3>1, SteadyRefl DEF Did
  <2> QED BY <2>1, <2>2
<1> HIDE DEF done
<1>4. Replied(s, done, a)
  BY <1>2, AskAnswers DEF Replied
<1>5. Did(s, a.server, a.reply, w) /\ a.reply \in {"ok", "error", "lost"}
  <2> HIDE DEF w
  <2> QED BY <1>3, <1>4, AnswerDid
<1> QED BY <1>5

(* What only reads leaves the session as it is, or ends it.                *)
LEMMA ReadSteady ==
  ASSUME NEW s, GoodSession(s), NEW a \in AskRead(s)
  PROVE  Steady(s, a.server) /\ a.reply \in {"ok", "error", "lost"}
<1>1. a = Answer("error", s) \/ a = Answer("lost", Ended(s)) \/ a = Answer("ok", s)
  BY DEF AskRead, Lost
<1>2. a.server = s \/ a.server = Ended(s)
  BY <1>1 DEF Answer
<1>3. a.reply \in {"ok", "error", "lost"}
  BY <1>1 DEF Answer
<1> QED BY <1>2, <1>3, SteadyRefl, EndedSteady

-----------------------------------------------------------------------------
(* Connections and outcomes.                                               *)

(* How a call of the driver came out on the connection c, and how the call *)
(* of the query did, where w says that it writes.                          *)
CameTo(c, d, reply, w) ==
  /\ GoodConn(d) /\ d.isOpen = c.isOpen /\ Did(c.server, d.server, reply, w)
  /\ reply # "ok" => d.lastError # "none"

Served(c, o, w) ==
  GoodConn(o.conn) /\ o.conn.isOpen = c.isOpen /\ Fair(c.server, o, w)

(* A connection before and after an answer.                                *)
AfterAnswer(c, a, d) ==
  /\ GoodConn(d) /\ d.isOpen = c.isOpen /\ d.server = a.server
  /\ a.reply # "ok" => d.lastError # "none"

LEMMA ToldGood ==
  ASSUME NEW c, GoodConn(c), NEW a, GoodSession(a.server), a.server.up => c.server.up
  PROVE  AfterAnswer(c, a, Told(c, a))
<1> DEFINE d == Told(c, a)
<1>1. /\ c \in ConnType /\ a.server \in Sessions(Stmt)
  BY DEF GoodConn, GoodSession
<1>2. /\ d \in ConnType /\ d.isOpen = c.isOpen /\ d.handle = c.handle /\ d.server = a.server
      /\ a.reply # "ok" => d.lastError # "none"
  BY <1>1 DEF Told, ConnType
<1> HIDE DEF d
<1>3. AfterAnswer(c, a, d)
  BY <1>2 DEF AfterAnswer, GoodConn
<1> QED BY <1>3 DEF d

LEMMA SetErrorGood ==
  ASSUME NEW c, GoodConn(c), NEW e \in {"none", "connection", "statement", "transaction"}
  PROVE  /\ GoodConn(SetError(c, e)) /\ SetError(c, e).server = c.server
         /\ SetError(c, e).isOpen = c.isOpen /\ SetError(c, e).lastError = e
         /\ SetError(c, e).handle = c.handle
BY DEF GoodConn, ConnType, SetError

Settles(c, d, reply, w, r, n, o) ==
  CameTo(c, d, reply, w) /\ o = SettledOne(Outcome(d, r, reply, n))

LEMMA SettledServed ==
  ASSUME NEW c, NEW d, NEW reply, NEW w, NEW r, NEW n, NEW o, Settles(c, d, reply, w, r, n, o)
  PROVE  /\ Served(c, o, w) /\ Explained(o) /\ (o.ok <=> reply = "ok")
         /\ o.rs = r /\ o.rows = n
<1>1. /\ GoodConn(d) /\ d.isOpen = c.isOpen /\ Did(c.server, d.server, reply, w)
      /\ reply # "ok" => d.lastError # "none"
      /\ o = SettledOne(Outcome(d, r, reply, n)) /\ d \in ConnType
  BY DEF Settles, CameTo, GoodConn
<1>2. /\ o.ok <=> reply = "ok"
      /\ o.lost <=> reply = "lost"
      /\ o.ok \in BOOLEAN /\ o.lost \in BOOLEAN
      /\ o.rs = r /\ o.rows = n
      /\ o.conn \in ConnType /\ o.conn.server = d.server
      /\ o.conn.isOpen = d.isOpen /\ o.conn.handle = d.handle
      /\ reply # "ok" => o.conn = d
  BY <1>1, SettledFields
<1>3. GoodConn(o.conn) /\ o.conn.isOpen = c.isOpen
  BY <1>1, <1>2 DEF GoodConn
<1>4. Fair(c.server, o, w)
  BY <1>1, <1>2, DidFair
<1> QED BY <1>1, <1>2, <1>3, <1>4 DEF Served, Explained

(***************************************************************************)
(* A call that is turned down and touches nothing but the error.           *)
(***************************************************************************)
TurnedDown(c, r, o) ==
  \/ o = Outcome(c, r, "refused", 0)
  \/ o = Outcome(SetError(c, "connection"), r, "refused", 0)
  \/ o = Outcome(SetError(c, "statement"), r, "refused", 0)

LEMMA RefusedServed ==
  ASSUME NEW c, GoodConn(c), NEW r, NEW w, NEW o, TurnedDown(c, r, o)
  PROVE  Served(c, o, w) /\ ~o.ok /\ o.rs = r
<1>1. ASSUME NEW d, d \in {c, SetError(c, "connection"), SetError(c, "statement")}
      PROVE  GoodConn(d) /\ d.server = c.server /\ d.isOpen = c.isOpen
  BY <1>1, SetErrorGood
<1>2. /\ o.rs = r /\ o.ok = FALSE /\ o.lost = FALSE
      /\ GoodConn(o.conn) /\ o.conn.server = c.server /\ o.conn.isOpen = c.isOpen
  <2>1. PICK d \in {c, SetError(c, "connection"), SetError(c, "statement")} :
          o = Outcome(d, r, "refused", 0)
    BY DEF TurnedDown
  <2>2. o.rs = r /\ o.ok = FALSE /\ o.lost = FALSE /\ o.conn = d
    BY <2>1 DEF Outcome
  <2> QED BY <1>1, <2>1, <2>2
<1>3. Fair(c.server, o, w)
  <2>1. Steady(c.server, c.server)
    BY SteadyRefl DEF GoodConn
  <2> QED BY <1>2, <2>1 DEF Fair, Steady
<1> QED BY <1>2, <1>3 DEF Served

-----------------------------------------------------------------------------
(* The result set and its statement handle.                                *)

LEMMA HandleOps ==
  ASSUME NEW h \in Handles, NEW b \in BOOLEAN, NEW columns \in BOOLEAN, NEW reply
  PROVE  /\ SQLAllocStmt \in Handles
         /\ SQLPrepare(SQLAllocStmt, b) \in Handles
         /\ b => SQLPrepare(SQLAllocStmt, b).prep
         /\ SQLExecDirect(SQLAllocStmt, b, columns) \in Handles
         /\ SQLExecute(h, b, columns) \in Handles
         /\ h.prep => SQLExecute(h, b, columns).prep
         /\ SQLFetchScroll(h, reply) \in Handles
         /\ h.prep => SQLFetchScroll(h, reply).prep
         /\ transact(h, CursorBehavior) \in Handles
         /\ CursorBehavior # "delete" /\ h.prep => transact(h, CursorBehavior).prep
         /\ transact(SQLAllocStmt, CursorBehavior) = SQLAllocStmt
<1> USE DEF Handles, StmtStates
<1>1. SQLAllocStmt \in Handles /\ SQLAllocStmt.state = "allocated"
  BY DEF SQLAllocStmt
<1>2. /\ SQLPrepare(SQLAllocStmt, b) \in Handles
      /\ b => SQLPrepare(SQLAllocStmt, b).prep
  <2>1. CASE b
    BY <2>1 DEF SQLPrepare
  <2>2. CASE ~b
    BY <1>1, <2>2 DEF SQLPrepare
  <2> QED BY <2>1, <2>2
<1>3. SQLExecDirect(SQLAllocStmt, b, columns) \in Handles
  <2> DEFINE d == do_cursoropen(SQLAllocStmt, columns)
  <2>1. d \in Handles
    BY <1>1 DEF do_cursoropen
  <2>2. SQLExecDirect(SQLAllocStmt, b, columns) \in {[d EXCEPT !.prep = TRUE], SQLAllocStmt}
    BY <1>1 DEF SQLExecDirect
  <2> HIDE DEF d
  <2> QED BY <1>1, <2>1, <2>2
<1>4. /\ SQLExecute(h, b, columns) \in Handles
      /\ h.prep => SQLExecute(h, b, columns).prep
  <2> DEFINE d == do_cursoropen(h, columns)
             x == SQLExecute(h, b, columns)
  <2>1. d \in Handles /\ d.prep = h.prep
    BY DEF do_cursoropen
  <2>2. x \in {d, [h EXCEPT !.state = "prepared"], h}
    BY DEF SQLExecute
  <2> HIDE DEF d, x
  <2> QED BY <2>1, <2>2 DEF x
<1>5. /\ SQLFetchScroll(h, reply) \in Handles
      /\ h.prep => SQLFetchScroll(h, reply).prep
  BY DEF SQLFetchScroll
<1>6. /\ transact(h, CursorBehavior) \in Handles
      /\ CursorBehavior # "delete" /\ h.prep => transact(h, CursorBehavior).prep
  BY <1>1 DEF transact
<1>7. transact(SQLAllocStmt, CursorBehavior) = SQLAllocStmt
  BY <1>1 DEF transact
<1> QED BY <1>1, <1>2, <1>3, <1>4, <1>5, <1>6, <1>7

LEMMA FreshTypes ==
  /\ FreshRS \in RSType /\ AllocatedRS \in RSType
  /\ FreshRS.stmt = "none" /\ ~FreshRS.isActive
  /\ AllocatedRS.stmt = "held" /\ ~AllocatedRS.isActive /\ AllocatedRS.index = BeforeFirst
  /\ AllocatedRS.h = SQLAllocStmt /\ FreshRS.h = SQLAllocStmt
<1>1. 0 \in Counts /\ BeforeFirst \in Indexes
  BY ClientAssumption DEF Counts, Indexes, BeforeFirst
<1>2. SQLAllocStmt \in Handles
  BY DEF SQLAllocStmt, Handles, StmtStates
<1>3. FreshRS \in RSType /\ FreshRS.stmt = "none" /\ ~FreshRS.isActive /\ FreshRS.h = SQLAllocStmt
      /\ FreshRS.index = BeforeFirst
  BY <1>1, <1>2 DEF FreshRS, RSType
<1>4. AllocatedRS \in RSType /\ AllocatedRS.stmt = "held" /\ ~AllocatedRS.isActive
      /\ AllocatedRS.index = BeforeFirst /\ AllocatedRS.h = SQLAllocStmt
  BY <1>3 DEF AllocatedRS, RSType
<1> QED BY <1>3, <1>4

(* What a failed call, an execution and a fetch keep of a prepared         *)
(* statement.                                                              *)
KeepsPrepared(r, x) ==
  x \in RSType /\ x.stmt = r.stmt /\ x.sql = r.sql /\ (r.h.prep => x.h.prep)

LEMMA IdleTypes ==
  ASSUME NEW r \in RSType
  PROVE  /\ KeepsPrepared(r, IdleRS(r)) /\ IdleRS(r).index = BeforeFirst
         /\ IdleRS(r).h = r.h
         /\ KeepsPrepared(r, [r EXCEPT !.isActive = FALSE])
<1>1. BeforeFirst \in Indexes
  BY ClientAssumption DEF Indexes, BeforeFirst
<1> QED BY <1>1 DEF IdleRS, RSType, KeepsPrepared

(***************************************************************************)
(* A result set that has just been executed, with n rows.                  *)
(***************************************************************************)
Stored(x, n) ==
  x.stmt = "held" /\ x.isActive /\ x.rows = n /\ x.at = 0 /\ x.index = BeforeFirst

LEMMA StoredFits ==
  ASSUME NEW x, NEW n \in Counts, Stored(x, n), NEW b \in BOOLEAN, ~b => n = 0
  PROVE  Fits(Started(b, n), x)
<1>1. n \in Nat
  BY DEF Counts
<1>2. /\ Started(b, n).status = (IF b THEN "open" ELSE "ended")
      /\ Started(b, n).row = 0 /\ Started(b, n).made = n
  BY DEF Started
<1> QED BY <1>1, <1>2 DEF Stored, Fits, Agrees, BeforeFirst

LEMMA PlainFits ==
  /\ \A r : Fits(Refused, r)
  /\ \A r : ~r.isActive /\ r.stmt = "held" => Fits(NoView, r)
BY DEF Fits, Agrees, Refused, NoView

-----------------------------------------------------------------------------
(* The calls of the driver.                                                *)

(* How an execution of st left the result set x, which had the handle h.   *)
RanTo(x, st, h, reply, n) ==
  /\ x \in RSType /\ x.stmt = "held" /\ x.h = h /\ x.sql = st
  /\ reply = "ok" => n \in RowsOf("ok", st \in Selects) /\ Stored(x, n)

LEMMA RanCame ==
  ASSUME NEW c, GoodConn(c), NEW r \in RSType, r.stmt = "held", r.index = BeforeFirst,
         NEW st \in Stmt \cup {Null}, NEW h \in Handles,
         NEW a \in AskRun(c.server, st), NEW p \in Ran(c, r, st, h, a)
  PROVE  \E d, x, reply, n :
           /\ p = Outcome(d, x, reply, n)
           /\ CameTo(c, d, reply, st \in Writes)
           /\ RanTo(x, st, h, reply, n)
<1> DEFINE w  == st \in Writes
           c1 == Told(c, a)
           r1 == [r EXCEPT !.h = h, !.sql = st, !.at = 0]
           y(n) == [r1 EXCEPT !.isActive = a.reply = "ok", !.rows = n]
<1>1. Did(c.server, a.server, a.reply, w) /\ a.reply \in {"ok", "error", "lost"}
  BY RunDid DEF GoodConn
<1>2. GoodSession(a.server) /\ (a.server.up => c.server.up)
  <2> HIDE DEF w
  <2> QED BY <1>1, DidGood
<1>3. AfterAnswer(c, a, c1)
  BY <1>2, ToldGood
<1>4. /\ r1 \in RSType /\ r1.stmt = "held" /\ r1.h = h /\ r1.sql = st /\ r1.at = 0
      /\ r1.index = BeforeFirst
  <2>1. 0 \in Counts
    BY ClientAssumption DEF Counts
  <2> QED BY <2>1 DEF RSType
<1>5. (\E n \in RowsOf(a.reply, st \in Selects) : p = Outcome(c1, y(n), a.reply, n))
      \/ /\ a.reply = "ok" /\ st \in Selects
         /\ p = Outcome(SetError(c1, "statement"), r1, "error", 0)
  BY DEF Ran
<1> HIDE DEF c1, r1
<1>6. ASSUME NEW n \in RowsOf(a.reply, st \in Selects), p = Outcome(c1, y(n), a.reply, n)
      PROVE  CameTo(c, c1, a.reply, w) /\ RanTo(y(n), st, h, a.reply, n)
  <2>1. n \in Counts /\ (a.reply = "ok" => n \in RowsOf("ok", st \in Selects))
    BY <1>6, ClientAssumption DEF RowsOf, Counts
  <2>2. /\ y(n) \in RSType /\ y(n).stmt = "held" /\ y(n).h = h /\ y(n).sql = st
        /\ y(n).isActive = (a.reply = "ok") /\ y(n).rows = n /\ y(n).at = 0
        /\ y(n).index = BeforeFirst
    BY <1>4, <2>1 DEF RSType
  <2> HIDE DEF y
  <2>3. RanTo(y(n), st, h, a.reply, n)
    BY <2>1, <2>2 DEF RanTo, Stored
  <2>4. CameTo(c, c1, a.reply, w)
    BY <1>1, <1>3 DEF CameTo, AfterAnswer
  <2> QED BY <2>3, <2>4
<1>7. ASSUME a.reply = "ok", st \in Selects,
             p = Outcome(SetError(c1, "statement"), r1, "error", 0)
      PROVE  CameTo(c, SetError(c1, "statement"), "error", w) /\ RanTo(r1, st, h, "error", 0)
  <2>1. ~w
    BY <1>7, ClientAssumption
  <2>2. Idle(c.server, c1.server)
    BY <1>1, <1>3, <1>7, <2>1 DEF Did, Steady, AfterAnswer
  <2>3. GoodConn(c1) /\ c1.isOpen = c.isOpen
    BY <1>3 DEF AfterAnswer
  <2> DEFINE d == SetError(c1, "statement")
  <2>4. GoodConn(d) /\ d.server = c1.server /\ d.isOpen = c1.isOpen /\ d.lastError = "statement"
    BY <2>3, SetErrorGood
  <2> HIDE DEF d, w
  <2>5. CameTo(c, d, "error", w)
    BY <2>2, <2>3, <2>4 DEF CameTo, Did
  <2>6. RanTo(r1, st, h, "error", 0)
    BY <1>4 DEF RanTo
  <2> QED BY <2>5, <2>6 DEF d
<1> HIDE DEF y
<1> QED BY <1>5, <1>6, <1>7

(* The old statement is freed, the new one could not be had.               *)
LEMMA NoStatementCame ==
  ASSUME NEW c, GoodConn(c), NEW r, NEW p \in NoStatement(c, r), NEW w
  PROVE  \E x \in {FreshRS, AllocatedRS} :
           /\ p = Outcome(SetError(c, "statement"), x, "error", 0)
           /\ CameTo(c, SetError(c, "statement"), "error", w)
<1>1. PICK x \in {FreshRS, AllocatedRS} : p = Outcome(SetError(c, "statement"), x, "error", 0)
  BY DEF NoStatement
<1> DEFINE d == SetError(c, "statement")
<1>2. GoodConn(d) /\ d.server = c.server /\ d.isOpen = c.isOpen /\ d.lastError = "statement"
  BY SetErrorGood
<1>3. Idle(c.server, c.server)
  BY SteadyRefl DEF GoodConn, Steady
<1> HIDE DEF d
<1>4. CameTo(c, d, "error", w)
  BY <1>2, <1>3 DEF CameTo, Did
<1> QED BY <1>1, <1>4 DEF d

(***************************************************************************)
(* The same through TDatabaseQuery.  A connection that is not open leaves  *)
(* the result set without a statement.                                     *)
(***************************************************************************)
LEMMA NotOpenServed ==
  ASSUME NEW c, GoodConn(c), NEW r, NEW w, NEW o \in NotOpen(c, r)
  PROVE  Served(c, o, w) /\ Explained(o) /\ ~o.ok /\ o.rs = r
<1>1. o = Outcome(SetError(c, "connection"), r, "refused", 0)
  BY DEF NotOpen
<1>2. Served(c, o, w) /\ ~o.ok /\ o.rs = r
  <2>1. TurnedDown(c, r, o)
    BY <1>1 DEF TurnedDown
  <2> QED BY <2>1, RefusedServed
<1>3. o.conn = SetError(c, "connection")
  BY <1>1 DEF Outcome
<1>4. o.conn.lastError = "connection"
  BY <1>3, SetErrorGood
<1> QED BY <1>2, <1>4 DEF Explained

(* How prepare() came out for the result set r, and how an execution did.  *)
PreparedTo(c, r, st, o) ==
  /\ Served(c, o, FALSE) /\ Explained(o) /\ o.rs \in RSType
  /\ o.ok => o.rs.stmt = "held" /\ ~o.rs.isActive /\ o.rs.h.prep /\ o.rs.sql = st
  /\ ~c.isOpen => o.rs.stmt = r.stmt

ExecutedTo(c, r, st, o) ==
  /\ Served(c, o, st \in Writes) /\ o.rs \in RSType
  /\ o.ok => o.rows \in RowsOf("ok", st \in Selects) /\ Stored(o.rs, o.rows)
  /\ ~c.isOpen => o.rs.stmt = r.stmt

LEMMA PrepareServed ==
  ASSUME NEW c, GoodConn(c), NEW r \in RSType, NEW st \in Stmt, NEW o \in QueryPrepare(c, r, st)
  PROVE  PreparedTo(c, r, st, o)
<1>1. CASE ~c.isOpen
  <2> DEFINE x == [r EXCEPT !.isActive = FALSE]
  <2>1. o \in NotOpen(c, x)
    BY <1>1 DEF QueryPrepare
  <2>2. x \in RSType /\ x.stmt = r.stmt
    BY DEF RSType
  <2> DEFINE w == FALSE
  <2> HIDE DEF x, w
  <2>3. Served(c, o, w) /\ Explained(o) /\ ~o.ok /\ o.rs = x
    BY <2>1, NotOpenServed
  <2> QED BY <2>2, <2>3 DEF PreparedTo, w
<1>2. CASE c.isOpen
  <2>1. PICK p \in DriverPrepare(c, r, st) : o = SettledOne(p)
    BY <1>2, SettledOutcome DEF QueryPrepare
  <2> DEFINE w == FALSE
             x(a) == [AllocatedRS EXCEPT !.h = SQLPrepare(@, a.reply = "ok"),
                                         !.sql = IF a.reply = "ok" THEN st ELSE Null]
  <2>2. \/ p \in NoStatement(c, r)
        \/ \E a \in Ask(c.server, TRUE, c.server) : p = Outcome(Told(c, a), x(a), a.reply, 0)
    BY <2>1 DEF DriverPrepare, RSType
  <2>3. \E d, y, reply, n :
          /\ p = Outcome(d, y, reply, n) /\ CameTo(c, d, reply, w) /\ y \in RSType
          /\ reply = "ok" => y.stmt = "held" /\ ~y.isActive /\ y.h.prep /\ y.sql = st
    <3>1. CASE p \in NoStatement(c, r)
      <4> HIDE DEF w
      <4>1. PICK y \in {FreshRS, AllocatedRS} :
              /\ p = Outcome(SetError(c, "statement"), y, "error", 0)
              /\ CameTo(c, SetError(c, "statement"), "error", w)
        BY <3>1, NoStatementCame
      <4>2. y \in RSType
        BY <4>1, FreshTypes
      <4> DEFINE reply == "error"
                 d == SetError(c, "statement")
      <4>3. /\ p = Outcome(d, y, reply, 0) /\ CameTo(c, d, reply, w) /\ y \in RSType
            /\ reply # "ok"
        BY <4>1, <4>2
      <4> HIDE DEF reply, d
      <4> QED BY <4>3
    <3>2. ASSUME NEW a \in Ask(c.server, TRUE, c.server),
                 p = Outcome(Told(c, a), x(a), a.reply, 0)
          PROVE  /\ CameTo(c, Told(c, a), a.reply, w) /\ x(a) \in RSType
                 /\ a.reply = "ok" => /\ x(a).stmt = "held" /\ ~x(a).isActive
                                      /\ x(a).h.prep /\ x(a).sql = st
      <4>1. GoodSession(c.server)
        BY DEF GoodConn
      <4>2. /\ Did(c.server, a.server, a.reply, w) /\ GoodSession(a.server)
            /\ a.server.up => c.server.up
        <5>1. Did(c.server, c.server, "ok", w)
          BY <4>1, SteadyRefl DEF Did
        <5>2. Replied(c.server, c.server, a)
          BY AskAnswers DEF Replied
        <5>3. c.server.committed >= c.server.committed
          BY <4>1, SessionNumbers
        <5> HIDE DEF w
        <5>4. Did(c.server, a.server, a.reply, w)
          BY <4>1, <5>1, <5>2, <5>3, AnswerDid
        <5> QED BY <5>4, DidGood
      <4>3. AfterAnswer(c, a, Told(c, a))
        BY <4>2, ToldGood
      <4>4. CameTo(c, Told(c, a), a.reply, w)
        BY <4>2, <4>3 DEF CameTo, AfterAnswer
      <4> DEFINE g == SQLPrepare(SQLAllocStmt, a.reply = "ok")
                 t == IF a.reply = "ok" THEN st ELSE Null
      <4>5. g \in Handles /\ (a.reply = "ok" => g.prep) /\ t \in Stmt \cup {Null}
        <5> DEFINE b == a.reply = "ok"
        <5>1. SQLPrepare(SQLAllocStmt, b) \in Handles /\ (b => SQLPrepare(SQLAllocStmt, b).prep)
          <6>1. b \in BOOLEAN /\ SQLAllocStmt \in Handles
            BY DEF SQLAllocStmt, Handles, StmtStates
          <6> HIDE DEF b
          <6> QED BY <6>1, HandleOps
        <5> QED BY <5>1
      <4>6. x(a) = [AllocatedRS EXCEPT !.h = g, !.sql = t]
        BY FreshTypes
      <4>7. a.reply = "ok" => t = st
        OBVIOUS
      <4> HIDE DEF g, t, x
      <4>8. /\ x(a) \in RSType /\ x(a).stmt = "held" /\ ~x(a).isActive
            /\ x(a).h = g /\ x(a).sql = t
        BY <4>5, <4>6, FreshTypes DEF RSType
      <4> QED BY <4>4, <4>5, <4>7, <4>8
    <3> HIDE DEF x, w
    <3> QED BY <2>2, <3>1, <3>2
  <2>4. PICK d, y, reply, n :
          /\ p = Outcome(d, y, reply, n) /\ CameTo(c, d, reply, w) /\ y \in RSType
          /\ reply = "ok" => y.stmt = "held" /\ ~y.isActive /\ y.h.prep /\ y.sql = st
    BY <2>3
  <2> HIDE DEF w, x
  <2>5. Settles(c, d, reply, w, y, n, o)
    BY <2>1, <2>4 DEF Settles
  <2>6. Served(c, o, w) /\ Explained(o) /\ (o.ok <=> reply = "ok") /\ o.rs = y
    BY <2>5, SettledServed
  <2> QED BY <1>2, <2>4, <2>6 DEF PreparedTo, w
<1> QED BY <1>1, <1>2

LEMMA ExecuteStatementServed ==
  ASSUME NEW c, GoodConn(c), NEW r \in RSType, NEW st \in Stmt,
         NEW o \in QueryExecuteStatement(c, r, st)
  PROVE  ExecutedTo(c, r, st, o) /\ Explained(o)
<1> DEFINE w == st \in Writes
<1>1. CASE ~c.isOpen
  <2> DEFINE x == [r EXCEPT !.isActive = FALSE]
  <2>1. o \in NotOpen(c, x)
    BY <1>1 DEF QueryExecuteStatement
  <2>2. x \in RSType /\ x.stmt = r.stmt
    BY DEF RSType
  <2> HIDE DEF x, w
  <2>3. Served(c, o, w) /\ Explained(o) /\ ~o.ok /\ o.rs = x
    BY <2>1, NotOpenServed
  <2> QED BY <2>2, <2>3 DEF ExecutedTo, w
<1>2. CASE c.isOpen
  <2>1. PICK p \in DriverExecuteQuery(c, r, st) : o = SettledOne(p)
    BY <1>2, SettledOutcome DEF QueryExecuteStatement
  <2> DEFINE g(a) == SQLExecDirect(SQLAllocStmt, a.reply = "ok", st \in Selects)
             ran(a) == Ran(c, AllocatedRS, st, g(a), a)
  <2>2. \/ p \in NoStatement(c, r)
        \/ \E a \in AskRun(c.server, st) : p \in ran(a)
    <3>1. p \in NoStatement(c, r) \cup UNION {ran(a) : a \in AskRun(c.server, st)}
      BY <2>1 DEF DriverExecuteQuery, RSType
    <3> HIDE DEF ran
    <3> QED BY <3>1
  <2>3. \E d, y, reply, n :
          /\ p = Outcome(d, y, reply, n) /\ CameTo(c, d, reply, w) /\ y \in RSType
          /\ reply = "ok" => n \in RowsOf("ok", st \in Selects) /\ Stored(y, n)
    <3>1. CASE p \in NoStatement(c, r)
      <4> HIDE DEF w
      <4>1. PICK y \in {FreshRS, AllocatedRS} :
              /\ p = Outcome(SetError(c, "statement"), y, "error", 0)
              /\ CameTo(c, SetError(c, "statement"), "error", w)
        BY <3>1, NoStatementCame
      <4>2. y \in RSType
        BY <4>1, FreshTypes
      <4> DEFINE reply == "error"
                 d == SetError(c, "statement")
      <4>3. /\ p = Outcome(d, y, reply, 0) /\ CameTo(c, d, reply, w) /\ y \in RSType
            /\ reply # "ok"
        BY <4>1, <4>2
      <4> HIDE DEF reply, d
      <4> QED BY <4>3
    <3>2. ASSUME NEW a \in AskRun(c.server, st), p \in ran(a)
          PROVE  \E d, y, reply, n :
                   /\ p = Outcome(d, y, reply, n) /\ CameTo(c, d, reply, w) /\ y \in RSType
                   /\ reply = "ok" => n \in RowsOf("ok", st \in Selects) /\ Stored(y, n)
      <4> DEFINE h == g(a)
      <4>1. h \in Handles
        <5> DEFINE b == a.reply = "ok"
                   s == st \in Selects
        <5>1. b \in BOOLEAN /\ s \in BOOLEAN /\ SQLAllocStmt \in Handles
          BY DEF SQLAllocStmt, Handles, StmtStates
        <5>2. h = SQLExecDirect(SQLAllocStmt, b, s)
          OBVIOUS
        <5> HIDE DEF b, s, h
        <5> QED BY <5>1, <5>2, HandleOps
      <4>2. p \in Ran(c, AllocatedRS, st, h, a)
        BY <3>2
      <4>3. AllocatedRS \in RSType /\ AllocatedRS.stmt = "held" /\ AllocatedRS.index = BeforeFirst
        BY FreshTypes
      <4> HIDE DEF h
      <4>4. PICK d, y, reply, n :
              /\ p = Outcome(d, y, reply, n) /\ CameTo(c, d, reply, w)
              /\ RanTo(y, st, h, reply, n)
        BY <3>2, <4>1, <4>2, <4>3, RanCame
      <4> HIDE DEF w
      <4> QED BY <4>4 DEF RanTo
    <3> HIDE DEF ran, w
    <3> QED BY <2>2, <3>1, <3>2
  <2>4. PICK d, y, reply, n :
          /\ p = Outcome(d, y, reply, n) /\ CameTo(c, d, reply, w) /\ y \in RSType
          /\ reply = "ok" => n \in RowsOf("ok", st \in Selects) /\ Stored(y, n)
    BY <2>3
  <2> HIDE DEF w, ran
  <2>5. Settles(c, d, reply, w, y, n, o)
    BY <2>1, <2>4 DEF Settles
  <2>6. Served(c, o, w) /\ Explained(o) /\ (o.ok <=> reply = "ok") /\ o.rs = y /\ o.rows = n
    BY <2>5, SettledServed
  <2> QED BY <1>2, <2>4, <2>6 DEF ExecutedTo, w
<1> QED BY <1>1, <1>2

(***************************************************************************)
(* execute(): only a result set without a statement is turned down with no *)
(* word about it.                                                          *)
(***************************************************************************)
LEMMA ExecuteServed ==
  ASSUME NEW c, GoodConn(c), NEW r \in RSType, NEW o \in QueryExecute(c, r)
  PROVE  /\ ExecutedTo(c, r, r.sql, o) /\ KeepsPrepared(r, o.rs)
         /\ r.stmt = "none" => ~o.ok
         /\ r.stmt = "held" => Explained(o)
<1> DEFINE st == r.sql
           w  == st \in Writes
<1>0. st \in Stmt \cup {Null} /\ r.stmt \in {"none", "held"} /\ KeepsPrepared(r, r)
  BY DEF RSType, KeepsPrepared
<1>1. CASE ~c.isOpen
  <2>1. o \in NotOpen(c, r)
    BY <1>1 DEF QueryExecute
  <2> HIDE DEF w
  <2>2. Served(c, o, w) /\ Explained(o) /\ ~o.ok /\ o.rs = r
    BY <2>1, NotOpenServed
  <2> QED BY <1>0, <2>2 DEF ExecutedTo, w
<1>2. CASE c.isOpen
  <2>1. PICK p \in DriverExecute(c, r) : o = SettledOne(p)
    BY <1>2, SettledOutcome DEF QueryExecute
  <2>i. KeepsPrepared(r, IdleRS(r)) /\ IdleRS(r).index = BeforeFirst /\ IdleRS(r).h = r.h
    BY IdleTypes
  <2>2. CASE r.stmt = "none"
    <3>1. p = Outcome(c, IdleRS(r), "refused", 0)
      BY <2>1, <2>2 DEF DriverExecute
    <3>2. o = p
      <4>1. p.ok = FALSE
        BY <3>1 DEF Outcome
      <4>2. c \in ConnType
        BY DEF GoodConn
      <4> QED BY <2>1, <3>1, <4>1, <4>2 DEF SettledOne, Outcome, ConnType
    <3> HIDE DEF w
    <3>3. Served(c, o, w) /\ ~o.ok /\ o.rs = IdleRS(r)
      <4>1. TurnedDown(c, IdleRS(r), o)
        BY <3>1, <3>2 DEF TurnedDown
      <4> QED BY <4>1, RefusedServed
    <3> QED BY <1>2, <2>2, <2>i, <3>3 DEF ExecutedTo, w, KeepsPrepared
  <2>3. CASE r.stmt = "held" /\ ~ExecuteAllowed(r.h)
    <3> DEFINE d == SetError(c, "statement")
               reply == "error"
    <3>1. p = Outcome(d, IdleRS(r), reply, 0)
      BY <2>1, <2>3 DEF DriverExecute
    <3>2. GoodConn(d) /\ d.server = c.server /\ d.isOpen = c.isOpen /\ d.lastError = "statement"
      BY SetErrorGood
    <3>3. Idle(c.server, c.server)
      BY SteadyRefl DEF GoodConn, Steady
    <3> HIDE DEF d, w
    <3>4. CameTo(c, d, reply, w) /\ reply # "ok"
      BY <3>2, <3>3 DEF CameTo, Did
    <3> HIDE DEF reply
    <3>5. Settles(c, d, reply, w, IdleRS(r), 0, o)
      BY <2>1, <3>1, <3>4 DEF Settles
    <3>6. Served(c, o, w) /\ Explained(o) /\ (o.ok <=> reply = "ok") /\ o.rs = IdleRS(r)
      BY <3>5, SettledServed
    <3> QED BY <1>2, <2>3, <2>i, <3>4, <3>6 DEF ExecutedTo, w, KeepsPrepared
  <2>4. CASE r.stmt = "held" /\ ExecuteAllowed(r.h)
    <3> DEFINE g(a) == SQLExecute(r.h, a.reply = "ok", r.sql \in Selects)
               ran(a) == Ran(c, IdleRS(r), r.sql, g(a), a)
    <3>1. PICK a \in AskRun(c.server, r.sql) : p \in ran(a)
      <4>1. p \in UNION {ran(a) : a \in AskRun(c.server, r.sql)}
        BY <2>1, <2>4 DEF DriverExecute
      <4> HIDE DEF ran
      <4> QED BY <4>1
    <3> DEFINE h == g(a)
    <3>2. h \in Handles /\ (r.h.prep => h.prep)
      <4> DEFINE b == a.reply = "ok"
                 s == r.sql \in Selects
                 k == r.h
      <4>1. b \in BOOLEAN /\ s \in BOOLEAN /\ k \in Handles
        BY DEF RSType
      <4>2. h = SQLExecute(k, b, s) /\ k = r.h
        OBVIOUS
      <4> HIDE DEF b, s, h, k
      <4>3. SQLExecute(k, b, s) \in Handles /\ (k.prep => SQLExecute(k, b, s).prep)
        BY <4>1, HandleOps
      <4> QED BY <4>2, <4>3
    <3>3. p \in Ran(c, IdleRS(r), st, h, a)
      BY <3>1
    <3> DEFINE x == IdleRS(r)
    <3>4. x \in RSType /\ x.stmt = "held" /\ x.index = BeforeFirst
      BY <2>4, <2>i DEF KeepsPrepared
    <3> HIDE DEF h, x
    <3>5. PICK d, y, reply, n :
            /\ p = Outcome(d, y, reply, n) /\ CameTo(c, d, reply, w)
            /\ RanTo(y, st, h, reply, n)
      <4>1. p \in Ran(c, x, st, h, a)
        BY <3>3 DEF x
      <4>2. a \in AskRun(c.server, st)
        BY <3>1
      <4> HIDE DEF st
      <4> QED BY <1>0, <3>2, <3>4, <4>1, <4>2, RanCame DEF st
    <3> HIDE DEF w
    <3>6. Settles(c, d, reply, w, y, n, o)
      BY <2>1, <3>5 DEF Settles
    <3>7. Served(c, o, w) /\ Explained(o) /\ (o.ok <=> reply = "ok") /\ o.rs = y /\ o.rows = n
      BY <3>6, SettledServed
    <3>8. KeepsPrepared(r, y)
      BY <2>4, <3>2, <3>5 DEF KeepsPrepared, RanTo
    <3> QED BY <1>2, <2>4, <3>5, <3>7, <3>8 DEF ExecutedTo, RanTo, w
  <2> QED BY <1>0, <2>2, <2>3, <2>4
<1> QED BY <1>1, <1>2

-----------------------------------------------------------------------------
(* The steps of a query.                                                   *)

LEMMA TakeConn ==
  ASSUME IndInv, Rules = AllRules, NEW q \in Query, NEW o, NEW w,
         Usable(q), Take(q, o), Served(conn, o, w),
         ack' = IF o.ok /\ w THEN AckWrite ELSE ack
  PROVE  ConnParts'
<1>1. GoodConn(conn)'
  BY DEF Take, Served
<1>2. stray' \in BOOLEAN /\ OneSession'
  BY DEF Take, IndInv, ConnParts, OneSession
<1>3. "rollback_after" \in Rules /\ Accounted /\ Fair(conn.server, o, w)
  BY DEF AllRules, IndInv, ConnParts, Served
<1>4. Accounted'
  BY <1>3, TakeAccounts
<1> QED BY <1>1, <1>2, <1>4 DEF ConnParts

LEMMA QueryChanged ==
  ASSUME IndInv, NEW q \in Query, NEW x \in RSType, NEW v \in ViewType,
         NEW b \in {"unused", "held"},
         obj' = [obj EXCEPT ![q] = b], rs' = [rs EXCEPT ![q] = x],
         view' = [view EXCEPT ![q] = v],
         IF b = "held" THEN Fits(v, x) ELSE x = FreshRS /\ v = NoView,
         conn'.isOpen = conn.isOpen, ~conn.isOpen => x.stmt = "none"
  PROVE  QueryParts'
<1>1. /\ obj' \in [Query -> {"unused", "held", "garbage"}]
      /\ rs' \in [Query -> RSType] /\ view' \in [Query -> ViewType]
  BY DEF IndInv, QueryParts
<1>2. ASSUME NEW p \in Query
      PROVE  (IF obj[p] = "held" THEN Fits(view[p], rs[p])
              ELSE rs[p] = FreshRS /\ view[p] = NoView)'
  <2>1. CASE p = q
    BY <2>1 DEF IndInv, QueryParts
  <2>2. CASE p # q
    BY <2>2 DEF IndInv, QueryParts
  <2> QED BY <2>1, <2>2
<1>3. ~conn'.isOpen => \A p \in Query : rs'[p].stmt = "none"
  BY DEF IndInv, QueryParts
<1> QED BY <1>1, <1>2, <1>3 DEF QueryParts

LEMMA TakeQuery ==
  ASSUME IndInv, NEW q \in Query, NEW o, NEW w, Take(q, o), Served(conn, o, w), o.rs \in RSType,
         NEW v \in ViewType, Fits(v, o.rs), view' = [view EXCEPT ![q] = v],
         ~conn.isOpen => o.rs.stmt = rs[q].stmt
  PROVE  QueryParts'
<1>1. /\ obj' = [obj EXCEPT ![q] = "held"] /\ rs' = [rs EXCEPT ![q] = o.rs]
      /\ conn'.isOpen = conn.isOpen
  BY DEF Take, Served
<1>2. ~conn.isOpen => o.rs.stmt = "none"
  BY DEF IndInv, QueryParts
<1> QED BY <1>1, <1>2, QueryChanged

(***************************************************************************)
(* A step of one query: what the client knows of the others stays or is    *)
(* gone, and of this one it is the statement it holds.                     *)
(***************************************************************************)
LEMMA SaidStays ==
  ASSUME IndInv, NEW q \in Query, NEW x, rs' = [rs EXCEPT ![q] = x],
         said' \in [Query -> Stmt \cup {Null}],
         \A p \in Query : p # q /\ said'[p] # Null => said'[p] = said[p],
         said'[q] # Null /\ CursorBehavior # "delete"
           => x.stmt = "held" /\ x.h.prep /\ x.sql = said'[q]
  PROVE  SaidParts'
<1>1. rs'[q] = x /\ \A p \in Query : p # q => rs'[p] = rs[p]
  BY DEF IndInv, QueryParts
<1> QED BY <1>1 DEF IndInv, SaidParts, PreparedStays

LEMMA SaidKept ==
  ASSUME IndInv, NEW q \in Query, NEW x, rs' = [rs EXCEPT ![q] = x], KeepsPrepared(rs[q], x),
         NEW up, said' = SaidAfter(up) \/ said' = said
  PROVE  SaidParts'
<1>1. said' \in [Query -> Stmt \cup {Null}]
  BY DEF IndInv, SaidParts, SaidAfter, NoStmts
<1>2. \A p \in Query : said'[p] # Null => said'[p] = said[p]
  BY DEF SaidAfter, NoStmts
<1>3. said'[q] # Null /\ CursorBehavior # "delete"
        => x.stmt = "held" /\ x.h.prep /\ x.sql = said'[q]
  BY <1>2 DEF IndInv, SaidParts, PreparedStays, KeepsPrepared
<1> QED BY <1>1, <1>2, <1>3, SaidStays

LEMMA RejectStep ==
  ASSUME IndInv, Rules = AllRules, NEW q \in Query, Reject(q)
  PROVE  IndInv'
<1> DEFINE x == [rs[q] EXCEPT !.isActive = FALSE]
           o == Outcome(SetError(conn, "statement"), x, "refused", 0)
           w == FALSE
<1>1. /\ Usable(q) /\ Take(q, o) /\ ack' = ack /\ said' = said
      /\ view' = [view EXCEPT ![q] = Refused]
  BY DEF Reject
<1>2. GoodConn(conn) /\ rs[q] \in RSType
  BY DEF IndInv, ConnParts, QueryParts
<1>3. KeepsPrepared(rs[q], x)
  BY <1>2, IdleTypes
<1>4. TurnedDown(conn, x, o)
  BY DEF TurnedDown
<1>5. ack' = IF o.ok /\ w THEN AckWrite ELSE ack
  BY <1>1
<1> HIDE DEF x, o, w
<1>6. Served(conn, o, w) /\ ~o.ok /\ o.rs = x
  BY <1>2, <1>4, RefusedServed
<1>7. ConnParts'
  BY <1>1, <1>5, <1>6, TakeConn
<1>8. QueryParts'
  <2>1. o.rs \in RSType /\ o.rs.stmt = rs[q].stmt
    BY <1>3, <1>6 DEF KeepsPrepared
  <2>2. Refused \in ViewType /\ Fits(Refused, o.rs)
    BY ViewTypes, PlainFits
  <2> QED BY <1>1, <1>6, <2>1, <2>2, TakeQuery
<1>9. SaidParts'
  <2>1. rs' = [rs EXCEPT ![q] = x]
    BY <1>1, <1>6 DEF Take
  <2> QED BY <1>1, <1>3, <2>1, SaidKept
<1> QED BY <1>7, <1>8, <1>9 DEF IndInv

LEMMA PrepareStep ==
  ASSUME IndInv, Rules = AllRules, NEW q \in Query, NEW st \in Stmt, Prepare(q, st)
  PROVE  IndInv'
<1> DEFINE w == FALSE
<1>1. PICK o \in QueryPrepare(conn, rs[q], st) : Take(q, o) /\ LearnPrepare(q, o, st)
  BY DEF Prepare
<1>2. Usable(q) /\ GoodConn(conn) /\ rs[q] \in RSType
  BY DEF Prepare, IndInv, ConnParts, QueryParts
<1>3. PreparedTo(conn, rs[q], st, o)
  BY <1>1, <1>2, PrepareServed
<1>4. /\ Served(conn, o, w) /\ o.rs \in RSType
      /\ o.ok => o.rs.stmt = "held" /\ ~o.rs.isActive /\ o.rs.h.prep /\ o.rs.sql = st
      /\ ~conn.isOpen => o.rs.stmt = rs[q].stmt
      /\ ack' = IF o.ok /\ w THEN AckWrite ELSE ack
  BY <1>1, <1>3 DEF PreparedTo, LearnPrepare
<1> HIDE DEF w
<1>5. ConnParts'
  BY <1>1, <1>2, <1>4, TakeConn
<1> DEFINE v == IF o.ok THEN NoView ELSE Refused
<1>6. v \in ViewType /\ Fits(v, o.rs)
  BY <1>4, ViewTypes, PlainFits
<1>7. view' = [view EXCEPT ![q] = v]
  BY <1>1 DEF LearnPrepare
<1> HIDE DEF v
<1>8. QueryParts'
  BY <1>1, <1>4, <1>6, <1>7, TakeQuery
<1>9. SaidParts'
  <2>1. /\ rs' = [rs EXCEPT ![q] = o.rs]
        /\ said' = [SaidAfter(conn'.server.up) EXCEPT ![q] = IF o.ok THEN st ELSE Null]
    BY <1>1 DEF LearnPrepare, Take
  <2>2. SaidAfter(conn'.server.up) \in [Query -> Stmt \cup {Null}]
    BY DEF SaidAfter, NoStmts, IndInv, SaidParts
  <2>3. /\ said' \in [Query -> Stmt \cup {Null}]
        /\ said'[q] = IF o.ok THEN st ELSE Null
        /\ \A p \in Query : p # q => said'[p] = SaidAfter(conn'.server.up)[p]
    BY <2>1, <2>2
  <2>4. \A p \in Query : p # q /\ said'[p] # Null => said'[p] = said[p]
    BY <2>3 DEF SaidAfter, NoStmts
  <2>5. said'[q] # Null => o.rs.stmt = "held" /\ o.rs.h.prep /\ o.rs.sql = said'[q]
    BY <1>4, <2>3
  <2> QED BY <2>1, <2>3, <2>4, <2>5, SaidStays
<1> QED BY <1>5, <1>8, <1>9 DEF IndInv

(* The view after an execution.                                            *)
LEMMA RanFits ==
  ASSUME NEW c, NEW r, NEW st, NEW o, ExecutedTo(c, r, st, o), NEW v,
         v = IF o.ok THEN Started(st \in Selects, o.rows) ELSE Refused
  PROVE  v \in ViewType /\ Fits(v, o.rs)
<1>1. CASE ~o.ok
  BY <1>1, ViewTypes, PlainFits
<1>2. CASE o.ok
  <2> DEFINE b == st \in Selects
             n == o.rows
  <2>1. n \in Counts /\ n \in 0..MaxRows /\ (~b => n = 0) /\ b \in BOOLEAN /\ Stored(o.rs, n)
    BY <1>2, ClientAssumption DEF ExecutedTo, RowsOf, Counts
  <2>2. v = Started(b, n)
    BY <1>2
  <2> HIDE DEF n, b
  <2> QED BY <2>1, <2>2, StoredFits, ViewTypes
<1> QED BY <1>1, <1>2

LEMMA ExecuteStatementStep ==
  ASSUME IndInv, Rules = AllRules, NEW q \in Query, NEW st \in Stmt, ExecuteStatement(q, st)
  PROVE  IndInv'
<1> DEFINE w == st \in Writes
<1>1. PICK o \in QueryExecuteStatement(conn, rs[q], st) :
        /\ Take(q, o) /\ view' = RanView(q, o, st) /\ ack' = RanAck(o, st)
        /\ said' = [SaidAfter(o.conn.server.up) EXCEPT ![q] = Null]
  BY DEF ExecuteStatement
<1>2. Usable(q) /\ GoodConn(conn) /\ rs[q] \in RSType
  BY DEF ExecuteStatement, IndInv, ConnParts, QueryParts
<1>3. ExecutedTo(conn, rs[q], st, o)
  BY <1>1, <1>2, ExecuteStatementServed
<1>4. /\ Served(conn, o, w) /\ o.rs \in RSType
      /\ ~conn.isOpen => o.rs.stmt = rs[q].stmt
      /\ ack' = IF o.ok /\ w THEN AckWrite ELSE ack
  BY <1>1, <1>3 DEF ExecutedTo, RanAck
<1> HIDE DEF w
<1>5. ConnParts'
  BY <1>1, <1>2, <1>4, TakeConn
<1> DEFINE v == IF o.ok THEN Started(st \in Selects, o.rows) ELSE Refused
<1>6. v \in ViewType /\ Fits(v, o.rs)
  BY <1>3, RanFits
<1>7. view' = [view EXCEPT ![q] = v]
  BY <1>1 DEF RanView
<1> HIDE DEF v
<1>8. QueryParts'
  BY <1>1, <1>4, <1>6, <1>7, TakeQuery
<1>9. SaidParts'
  <2>1. /\ rs' = [rs EXCEPT ![q] = o.rs]
        /\ said' = [SaidAfter(conn'.server.up) EXCEPT ![q] = Null]
    BY <1>1 DEF Take
  <2>2. SaidAfter(conn'.server.up) \in [Query -> Stmt \cup {Null}]
    BY DEF SaidAfter, NoStmts, IndInv, SaidParts
  <2>3. /\ said' \in [Query -> Stmt \cup {Null}] /\ said'[q] = Null
        /\ \A p \in Query : p # q => said'[p] = SaidAfter(conn'.server.up)[p]
    BY <2>1, <2>2
  <2>4. \A p \in Query : p # q /\ said'[p] # Null => said'[p] = said[p]
    BY <2>3 DEF SaidAfter, NoStmts
  <2> QED BY <2>1, <2>3, <2>4, SaidStays
<1> QED BY <1>5, <1>8, <1>9 DEF IndInv

LEMMA ExecuteStep ==
  ASSUME IndInv, Rules = AllRules, NEW q \in Query, Execute(q)
  PROVE  IndInv'
<1> DEFINE st == rs[q].sql
           w  == st \in Writes
<1>1. PICK o \in QueryExecute(conn, rs[q]) : Take(q, o) /\ LearnRun(q, o, st)
  BY DEF Execute
<1>2. Usable(q) /\ GoodConn(conn) /\ rs[q] \in RSType
  BY DEF Execute, MayExecute, IndInv, ConnParts, QueryParts
<1>3. ExecutedTo(conn, rs[q], st, o) /\ KeepsPrepared(rs[q], o.rs)
  BY <1>1, <1>2, ExecuteServed
<1>4. /\ Served(conn, o, w) /\ o.rs \in RSType
      /\ ~conn.isOpen => o.rs.stmt = rs[q].stmt
      /\ ack' = IF o.ok /\ w THEN AckWrite ELSE ack
  BY <1>1, <1>3 DEF ExecutedTo, LearnRun, RanAck
<1> HIDE DEF w
<1>5. ConnParts'
  BY <1>1, <1>2, <1>4, TakeConn
<1> DEFINE v == IF o.ok THEN Started(st \in Selects, o.rows) ELSE Refused
<1>6. v \in ViewType /\ Fits(v, o.rs)
  <2> HIDE DEF st
  <2> QED BY <1>3, RanFits
<1>7. view' = [view EXCEPT ![q] = v]
  BY <1>1 DEF LearnRun, RanView
<1> HIDE DEF v
<1>8. QueryParts'
  BY <1>1, <1>4, <1>6, <1>7, TakeQuery
<1>9. SaidParts'
  <2>1. rs' = [rs EXCEPT ![q] = o.rs] /\ said' = SaidAfter(o.conn.server.up)
    BY <1>1 DEF Take, LearnRun
  <2> QED BY <1>3, <2>1, SaidKept
<1> QED BY <1>5, <1>8, <1>9 DEF IndInv

LEMMA DropStep ==
  ASSUME IndInv, NEW q \in Query, Drop(q)
  PROVE  IndInv'
<1>1. /\ obj' = [obj EXCEPT ![q] = "unused"] /\ rs' = [rs EXCEPT ![q] = FreshRS]
      /\ view' = [view EXCEPT ![q] = NoView] /\ said' = [said EXCEPT ![q] = Null]
      /\ UNCHANGED <<conn, stray, ack, began, lost>>
  BY DEF Drop
<1>2. ConnParts'
  BY <1>1 DEF IndInv, ConnParts, OneSession, Accounted, AckedIsDurable, NoPhantomWrites
<1>3. QueryParts'
  <2>1. FreshRS \in RSType /\ NoView \in ViewType /\ FreshRS.stmt = "none"
    BY ViewTypes, FreshTypes
  <2> QED BY <1>1, <2>1, QueryChanged
<1>4. SaidParts'
  <2>1. /\ said' \in [Query -> Stmt \cup {Null}] /\ said'[q] = Null
        /\ \A p \in Query : p # q => said'[p] = said[p]
    BY <1>1 DEF IndInv, SaidParts
  <2> QED BY <1>1, <2>1, SaidStays
<1> QED BY <1>2, <1>3, <1>4 DEF IndInv

-----------------------------------------------------------------------------
(* nextRow: the result set after an answer, and what it shows the client.  *)

(* A view before and after an answer.                                      *)
Moved(v, f, reply) ==
  \/ f = v
  \/ reply = "error" /\ f = Refused
  \/ v.status = "open" /\ v.row + 1 <= v.made /\ f = [v EXCEPT !.row = v.row + 1]
  \/ v.status = "open" /\ v.row = v.made /\ f = [v EXCEPT !.status = "ended"]

LEMMA FetchedFits ==
  ASSUME NEW r \in RSType, NEW v \in ViewType, Fits(v, r), v.status # "refused", r.isActive,
         NEW reply \in {"row", "no_data", "error"},
         reply = "row" => r.at < r.rows, reply = "no_data" => ~(r.at < r.rows),
         NEW x, x = FetchedRS(r, reply), NEW f, f = FetchedView(v, reply, r.at + 1)
  PROVE  KeepsPrepared(r, x) /\ f \in ViewType /\ Fits(f, x) /\ Moved(v, f, reply)
<1>1. /\ r.at \in Nat /\ r.rows \in Nat /\ r.at <= MaxRows /\ r.rows <= MaxRows /\ r.index \in Int
      /\ MaxRows \in Nat /\ r.h \in Handles
  BY ClientAssumption DEF RSType, Counts, Indexes
<1>2. v.row \in Nat /\ v.made \in Nat /\ v.status \in {"open", "ended"} /\ r.stmt = "held"
  <2>1. v.row \in Nat /\ v.made \in Nat /\ v.status \in {"idle", "open", "ended"}
    BY DEF ViewType
  <2>2. v # Refused
    BY DEF Refused, NoView
  <2> QED BY <2>1, <2>2 DEF Fits, Agrees, RSType
<1> DEFINE k  == SQLFetchScroll(r.h, reply)
           r1 == [r EXCEPT !.h = k]
<1>3. k \in Handles /\ (r.h.prep => k.prep)
  BY <1>1, HandleOps
<1> HIDE DEF k
<1>4. /\ r1 \in RSType /\ r1.h = k /\ r1.stmt = r.stmt /\ r1.sql = r.sql
      /\ r1.at = r.at /\ r1.rows = r.rows /\ r1.index = r.index /\ r1.isActive = r.isActive
  BY <1>3 DEF RSType
<1>5. x = IF reply = "row" THEN [r1 EXCEPT !.at = r.at + 1, !.index = r.index + 1]
          ELSE IF r.index # BeforeFirst THEN [r1 EXCEPT !.index = AfterLast] ELSE r1
  <2> DEFINE y == [r1 EXCEPT !.at = @ + 1, !.index = @ + 1]
             z == [r1 EXCEPT !.index = AfterLast]
  <2>1. y = [r1 EXCEPT !.at = r.at + 1, !.index = r.index + 1]
    BY <1>4
  <2>2. x = CASE r.stmt = "freed" -> Misused(r)
              [] r.stmt # "freed" /\ reply = "row" -> y
              [] r.stmt # "freed" /\ reply # "row" /\ r.index # BeforeFirst -> z
              [] OTHER -> r1
    BY DEF FetchedRS, k
  <2> HIDE DEF y, z, r1
  <2>3. x = IF reply = "row" THEN y ELSE IF r.index # BeforeFirst THEN z ELSE r1
    BY <1>2, <2>2
  <2> QED BY <2>1, <2>3 DEF z
<1> HIDE DEF r1
<1>6. CASE reply = "row"
  <2>1. x = [r1 EXCEPT !.at = r.at + 1, !.index = r.index + 1] /\ r.at < r.rows
    BY <1>5, <1>6
  <2>2. v.status = "open"
    BY <1>1, <1>2, <2>1 DEF Fits, Agrees
  <2>3. v.row = r.at /\ v.made = r.rows /\ r.index = r.at - 1
    BY <2>2 DEF Fits, Agrees
  <2>4. f = [v EXCEPT !.row = v.row + 1]
    BY <1>6, <2>3 DEF Fetched, FetchedView
  <2>5. f \in ViewType /\ f.status = "open" /\ f.row = v.row + 1 /\ f.made = v.made
    BY <1>2, <2>2, <2>4 DEF ViewType
  <2>6. r.at + 1 \in Counts /\ r.index + 1 \in Indexes
    BY <1>1, <2>1, <2>3 DEF Counts, Indexes
  <2>7. /\ x \in RSType /\ x.isActive = r.isActive /\ x.stmt = r.stmt /\ x.sql = r.sql /\ x.h = k
        /\ x.at = r.at + 1 /\ x.rows = r.rows /\ x.index = r.index + 1
    BY <1>4, <2>1, <2>6 DEF RSType
  <2>8. Fits(f, x)
    <3>1. f.row = x.at /\ f.made = x.rows /\ x.at <= x.rows /\ x.index = x.at - 1
      BY <1>1, <2>1, <2>3, <2>5, <2>7
    <3>2. x.isActive /\ x.stmt = "held"
      BY <1>2, <2>7
    <3> QED BY <2>5, <3>1, <3>2 DEF Fits, Agrees
  <2>9. v.row + 1 <= v.made
    BY <1>1, <2>1, <2>3
  <2>10. KeepsPrepared(r, x)
    BY <1>3, <2>7 DEF KeepsPrepared
  <2>11. Moved(v, f, reply)
    BY <2>2, <2>4, <2>9 DEF Moved
  <2> QED BY <2>5, <2>8, <2>10, <2>11
<1>7. CASE reply # "row"
  <2>1. AfterLast \in Indexes
    BY <1>1 DEF AfterLast, Indexes
  <2>2. /\ x \in RSType /\ x.isActive = r.isActive /\ x.stmt = r.stmt /\ x.sql = r.sql /\ x.h = k
        /\ x.at = r.at /\ x.rows = r.rows
    <3>1. CASE x = r1
      BY <1>4, <3>1
    <3>2. CASE x = [r1 EXCEPT !.index = AfterLast]
      BY <1>4, <2>1, <3>2 DEF RSType
    <3> QED BY <1>5, <1>7, <3>1, <3>2
  <2>3. KeepsPrepared(r, x)
    BY <1>3, <2>2 DEF KeepsPrepared
  <2>4. CASE reply = "error" /\ v.status = "open"
    <3>1. f = Refused
      BY <2>4 DEF FetchedView
    <3> QED BY <2>3, <2>4, <3>1, ViewTypes, PlainFits DEF Moved
  <2>5. CASE ~(reply = "error" /\ v.status = "open")
    <3>1. f = [v EXCEPT !.status = IF @ = "open" THEN "ended" ELSE @]
      BY <1>7, <2>5 DEF FetchedView, Fetched
    <3>2. CASE v.status = "open"
      <4>1. reply = "no_data" /\ f = [v EXCEPT !.status = "ended"]
        BY <1>7, <2>5, <3>1, <3>2
      <4>2. v.row = v.made /\ r.at = r.rows
        BY <1>1, <3>2, <4>1 DEF Fits, Agrees
      <4>3. f \in ViewType /\ f.status = "ended"
        BY <4>1 DEF ViewType
      <4>4. Fits(f, x)
        BY <1>1, <1>2, <2>2, <4>2, <4>3 DEF Fits, Agrees
      <4> QED BY <2>3, <3>2, <4>1, <4>2, <4>3, <4>4 DEF Moved
    <3>3. CASE v.status = "ended"
      <4>1. f = v
        BY <3>1, <3>3 DEF ViewType
      <4>2. Fits(v, x)
        BY <1>2, <2>2, <3>3 DEF Fits, Agrees
      <4> QED BY <2>3, <4>1, <4>2 DEF Moved
    <3> QED BY <1>2, <3>2, <3>3
  <2> QED BY <2>4, <2>5
<1> QED BY <1>6, <1>7

(***************************************************************************)
(* The answers to one fetch: the session at least stays what it is or is   *)
(* ended.                                                                  *)
(***************************************************************************)
LEMMA FetchAnswers ==
  ASSUME GoodConn(conn), NEW r, NEW f \in FetchReplies(r)
  PROVE  /\ f.reply \in {"row", "no_data", "error"}
         /\ f.reply = "row" => r.at < r.rows
         /\ f.reply = "no_data" => ~(r.at < r.rows)
         /\ Steady(conn.server, f.server)
         /\ f = [reply |-> f.reply, server |-> f.server]
<1>1. GoodSession(conn.server)
  BY DEF GoodConn
<1> DEFINE g(a) == [reply |-> IF a.reply # "ok" THEN "error"
                              ELSE IF r.at < r.rows THEN "row" ELSE "no_data",
                    server |-> a.server]
<1>2. CASE f = [reply |-> "error", server |-> conn.server]
  BY <1>1, <1>2, SteadyRefl
<1>3. ASSUME NEW a \in AskRead(conn.server), f = g(a)
      PROVE  /\ f.reply \in {"row", "no_data", "error"}
             /\ f.reply = "row" => r.at < r.rows
             /\ f.reply = "no_data" => ~(r.at < r.rows)
             /\ Steady(conn.server, f.server)
             /\ f = [reply |-> f.reply, server |-> f.server]
  <2>1. Steady(conn.server, a.server)
    BY <1>1, ReadSteady
  <2> QED BY <1>3, <2>1
<1>4. \/ f = [reply |-> "error", server |-> conn.server]
      \/ \E a \in AskRead(conn.server) : f = g(a)
  BY DEF FetchReplies
<1> QED BY <1>2, <1>3, <1>4

LEMMA NextRowStep ==
  ASSUME IndInv, Rules = AllRules, NEW q \in Query, NextRow(q)
  PROVE  /\ IndInv'
         /\ \E f, reply : /\ view' = [view EXCEPT ![q] = f] /\ Moved(view[q], f, reply)
                          /\ reply = "error" => conn'.lastError # "none"
<1> DEFINE r == rs[q]
           v == view[q]
<1>1. /\ obj[q] = "held" /\ v.status # "refused" /\ UNCHANGED <<obj, stray, ack, began>>
  BY DEF NextRow, Keeps, AllRules
<1>2. /\ r \in RSType /\ v \in ViewType /\ Fits(v, r) /\ obj' = [obj EXCEPT ![q] = "held"]
      /\ GoodConn(conn) /\ conn.isOpen \in BOOLEAN /\ lost \in BOOLEAN /\ Accounted
  BY <1>1 DEF IndInv, QueryParts, ConnParts, GoodConn, ConnType, Accounted
<1>3. CASE r.isActive /\ r.index # AfterLast
  <2>1. PICK g \in FetchReplies(r) :
          /\ rs' = [rs EXCEPT ![q] = FetchedRS(r, g.reply)]
          /\ conn' = Told(conn, [g EXCEPT !.reply = IF @ = "error" THEN @ ELSE "ok"])
          /\ lost' = (lost \/ (conn.server.up /\ ~g.server.up))
          /\ said' = SaidAfter(g.server.up)
          /\ view' = [view EXCEPT ![q] = FetchedView(v, g.reply, r.at + 1)]
    BY <1>3 DEF NextRow, IndInv, QueryParts
  <2> DEFINE x == FetchedRS(r, g.reply)
             f == FetchedView(v, g.reply, r.at + 1)
             a == [g EXCEPT !.reply = IF @ = "error" THEN @ ELSE "ok"]
  <2>2. /\ g.reply \in {"row", "no_data", "error"}
        /\ g.reply = "row" => r.at < r.rows
        /\ g.reply = "no_data" => ~(r.at < r.rows)
        /\ Steady(conn.server, g.server)
        /\ g = [reply |-> g.reply, server |-> g.server]
    BY <1>2, <2>1, FetchAnswers
  <2>3. KeepsPrepared(r, x) /\ f \in ViewType /\ Fits(f, x) /\ Moved(v, f, g.reply)
    BY <1>1, <1>2, <1>3, <2>2, FetchedFits
  <2>4. a.server = g.server /\ (g.reply = "error" => a.reply = "error")
    BY <2>2
  <2>5. /\ conn' = Told(conn, a) /\ rs' = [rs EXCEPT ![q] = x] /\ view' = [view EXCEPT ![q] = f]
    BY <2>1
  <2> HIDE DEF x, f, a
  <2>6. AfterAnswer(conn, a, conn')
    BY <1>2, <2>2, <2>4, <2>5, ToldGood DEF Steady, Idle
  <2>7. /\ GoodConn(conn') /\ conn'.isOpen = conn.isOpen /\ conn'.server = g.server
        /\ g.reply = "error" => conn'.lastError # "none"
    BY <2>4, <2>6 DEF AfterAnswer
  <2>8. ConnParts'
    <3>1. lost' \in BOOLEAN /\ (lost => lost')
      BY <1>2, <2>1
    <3>2. Accounted'
      BY <1>1, <1>2, <2>2, <2>7, <3>1, QuietAccounts
    <3> QED BY <1>1, <2>7, <3>2 DEF IndInv, ConnParts, OneSession
  <2>9. QueryParts'
    <3>1. x \in RSType /\ x.stmt = r.stmt
      BY <2>3 DEF KeepsPrepared
    <3>2. ~conn.isOpen => x.stmt = "none"
      BY <3>1 DEF IndInv, QueryParts
    <3> QED BY <1>2, <2>3, <2>5, <2>7, <3>1, <3>2, QueryChanged
  <2>10. SaidParts'
    BY <2>1, <2>3, <2>5, SaidKept
  <2>11. \E y, reply : /\ view' = [view EXCEPT ![q] = y] /\ Moved(v, y, reply)
                       /\ reply = "error" => conn'.lastError # "none"
    BY <2>3, <2>5, <2>7
  <2> QED BY <2>8, <2>9, <2>10, <2>11 DEF IndInv
<1>4. CASE ~(r.isActive /\ r.index # AfterLast)
  <2>1. /\ view' = [view EXCEPT ![q] = Fetched(v, FALSE, 0)]
        /\ UNCHANGED <<rs, conn, lost, said>>
    BY <1>4 DEF NextRow, IndInv, QueryParts
  <2>2. v.status # "open"
    <3>1. r.at \in Nat
      BY <1>2 DEF RSType, Counts
    <3> QED BY <1>2, <1>4, <3>1 DEF Fits, Agrees, AfterLast
  <2>3. Fetched(v, FALSE, 0) = v
    BY <1>2, <2>2 DEF Fetched, ViewType
  <2>4. view' = view /\ view' = [view EXCEPT ![q] = v]
    BY <2>1, <2>3 DEF IndInv, QueryParts
  <2>5. ConnParts' /\ QueryParts' /\ SaidParts'
    BY <1>1, <2>1, <2>4 DEF IndInv, ConnParts, QueryParts, SaidParts, OneSession, Accounted,
       AckedIsDurable, NoPhantomWrites, PreparedStays
  <2>6. \E y, reply : /\ view' = [view EXCEPT ![q] = y] /\ Moved(v, y, reply)
                      /\ reply = "error" => conn'.lastError # "none"
    <3>1. Moved(v, v, "row")
      BY DEF Moved
    <3> DEFINE reply == "row"
    <3>2. Moved(v, v, reply) /\ reply # "error"
      BY <3>1
    <3>3. view' = [view EXCEPT ![q] = v]
      BY <2>4
    <3> HIDE DEF reply, v
    <3> WITNESS v, reply
    <3> QED BY <3>2, <3>3
  <2> QED BY <2>5, <2>6 DEF IndInv
<1> QED BY <1>3, <1>4

-----------------------------------------------------------------------------
(* The steps of the connection.                                            *)

(***************************************************************************)
(* Every statement handle may be moved to another state, as long as what   *)
(* is prepared stays prepared: what the queries and their clients know     *)
(* still holds.                                                            *)
(***************************************************************************)
HandleMoved(r, x) ==
  /\ x \in RSType /\ x = [r EXCEPT !.h = x.h]
  /\ r = FreshRS => x = FreshRS
  /\ CursorBehavior # "delete" /\ r.h.prep => x.h.prep

HandlesMoved == \A q \in Query : HandleMoved(rs[q], rs'[q])

LEMMA HandlesKept ==
  ASSUME IndInv, UNCHANGED <<obj, view>>, conn'.isOpen = conn.isOpen,
         rs' = [q \in Query |-> rs'[q]], HandlesMoved,
         NEW up, said' = SaidAfter(up)
  PROVE  QueryParts' /\ SaidParts'
<1>1. ASSUME NEW q \in Query
      PROVE  /\ rs'[q] \in RSType /\ rs'[q].stmt = rs[q].stmt /\ rs'[q].sql = rs[q].sql
             /\ rs'[q].rows = rs[q].rows /\ rs'[q].at = rs[q].at
             /\ rs'[q].isActive = rs[q].isActive /\ rs'[q].index = rs[q].index
  <2>1. rs[q] \in RSType /\ rs'[q] = [rs[q] EXCEPT !.h = rs'[q].h] /\ rs'[q] \in RSType
    BY DEF HandlesMoved, HandleMoved, IndInv, QueryParts
  <2> DEFINE r == rs[q]
             k == rs'[q].h
  <2>2. [r EXCEPT !.h = k].stmt = r.stmt /\ [r EXCEPT !.h = k].sql = r.sql
        /\ [r EXCEPT !.h = k].rows = r.rows /\ [r EXCEPT !.h = k].at = r.at
        /\ [r EXCEPT !.h = k].isActive = r.isActive /\ [r EXCEPT !.h = k].index = r.index
    <3>1. r \in RSType
      BY <2>1
    <3> HIDE DEF r, k
    <3> QED BY <3>1 DEF RSType
  <2> QED BY <2>1, <2>2
<1>2. /\ rs' \in [Query -> RSType] /\ view' \in [Query -> ViewType]
      /\ obj' \in [Query -> {"unused", "held", "garbage"}]
  BY <1>1 DEF IndInv, QueryParts
<1>3. ASSUME NEW q \in Query
      PROVE  (IF obj[q] = "held" THEN Fits(view[q], rs[q])
              ELSE rs[q] = FreshRS /\ view[q] = NoView)'
  <2>1. IF obj[q] = "held" THEN Fits(view[q], rs[q]) ELSE rs[q] = FreshRS /\ view[q] = NoView
    BY DEF IndInv, QueryParts
  <2>2. obj'[q] = obj[q] /\ view'[q] = view[q]
    OBVIOUS
  <2>3. CASE obj[q] = "held"
    BY <1>1, <2>1, <2>2, <2>3 DEF Fits, Agrees
  <2>4. CASE obj[q] # "held"
    BY <2>1, <2>2, <2>4 DEF HandlesMoved, HandleMoved
  <2> QED BY <2>3, <2>4
<1>4. ~conn'.isOpen => \A q \in Query : rs'[q].stmt = "none"
  BY <1>1 DEF IndInv, QueryParts
<1>5. QueryParts'
  BY <1>2, <1>3, <1>4 DEF QueryParts
<1>6. /\ said' \in [Query -> Stmt \cup {Null}]
      /\ \A q \in Query : said'[q] # Null => said'[q] = said[q]
  BY DEF IndInv, SaidParts, SaidAfter, NoStmts
<1>7. PreparedStays'
  <2>1. ASSUME NEW q \in Query, CursorBehavior # "delete", said'[q] # Null
        PROVE  rs'[q].stmt = "held" /\ rs'[q].h.prep /\ rs'[q].sql = said'[q]
    <3>1. rs[q].stmt = "held" /\ rs[q].h.prep /\ rs[q].sql = said'[q]
      BY <1>6, <2>1 DEF IndInv, SaidParts, PreparedStays
    <3> QED BY <1>1, <2>1, <3>1 DEF HandlesMoved, HandleMoved
  <2> QED BY <2>1 DEF PreparedStays
<1> QED BY <1>5, <1>6, <1>7 DEF SaidParts

LEMMA HandlesAlone ==
  ASSUME IndInv, rs' = rs
  PROVE  rs' = [q \in Query |-> rs'[q]] /\ HandlesMoved
<1>1. ASSUME NEW r \in RSType
      PROVE  r = [r EXCEPT !.h = r.h]
  BY <1>1 DEF RSType
<1>2. ASSUME NEW q \in Query
      PROVE  rs[q] \in RSType /\ rs[q] = [rs[q] EXCEPT !.h = rs[q].h]
  BY <1>1 DEF IndInv, QueryParts
<1>3. rs = [q \in Query |-> rs[q]]
  BY DEF IndInv, QueryParts
<1> QED BY <1>2, <1>3 DEF HandlesMoved, HandleMoved

LEMMA ConnOnlyStep ==
  ASSUME IndInv, NEW c, ConnOnly(c), UNCHANGED <<obj, rs>>,
         GoodConn(c), c.isOpen = conn.isOpen, Steady(conn.server, c.server)
  PROVE  IndInv'
<1>1. /\ conn' = c /\ lost' = (lost \/ (conn.server.up /\ ~c.server.up))
      /\ said' = SaidAfter(c.server.up) /\ UNCHANGED <<stray, ack, began, view>>
  BY DEF ConnOnly
<1>2. lost' \in BOOLEAN /\ (lost => lost')
  <2>1. lost \in BOOLEAN
    BY DEF IndInv, ConnParts, Accounted
  <2> QED BY <1>1, <2>1
<1>3. ConnParts'
  <2>1. Accounted'
    BY <1>1, <1>2, QuietAccounts DEF IndInv, ConnParts
  <2> QED BY <1>1, <2>1 DEF IndInv, ConnParts, OneSession
<1>4. QueryParts' /\ SaidParts'
  BY <1>1, HandlesAlone, HandlesKept
<1> QED BY <1>3, <1>4 DEF IndInv

LEMMA ResetErrorStep ==
  ASSUME IndInv, ResetError
  PROVE  IndInv'
<1>1. /\ conn' = SetError(conn, "none")
      /\ UNCHANGED <<obj, rs, stray, ack, began, view, said, lost>>
  BY DEF ResetError, historyVars
<1>2. GoodConn(conn') /\ conn'.server = conn.server /\ conn'.isOpen = conn.isOpen
  BY <1>1, SetErrorGood DEF IndInv, ConnParts
<1>3. ConnParts'
  BY <1>1, <1>2 DEF IndInv, ConnParts, OneSession, Accounted, AckedIsDurable, NoPhantomWrites
<1>4. QueryParts'
  BY <1>1, <1>2 DEF IndInv, QueryParts
<1>5. SaidParts'
  BY <1>1 DEF IndInv, SaidParts, PreparedStays
<1> QED BY <1>3, <1>4, <1>5 DEF IndInv

LEMMA GetTablesStep ==
  ASSUME IndInv, GetTables
  PROVE  IndInv'
<1>1. PICK a \in AskRead(conn.server) :
        \/ ConnOnly(Told(conn, a))
        \/ ConnOnly([conn EXCEPT !.server = a.server])
  BY DEF GetTables
<1>2. GoodConn(conn) /\ conn \in ConnType /\ GoodSession(conn.server) /\ UNCHANGED <<obj, rs>>
  BY DEF GetTables, IndInv, ConnParts, GoodConn
<1>3. Steady(conn.server, a.server)
  BY <1>1, <1>2, ReadSteady
<1>4. GoodSession(a.server) /\ a.server \in Sessions(Stmt) /\ (a.server.up => conn.server.up)
  BY <1>3 DEF Steady, Idle, GoodSession
<1>5. CASE ConnOnly(Told(conn, a))
  <2> DEFINE c == Told(conn, a)
  <2>1. AfterAnswer(conn, a, c)
    BY <1>2, <1>4, ToldGood
  <2>2. ConnOnly(c)
    BY <1>5
  <2> HIDE DEF c
  <2> QED BY <1>2, <1>3, <2>1, <2>2, ConnOnlyStep DEF AfterAnswer
<1>6. CASE ConnOnly([conn EXCEPT !.server = a.server])
  <2> DEFINE c == [conn EXCEPT !.server = a.server]
  <2>1. /\ c \in ConnType /\ c.server = a.server /\ c.isOpen = conn.isOpen
        /\ c.handle = conn.handle
    BY <1>2, <1>4 DEF ConnType
  <2>2. ConnOnly(c)
    BY <1>6
  <2> HIDE DEF c
  <2>3. GoodConn(c)
    BY <1>2, <1>4, <2>1 DEF GoodConn
  <2> QED BY <1>2, <1>3, <2>1, <2>2, <2>3, ConnOnlyStep
<1> QED BY <1>1, <1>5, <1>6

(***************************************************************************)
(* A client that has ended its transaction and dropped its queries: there  *)
(* is nothing the disconnect could be refused for, and no statement to be  *)
(* freed under a result set.                                               *)
(***************************************************************************)
LEMMA NothingToFree ==
  ASSUME IndInv, Rules = AllRules, MayClose
  PROVE  /\ ~DisconnectRefused(conn)
         /\ \A q \in Query : rs[q].stmt = "none"
<1>1. /\ conn.server.up => began = "no"
      /\ conn.isOpen => \A q \in Query : obj[q] = "unused"
  BY DEF MayClose, Keeps, AllRules
<1>2. conn.server.up => conn.server.txn = "none"
  BY <1>1 DEF IndInv, ConnParts, Accounted
<1>3. \A q \in Query : rs[q].stmt = "none"
  <2>1. CASE conn.isOpen
    BY <1>1, <2>1, FreshTypes DEF IndInv, QueryParts
  <2>2. CASE ~conn.isOpen
    BY <2>2 DEF IndInv, QueryParts
  <2> QED BY <2>1, <2>2
<1> QED BY <1>2, <1>3 DEF DisconnectRefused

LEMMA NothingFreed ==
  ASSUME IndInv, Rules = AllRules, MayClose, Disconnected(conn)
  PROVE  UNCHANGED <<rs, stray>>
<1>1. ~DisconnectRefused(conn) /\ \A q \in Query : rs[q].stmt = "none"
  BY NothingToFree
<1>2. stray' = stray
  <2>1. stray \in BOOLEAN
    BY DEF IndInv, ConnParts
  <2> QED BY <1>1, <2>1 DEF Disconnected
<1>3. rs' = rs
  <2>1. ASSUME NEW r \in RSType, r.stmt = "none"
        PROVE  FreedRS(r) = r
    BY <2>1 DEF FreedRS, RSType
  <2>2. \A q \in Query : FreedRS(rs[q]) = rs[q]
    BY <1>1, <2>1 DEF IndInv, QueryParts
  <2>3. rs' = rs \/ rs' = [q \in Query |-> FreedRS(rs[q])]
    BY DEF Disconnected
  <2>4. [q \in Query |-> FreedRS(rs[q])] = [q \in Query |-> rs[q]]
    BY <2>2
  <2>5. [q \in Query |-> rs[q]] = rs
    BY DEF IndInv, QueryParts
  <2> QED BY <2>3, <2>4, <2>5
<1> QED BY <1>2, <1>3

LEMMA NewSession ==
  ASSUME IndInv, LearnNewSession, UNCHANGED <<obj, rs, stray>>, GoodConn(conn)',
         conn'.server.txn = "none", conn'.server.committed = conn.server.committed,
         \A q \in Query : rs[q].stmt = "none"
  PROVE  IndInv'
<1>1. view' = view /\ lost' = lost /\ said' = NoStmts
  BY DEF LearnNewSession
<1>2. ConnParts'
  <2>1. Accounted /\ GoodSession(conn'.server)
    BY DEF IndInv, ConnParts, GoodConn
  <2>2. Accounted'
    BY <2>1, NewSessionAccounts
  <2> QED BY <2>2 DEF IndInv, ConnParts, OneSession
<1>3. QueryParts'
  BY <1>1 DEF IndInv, QueryParts
<1>4. SaidParts'
  BY <1>1 DEF SaidParts, PreparedStays, NoStmts
<1> QED BY <1>2, <1>3, <1>4 DEF IndInv

(* A connection whose session has been ended, or that never had one.       *)
Clear(c, d) ==
  GoodConn(d) /\ d.server.txn = "none" /\ d.server.committed = c.server.committed

LEMMA ClosedClear ==
  ASSUME NEW c, GoodConn(c)
  PROVE  Clear(c, ClosedConn(c)) /\ ~ClosedConn(c).isOpen
<1> DEFINE d == ClosedConn(c)
           e == Ended(c.server)
<1>1. c \in ConnType /\ c.server \in Sessions(Stmt) /\ GoodSession(c.server)
  BY DEF GoodConn, GoodSession
<1>2. /\ e \in Sessions(Stmt) /\ GoodSession(e) /\ e.txn = "none" /\ ~e.up
      /\ e.committed = c.server.committed
  BY <1>1, SessionOps, SessionFields, EndedSteady
<1>3. d = [c EXCEPT !.isOpen = FALSE, !.handle = FALSE, !.server = e]
  BY DEF ClosedConn
<1> HIDE DEF d, e
<1>4. d \in ConnType /\ d.server = e /\ ~d.isOpen
  BY <1>1, <1>2, <1>3 DEF ConnType
<1>5. Clear(c, d)
  BY <1>2, <1>4 DEF Clear, GoodConn
<1> QED BY <1>4, <1>5 DEF d

LEMMA CloseStep ==
  ASSUME IndInv, Rules = AllRules, Close
  PROVE  IndInv'
<1>1. MayClose /\ conn' = ClosedConn(conn) /\ Disconnected(conn) /\ LearnNewSession /\ obj' = obj
  BY DEF Close
<1>2. UNCHANGED <<rs, stray>> /\ \A q \in Query : rs[q].stmt = "none"
  BY <1>1, NothingFreed, NothingToFree
<1>3. Clear(conn, conn')
  BY <1>1, ClosedClear DEF IndInv, ConnParts
<1> QED BY <1>1, <1>2, <1>3, NewSession DEF Clear

LEMMA OpenedClear ==
  ASSUME NEW c, GoodConn(c), ~c.isOpen, NEW d \in OpenedConn(c)
  PROVE  Clear(c, d)
<1> DEFINE n == Connected(c.server)
           m == SetError(c, "connection")
           failed == [m EXCEPT !.isOpen = FALSE]
           f2 == [failed EXCEPT !.handle = TRUE]
<1>1. /\ c \in ConnType /\ c.server \in Sessions(Stmt) /\ GoodSession(c.server)
      /\ ~c.server.up /\ c.server.txn = "none"
  BY DEF GoodConn, GoodSession
<1>2. /\ n \in Sessions(Stmt) /\ GoodSession(n) /\ n.txn = "none"
      /\ n.committed = c.server.committed
  BY <1>1, SessionOps, SessionFields, EndedSteady
<1>3. \/ d = [c EXCEPT !.isOpen = TRUE, !.handle = TRUE, !.server = n]
      \/ d = failed \/ d = f2
  BY DEF OpenedConn
<1>4. GoodConn(m) /\ m.server = c.server /\ m \in ConnType
  BY SetErrorGood DEF GoodConn
<1> HIDE DEF n, m
<1>5. /\ failed \in ConnType /\ failed.isOpen = FALSE /\ failed.server = c.server
  BY <1>4 DEF ConnType
<1> HIDE DEF failed
<1>6. /\ f2 \in ConnType /\ f2.isOpen = FALSE /\ f2.server = c.server
  BY <1>5 DEF ConnType
<1> HIDE DEF f2
<1>7. CASE d = [c EXCEPT !.isOpen = TRUE, !.handle = TRUE, !.server = n]
  <2>1. d \in ConnType /\ d.isOpen /\ d.handle /\ d.server = n
    BY <1>1, <1>2, <1>7 DEF ConnType
  <2> QED BY <1>2, <2>1 DEF Clear, GoodConn
<1>8. CASE d = failed \/ d = f2
  BY <1>1, <1>5, <1>6, <1>8 DEF Clear, GoodConn
<1> QED BY <1>3, <1>7, <1>8

LEMMA OpenStep ==
  ASSUME IndInv, Rules = AllRules, Open
  PROVE  IndInv'
<1>1. MayClose /\ LearnNewSession /\ obj' = obj /\ GoodConn(conn)
  BY DEF Open, IndInv, ConnParts
<1>2. \A q \in Query : rs[q].stmt = "none"
  BY <1>1, NothingToFree
<1>3. UNCHANGED <<rs, stray>> /\ Clear(conn, conn')
  <2>1. CASE conn.isOpen
    <3> DEFINE c == ClosedConn(conn)
    <3>1. Disconnected(conn) /\ conn' \in OpenedConn(c)
      BY <2>1 DEF Open
    <3>2. Clear(conn, c) /\ ~c.isOpen
      BY <1>1, ClosedClear
    <3> HIDE DEF c
    <3>3. Clear(c, conn')
      BY <3>1, <3>2, OpenedClear DEF Clear
    <3>4. Clear(conn, conn')
      BY <3>2, <3>3 DEF Clear
    <3> QED BY <1>1, <3>1, <3>4, NothingFreed
  <2>2. CASE ~conn.isOpen
    <3>1. conn' \in OpenedConn(conn) /\ UNCHANGED <<rs, stray>>
      BY <2>2 DEF Open
    <3> QED BY <1>1, <2>2, <3>1, OpenedClear
  <2> QED BY <2>1, <2>2
<1> QED BY <1>1, <1>2, <1>3, NewSession DEF Clear

-----------------------------------------------------------------------------
(* Transactions.                                                           *)

(***************************************************************************)
(* The parts of the invariant that a command of a transaction keeps,       *)
(* whatever it answers.                                                    *)
(***************************************************************************)
LEMMA CommandParts ==
  ASSUME IndInv, NEW a, conn.isOpen, conn' = TxnTold(a), GoodSession(a.server),
         lost' = (lost \/ a.reply = "lost"), said' = SaidAfter(a.server.up),
         UNCHANGED <<obj, stray, view>>,
         rs' = [q \in Query |-> rs'[q]], HandlesMoved
  PROVE  /\ conn'.server = a.server /\ lost' \in BOOLEAN
         /\ (lost => lost') /\ (a.reply = "lost" => lost')
         /\ Accounted' => IndInv'
<1>1. conn' = [conn EXCEPT !.server = a.server,
                 !.lastError = IF a.reply = "ok" THEN conn.lastError ELSE "transaction"]
  BY DEF TxnTold
<1>2. /\ GoodConn(conn) /\ conn \in ConnType /\ a.server \in Sessions(Stmt) /\ lost \in BOOLEAN
  BY DEF IndInv, ConnParts, GoodConn, GoodSession, Accounted
<1>3. /\ conn' \in ConnType /\ conn'.server = a.server
      /\ conn'.isOpen = conn.isOpen /\ conn'.handle = conn.handle
  BY <1>1, <1>2 DEF ConnType
<1>4. GoodConn(conn)'
  BY <1>2, <1>3 DEF GoodConn
<1>5. QueryParts' /\ SaidParts'
  BY <1>3, HandlesKept
<1>6. Accounted' => IndInv'
  BY <1>4, <1>5 DEF IndInv, ConnParts, OneSession
<1>7. lost' \in BOOLEAN /\ (lost => lost') /\ (a.reply = "lost" => lost')
  BY <1>2
<1> QED BY <1>3, <1>6, <1>7

(* Switching autocommit off begins a transaction, switching it on ends it. *)
LEMMA AutocommitAnswers ==
  ASSUME NEW s, GoodSession(s), NEW on \in BOOLEAN, NEW a \in AskAutocommit(s, on),
         on => s.pending = 0
  PROVE  \/ a.reply = "error" /\ a.server = s
         \/ a.reply = "lost" /\ a.server = Ended(s)
         \/ a.reply = "ok" /\ s.up /\ a.server = IF on THEN Committed(s) ELSE Began(s)
<1>1. s \in Sessions(Stmt) /\ s.committed \in Nat /\ s.pending \in Nat
  BY SessionNumbers DEF GoodSession
<1> DEFINE done == IF on THEN Committed(s) ELSE Began(s)
<1>2. done.committed = s.committed
  <2>1. /\ Committed(s).committed = s.committed + s.pending
        /\ Began(s).committed = s.committed
    BY <1>1, SessionFields
  <2>2. on => s.committed + s.pending = s.committed
    BY <1>1
  <2> QED BY <2>1, <2>2
<1>3. \/ a = Answer("error", s) \/ a = Answer("lost", Ended(s)) \/ a = Answer("lost", Ended(done))
      \/ s.up /\ a = Answer("ok", done)
  BY DEF AskAutocommit, Lost
<1>4. Ended(done) = Ended(s)
  <2> HIDE DEF done
  <2> QED BY <1>2 DEF Ended
<1> HIDE DEF done
<1> QED BY <1>3, <1>4 DEF Answer, done

LEMMA StartTransactionStep ==
  ASSUME IndInv, Rules = AllRules, StartTransaction
  PROVE  IndInv'
<1> DEFINE s == conn.server
           off == FALSE
<1>1. PICK a \in AskAutocommit(s, off) : Transact(a) /\ LearnStart(a.reply = "ok")
  BY DEF StartTransaction
<1>2. /\ MayStart /\ Accounted /\ GoodSession(s) /\ s \in Sessions(Stmt) /\ "rollback_after" \in Rules
  BY DEF StartTransaction, AllRules, IndInv, ConnParts, Accounted, GoodSession
<1>3. /\ conn.isOpen /\ conn' = TxnTold(a) /\ lost' = (lost \/ a.reply = "lost")
      /\ said' = SaidAfter(a.server.up) /\ UNCHANGED <<obj, rs, stray, view>>
  BY <1>1 DEF Transact
<1>4. \/ a.reply = "error" /\ a.server = s
      \/ a.reply = "lost" /\ a.server = Ended(s)
      \/ a.reply = "ok" /\ s.up /\ a.server = Began(s)
  <2>1. off \in BOOLEAN /\ ~off
    OBVIOUS
  <2> HIDE DEF off
  <2> QED BY <1>1, <1>2, <2>1, AutocommitAnswers
<1>5. s.up => GoodSession(Began(s))
  BY <1>2, SessionOps, SessionFields DEF GoodSession
<1>6. /\ Steady(s, s) /\ Steady(s, Ended(s)) /\ Began(s).txn = "open"
      /\ Began(s).pending = s.pending /\ Began(s).committed = s.committed
  BY <1>2, SteadyRefl, EndedSteady, SessionFields
<1>7. GoodSession(a.server)
  BY <1>4, <1>5, <1>6 DEF Steady, Idle
<1>8. /\ conn'.server = a.server /\ lost' \in BOOLEAN /\ (lost => lost') /\ (Accounted' => IndInv')
  BY <1>3, <1>7, HandlesAlone, CommandParts
<1> DEFINE ok == a.reply = "ok"
<1>9. /\ ok \in BOOLEAN /\ LearnStart(ok)
      /\ IF ok THEN /\ GoodSession(conn'.server) /\ conn.server.up
                    /\ conn'.server.txn = "open" /\ conn'.server.pending = conn.server.pending
                    /\ conn'.server.committed = conn.server.committed
         ELSE Steady(conn.server, conn'.server)
  BY <1>1, <1>4, <1>6, <1>7, <1>8
<1> HIDE DEF ok
<1>10. Accounted'
  BY <1>2, <1>8, <1>9, StartAccounts
<1> QED BY <1>8, <1>10

(***************************************************************************)
(* The end of a transaction, where done is what SQLEndTran makes of the    *)
(* session, and how the client is answered.                                *)
(***************************************************************************)
EndAnswer(s, done, a) ==
  \/ a.reply = "ok" /\ s.up /\ GoodSession(a.server) /\ a.server.txn = "none"
     /\ a.server.committed = done.committed
  \/ a.reply # "ok" /\ Idle(s, a.server)
  \/ a.reply = "lost" /\ GoodSession(a.server) /\ ~a.server.up
     /\ a.server.committed = done.committed

LEMMA EndAnswers ==
  ASSUME Rules = AllRules, NEW s, s = conn.server, GoodSession(s),
         NEW done, GoodSession(done), done.pending = 0, NEW e \in EndReplies(done)
  PROVE  EndAnswer(s, done, e.a) /\ e.ended \in BOOLEAN
<1>0. s \in Sessions(Stmt) /\ done \in Sessions(Stmt) /\ done.committed \in Nat
  BY SessionNumbers DEF GoodSession
<1>1. /\ GoodSession(Ended(done)) /\ Ended(done).up = FALSE /\ Ended(done).committed = done.committed
  BY <1>0, EndedSteady, SessionFields
<1> DEFINE toggled(a) == {x \in AskAutocommit(a.server, TRUE) :
                            Keeps("toggle_works", x.reply # "error")}
           after(a) == IF a.reply # "ok" THEN {[a |-> a, ended |-> FALSE]}
                       ELSE {[a |-> b, ended |-> TRUE] : b \in toggled(a)}
<1>2. PICK a \in AskEndTran(s, done) : e \in after(a)
  <2>1. e \in UNION {after(a) : a \in AskEndTran(s, done)}
    BY DEF EndReplies
  <2> HIDE DEF after
  <2> QED BY <2>1
<1>3. \/ a = Answer("error", s)
      \/ a = Answer("error", Undone(s))
      \/ a = Answer("lost", Ended(s))
      \/ a = Answer("lost", Ended(done))
      \/ s.up /\ a = Answer("ok", done)
  <2> DEFINE possible == TRUE
  <2>1. a \in Ask(s, possible, done)
    BY <1>2 DEF AskEndTran
  <2> HIDE DEF possible
  <2> QED BY <2>1, AskAnswers
<1>4. CASE a.reply # "ok"
  <2>1. e.a = a /\ e.ended = FALSE
    BY <1>2, <1>4
  <2>2. Idle(s, s) /\ Idle(s, Undone(s)) /\ Idle(s, Ended(s))
    BY SteadyRefl, UndoneKept, EndedSteady DEF Steady
  <2>3. \/ a.server = s \/ a.server = Undone(s) \/ a.server = Ended(s)
        \/ a.reply = "lost" /\ a.server = Ended(done)
    BY <1>3, <1>4 DEF Answer
  <2>4. Idle(s, a.server) \/ (a.reply = "lost" /\ a.server = Ended(done))
    BY <2>2, <2>3
  <2>5. EndAnswer(s, done, a)
    BY <1>1, <1>4, <2>4 DEF EndAnswer
  <2> QED BY <2>1, <2>5
<1>5. CASE a.reply = "ok"
  <2>1. s.up /\ a.server = done
    BY <1>3, <1>5 DEF Answer
  <2> DEFINE on == TRUE
  <2>2. PICK b \in AskAutocommit(done, on) : e = [a |-> b, ended |-> TRUE] /\ b.reply # "error"
    BY <1>2, <1>5, <2>1 DEF Keeps, AllRules
  <2>3. on \in BOOLEAN /\ on
    OBVIOUS
  <2>4. e.a = b /\ e.ended = TRUE
    BY <2>2
  <2> HIDE DEF on
  <2>5. \/ b.reply = "lost" /\ b.server = Ended(done)
        \/ b.reply = "ok" /\ b.server = Committed(done)
    BY <2>2, <2>3, AutocommitAnswers
  <2>6. /\ GoodSession(Committed(done)) /\ Committed(done).txn = "none"
        /\ Committed(done).committed = done.committed
    <3>1. /\ GoodSession(Committed(done)) /\ Committed(done).txn = "none"
          /\ Committed(done).committed = done.committed + done.pending
      BY <1>0, WroteGood, SessionFields
    <3> QED BY <1>0, <3>1
  <2>7. EndAnswer(s, done, b)
    BY <1>1, <2>1, <2>5, <2>6 DEF EndAnswer
  <2> QED BY <2>4, <2>7
<1> QED BY <1>4, <1>5

(* SQLEndTran moves every statement of the connection.                     *)
LEMMA EndedHandles ==
  ASSUME IndInv, NEW e, EndedBy(e)
  PROVE  rs' = [q \in Query |-> rs'[q]] /\ HandlesMoved
<1>1. CASE rs' = rs
  BY <1>1, HandlesAlone
<1>2. CASE rs' = [q \in Query |-> [rs[q] EXCEPT !.h = transact(@, CursorBehavior)]]
  <2>1. ASSUME NEW r \in RSType, NEW x, x = [r EXCEPT !.h = transact(@, CursorBehavior)]
        PROVE  HandleMoved(r, x)
    <3> DEFINE k == transact(r.h, CursorBehavior)
    <3>1. /\ k \in Handles /\ (CursorBehavior # "delete" /\ r.h.prep => k.prep)
          /\ r.h = SQLAllocStmt => k = SQLAllocStmt
      <4>1. r.h \in Handles
        BY <2>1 DEF RSType
      <4> QED BY <4>1, HandleOps
    <3>2. x = [r EXCEPT !.h = k]
      BY <2>1
    <3> HIDE DEF k
    <3>3. x \in RSType /\ x.h = k
      BY <2>1, <3>1, <3>2 DEF RSType
    <3>4. r = FreshRS => x = FreshRS
      <4>1. r.h = k => [r EXCEPT !.h = k] = r
        BY <2>1 DEF RSType
      <4> QED BY <3>1, <3>2, <4>1, FreshTypes
    <3> QED BY <3>1, <3>2, <3>3, <3>4 DEF HandleMoved
  <2>2. ASSUME NEW q \in Query
        PROVE  rs[q] \in RSType /\ rs'[q] = [rs[q] EXCEPT !.h = transact(@, CursorBehavior)]
    BY <1>2 DEF IndInv, QueryParts
  <2>3. HandlesMoved
    <3>1. ASSUME NEW q \in Query
          PROVE  HandleMoved(rs[q], rs'[q])
      BY <2>1, <2>2
    <3> QED BY <3>1 DEF HandlesMoved
  <2>4. rs' = [q \in Query |-> rs'[q]]
    BY <1>2
  <2> QED BY <2>3, <2>4
<1> QED BY <1>1, <1>2 DEF EndedBy

LEMMA EndedParts ==
  ASSUME IndInv, NEW e, EndedBy(e), GoodSession(e.a.server)
  PROVE  /\ conn'.server = e.a.server /\ lost' \in BOOLEAN
         /\ (lost => lost') /\ (e.a.reply = "lost" => lost')
         /\ Accounted' => IndInv'
<1> DEFINE a == e.a
<1>1. /\ conn.isOpen /\ conn' = TxnTold(a) /\ lost' = (lost \/ a.reply = "lost")
      /\ said' = SaidAfter(a.server.up) /\ UNCHANGED <<obj, stray, view>>
      /\ GoodSession(a.server)
  BY DEF EndedBy
<1>2. rs' = [q \in Query |-> rs'[q]] /\ HandlesMoved
  BY EndedHandles
<1>3. /\ conn'.server = a.server /\ lost' \in BOOLEAN
      /\ (lost => lost') /\ (a.reply = "lost" => lost')
      /\ Accounted' => IndInv'
  <2> HIDE DEF a
  <2> QED BY <1>1, <1>2, CommandParts
<1> QED BY <1>3

LEMMA CommitStep ==
  ASSUME IndInv, Rules = AllRules, Commit
  PROVE  IndInv'
<1> DEFINE s == conn.server
           done == Kept(s)
<1>1. PICK e \in EndReplies(done) : EndedBy(e) /\ LearnCommit(e.a.reply = "ok")
  BY DEF Commit
<1>2. MayCommit /\ Accounted /\ GoodSession(s) /\ "rollback_after" \in Rules
  BY DEF Commit, AllRules, IndInv, ConnParts, GoodConn
<1>3. s.pending \in Nat /\ s.committed \in Nat
  BY <1>2, SessionNumbers
<1>4. GoodSession(done) /\ done.pending = 0 /\ done.committed = s.committed + s.pending
  BY <1>2, UndoneKept
<1> HIDE DEF done
<1>5. EndAnswer(s, done, e.a)
  BY <1>1, <1>2, <1>4, EndAnswers
<1>6. GoodSession(e.a.server)
  BY <1>5 DEF EndAnswer, Idle
<1>7. /\ conn'.server = e.a.server /\ lost' \in BOOLEAN /\ (lost => lost')
      /\ (e.a.reply = "lost" => lost') /\ (Accounted' => IndInv')
  BY <1>1, <1>6, EndedParts
<1> DEFINE ok == e.a.reply = "ok"
<1>8. /\ ok \in BOOLEAN /\ LearnCommit(ok)
      /\ \/ /\ ok /\ GoodSession(conn'.server) /\ conn.server.up /\ conn'.server.txn = "none"
            /\ conn'.server.committed = conn.server.committed + conn.server.pending
         \/ ~ok /\ Idle(conn.server, conn'.server)
         \/ ~ok /\ lost' /\ Cut(conn.server, conn'.server)
  <2>1. done.committed >= s.committed
    BY <1>3, <1>4
  <2>2. ok \in BOOLEAN /\ LearnCommit(ok)
    BY <1>1
  <2>3. CASE ok
    BY <1>4, <1>5, <1>7, <2>2, <2>3 DEF EndAnswer
  <2>4. CASE ~ok /\ Idle(s, e.a.server)
    BY <1>7, <2>2, <2>4
  <2>5. CASE ~ok /\ ~Idle(s, e.a.server)
    <3>1. e.a.reply = "lost" /\ Cut(s, e.a.server)
      BY <1>5, <2>1, <2>5 DEF EndAnswer, Cut
    <3> QED BY <1>7, <2>2, <2>5, <3>1
  <2> QED BY <2>3, <2>4, <2>5
<1> HIDE DEF ok
<1>9. Accounted'
  BY <1>2, <1>7, <1>8, CommitAccounts
<1> QED BY <1>7, <1>9

LEMMA RollbackStep ==
  ASSUME IndInv, Rules = AllRules, Rollback
  PROVE  IndInv'
<1> DEFINE s == conn.server
           done == Undone(s)
<1>1. PICK e \in EndReplies(done) : EndedBy(e) /\ LearnRollback(e.a.reply = "ok")
  BY DEF Rollback
<1>2. Accounted /\ GoodSession(s)
  BY DEF IndInv, ConnParts, GoodConn
<1>3. GoodSession(done) /\ done.pending = 0 /\ done.committed = s.committed
  BY <1>2, UndoneKept
<1> HIDE DEF done
<1>4. EndAnswer(s, done, e.a)
  BY <1>1, <1>2, <1>3, EndAnswers
<1>5. GoodSession(e.a.server)
  BY <1>4 DEF EndAnswer, Idle
<1>6. /\ conn'.server = e.a.server /\ lost' \in BOOLEAN /\ (lost => lost')
      /\ (Accounted' => IndInv')
  BY <1>1, <1>5, EndedParts
<1> DEFINE ok == e.a.reply = "ok"
<1>7. /\ ok \in BOOLEAN /\ LearnRollback(ok)
      /\ \/ /\ ok /\ GoodSession(conn'.server) /\ conn'.server.txn = "none"
            /\ conn'.server.committed = conn.server.committed
         \/ ~ok /\ Idle(conn.server, conn'.server)
  <2>1. ok \in BOOLEAN /\ LearnRollback(ok)
    BY <1>1
  <2>2. CASE ok
    BY <1>3, <1>4, <1>6, <2>1, <2>2 DEF EndAnswer
  <2>3. CASE ~ok
    <3>1. Idle(s, e.a.server)
      <4>1. \/ Idle(s, e.a.server)
            \/ /\ GoodSession(e.a.server) /\ ~e.a.server.up
               /\ e.a.server.committed = s.committed
        BY <1>3, <1>4, <2>3 DEF EndAnswer
      <4> QED BY <4>1 DEF Idle, GoodSession
    <3> QED BY <1>6, <2>1, <2>3, <3>1
  <2> QED BY <2>2, <2>3
<1> HIDE DEF ok
<1>8. Accounted'
  BY <1>2, <1>6, <1>7, RollbackAccounts
<1> QED BY <1>6, <1>8

-----------------------------------------------------------------------------
LEMMA InitInv ==
  ASSUME Init
  PROVE  IndInv
<1> USE DEF Init, ClientInit
<1>1. /\ GoodConn(conn) /\ GoodSession(conn.server)
      /\ conn.server.txn = "none" /\ conn.server.committed = 0
  <2>1. NoSession \in Sessions(Stmt)
    BY DEF NoSession, Sessions, NoStmts
  <2>2. /\ NoSession.up = FALSE /\ NoSession.txn = "none" /\ NoSession.pending = 0
        /\ NoSession.committed = 0
    BY DEF NoSession
  <2>3. GoodSession(NoSession)
    BY <2>1, <2>2 DEF GoodSession
  <2>4. conn \in ConnType /\ conn.server = NoSession /\ ~conn.isOpen
    BY <2>1 DEF Unconnected, ConnType
  <2> QED BY <2>2, <2>3, <2>4 DEF GoodConn
<1>2. ConnParts
  <2>1. /\ ack \in [committed : Nat, pending : Nat] /\ ack.committed = 0 /\ ack.pending = 0
        /\ began = "no" /\ lost = FALSE /\ stray = FALSE
    OBVIOUS
  <2>2. AckedIsDurable /\ NoPhantomWrites
    BY <1>1, <2>1 DEF AckedIsDurable, NoPhantomWrites
  <2>3. Accounted
    BY <1>1, <2>1, <2>2 DEF Accounted
  <2> QED BY <1>1, <2>1, <2>3 DEF ConnParts, OneSession
<1>3. QueryParts
  BY FreshTypes, ViewTypes DEF QueryParts
<1>4. SaidParts
  BY DEF SaidParts, PreparedStays, NoStmts
<1> QED BY <1>2, <1>3, <1>4 DEF IndInv

LEMMA NextInv ==
  ASSUME IndInv, Rules = AllRules, [Next]_vars
  PROVE  IndInv'
<1>1. CASE UNCHANGED vars
  <2>1. UNCHANGED <<conn, obj, rs, stray, ack, began, view, said, lost>>
    BY <1>1 DEF vars, historyVars
  <2>2. ConnParts'
    BY <2>1 DEF IndInv, ConnParts, OneSession, Accounted, AckedIsDurable, NoPhantomWrites
  <2>3. QueryParts'
    BY <2>1 DEF IndInv, QueryParts
  <2>4. SaidParts'
    BY <2>1 DEF IndInv, SaidParts, PreparedStays
  <2> QED BY <2>2, <2>3, <2>4 DEF IndInv
<1>2. CASE Open \/ Close \/ ResetError
  BY <1>2, OpenStep, CloseStep, ResetErrorStep
<1>3. CASE StartTransaction \/ Commit \/ Rollback \/ GetTables
  BY <1>3, StartTransactionStep, CommitStep, RollbackStep, GetTablesStep
<1>4. ASSUME NEW q \in Query, Reject(q) \/ Execute(q) \/ NextRow(q) \/ Drop(q)
      PROVE  IndInv'
  BY <1>4, RejectStep, ExecuteStep, NextRowStep, DropStep
<1>5. ASSUME NEW q \in Query, NEW s \in Stmt, Prepare(q, s) \/ ExecuteStatement(q, s)
      PROVE  IndInv'
  BY <1>5, PrepareStep, ExecuteStatementStep
<1> QED BY <1>1, <1>2, <1>3, <1>4, <1>5 DEF Next, Stmt

(***************************************************************************)
(* A client that keeps all the rules always finds the connection, the      *)
(* transaction, the result sets and their statement handles in the states  *)
(* of IndInv.                                                              *)
(***************************************************************************)
THEOREM ODBCInvariance ==
  Rules = AllRules /\ Spec => []IndInv
<1> SUFFICES ASSUME Rules = AllRules PROVE Spec => []IndInv
  OBVIOUS
<1>1. IndInv /\ [Next]_vars => IndInv'
  BY NextInv
<1> QED BY <1>1, InitInv, PTL DEF Spec

(***************************************************************************)
(* commit() and execute(): what the client was told is committed is in the *)
(* data source, with any number of writes, failures and lost calls, also   *)
(* between SQLEndTran and switching autocommit on.                         *)
(***************************************************************************)
THEOREM ODBCAckedIsDurable == Rules = AllRules /\ Spec => []AckedIsDurable
<1>1. IndInv => AckedIsDurable
  BY DEF IndInv, ConnParts, Accounted
<1> QED BY ODBCInvariance, <1>1, PTL

(***************************************************************************)
(* execute(), commit() and rollback(): no write that was refused or undone *)
(* is in the data source, unless a call was lost; switching autocommit on  *)
(* after a rollback commits nothing.                                       *)
(***************************************************************************)
THEOREM ODBCNoPhantomWrites == Rules = AllRules /\ Spec => []NoPhantomWrites
<1>1. IndInv => NoPhantomWrites
  BY DEF IndInv, ConnParts, Accounted
<1> QED BY ODBCInvariance, <1>1, PTL

(***************************************************************************)
(* prepare() and transact(): a statement that was reported as prepared     *)
(* stays prepared through executions, fetches and the ends of              *)
(* transactions, unless the data source deletes it there.                  *)
(***************************************************************************)
THEOREM ODBCPreparedStays == Rules = AllRules /\ Spec => []PreparedStays
<1>1. IndInv => PreparedStays
  BY DEF IndInv, SaidParts
<1> QED BY ODBCInvariance, <1>1, PTL

(***************************************************************************)
(* close() frees the statements of the connection: a client that drops its *)
(* queries first never passes a freed handle to the driver manager.        *)
(***************************************************************************)
THEOREM ODBCHandlesLive == Rules = AllRules /\ Spec => []HandlesLive
<1>1. IndInv => HandlesLive
  BY DEF IndInv, QueryParts, RSType, HandlesLive
<1> QED BY ODBCInvariance, <1>1, PTL

(***************************************************************************)
(* open() and close(): a client that ends its transaction first never      *)
(* leaves a live session behind.                                           *)
(***************************************************************************)
THEOREM ODBCOneSession == Rules = AllRules /\ Spec => []OneSession
<1>1. IndInv => OneSession
  BY DEF IndInv, ConnParts
<1> QED BY ODBCInvariance, <1>1, PTL

-----------------------------------------------------------------------------
(* What a step does to the view of the client.                             *)

LEMMA RanViewStep ==
  ASSUME NEW q \in Query, NEW o, NEW st, Take(q, o), Explained(o),
         o.ok => o.rows \in RowsOf("ok", st \in Selects),
         view' = RanView(q, o, st)
  PROVE  ViewStep
<1>1. CASE ~o.ok
  <2>1. view' = [view EXCEPT ![q] = Refused] /\ conn'.lastError # "none"
    BY <1>1 DEF RanView, Explained, Take
  <2> QED BY <2>1 DEF ViewStep
<1>2. CASE o.ok
  <2> DEFINE b == st \in Selects
             n == o.rows
  <2>1. /\ b \in BOOLEAN /\ n \in 0..MaxRows /\ (~b => n = 0)
        /\ view' = [view EXCEPT ![q] = Started(b, n)]
    BY <1>2, ClientAssumption DEF RanView, RowsOf
  <2> HIDE DEF b, n
  <2> QED BY <2>1 DEF ViewStep
<1> QED BY <1>1, <1>2

LEMMA ViewSteps ==
  ASSUME IndInv, Rules = AllRules, [Next]_vars
  PROVE  ViewStep
<1>0. GoodConn(conn) /\ view \in [Query -> ViewType]
  BY DEF IndInv, ConnParts, QueryParts
<1>h. ASSUME NEW q \in Query PROVE rs[q] \in RSType
  BY DEF IndInv, QueryParts
<1>1. CASE UNCHANGED vars
  BY <1>1 DEF vars, historyVars, ViewStep
<1>2. CASE Open \/ Close \/ ResetError
  BY <1>2 DEF Open, Close, ResetError, LearnNewSession, historyVars, ViewStep
<1>3. CASE StartTransaction \/ Commit \/ Rollback \/ GetTables
  BY <1>3 DEF StartTransaction, Commit, Rollback, GetTables, Transact, EndedBy, ConnOnly, ViewStep
<1>4. ASSUME NEW q \in Query, Reject(q)
      PROVE  ViewStep
  <2>1. view' = [view EXCEPT ![q] = Refused] /\ conn' = SetError(conn, "statement")
    BY <1>4 DEF Reject, Take, Outcome
  <2>2. conn'.lastError # "none"
    BY <1>0, <2>1, SetErrorGood
  <2> QED BY <2>1, <2>2 DEF ViewStep
<1>5. ASSUME NEW q \in Query, Execute(q)
      PROVE  ViewStep
  <2> DEFINE st == rs[q].sql
  <2>1. PICK o \in QueryExecute(conn, rs[q]) : Take(q, o) /\ LearnRun(q, o, st)
    BY <1>5 DEF Execute
  <2>2. /\ ExecutedTo(conn, rs[q], st, o)
        /\ rs[q].stmt = "none" => ~o.ok
        /\ rs[q].stmt = "held" => Explained(o)
    BY <1>0, <1>h, <2>1, ExecuteServed
  <2>3. view' = RanView(q, o, st)
    BY <2>1 DEF LearnRun
  <2>4. CASE rs[q].stmt = "held"
    <3>1. o.ok => o.rows \in RowsOf("ok", st \in Selects)
      BY <2>2 DEF ExecutedTo
    <3> HIDE DEF st
    <3> QED BY <2>1, <2>2, <2>3, <2>4, <3>1, RanViewStep
  <2>5. CASE rs[q].stmt = "none"
    <3>1. view[q] = Refused
      BY <1>5, <2>5 DEF Execute, MayExecute, IndInv, QueryParts, Fits
    <3>2. view' = [view EXCEPT ![q] = Refused]
      BY <2>2, <2>3, <2>5 DEF RanView
    <3>3. view' = view
      BY <1>0, <3>1, <3>2
    <3> QED BY <3>3 DEF ViewStep
  <2> QED BY <1>h, <2>4, <2>5 DEF RSType
<1>6. ASSUME NEW q \in Query, NEW st \in Stmt, ExecuteStatement(q, st)
      PROVE  ViewStep
  <2>1. PICK o \in QueryExecuteStatement(conn, rs[q], st) :
          Take(q, o) /\ view' = RanView(q, o, st)
    BY <1>6 DEF ExecuteStatement
  <2>2. ExecutedTo(conn, rs[q], st, o) /\ Explained(o)
    BY <1>0, <1>h, <2>1, ExecuteStatementServed
  <2>3. o.ok => o.rows \in RowsOf("ok", st \in Selects)
    BY <2>2 DEF ExecutedTo
  <2> QED BY <2>1, <2>2, <2>3, RanViewStep
<1>7. ASSUME NEW q \in Query, NEW st \in Stmt, Prepare(q, st)
      PROVE  ViewStep
  <2>1. PICK o \in QueryPrepare(conn, rs[q], st) : Take(q, o) /\ LearnPrepare(q, o, st)
    BY <1>7 DEF Prepare
  <2>2. PreparedTo(conn, rs[q], st, o)
    BY <1>0, <1>h, <2>1, PrepareServed
  <2>3. /\ view' = [view EXCEPT ![q] = IF o.ok THEN NoView ELSE Refused]
        /\ ~o.ok => conn'.lastError # "none"
    BY <2>1, <2>2 DEF LearnPrepare, Take, PreparedTo, Explained
  <2> QED BY <2>3 DEF ViewStep
<1>8. ASSUME NEW q \in Query, NextRow(q)
      PROVE  ViewStep
  <2> DEFINE v == view[q]
  <2>1. PICK f, reply : /\ view' = [view EXCEPT ![q] = f] /\ Moved(v, f, reply)
                        /\ reply = "error" => conn'.lastError # "none"
    BY <1>8, NextRowStep
  <2>2. CASE f = v
    <3>1. view' = view
      BY <1>0, <2>1, <2>2
    <3> QED BY <3>1 DEF ViewStep
  <2>3. CASE reply = "error" /\ f = Refused
    BY <2>1, <2>3 DEF ViewStep
  <2>4. CASE v.status = "open" /\ v.row + 1 <= v.made /\ f = [v EXCEPT !.row = v.row + 1]
    BY <2>1, <2>4 DEF ViewStep
  <2>5. CASE v.status = "open" /\ v.row = v.made /\ f = [v EXCEPT !.status = "ended"]
    BY <2>1, <2>5 DEF ViewStep
  <2> QED BY <2>1, <2>2, <2>3, <2>4, <2>5 DEF Moved
<1>9. ASSUME NEW q \in Query, Drop(q)
      PROVE  ViewStep
  BY <1>9 DEF Drop, ViewStep
<1> QED
  BY <1>1, <1>2, <1>3, <1>4, <1>5, <1>6, <1>7, <1>8, <1>9 DEF Next, Stmt

(***************************************************************************)
(* prepare() and execute(): in every state, for every call that the rules  *)
(* allow and every answer to it, a False comes with an error to look at.   *)
(***************************************************************************)
THEOREM ODBCFailuresExplained == Rules = AllRules /\ Spec => []FailuresExplained
<1> SUFFICES ASSUME Rules = AllRules PROVE Spec => []FailuresExplained
  OBVIOUS
<1>1. ASSUME IndInv PROVE FailuresExplained
  <2>1. GoodConn(conn) /\ \A q \in Query : rs[q] \in RSType
    BY <1>1 DEF IndInv, ConnParts, QueryParts
  <2>2. ASSUME NEW q \in Query, NEW st \in Stmt, NEW o \in QueryPrepare(conn, rs[q], st)
        PROVE  Explained(o)
    <3>1. PreparedTo(conn, rs[q], st, o)
      BY <2>1, <2>2, PrepareServed
    <3> QED BY <3>1 DEF PreparedTo
  <2>3. ASSUME NEW q \in Query, NEW st \in Stmt,
               NEW o \in QueryExecuteStatement(conn, rs[q], st)
        PROVE  Explained(o)
    BY <2>1, <2>3, ExecuteStatementServed
  <2>4. ASSUME NEW q \in Query, MayExecute(q), NEW o \in QueryExecute(conn, rs[q])
        PROVE  Explained(o)
    <3>1. rs[q].stmt = "held"
      BY <2>1, <2>4 DEF MayExecute, Keeps, AllRules, RSType
    <3> QED BY <2>1, <2>4, <3>1, ExecuteServed
  <2> QED BY <2>2, <2>3, <2>4 DEF FailuresExplained, Stmt
<1> QED BY <1>1, ODBCInvariance, PTL

(***************************************************************************)
(* The driver implements RowCursor: the rows of every execution come in    *)
(* order, each once, and a fetch that fails is no end of the rows.         *)
(***************************************************************************)
THEOREM ODBCRowsInOrder == Rules = AllRules /\ Spec => RowsInOrder
<1> SUFFICES ASSUME Rules = AllRules PROVE Spec => RowsInOrder
  OBVIOUS
<1>1. Init => Contract!Init
  BY DEF Init, ClientInit, Contract!Init, Contract!NoCursor, NoView
<1>2. IndInv /\ [Next]_vars => [Contract!Next]_view
  <2>1. IndInv => view \in [Query -> ViewType]
    BY DEF IndInv, QueryParts
  <2> QED BY <2>1, ViewSteps, ViewStepInOrder
<1>3. RowsInOrder <=> Contract!Init /\ [][Contract!Next]_view
  BY DEF RowsInOrder, Contract!Spec
<1> QED BY <1>1, <1>2, <1>3, ODBCInvariance, PTL DEF Spec

=============================================================================
