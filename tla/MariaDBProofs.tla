---------------------------- MODULE MariaDBProofs ----------------------------
(***************************************************************************)
(* Proofs about MariaDB, for any number of queries, statements, rows and   *)
(* writes, with and without lost calls.  They are about clients that keep  *)
(* all the rules.                                                          *)
(***************************************************************************)
EXTENDS MariaDB, ServerClientProofs

Counts  == 0..MaxRows
Indexes == -1..MaxRows

RSType ==
  [stmt : Stmt \cup {Null}, prepared : BOOLEAN, rows : Counts, at : Counts,
   isActive : BOOLEAN, index : Indexes]

-----------------------------------------------------------------------------
(* The inductive invariant.                                                *)

(* A connection as it is between two calls.  A session may be alive with   *)
(* the open flag down (its database could not be selected), but then it    *)
(* has no transaction.                                                     *)
GoodConn(c) ==
  /\ c \in ConnType
  /\ c.isOpen => c.handle
  /\ GoodSession(c.server)
  /\ ~c.isOpen => c.server.txn = "none"

(* A statement that the server has is the one of the result set.           *)
SameStatements == \A q \in Query : conn.server.stmts[q] \in {Null, rs[q].stmt}

(* The stored result agrees with how far its client has come.              *)
Agrees(v, r) ==
  /\ v.status = "idle" => ~r.isActive
  /\ v.status = "open" =>
       /\ r.isActive /\ (r.prepared => r.stmt # Null)
       /\ v.row = r.at /\ v.made = r.rows
       /\ r.at <= r.rows /\ r.index = r.at - 1
  /\ v.status = "ended" /\ r.isActive => r.at >= r.rows /\ r.index = BeforeFirst

ConnParts ==
  /\ stray \in BOOLEAN
  /\ GoodConn(conn)
  /\ Accounted

(* Only a query in use has been executed, or said to be prepared.          *)
QueryParts ==
  /\ obj \in [Query -> {"unused", "held", "garbage"}]
  /\ rs \in [Query -> RSType] /\ view \in [Query -> ViewType]
  /\ \A q \in Query : IF obj[q] = "held" THEN Agrees(view[q], rs[q]) ELSE view[q] = NoView

SaidParts ==
  /\ said \in [Query -> Stmt \cup {Null}]
  /\ \A q \in Query : obj[q] # "held" => said[q] = Null
  /\ SameStatements
  /\ PreparedStays

IndInv == ConnParts /\ QueryParts /\ SaidParts

-----------------------------------------------------------------------------
(* The answers of the server, and the connection after them.               *)

(* The statements of a session before and after a call that prepares and   *)
(* closes none.                                                            *)
StmtsKept(s, t) ==
  /\ \A p \in Query : t.stmts[p] \in {Null, s.stmts[p]}
  /\ t.up => s.up /\ t.stmts = s.stmts

LEMMA StmtsKeptTrans ==
  ASSUME NEW s, NEW t, NEW u, StmtsKept(s, t), StmtsKept(t, u)
  PROVE  StmtsKept(s, u)
BY DEF StmtsKept

LEMMA AskAnswers ==
  ASSUME NEW s, NEW possible, NEW done, NEW a \in Ask(s, possible, done)
  PROVE  \/ ~s.up /\ a = Answer("lost", s)
         \/ s.up /\ a = Answer("error", s)
         \/ s.up /\ a = Answer("error", RolledBack(s))
         \/ s.up /\ a = Answer("lost", Ended(s))
         \/ s.up /\ a = Answer("lost", Ended(done)) /\ possible
         \/ s.up /\ a = Answer("ok", done) /\ possible
BY DEF Ask, Lost

(***************************************************************************)
(* What an answer is, whatever was asked: done is the session that the     *)
(* command makes of s.                                                     *)
(***************************************************************************)
LEMMA AnswerDid ==
  ASSUME NEW s, GoodSession(s), NEW done, GoodSession(done), NEW w,
         s.up => Did(s, done, "ok", w), done.committed >= s.committed,
         s.up => done.up /\ done.stmts = s.stmts,
         NEW a,
         \/ ~s.up /\ a = Answer("lost", s)
         \/ s.up /\ a = Answer("error", s)
         \/ s.up /\ a = Answer("error", RolledBack(s))
         \/ s.up /\ a = Answer("lost", Ended(s))
         \/ s.up /\ a = Answer("lost", Ended(done))
         \/ s.up /\ a = Answer("ok", done)
  PROVE  /\ Did(s, a.server, a.reply, w) /\ StmtsKept(s, a.server)
         /\ a.reply \in {"ok", "error", "lost"}
         /\ a.reply = "ok" => s.up /\ a.server = done
<1>0. s \in Sessions(Stmt) /\ done \in Sessions(Stmt) /\ s.committed \in Nat
  BY SessionNumbers DEF GoodSession
<1>1. CASE ~s.up /\ a = Answer("lost", s)
  BY <1>0, <1>1 DEF Did, Cut, StmtsKept, Answer, Sessions
<1>2. CASE s.up /\ a = Answer("error", s)
  BY <1>2, SteadyRefl DEF Did, Steady, StmtsKept, Answer
<1>3. CASE s.up /\ a = Answer("error", RolledBack(s))
  <2>1. RolledBack(s).stmts = s.stmts
    BY <1>0, SessionFields
  <2> QED BY <1>3, <2>1, WroteGood DEF Did, StmtsKept, Answer
<1>4. CASE s.up /\ (a = Answer("lost", Ended(s)) \/ a = Answer("lost", Ended(done)))
  <2>1. PICK x \in {s, done} : a = Answer("lost", Ended(x))
    BY <1>4
  <2>2. GoodSession(x) /\ x \in Sessions(Stmt) /\ x.committed >= s.committed
    BY <1>0, <2>1
  <2>3. /\ GoodSession(Ended(x)) /\ ~Ended(x).up /\ Ended(x).committed = x.committed
        /\ Ended(x).stmts = NoStmts
    BY <2>2, EndedSteady, SessionFields
  <2>4. a.reply = "lost" /\ a.server = Ended(x)
    BY <2>1 DEF Answer
  <2>5. Cut(s, a.server)
    BY <2>2, <2>3, <2>4 DEF Cut
  <2>6. StmtsKept(s, a.server)
    BY <2>3, <2>4 DEF StmtsKept, NoStmts
  <2> QED BY <2>4, <2>5, <2>6 DEF Did
<1>5. CASE s.up /\ a = Answer("ok", done)
  BY <1>5 DEF StmtsKept, Answer
<1> QED BY <1>1, <1>2, <1>3, <1>4, <1>5

LEMMA RunDid ==
  ASSUME NEW s, GoodSession(s), NEW st \in Stmt, NEW a \in AskRun(s, st)
  PROVE  /\ Did(s, a.server, a.reply, st \in Writes) /\ StmtsKept(s, a.server)
         /\ a.reply \in {"ok", "error", "lost"}
<1> DEFINE done == IF st \in Writes THEN Wrote(s) ELSE s
           w    == st \in Writes
<1>1. s \in Sessions(Stmt) /\ s.committed \in Nat
  BY SessionNumbers DEF GoodSession
<1>2. PICK possible : a \in Ask(s, possible, done)
  BY DEF AskRun
<1>3. /\ GoodSession(done) /\ (s.up => Did(s, done, "ok", w)) /\ done.committed >= s.committed
      /\ s.up => done.up /\ done.stmts = s.stmts
  <2>1. CASE w
    <3>1. done = Wrote(s)
      BY <2>1
    <3>2. Wrote(s).stmts = s.stmts /\ Wrote(s).up = s.up
      BY <1>1, SessionFields
    <3>3. Wrote(s).committed >= s.committed
      BY <1>1 DEF Wrote, Sessions
    <3> HIDE DEF done, w
    <3> QED BY <2>1, <3>1, <3>2, <3>3, WroteGood DEF Did
  <2>2. CASE ~w
    <3>1. done = s
      BY <2>2
    <3> HIDE DEF done, w
    <3> QED BY <1>1, <2>2, <3>1, SteadyRefl DEF Did
  <2> QED BY <2>1, <2>2
<1> HIDE DEF done
<1>4. Did(s, a.server, a.reply, w) /\ StmtsKept(s, a.server) /\ a.reply \in {"ok", "error", "lost"}
  <2> HIDE DEF w
  <2> QED BY <1>2, <1>3, AskAnswers, AnswerDid
<1> QED BY <1>4

LEMMA PingDid ==
  ASSUME NEW s, GoodSession(s), NEW a,
         a \in AskPing(s) \/ a \in AskStore(s) \/ a \in AskCatalogue(s)
           \/ \E q : a \in AskStmtReset(s, q)
  PROVE  /\ Did(s, a.server, a.reply, FALSE) /\ StmtsKept(s, a.server) /\ Steady(s, a.server)
         /\ a.reply \in {"ok", "error", "lost"}
         /\ a.reply = "ok" => s.up /\ a.server = s
         /\ a.reply = "lost" => ~a.server.up
<1>1. \/ ~s.up /\ a = Answer("lost", s)
      \/ a = Answer("error", s)
      \/ s.up /\ a = Answer("lost", Ended(s))
      \/ s.up /\ a = Answer("ok", s)
  BY DEF AskPing, AskStore, AskCatalogue, AskStmtReset, Lost
<1>2. Steady(s, s) /\ Steady(s, Ended(s)) /\ s \in Sessions(Stmt) /\ s.committed \in Nat
  BY SteadyRefl, EndedSteady, SessionNumbers DEF GoodSession
<1>3. CASE a = Answer("error", s)
  BY <1>2, <1>3 DEF Did, Steady, StmtsKept, Answer
<1>4. CASE s.up /\ a = Answer("ok", s)
  BY <1>2, <1>4 DEF Did, StmtsKept, Answer
<1>5. CASE ~s.up /\ a = Answer("lost", s)
  BY <1>2, <1>5 DEF Did, Cut, StmtsKept, Answer
<1>6. CASE s.up /\ a = Answer("lost", Ended(s))
  <2>1. a.reply = "lost" /\ a.server = Ended(s)
    BY <1>6 DEF Answer
  <2>2. ~Ended(s).up /\ Ended(s).stmts = NoStmts /\ Ended(s).committed = s.committed
    BY <1>2, SessionFields
  <2>3. StmtsKept(s, a.server) /\ Cut(s, a.server)
    BY <1>2, <2>1, <2>2 DEF StmtsKept, NoStmts, Cut, Steady, Idle
  <2> QED BY <1>2, <2>1, <2>2, <2>3 DEF Did
<1> QED BY <1>1, <1>3, <1>4, <1>5, <1>6

(***************************************************************************)
(* What an answer makes of an open connection.                             *)
(***************************************************************************)
LEMMA ToldGood ==
  ASSUME NEW c, GoodConn(c), c.isOpen, NEW a, GoodSession(a.server),
         NEW e \in {"connection", "statement", "transaction"}
  PROVE  /\ GoodConn(Told(c, a, e)) /\ Told(c, a, e).isOpen
         /\ Told(c, a, e).server = a.server
         /\ a.reply = "ok" => Told(c, a, e).lastError = c.lastError
         /\ a.reply # "ok" => Told(c, a, e).lastError # "none"
BY DEF GoodConn, GoodSession, ConnType, Told

(***************************************************************************)
(* isOpen(): all is as it was on a live session, or the flag is down.      *)
(***************************************************************************)
LEMMA CheckedConn ==
  ASSUME NEW c, GoodConn(c), NEW d \in Checked(c)
  PROVE  /\ GoodConn(d) /\ Steady(c.server, d.server) /\ StmtsKept(c.server, d.server)
         /\ d.isOpen => c.isOpen /\ d = c /\ c.server.up
         /\ ~d.isOpen /\ c.isOpen => d.lastError # "none" /\ ~d.server.up
<1>1. CASE ~c.isOpen
  <2>1. d = c
    BY <1>1 DEF Checked
  <2> QED BY <1>1, <2>1, SteadyRefl DEF GoodConn, StmtsKept
<1>2. CASE c.isOpen
  <2>1. PICK a \in AskPing(c.server) :
          d = [Told(c, a, "connection") EXCEPT !.isOpen = a.reply = "ok"]
    BY <1>2 DEF Checked
  <2>2. /\ StmtsKept(c.server, a.server) /\ Steady(c.server, a.server)
        /\ a.reply = "ok" => c.server.up /\ a.server = c.server
        /\ a.reply # "ok" => a.reply = "lost" /\ ~a.server.up
    <3>1. GoodSession(c.server)
      BY DEF GoodConn
    <3>2. a.reply \in {"ok", "lost"}
      BY <2>1 DEF AskPing, Lost, Answer
    <3> QED BY <2>1, <3>1, <3>2, PingDid
  <2> DEFINE t == Told(c, a, "connection")
  <2>3. /\ GoodConn(t) /\ t.isOpen /\ t.server = a.server
        /\ a.reply = "ok" => t.lastError = c.lastError
        /\ a.reply # "ok" => t.lastError # "none"
    BY <1>2, <2>2, ToldGood DEF Steady, Idle
  <2>4. CASE a.reply = "ok"
    <3>1. d = c
      BY <1>2, <2>1, <2>2, <2>4 DEF Told, GoodConn, ConnType
    <3> QED BY <1>2, <2>2, <2>4, <3>1, SteadyRefl DEF GoodConn
  <2>5. CASE a.reply # "ok"
    <3>1. /\ d = [t EXCEPT !.isOpen = FALSE] /\ GoodSession(a.server)
          /\ a.server.txn = "none"
      BY <2>1, <2>2, <2>5 DEF Steady, Idle, GoodSession
    <3> HIDE DEF t
    <3>2. d \in ConnType /\ d.server = a.server /\ ~d.isOpen /\ d.lastError = t.lastError
      BY <2>3, <3>1 DEF GoodConn, ConnType
    <3> QED BY <2>2, <2>3, <2>5, <3>1, <3>2 DEF GoodConn
  <2> QED BY <2>4, <2>5
<1> QED BY <1>1, <1>2

-----------------------------------------------------------------------------
(* The calls of the driver, through TDatabaseQuery.                        *)

(* How a call of the driver came out on the connection c, and how the call *)
(* of the query did, where w says that it writes.                          *)
CameTo(c, d, reply, w) ==
  /\ GoodConn(d) /\ Did(c.server, d.server, reply, w)
  /\ reply # "ok" => d.lastError # "none"

Served(c, o, w) ==
  /\ GoodConn(o.conn) /\ Fair(c.server, o, w)
  /\ ~o.ok => o.conn.lastError # "none"

Settles(c, d, reply, w, r, n, o) ==
  CameTo(c, d, reply, w) /\ o = SettledOne(Outcome(d, r, reply, n))

LEMMA SettledServed ==
  ASSUME NEW c, NEW d, NEW reply, NEW w, NEW r, NEW n, NEW o, Settles(c, d, reply, w, r, n, o)
  PROVE  /\ Served(c, o, w) /\ (o.ok <=> reply = "ok")
         /\ o.rs = r /\ o.rows = n /\ o.conn.server = d.server
<1>1. /\ GoodConn(d) /\ Did(c.server, d.server, reply, w)
      /\ reply # "ok" => d.lastError # "none"
      /\ o = SettledOne(Outcome(d, r, reply, n)) /\ d \in ConnType
  BY DEF Settles, CameTo, GoodConn
<1>2. /\ o.ok <=> reply = "ok"
      /\ o.lost <=> reply = "lost"
      /\ o.ok \in BOOLEAN /\ o.lost \in BOOLEAN
      /\ o.rs = r /\ o.rows = n
      /\ o.conn \in ConnType /\ o.conn.server = d.server
      /\ o.conn.isOpen = d.isOpen /\ o.conn.handle = d.handle
      /\ reply # "ok" => o.conn = d
  BY <1>1, SettledFields
<1>3. GoodConn(o.conn)
  BY <1>1, <1>2 DEF GoodConn
<1>4. Fair(c.server, o, w)
  BY <1>1, <1>2, DidFair
<1> QED BY <1>1, <1>2, <1>3, <1>4 DEF Served

LEMMA NotOpenServed ==
  ASSUME NEW c, GoodConn(c), NEW d \in Checked(c), ~d.isOpen, NEW r, NEW w,
         NEW o \in NotOpen(d, r)
  PROVE  /\ Served(c, o, w) /\ ~o.ok /\ o.rs = r
         /\ StmtsKept(c.server, o.conn.server)
<1>1. o = Outcome(SetError(d, "connection"), r, "refused", 0)
  BY DEF NotOpen
<1>2. GoodConn(d) /\ Steady(c.server, d.server) /\ StmtsKept(c.server, d.server)
  BY CheckedConn
<1>3. /\ SetError(d, "connection").server = d.server
      /\ SetError(d, "connection").lastError = "connection"
      /\ GoodConn(SetError(d, "connection"))
  BY <1>2 DEF SetError, GoodConn, ConnType
<1>4. /\ o.conn = SetError(d, "connection") /\ o.rs = r /\ o.ok = FALSE /\ o.lost = FALSE
  BY <1>1 DEF Outcome
<1>5. Fair(c.server, o, w)
  BY <1>2, <1>3, <1>4 DEF Fair, Steady
<1> QED BY <1>2, <1>3, <1>4, <1>5 DEF Served

(* The server has the statement of the result set, or none.                *)
Holds(c, q, r) ==
  GoodConn(c) /\ q \in Query /\ c.server.stmts[q] \in {Null, r.stmt}

(* The connection before and after cleanup().                              *)
Cleaned(c, q, d) ==
  /\ GoodConn(d) /\ Steady(c.server, d.server)
  /\ d.isOpen = c.isOpen /\ d.lastError = c.lastError /\ d.server.up = c.server.up
  /\ d.server.stmts = [c.server.stmts EXCEPT ![q] = Null]

(***************************************************************************)
(* cleanup() closes the statement on the server.                           *)
(***************************************************************************)
LEMMA CleanupGood ==
  ASSUME NEW c, NEW q, NEW r, Holds(c, q, r)
  PROVE  Cleaned(c, q, CleanupConn(c, q, r))
<1> DEFINE d == CleanupConn(c, q, r)
           t == StmtClosed(c.server, q)
<1>1. /\ c.server \in Sessions(Stmt) /\ GoodSession(c.server) /\ c \in ConnType
      /\ GoodConn(c) /\ q \in Query /\ c.server.stmts[q] \in {Null, r.stmt}
  BY DEF GoodConn, GoodSession, Holds
<1>2. CASE r.stmt = Null
  <2>1. d = c
    BY <1>2 DEF CleanupConn
  <2>2. c.server.stmts = [c.server.stmts EXCEPT ![q] = Null]
    BY <1>1, <1>2 DEF Sessions
  <2> QED BY <1>1, <2>1, <2>2, SteadyRefl DEF Cleaned
<1>3. CASE r.stmt # Null
  <2>1. d = [c EXCEPT !.server = t]
    BY <1>3 DEF CleanupConn
  <2>2. /\ t \in Sessions(Stmt) /\ t.up = c.server.up /\ t.txn = c.server.txn
        /\ t.committed = c.server.committed /\ t.pending = c.server.pending
        /\ t.stmts = [c.server.stmts EXCEPT ![q] = Null]
    BY <1>1 DEF Sessions, StmtClosed
  <2> HIDE DEF t, d
  <2>3. GoodSession(t) /\ Steady(c.server, t)
    BY <1>1, <2>2 DEF GoodSession, Steady, Idle
  <2>4. /\ d \in ConnType /\ d.server = t /\ d.isOpen = c.isOpen /\ d.handle = c.handle
        /\ d.lastError = c.lastError
    BY <1>1, <2>1, <2>2 DEF ConnType
  <2>5. GoodConn(d)
    BY <1>1, <2>2, <2>3, <2>4 DEF GoodConn
  <2>6. Cleaned(c, q, d)
    BY <2>2, <2>3, <2>4, <2>5 DEF Cleaned
  <2> QED BY <2>6 DEF d
<1> QED BY <1>2, <1>3

(***************************************************************************)
(* executeQuery, on a connection that was found open.                      *)
(***************************************************************************)
LEMMA ExecuteQueryCame ==
  ASSUME NEW c, GoodConn(c), c.isOpen, c.server.up, NEW r, NEW st \in Stmt,
         NEW o \in DriverExecuteQuery(c, r, st)
  PROVE  \E d, reply, x, n :
           /\ o = Outcome(d, x, reply, n)
           /\ CameTo(c, d, reply, st \in Writes) /\ StmtsKept(c.server, d.server)
           /\ reply = "ok" => n \in RowsOf("ok", st \in Selects) /\ x = DirectRS(r, n)
           /\ reply # "ok" => x \in {r, [r EXCEPT !.prepared = FALSE]}
<1> DEFINE w == st \in Writes
           stored(c2) == UNION {{Outcome(Told(c2, b, "statement"),
                                   IF b.reply = "ok" THEN DirectRS(r, n)
                                   ELSE [r EXCEPT !.prepared = FALSE],
                                   b.reply, n) :
                             n \in RowsOf(b.reply, TRUE)} : b \in AskStore(c2.server)}
           ran(c2, a) == IF a.reply # "ok" THEN {Outcome(c2, [r EXCEPT !.prepared = FALSE], a.reply, 0)}
                         ELSE IF st \notin Selects THEN {Outcome(c2, DirectRS(r, 0), "ok", 0)}
                         ELSE stored(c2)
           asked(c1) == UNION {ran(Told(c1, a, "statement"), a) : a \in AskRun(c1.server, st)}
<1>1. PICK c1 \in Checked(c) :
        o \in IF ~c1.isOpen THEN {Outcome(c1, r, "lost", 0)} ELSE asked(c1)
  BY DEF DriverExecuteQuery
<1>2. CASE ~c1.isOpen
  <2>1. /\ GoodConn(c1) /\ Steady(c.server, c1.server) /\ StmtsKept(c.server, c1.server)
        /\ c1.lastError # "none" /\ ~c1.server.up
    BY <1>1, <1>2, CheckedConn
  <2>2. c.server.committed \in Nat /\ c1.server.committed = c.server.committed
    BY <2>1, SessionNumbers DEF Steady, Idle, GoodConn
  <2>3. Cut(c.server, c1.server)
    BY <2>1, <2>2 DEF Cut, GoodConn
  <2>4. CameTo(c, c1, "lost", w)
    BY <2>1, <2>3 DEF CameTo, Did
  <2>5. o = Outcome(c1, r, "lost", 0)
    BY <1>1, <1>2
  <2> QED BY <2>1, <2>4, <2>5
<1>3. CASE c1.isOpen
  <2>1. c1 = c
    BY <1>1, <1>3, CheckedConn
  <2>2. PICK a \in AskRun(c.server, st) : o \in ran(Told(c, a, "statement"), a)
    <3>1. o \in asked(c)
      <4> HIDE DEF asked
      <4> QED BY <1>1, <1>3, <2>1
    <3> HIDE DEF ran
    <3> QED BY <3>1
  <2> DEFINE e == Told(c, a, "statement")
  <2>3. /\ Did(c.server, a.server, a.reply, w) /\ StmtsKept(c.server, a.server)
        /\ GoodSession(a.server)
    <3>1. Did(c.server, a.server, a.reply, w) /\ StmtsKept(c.server, a.server)
      BY <2>2, RunDid DEF GoodConn
    <3> HIDE DEF w
    <3> QED BY <3>1, DidGood
  <2>4. /\ GoodConn(e) /\ e.isOpen /\ e.server = a.server
        /\ a.reply # "ok" => e.lastError # "none"
    BY <2>3, ToldGood
  <2>5. CameTo(c, e, a.reply, w) /\ StmtsKept(c.server, e.server)
    <3> HIDE DEF w, e
    <3> QED BY <2>3, <2>4 DEF CameTo
  <2>6. CASE a.reply # "ok"
    <3>1. o = Outcome(e, [r EXCEPT !.prepared = FALSE], a.reply, 0)
      BY <2>2, <2>6
    <3> HIDE DEF e
    <3> QED BY <2>5, <2>6, <3>1
  <2>7. CASE a.reply = "ok" /\ st \notin Selects
    <3>1. o = Outcome(e, DirectRS(r, 0), a.reply, 0)
      BY <2>2, <2>7
    <3>2. 0 \in RowsOf("ok", st \in Selects)
      BY <2>7 DEF RowsOf
    <3> HIDE DEF e
    <3> QED BY <2>5, <2>7, <3>1, <3>2
  <2>8. CASE a.reply = "ok" /\ st \in Selects
    <3>0. st \notin Writes
      BY <2>8, ClientAssumption
    <3>1. PICK b \in AskStore(e.server) : \E n \in RowsOf(b.reply, TRUE) :
            o = Outcome(Told(e, b, "statement"),
                        IF b.reply = "ok" THEN DirectRS(r, n) ELSE [r EXCEPT !.prepared = FALSE],
                        b.reply, n)
      BY <2>2, <2>8
    <3>2. PICK n \in RowsOf(b.reply, TRUE) :
            o = Outcome(Told(e, b, "statement"),
                        IF b.reply = "ok" THEN DirectRS(r, n) ELSE [r EXCEPT !.prepared = FALSE],
                        b.reply, n)
      BY <3>1
    <3> HIDE DEF e
    <3> DEFINE d == Told(e, b, "statement")
    <3>3. /\ Did(e.server, b.server, b.reply, FALSE) /\ StmtsKept(e.server, b.server)
          /\ Steady(e.server, b.server)
      BY <2>4, <3>1, PingDid DEF GoodConn
    <3>4. /\ GoodConn(d) /\ d.server = b.server /\ (b.reply # "ok" => d.lastError # "none")
      BY <2>4, <3>3, ToldGood DEF Steady, Idle
    <3> HIDE DEF d
    <3>5. Steady(c.server, e.server)
      BY <2>5, <2>8, <3>0 DEF CameTo, Did
    <3>6. CameTo(c, d, b.reply, FALSE)
      BY <3>3, <3>4, <3>5, DidAfterSteady DEF CameTo
    <3>7. CameTo(c, d, b.reply, st \in Writes)
      BY <3>0, <3>6 DEF CameTo, Did
    <3>8. StmtsKept(c.server, d.server)
      BY <2>5, <3>3, <3>4, StmtsKeptTrans
    <3>9. b.reply = "ok" => n \in RowsOf("ok", st \in Selects)
      BY <2>8, <3>2 DEF RowsOf
    <3>10. o = Outcome(d, IF b.reply = "ok" THEN DirectRS(r, n) ELSE [r EXCEPT !.prepared = FALSE],
                       b.reply, n)
      BY <3>2 DEF d
    <3> QED BY <3>7, <3>8, <3>9, <3>10
  <2> QED BY <2>6, <2>7, <2>8
<1> QED BY <1>2, <1>3

(***************************************************************************)
(* execute() of a statement that the result set has: the server has the    *)
(* same one, or answers the reset before it with an error.                 *)
(***************************************************************************)
LEMMA ExecuteCame ==
  ASSUME NEW c, GoodConn(c), c.isOpen, NEW q \in Query, NEW r, r.prepared, r.stmt \in Stmt,
         c.server.stmts[q] \in {Null, r.stmt}, NEW o \in DriverExecute(c, q, r)
  PROVE  \E d, reply, x, n :
           /\ o = Outcome(d, x, reply, n)
           /\ CameTo(c, d, reply, r.stmt \in Writes) /\ StmtsKept(c.server, d.server)
           /\ reply = "ok" => n \in RowsOf("ok", r.stmt \in Selects) /\ x = RanRS(r, n)
           /\ reply # "ok" => x = ResetRS(r)
<1> DEFINE w == r.stmt \in Writes
           stored(c2) == UNION {{Outcome(Told(c2, d, "statement"),
                                 IF d.reply = "ok" THEN RanRS(r, n) ELSE ResetRS(r),
                                 d.reply, n) :
                           n \in RowsOf(d.reply, TRUE)} : d \in AskStore(c2.server)}
           ran(c2, b) == IF b.reply # "ok" THEN {Outcome(c2, ResetRS(r), b.reply, 0)}
                         ELSE IF r.stmt \notin Selects THEN {Outcome(c2, RanRS(r, 0), "ok", 0)}
                         ELSE stored(c2)
           asked(c1) == UNION {ran(Told(c1, b, "statement"), b) : b \in AskStmtExecute(c1.server, q)}
           reset(c1, a) == IF a.reply # "ok" THEN {Outcome(c1, ResetRS(r), a.reply, 0)} ELSE asked(c1)
<1>0. r.stmt # Null
  BY ClientAssumption DEF Stmt
<1>1. PICK a \in AskStmtReset(c.server, q) : o \in reset(Told(c, a, "statement"), a)
  <2>1. o \in UNION {reset(Told(c, a, "statement"), a) : a \in AskStmtReset(c.server, q)}
    BY <1>0 DEF DriverExecute
  <2> HIDE DEF reset
  <2> QED BY <2>1
<1> DEFINE c1 == Told(c, a, "statement")
<1>2. /\ Did(c.server, a.server, a.reply, FALSE) /\ StmtsKept(c.server, a.server)
      /\ Steady(c.server, a.server)
      /\ a.reply \in {"ok", "error", "lost"}
      /\ a.reply = "ok" => c.server.up /\ a.server = c.server
  BY <1>1, PingDid DEF GoodConn
<1>3. /\ GoodConn(c1) /\ c1.isOpen /\ c1.server = a.server
      /\ a.reply # "ok" => c1.lastError # "none"
  BY <1>2, ToldGood DEF Steady, Idle
<1>4. CASE a.reply # "ok"
  <2>1. o = Outcome(c1, ResetRS(r), a.reply, 0)
    BY <1>1, <1>4
  <2> HIDE DEF c1
  <2>2. CameTo(c, c1, a.reply, w)
    BY <1>2, <1>3, <1>4 DEF CameTo, Did
  <2> QED BY <1>2, <1>3, <1>4, <2>1, <2>2
<1>5. CASE a.reply = "ok"
  <2>0. c.server.stmts[q] = r.stmt
    BY <1>1, <1>5 DEF AskStmtReset, Answer
  <2>1. PICK b \in AskRun(c.server, r.stmt) : o \in ran(Told(c1, b, "statement"), b)
    <3>1. o \in asked(c1)
      <4> HIDE DEF asked
      <4> QED BY <1>1, <1>5
    <3>2. AskStmtExecute(c1.server, q) = AskRun(c.server, r.stmt)
      BY <1>2, <1>3, <1>5, <2>0 DEF AskStmtExecute
    <3> HIDE DEF ran, c1
    <3> QED BY <3>1, <3>2
  <2> DEFINE e == Told(c1, b, "statement")
  <2> HIDE DEF c1
  <2>3. /\ Did(c.server, b.server, b.reply, w) /\ StmtsKept(c.server, b.server)
        /\ GoodSession(b.server)
    <3>1. Did(c.server, b.server, b.reply, w) /\ StmtsKept(c.server, b.server)
      BY <2>1, RunDid DEF GoodConn
    <3> HIDE DEF w
    <3> QED BY <3>1, DidGood
  <2>4. /\ GoodConn(e) /\ e.isOpen /\ e.server = b.server
        /\ b.reply # "ok" => e.lastError # "none"
    BY <1>3, <2>3, ToldGood
  <2>5. CameTo(c, e, b.reply, w) /\ StmtsKept(c.server, e.server)
    <3> HIDE DEF w, e
    <3> QED BY <2>3, <2>4 DEF CameTo
  <2>6. CASE b.reply # "ok"
    <3>1. o = Outcome(e, ResetRS(r), b.reply, 0)
      BY <2>1, <2>6
    <3> HIDE DEF e
    <3> QED BY <2>5, <2>6, <3>1
  <2>7. CASE b.reply = "ok" /\ r.stmt \notin Selects
    <3>1. o = Outcome(e, RanRS(r, 0), b.reply, 0)
      BY <2>1, <2>7
    <3>2. 0 \in RowsOf("ok", r.stmt \in Selects)
      BY <2>7 DEF RowsOf
    <3> HIDE DEF e
    <3> QED BY <2>5, <2>7, <3>1, <3>2
  <2>8. CASE b.reply = "ok" /\ r.stmt \in Selects
    <3>0. r.stmt \notin Writes
      BY <2>8, ClientAssumption
    <3>1. PICK x \in AskStore(e.server) : \E n \in RowsOf(x.reply, TRUE) :
            o = Outcome(Told(e, x, "statement"),
                        IF x.reply = "ok" THEN RanRS(r, n) ELSE ResetRS(r), x.reply, n)
      BY <2>1, <2>8
    <3>2. PICK n \in RowsOf(x.reply, TRUE) :
            o = Outcome(Told(e, x, "statement"),
                        IF x.reply = "ok" THEN RanRS(r, n) ELSE ResetRS(r), x.reply, n)
      BY <3>1
    <3> HIDE DEF e
    <3> DEFINE d == Told(e, x, "statement")
    <3>3. /\ Did(e.server, x.server, x.reply, FALSE) /\ StmtsKept(e.server, x.server)
          /\ Steady(e.server, x.server)
      BY <2>4, <3>1, PingDid DEF GoodConn
    <3>4. /\ GoodConn(d) /\ d.server = x.server /\ (x.reply # "ok" => d.lastError # "none")
      BY <2>4, <3>3, ToldGood DEF Steady, Idle
    <3> HIDE DEF d
    <3>5. Steady(c.server, e.server)
      BY <2>5, <2>8, <3>0 DEF CameTo, Did
    <3>6. CameTo(c, d, x.reply, FALSE)
      BY <3>3, <3>4, <3>5, DidAfterSteady DEF CameTo
    <3>7. CameTo(c, d, x.reply, r.stmt \in Writes)
      BY <3>0, <3>6 DEF CameTo, Did
    <3>8. StmtsKept(c.server, d.server)
      BY <2>5, <3>3, <3>4, StmtsKeptTrans
    <3>9. x.reply = "ok" => n \in RowsOf("ok", r.stmt \in Selects)
      BY <2>8, <3>2 DEF RowsOf
    <3>10. o = Outcome(d, IF x.reply = "ok" THEN RanRS(r, n) ELSE ResetRS(r), x.reply, n)
      BY <3>2 DEF d
    <3> QED BY <3>7, <3>8, <3>9, <3>10
  <2> QED BY <2>6, <2>7, <2>8
<1> QED BY <1>4, <1>5

(***************************************************************************)
(* The same through the query.                                             *)
(***************************************************************************)
LEMMA ExecuteServed ==
  ASSUME NEW c, GoodConn(c), NEW q \in Query, NEW r, r.prepared, r.stmt \in Stmt,
         c.server.stmts[q] \in {Null, r.stmt}, NEW o \in QueryExecute(c, q, r)
  PROVE  /\ Served(c, o, r.stmt \in Writes) /\ StmtsKept(c.server, o.conn.server)
         /\ o.ok => o.rows \in RowsOf("ok", r.stmt \in Selects) /\ o.rs = RanRS(r, o.rows)
         /\ ~o.ok => o.rs \in {r, ResetRS(r)}
<1> DEFINE w == r.stmt \in Writes
<1>1. PICK c1 \in Checked(c) :
        o \in IF c1.isOpen THEN Settled(DriverExecute(c1, q, r)) ELSE NotOpen(c1, r)
  BY DEF QueryExecute
<1>2. CASE ~c1.isOpen
  <2>1. o \in NotOpen(c1, r)
    BY <1>1, <1>2
  <2> HIDE DEF w
  <2>2. Served(c, o, w) /\ ~o.ok /\ o.rs = r /\ StmtsKept(c.server, o.conn.server)
    BY <1>1, <1>2, <2>1, NotOpenServed
  <2> QED BY <2>2 DEF w
<1>3. CASE c1.isOpen
  <2>1. c1 = c
    BY <1>1, <1>3, CheckedConn
  <2>2. PICK p \in DriverExecute(c, q, r) : o = SettledOne(p)
    BY <1>1, <1>3, <2>1, SettledOutcome
  <2>3. PICK d, reply, x, n :
           /\ p = Outcome(d, x, reply, n)
           /\ CameTo(c, d, reply, w) /\ StmtsKept(c.server, d.server)
           /\ reply = "ok" => n \in RowsOf("ok", r.stmt \in Selects) /\ x = RanRS(r, n)
           /\ reply # "ok" => x = ResetRS(r)
    BY <1>3, <2>1, <2>2, ExecuteCame
  <2> HIDE DEF w
  <2>4. /\ Served(c, o, w) /\ (o.ok <=> reply = "ok")
        /\ o.rs = x /\ o.rows = n /\ o.conn.server = d.server
    <3>1. Settles(c, d, reply, w, x, n, o)
      BY <2>2, <2>3 DEF Settles
    <3> QED BY <3>1, SettledServed
  <2> QED BY <2>3, <2>4 DEF w
<1> QED BY <1>2, <1>3

LEMMA ExecuteStatementServed ==
  ASSUME NEW c, GoodConn(c), NEW q \in Query, NEW r, NEW st \in Stmt,
         c.server.stmts[q] \in {Null, r.stmt}, NEW o \in QueryExecuteStatement(c, q, r, st)
  PROVE  /\ Served(c, o, st \in Writes)
         /\ StmtsKept(CleanupConn(c, q, r).server, o.conn.server)
         /\ o.ok => o.rows \in RowsOf("ok", st \in Selects) /\ o.rs = DirectRS(CleanupRS(r), o.rows)
         /\ ~o.ok => o.rs \in {CleanupRS(r), [CleanupRS(r) EXCEPT !.prepared = FALSE]}
<1> DEFINE w  == st \in Writes
           c0 == CleanupConn(c, q, r)
           r0 == CleanupRS(r)
<1>0. GoodConn(c0) /\ Steady(c.server, c0.server)
  <2>0. Holds(c, q, r)
    BY DEF Holds
  <2>1. Cleaned(c, q, CleanupConn(c, q, r))
    BY <2>0, CleanupGood
  <2> QED BY <2>1 DEF Cleaned
<1>1. PICK c1 \in Checked(c0) :
        o \in IF c1.isOpen THEN Settled(DriverExecuteQuery(c1, r0, st)) ELSE NotOpen(c1, r0)
  BY DEF QueryExecuteStatement
<1> HIDE DEF c0, r0
<1>f. ASSUME Served(c0, o, w) PROVE Served(c, o, w)
  <2> HIDE DEF w
  <2> QED BY <1>0, <1>f, SteadyTrans DEF Served, Fair
<1>2. CASE ~c1.isOpen
  <2>1. o \in NotOpen(c1, r0)
    BY <1>1, <1>2
  <2>2. Served(c0, o, w) /\ ~o.ok /\ o.rs = r0 /\ StmtsKept(c0.server, o.conn.server)
    <3> HIDE DEF w
    <3> QED BY <1>0, <1>1, <1>2, <2>1, NotOpenServed
  <2> QED BY <1>f, <2>2 DEF w, r0, c0
<1>3. CASE c1.isOpen
  <2>1. c1 = c0 /\ c0.isOpen /\ c0.server.up
    BY <1>0, <1>1, <1>3, CheckedConn
  <2>2. PICK p \in DriverExecuteQuery(c0, r0, st) : o = SettledOne(p)
    BY <1>1, <1>3, <2>1, SettledOutcome
  <2>3. PICK d, reply, x, n :
           /\ p = Outcome(d, x, reply, n)
           /\ CameTo(c0, d, reply, w) /\ StmtsKept(c0.server, d.server)
           /\ reply = "ok" => n \in RowsOf("ok", st \in Selects) /\ x = DirectRS(r0, n)
           /\ reply # "ok" => x \in {r0, [r0 EXCEPT !.prepared = FALSE]}
    BY <1>0, <2>1, <2>2, ExecuteQueryCame
  <2>4. /\ Served(c0, o, w) /\ (o.ok <=> reply = "ok")
        /\ o.rs = x /\ o.rows = n /\ o.conn.server = d.server
    <3> HIDE DEF w
    <3>1. Settles(c0, d, reply, w, x, n, o)
      BY <2>2, <2>3 DEF Settles
    <3> QED BY <3>1, SettledServed
  <2> QED BY <1>f, <2>3, <2>4 DEF r0, c0
<1> QED BY <1>2, <1>3

(***************************************************************************)
(* prepare(): the server has the statement, or has none for the query.     *)
(***************************************************************************)
LEMMA PrepareServed ==
  ASSUME NEW c, GoodConn(c), NEW q \in Query, NEW r, NEW st \in Stmt,
         c.server.stmts[q] \in {Null, r.stmt}, NEW o \in QueryPrepare(c, q, r, st)
  PROVE  LET t == CleanupConn(c, q, r).server
         IN /\ Served(c, o, FALSE)
            /\ o.ok => /\ o.rs = [CleanupRS(CleanupRS(r)) EXCEPT !.stmt = st] /\ c.server.up
                       /\ o.conn.server.stmts = [t.stmts EXCEPT ![q] = st]
            /\ ~o.ok => /\ o.rs \in {CleanupRS(r), CleanupRS(CleanupRS(r))}
                        /\ StmtsKept(t, o.conn.server)
<1> DEFINE c0 == CleanupConn(c, q, r)
           r0 == CleanupRS(r)
           s  == c0.server
<1>0. GoodConn(c0) /\ Steady(c.server, s) /\ GoodSession(s) /\ s \in Sessions(Stmt)
  <2>0. Holds(c, q, r)
    BY DEF Holds
  <2>1. Cleaned(c, q, CleanupConn(c, q, r))
    BY <2>0, CleanupGood
  <2> QED BY <2>1 DEF Cleaned, GoodConn, GoodSession
<1>1. PICK c1 \in Checked(c0) :
        o \in IF c1.isOpen THEN Settled(DriverPrepare(c1, q, r0, st)) ELSE NotOpen(c1, r0)
  BY DEF QueryPrepare
<1> HIDE DEF c0, r0
<1>f. ASSUME Served(c0, o, FALSE) PROVE Served(c, o, FALSE)
  BY <1>0, <1>f, SteadyTrans DEF Served, Fair
<1>2. CASE ~c1.isOpen
  <2>1. o \in NotOpen(c1, r0)
    BY <1>1, <1>2
  <2>2. Served(c0, o, FALSE) /\ ~o.ok /\ o.rs = r0 /\ StmtsKept(s, o.conn.server)
    <3> DEFINE w == FALSE
    <3> HIDE DEF w
    <3>1. Served(c0, o, w) /\ ~o.ok /\ o.rs = r0 /\ StmtsKept(s, o.conn.server)
      BY <1>0, <1>1, <1>2, <2>1, NotOpenServed
    <3> QED BY <3>1 DEF w
  <2> QED BY <1>f, <2>2 DEF r0, c0
<1>3. CASE c1.isOpen
  <2>1. c1 = c0 /\ c0.isOpen /\ s.up
    BY <1>0, <1>1, <1>3, CheckedConn
  <2>2. PICK p \in DriverPrepare(c0, q, r0, st) : o = SettledOne(p)
    BY <1>1, <1>3, <2>1, SettledOutcome
  <2> DEFINE done == [s EXCEPT !.stmts[q] = st]
             x(a) == IF a.reply = "ok" THEN [CleanupRS(r0) EXCEPT !.stmt = st] ELSE CleanupRS(r0)
  <2>3. PICK a \in Ask(s, TRUE, done) : p = Outcome(Told(c0, a, "statement"), x(a), a.reply, 0)
    BY <2>2 DEF DriverPrepare, AskStmtPrepare
  <2>4. /\ done \in Sessions(Stmt) /\ done.up = s.up /\ done.txn = s.txn
        /\ done.committed = s.committed /\ done.pending = s.pending
        /\ done.stmts = [s.stmts EXCEPT ![q] = st]
    BY <1>0 DEF Sessions
  <2> HIDE DEF s, done, x
  <2>5. GoodSession(done) /\ Steady(s, done) /\ s.committed \in Nat
    BY <1>0, <2>4, SessionNumbers DEF GoodSession, Steady, Idle
  <2>6. /\ Did(s, a.server, a.reply, FALSE)
        /\ a.reply = "ok" => a.server = done
        /\ a.reply # "ok" => StmtsKept(s, a.server)
    <3>1. \/ a = Answer("error", s) \/ a = Answer("error", RolledBack(s))
          \/ a = Answer("lost", Ended(s)) \/ a = Answer("lost", Ended(done))
          \/ a = Answer("ok", done)
      BY <2>1, <2>3, AskAnswers
    <3>2. CASE a = Answer("ok", done)
      BY <2>5, <3>2 DEF Did, Answer
    <3>3. CASE a # Answer("ok", done)
      <4>1. Ended(done) = Ended(s)
        BY <1>0, <2>4 DEF Ended
      <4>2. Did(s, s, "ok", FALSE)
        BY <1>0, SteadyRefl DEF Did
      <4> DEFINE w == FALSE
      <4>w. Did(s, s, "ok", w)
        BY <4>2
      <4> HIDE DEF w
      <4>3. Did(s, a.server, a.reply, w) /\ StmtsKept(s, a.server) /\ a.reply # "ok"
        <5>1. \/ a = Answer("error", s) \/ a = Answer("error", RolledBack(s))
              \/ a = Answer("lost", Ended(s))
          BY <3>1, <3>3, <4>1
        <5>2. s.committed >= s.committed
          BY <2>5
        <5>3. a.reply # "ok"
          BY <5>1 DEF Answer
        <5> QED BY <1>0, <2>1, <4>w, <5>1, <5>2, <5>3, AnswerDid
      <4> QED BY <4>3 DEF w
    <3> QED BY <3>2, <3>3
  <2> DEFINE d == Told(c0, a, "statement")
  <2>7. GoodConn(d) /\ d.server = a.server /\ (a.reply # "ok" => d.lastError # "none")
    BY <1>0, <2>1, <2>6, DidGood, ToldGood
  <2> HIDE DEF d
  <2>8. /\ Served(c0, o, FALSE) /\ (o.ok <=> a.reply = "ok") /\ o.rs = x(a)
        /\ o.conn.server = a.server
    <3> DEFINE w == FALSE
    <3>1. Settles(c0, d, a.reply, w, x(a), 0, o)
      BY <2>2, <2>3, <2>6, <2>7 DEF Settles, CameTo, d, s
    <3> HIDE DEF w
    <3>2. /\ Served(c0, o, w) /\ (o.ok <=> a.reply = "ok") /\ o.rs = x(a)
          /\ o.conn.server = d.server
      BY <3>1, SettledServed
    <3> QED BY <2>7, <3>2 DEF w
  <2>9. c.server.up
    BY <1>0, <2>1 DEF Steady, Idle
  <2> QED BY <1>f, <2>4, <2>6, <2>8, <2>9 DEF x, r0, c0, s
<1> QED BY <1>2, <1>3

-----------------------------------------------------------------------------
(* The result set.                                                         *)

LEMMA RSOps ==
  ASSUME NEW r \in RSType
  PROVE  /\ FreshRS \in RSType /\ CleanupRS(r) \in RSType
         /\ [CleanupRS(r) EXCEPT !.prepared = FALSE] \in RSType
         /\ \A st \in Stmt : [CleanupRS(r) EXCEPT !.stmt = st] \in RSType
         /\ ResetRS(r) \in RSType
         /\ \A n \in Counts : DirectRS(r, n) \in RSType /\ RanRS(r, n) \in RSType
<1>0. 0 \in Counts /\ BeforeFirst \in Indexes
  BY ClientAssumption DEF Counts, Indexes, BeforeFirst
<1>1. FreshRS \in RSType
  BY <1>0 DEF FreshRS, RSType
<1>2. CleanupRS(r) \in RSType
  BY <1>1 DEF CleanupRS, RSType
<1>3. /\ [CleanupRS(r) EXCEPT !.prepared = FALSE] \in RSType
      /\ \A st \in Stmt : [CleanupRS(r) EXCEPT !.stmt = st] \in RSType
  BY <1>2 DEF RSType
<1>4. ResetRS(r) \in RSType
  BY <1>0 DEF ResetRS, RSType
<1>5. \A n \in Counts : DirectRS(r, n) \in RSType
  BY <1>0 DEF DirectRS, RSType
<1>6. \A n \in Counts : RanRS(r, n) \in RSType
  BY <1>4 DEF RanRS, RSType
<1> QED BY <1>1, <1>2, <1>3, <1>4, <1>5, <1>6

LEMMA RSStmts ==
  ASSUME NEW r \in RSType
  PROVE  /\ CleanupRS(r).stmt = Null /\ CleanupRS(r).isActive = FALSE /\ CleanupRS(r).prepared = TRUE
         /\ CleanupRS(r).index = BeforeFirst
         /\ [CleanupRS(r) EXCEPT !.prepared = FALSE].stmt = Null
         /\ \A st \in Stmt : /\ [CleanupRS(r) EXCEPT !.stmt = st].stmt = st
                             /\ [CleanupRS(r) EXCEPT !.stmt = st].isActive = FALSE
         /\ ResetRS(r).stmt = r.stmt /\ ResetRS(r) \in RSType
         /\ \A n \in Counts : DirectRS(r, n).stmt = r.stmt /\ RanRS(r, n).stmt = r.stmt
<1>1. /\ CleanupRS(r).stmt = Null /\ CleanupRS(r).isActive = FALSE /\ CleanupRS(r).prepared = TRUE
      /\ CleanupRS(r).index = BeforeFirst
  BY DEF CleanupRS, FreshRS
<1>2. /\ [CleanupRS(r) EXCEPT !.prepared = FALSE].stmt = Null
      /\ \A st \in Stmt : /\ [CleanupRS(r) EXCEPT !.stmt = st].stmt = st
                          /\ [CleanupRS(r) EXCEPT !.stmt = st].isActive = FALSE
  BY DEF CleanupRS, FreshRS
<1>3. ResetRS(r).stmt = r.stmt /\ ResetRS(r) \in RSType
  BY RSOps DEF ResetRS, RSType
<1>4. \A n \in Counts : DirectRS(r, n).stmt = r.stmt
  BY DEF DirectRS, RSType
<1>5. \A n \in Counts : RanRS(r, n).stmt = r.stmt
  BY <1>3 DEF RanRS, RSType
<1> QED BY <1>1, <1>2, <1>3, <1>4, <1>5

(***************************************************************************)
(* An execution leaves its result set and what its client sees in          *)
(* agreement.                                                              *)
(***************************************************************************)
LEMMA StoredAgrees ==
  ASSUME NEW r \in RSType, NEW n \in Counts, NEW b \in BOOLEAN, ~b => n = 0
  PROVE  /\ r.stmt # Null => Agrees(Started(b, n), RanRS(r, n))
         /\ r.index = BeforeFirst => Agrees(Started(b, n), DirectRS(r, n))
<1>0. n \in Nat
  BY DEF Counts
<1>1. /\ Started(b, n).status = (IF b THEN "open" ELSE "ended")
      /\ Started(b, n).row = 0 /\ Started(b, n).made = n
  BY DEF Started
<1>2. /\ RanRS(r, n).isActive = TRUE /\ RanRS(r, n).rows = n /\ RanRS(r, n).at = 0
      /\ RanRS(r, n).index = BeforeFirst /\ RanRS(r, n).stmt = r.stmt
  <2>1. /\ ResetRS(r) \in RSType /\ ResetRS(r).index = BeforeFirst /\ ResetRS(r).at = 0
        /\ ResetRS(r).stmt = r.stmt
    BY RSOps DEF ResetRS, RSType
  <2> QED BY <2>1 DEF RanRS, RSType
<1>3. /\ DirectRS(r, n).isActive = TRUE /\ DirectRS(r, n).rows = n /\ DirectRS(r, n).at = 0
      /\ DirectRS(r, n).index = r.index /\ DirectRS(r, n).prepared = FALSE
  BY DEF DirectRS, RSType
<1>4. ASSUME NEW x, x.isActive, x.rows = n, x.at = 0, x.index = BeforeFirst,
             x.prepared => x.stmt # Null
      PROVE  Agrees(Started(b, n), x)
  BY <1>0, <1>1, <1>4 DEF Agrees, BeforeFirst
<1> QED BY <1>2, <1>3, <1>4

LEMMA PlainAgrees ==
  /\ \A r : Agrees(Refused, r)
  /\ \A r : ~r.isActive => Agrees(NoView, r)
BY DEF Agrees, Refused, NoView

-----------------------------------------------------------------------------
(* The steps.                                                              *)

LEMMA TakeConn ==
  ASSUME IndInv, Rules = AllRules, NEW q \in Query, NEW o, NEW w,
         Usable(q), Take(q, o), Served(conn, o, w),
         ack' = IF o.ok /\ w THEN AckWrite ELSE ack
  PROVE  ConnParts'
<1>1. GoodConn(conn)'
  BY DEF Take, Served
<1>2. stray' \in BOOLEAN
  BY DEF Take, IndInv, ConnParts
<1>3. "rollback_after" \in Rules /\ Accounted /\ Fair(conn.server, o, w)
  BY DEF AllRules, IndInv, ConnParts, Served
<1>4. Accounted'
  BY <1>3, TakeAccounts
<1> QED BY <1>1, <1>2, <1>4 DEF ConnParts

LEMMA TakeQuery ==
  ASSUME IndInv, NEW q \in Query, NEW o, Take(q, o), o.rs \in RSType,
         NEW v \in ViewType, Agrees(v, o.rs), view' = [view EXCEPT ![q] = v]
  PROVE  QueryParts'
<1>1. /\ obj' = [obj EXCEPT ![q] = "held"]
      /\ rs' = [rs EXCEPT ![q] = o.rs]
  BY DEF Take
<1>2. /\ obj' \in [Query -> {"unused", "held", "garbage"}]
      /\ rs' \in [Query -> RSType] /\ view' \in [Query -> ViewType]
  BY <1>1 DEF IndInv, QueryParts
<1>3. ASSUME NEW p \in Query
      PROVE  (IF obj[p] = "held" THEN Agrees(view[p], rs[p]) ELSE view[p] = NoView)'
  <2>1. CASE p = q
    BY <1>1, <2>1 DEF IndInv, QueryParts
  <2>2. CASE p # q
    BY <1>1, <2>2 DEF IndInv, QueryParts
  <2> QED BY <2>1, <2>2
<1> QED BY <1>2, <1>3 DEF QueryParts

(***************************************************************************)
(* A step of one query: what the server and the client know of the others  *)
(* stays or is gone, and of this one it is the statement it holds.         *)
(***************************************************************************)
LEMMA SaidStays ==
  ASSUME IndInv, NEW q \in Query,
         said' \in [Query -> Stmt \cup {Null}],
         \A p \in Query : obj'[p] # "held" => said'[p] = Null,
         \A p \in Query : p # q =>
           /\ conn'.server.stmts[p] \in {Null, conn.server.stmts[p]}
           /\ rs'[p] = rs[p] /\ view'[p] = view[p]
           /\ said'[p] # Null => /\ said'[p] = said[p]
                                 /\ conn'.server.stmts[p] = conn.server.stmts[p],
         conn'.server.stmts[q] \in {Null, rs'[q].stmt},
         said'[q] # Null => \/ view'[q].status = "ended" /\ view'[q].row > 0
                            \/ rs'[q].stmt = said'[q] /\ conn'.server.stmts[q] = said'[q]
  PROVE  SaidParts'
<1>1. ASSUME NEW p \in Query
      PROVE  conn'.server.stmts[p] \in {Null, rs'[p].stmt}
  BY DEF IndInv, SaidParts, SameStatements
<1>2. ASSUME NEW p \in Query, said'[p] # Null, ~(view'[p].status = "ended" /\ view'[p].row > 0)
      PROVE  rs'[p].stmt = said'[p] /\ conn'.server.stmts[p] = said'[p]
  <2>1. CASE p = q
    BY <1>2, <2>1
  <2>2. CASE p # q
    <3>1. /\ rs'[p] = rs[p] /\ view'[p] = view[p] /\ said'[p] = said[p]
          /\ conn'.server.stmts[p] = conn.server.stmts[p]
      BY <1>2, <2>2
    <3> QED BY <1>2, <3>1 DEF IndInv, SaidParts, PreparedStays, Drained
  <2> QED BY <2>1, <2>2
<1>3. PreparedStays'
  BY <1>2 DEF PreparedStays, Drained
<1> QED BY <1>1, <1>3 DEF SaidParts, SameStatements

(***************************************************************************)
(* A step of the connection alone.                                         *)
(***************************************************************************)
LEMMA SaidKept ==
  ASSUME IndInv, UNCHANGED <<obj, rs, view>>, StmtsKept(conn.server, conn'.server),
         said' = SaidAfter(conn'.server.up)
  PROVE  QueryParts' /\ SaidParts'
<1>1. QueryParts'
  BY DEF IndInv, QueryParts
<1>2. said' \in [Query -> Stmt \cup {Null}] /\ \A q \in Query : obj'[q] # "held" => said'[q] = Null
  BY DEF IndInv, SaidParts, SaidAfter, NoStmts
<1>3. SameStatements'
  BY DEF IndInv, SaidParts, SameStatements, StmtsKept
<1>4. ASSUME NEW q \in Query, said'[q] # Null
      PROVE  said'[q] = said[q] /\ conn'.server.stmts = conn.server.stmts
  BY <1>4 DEF SaidAfter, NoStmts, StmtsKept
<1>5. PreparedStays'
  BY <1>4 DEF IndInv, SaidParts, PreparedStays, Drained
<1> QED BY <1>1, <1>2, <1>3, <1>5 DEF SaidParts

(* The statements after cleanup().                                         *)
LEMMA CleanupStmts ==
  ASSUME IndInv, NEW q \in Query, NEW c, c = CleanupConn(conn, q, rs[q])
  PROVE  /\ GoodConn(c) /\ Steady(conn.server, c.server) /\ Holds(conn, q, rs[q])
         /\ c.isOpen = conn.isOpen /\ c.server.up = conn.server.up
         /\ c.lastError = conn.lastError
         /\ c.server.stmts[q] = Null
         /\ \A p \in Query : p # q => c.server.stmts[p] = conn.server.stmts[p]
         /\ c.server.stmts = [conn.server.stmts EXCEPT ![q] = Null]
<1>1. Holds(conn, q, rs[q])
  BY DEF Holds, IndInv, ConnParts, SaidParts, SameStatements
<1>2. /\ GoodConn(c) /\ Steady(conn.server, c.server)
      /\ c.isOpen = conn.isOpen /\ c.server.up = conn.server.up
      /\ c.lastError = conn.lastError
      /\ c.server.stmts = [conn.server.stmts EXCEPT ![q] = Null]
  <2>1. Cleaned(conn, q, c)
    BY <1>1, CleanupGood
  <2> QED BY <2>1 DEF Cleaned
<1>3. conn.server.stmts \in [Query -> Stmt \cup {Null}]
  BY DEF IndInv, ConnParts, GoodConn, GoodSession, Sessions
<1> QED BY <1>1, <1>2, <1>3

LEMMA RejectStep ==
  ASSUME IndInv, Rules = AllRules, NEW q \in Query, Reject(q)
  PROVE  IndInv'
<1> DEFINE c == CleanupConn(conn, q, rs[q])
           o == Outcome(SetError(c, "statement"), CleanupRS(rs[q]), "refused", 0)
<1>1. /\ Usable(q) /\ Take(q, o) /\ ack' = ack /\ said' = [said EXCEPT ![q] = Null]
      /\ view' = [view EXCEPT ![q] = Refused]
  BY DEF Reject
<1>2. /\ GoodConn(c) /\ Steady(conn.server, c.server)
      /\ c.server.stmts[q] = Null
      /\ \A p \in Query : p # q => c.server.stmts[p] = conn.server.stmts[p]
  BY CleanupStmts
<1> HIDE DEF c
<1>3. /\ o.ok = FALSE /\ o.lost = FALSE /\ o.rs = CleanupRS(rs[q])
      /\ o.conn.server = c.server /\ o.conn.lastError # "none" /\ GoodConn(o.conn)
  BY <1>2 DEF Outcome, SetError, GoodConn, ConnType
<1> HIDE DEF o
<1>4. rs[q] \in RSType /\ o.rs \in RSType
  <2>1. rs[q] \in RSType
    BY DEF IndInv, QueryParts
  <2> QED BY <1>3, <2>1, RSOps
<1>5. Served(conn, o, FALSE)
  BY <1>2, <1>3 DEF Served, Fair, Steady
<1>6. ConnParts'
  <2> DEFINE w == FALSE
  <2>1. Served(conn, o, w) /\ ack' = IF o.ok /\ w THEN AckWrite ELSE ack
    BY <1>1, <1>3, <1>5
  <2> HIDE DEF w
  <2> QED BY <1>1, <2>1, TakeConn
<1>7. QueryParts'
  BY <1>1, <1>4, TakeQuery, PlainAgrees, ViewTypes
<1>8. SaidParts'
  <2>1. /\ conn' = o.conn /\ obj' = [obj EXCEPT ![q] = "held"] /\ rs' = [rs EXCEPT ![q] = o.rs]
    BY <1>1 DEF Take
  <2>2. /\ said' \in [Query -> Stmt \cup {Null}] /\ said'[q] = Null
        /\ \A p \in Query : p # q => said'[p] = said[p] /\ rs'[p] = rs[p] /\ view'[p] = view[p]
        /\ \A p \in Query : obj'[p] # "held" => said'[p] = Null
    BY <1>1, <2>1 DEF IndInv, SaidParts, QueryParts
  <2>3. conn'.server.stmts[q] = Null
        /\ \A p \in Query : p # q => conn'.server.stmts[p] = conn.server.stmts[p]
    BY <1>2, <1>3, <2>1
  <2> QED BY <2>2, <2>3, SaidStays
<1> QED BY <1>6, <1>7, <1>8 DEF IndInv

LEMMA PrepareStep ==
  ASSUME IndInv, Rules = AllRules, NEW q \in Query, NEW st \in Stmt, Prepare(q, st)
  PROVE  IndInv'
<1> DEFINE r == rs[q]
           c == CleanupConn(conn, q, r)
<1>1. PICK o \in QueryPrepare(conn, q, r, st) : Take(q, o) /\ LearnPrepare(q, o, st)
  BY DEF Prepare
<1>2. Usable(q)
  BY DEF Prepare
<1>3. r \in RSType
  BY DEF IndInv, QueryParts
<1>4. /\ GoodConn(c) /\ Steady(conn.server, c.server) /\ Holds(conn, q, r)
      /\ c.server.stmts[q] = Null
      /\ \A p \in Query : p # q => c.server.stmts[p] = conn.server.stmts[p]
      /\ c.server.stmts = [conn.server.stmts EXCEPT ![q] = Null]
      /\ c.server.up = conn.server.up
  BY CleanupStmts
<1>5. /\ Served(conn, o, FALSE)
      /\ o.ok => /\ o.rs = [CleanupRS(CleanupRS(r)) EXCEPT !.stmt = st] /\ conn.server.up
                 /\ o.conn.server.stmts = [c.server.stmts EXCEPT ![q] = st]
      /\ ~o.ok => /\ o.rs \in {CleanupRS(r), CleanupRS(CleanupRS(r))}
                  /\ StmtsKept(c.server, o.conn.server)
  BY <1>1, <1>4, PrepareServed DEF Holds
<1> HIDE DEF c, r
<1>6. /\ CleanupRS(r) \in RSType /\ CleanupRS(CleanupRS(r)) \in RSType
      /\ [CleanupRS(CleanupRS(r)) EXCEPT !.stmt = st] \in RSType
      /\ [CleanupRS(CleanupRS(r)) EXCEPT !.stmt = st].stmt = st
      /\ ~[CleanupRS(CleanupRS(r)) EXCEPT !.stmt = st].isActive
  <2>1. CleanupRS(r) \in RSType
    BY <1>3, RSOps
  <2> QED BY <2>1, RSOps, RSStmts
<1>7. ConnParts'
  <2> DEFINE w == FALSE
  <2>1. Served(conn, o, w) /\ ack' = IF o.ok /\ w THEN AckWrite ELSE ack
    BY <1>1, <1>5 DEF LearnPrepare
  <2> HIDE DEF w
  <2> QED BY <1>1, <1>2, <2>1, TakeConn
<1> DEFINE v == IF o.ok THEN NoView ELSE Refused
<1>8. o.rs \in RSType /\ v \in ViewType /\ Agrees(v, o.rs)
  BY <1>5, <1>6, PlainAgrees, ViewTypes
<1>9. view' = [view EXCEPT ![q] = v]
  BY <1>1 DEF LearnPrepare
<1> HIDE DEF v
<1>10. QueryParts'
  BY <1>1, <1>8, <1>9, TakeQuery
<1>11. SaidParts'
  <2>1. /\ conn' = o.conn /\ obj' = [obj EXCEPT ![q] = "held"] /\ rs' = [rs EXCEPT ![q] = o.rs]
    BY <1>1 DEF Take
  <2>2. said' = [SaidAfter(conn'.server.up) EXCEPT ![q] = IF o.ok THEN st ELSE Null]
    BY <1>1, <2>1 DEF LearnPrepare
  <2>3. SaidAfter(conn'.server.up) \in [Query -> Stmt \cup {Null}]
    BY DEF SaidAfter, NoStmts, IndInv, SaidParts
  <2>4. /\ said' \in [Query -> Stmt \cup {Null}]
        /\ said'[q] = IF o.ok THEN st ELSE Null
        /\ \A p \in Query : p # q => said'[p] = SaidAfter(conn'.server.up)[p]
    BY <2>2, <2>3
  <2>5. \A p \in Query : obj'[p] # "held" => said'[p] = Null
    BY <2>1, <2>4 DEF SaidAfter, NoStmts, IndInv, SaidParts, QueryParts
  <2>6. \A p \in Query : p # q => /\ rs'[p] = rs[p] /\ view'[p] = view[p]
    BY <1>9, <2>1 DEF IndInv, QueryParts
  <2>7. /\ conn'.server.stmts[q] \in {Null, rs'[q].stmt}
        /\ said'[q] # Null => rs'[q].stmt = said'[q] /\ conn'.server.stmts[q] = said'[q]
    <3>1. rs'[q] = o.rs
      BY <2>1 DEF IndInv, QueryParts
    <3>2. CASE o.ok
      <4>1. o.conn.server.stmts[q] = st
        BY <1>4, <1>5, <3>2 DEF IndInv, ConnParts, GoodConn, GoodSession, Sessions
      <4> QED BY <1>5, <1>6, <2>1, <2>4, <3>1, <3>2, <4>1
    <3>3. CASE ~o.ok
      BY <1>4, <1>5, <2>1, <2>4, <3>3 DEF StmtsKept
    <3> QED BY <3>2, <3>3
  <2>8. ASSUME NEW p \in Query, p # q
        PROVE  /\ conn'.server.stmts[p] \in {Null, conn.server.stmts[p]}
               /\ said'[p] # Null => /\ said'[p] = said[p]
                                     /\ conn'.server.stmts[p] = conn.server.stmts[p]
    <3>1. CASE o.ok
      <4>1. conn'.server.stmts[p] = conn.server.stmts[p]
        BY <1>4, <1>5, <2>1, <2>8, <3>1 DEF IndInv, ConnParts, GoodConn, GoodSession, Sessions
      <4> QED BY <2>4, <2>8, <4>1 DEF SaidAfter, NoStmts
    <3>2. CASE ~o.ok
      <4>1. StmtsKept(c.server, conn'.server)
        BY <1>5, <2>1, <3>2
      <4>2. said'[p] # Null => said'[p] = said[p] /\ conn'.server.up
        BY <2>4, <2>8 DEF SaidAfter, NoStmts
      <4> QED BY <1>4, <2>8, <4>1, <4>2 DEF StmtsKept
    <3> QED BY <3>1, <3>2
  <2> QED BY <2>4, <2>5, <2>6, <2>7, <2>8, SaidStays
<1> QED BY <1>7, <1>10, <1>11 DEF IndInv

(***************************************************************************)
(* A step that closes the statement of q and takes back what was said of   *)
(* it; another statement may have run on the session after that.           *)
(***************************************************************************)
LEMMA SaidCleared ==
  ASSUME IndInv, NEW q \in Query, NEW c, c = CleanupConn(conn, q, rs[q]),
         StmtsKept(c.server, conn'.server), NEW x, rs' = [rs EXCEPT ![q] = x],
         \A p \in Query : p # q => view'[p] = view[p] /\ obj'[p] = obj[p],
         said' = [SaidAfter(conn'.server.up) EXCEPT ![q] = Null]
  PROVE  SaidParts'
<1>1. /\ c.server.stmts[q] = Null /\ c.server.up = conn.server.up
      /\ \A p \in Query : p # q => c.server.stmts[p] = conn.server.stmts[p]
  <2>1. Holds(conn, q, rs[q])
    BY CleanupStmts
  <2>2. Cleaned(conn, q, c)
    BY <2>1, CleanupGood
  <2> QED BY <2>2 DEF Cleaned, IndInv, ConnParts, GoodConn, GoodSession, Sessions
<1>2. SaidAfter(conn'.server.up) \in [Query -> Stmt \cup {Null}]
  BY DEF SaidAfter, NoStmts, IndInv, SaidParts
<1>3. /\ said' \in [Query -> Stmt \cup {Null}] /\ said'[q] = Null
      /\ \A p \in Query : p # q => said'[p] = SaidAfter(conn'.server.up)[p]
  BY <1>2
<1>4. \A p \in Query : obj'[p] # "held" => said'[p] = Null
  BY <1>3 DEF SaidAfter, NoStmts, IndInv, SaidParts
<1>5. conn'.server.stmts[q] = Null
  BY <1>1 DEF StmtsKept
<1>6. ASSUME NEW p \in Query, p # q
      PROVE  /\ conn'.server.stmts[p] \in {Null, conn.server.stmts[p]}
             /\ rs'[p] = rs[p] /\ view'[p] = view[p]
             /\ said'[p] # Null => /\ said'[p] = said[p]
                                   /\ conn'.server.stmts[p] = conn.server.stmts[p]
  <2>1. said'[p] # Null => said'[p] = said[p] /\ conn'.server.up
    BY <1>3, <1>6 DEF SaidAfter, NoStmts
  <2>2. rs'[p] = rs[p]
    BY <1>6 DEF IndInv, QueryParts
  <2> QED BY <1>1, <1>6, <2>1, <2>2 DEF StmtsKept
<1> QED BY <1>3, <1>4, <1>5, <1>6, SaidStays

LEMMA QueryChanged ==
  ASSUME IndInv, NEW q \in Query, NEW x \in RSType, NEW v \in ViewType,
         NEW b \in {"unused", "held", "garbage"},
         obj' = [obj EXCEPT ![q] = b], rs' = [rs EXCEPT ![q] = x],
         view' = [view EXCEPT ![q] = v],
         IF b = "held" THEN Agrees(v, x) ELSE v = NoView
  PROVE  QueryParts'
<1>1. /\ obj' \in [Query -> {"unused", "held", "garbage"}]
      /\ rs' \in [Query -> RSType] /\ view' \in [Query -> ViewType]
  BY DEF IndInv, QueryParts
<1>2. ASSUME NEW p \in Query
      PROVE  (IF obj[p] = "held" THEN Agrees(view[p], rs[p]) ELSE view[p] = NoView)'
  <2>1. CASE p = q
    BY <2>1 DEF IndInv, QueryParts
  <2>2. CASE p # q
    BY <2>2 DEF IndInv, QueryParts
  <2> QED BY <2>1, <2>2
<1> QED BY <1>1, <1>2 DEF QueryParts

LEMMA ExecuteStatementStep ==
  ASSUME IndInv, Rules = AllRules, NEW q \in Query, NEW st \in Stmt, ExecuteStatement(q, st)
  PROVE  IndInv'
<1> DEFINE r == rs[q]
           c == CleanupConn(conn, q, r)
           w == st \in Writes
           b == st \in Selects
<1>1. PICK o \in QueryExecuteStatement(conn, q, r, st) :
        /\ Take(q, o) /\ view' = RanView(q, o, st) /\ ack' = RanAck(o, st)
        /\ said' = [SaidAfter(o.conn.server.up) EXCEPT ![q] = Null]
  BY DEF ExecuteStatement
<1>2. Usable(q) /\ r \in RSType /\ GoodConn(conn) /\ conn.server.stmts[q] \in {Null, r.stmt}
  BY DEF ExecuteStatement, IndInv, QueryParts, ConnParts, SaidParts, SameStatements
<1>3. /\ Served(conn, o, w) /\ StmtsKept(c.server, o.conn.server)
      /\ o.ok => o.rows \in RowsOf("ok", b) /\ o.rs = DirectRS(CleanupRS(r), o.rows)
      /\ ~o.ok => o.rs \in {CleanupRS(r), [CleanupRS(r) EXCEPT !.prepared = FALSE]}
  BY <1>1, <1>2, ExecuteStatementServed
<1>4. ConnParts'
  <2>1. ack' = IF o.ok /\ w THEN AckWrite ELSE ack
    BY <1>1 DEF RanAck
  <2> HIDE DEF w, c, r
  <2> QED BY <1>1, <1>2, <1>3, <2>1, TakeConn
<1> DEFINE v == IF o.ok THEN Started(b, o.rows) ELSE Refused
<1>5. view' = [view EXCEPT ![q] = v]
  BY <1>1 DEF RanView
<1>6. o.rs \in RSType /\ v \in ViewType /\ Agrees(v, o.rs)
  <2> DEFINE x == CleanupRS(r)
  <2>1. /\ x \in RSType /\ [x EXCEPT !.prepared = FALSE] \in RSType /\ x.index = BeforeFirst
    BY <1>2, RSOps, RSStmts
  <2> HIDE DEF x, r, w, c
  <2>2. CASE ~o.ok
    BY <1>3, <2>1, <2>2, PlainAgrees, ViewTypes DEF x
  <2>3. CASE o.ok
    <3> DEFINE n == o.rows
    <3>1. n \in Counts /\ n \in 0..MaxRows /\ (~b => n = 0) /\ b \in BOOLEAN /\ o.rs = DirectRS(x, n)
      BY <1>3, <2>3, ClientAssumption DEF RowsOf, x, Counts
    <3>2. v = Started(b, n)
      BY <2>3
    <3> HIDE DEF n, b, v
    <3> QED BY <2>1, <3>1, <3>2, RSOps, StoredAgrees, ViewTypes
  <2> QED BY <2>2, <2>3
<1> HIDE DEF v
<1>7. QueryParts'
  BY <1>1, <1>5, <1>6, TakeQuery
<1>8. SaidParts'
  <2>1. /\ conn' = o.conn /\ obj' = [obj EXCEPT ![q] = "held"] /\ rs' = [rs EXCEPT ![q] = o.rs]
    BY <1>1 DEF Take
  <2>2. \A p \in Query : p # q => view'[p] = view[p] /\ obj'[p] = obj[p]
    BY <1>5, <2>1 DEF IndInv, QueryParts
  <2> QED BY <1>1, <1>3, <2>1, <2>2, SaidCleared
<1> QED BY <1>4, <1>7, <1>8 DEF IndInv

LEMMA ExecuteStep ==
  ASSUME IndInv, Rules = AllRules, NEW q \in Query, Execute(q)
  PROVE  IndInv'
<1> DEFINE r == rs[q]
           w == r.stmt \in Writes
           b == r.stmt \in Selects
<1>1. PICK o \in QueryExecute(conn, q, r) : Take(q, o) /\ LearnRun(q, o, r.stmt)
  BY DEF Execute
<1>2. /\ Usable(q) /\ r \in RSType /\ GoodConn(conn) /\ conn.server.stmts[q] \in {Null, r.stmt}
      /\ r.prepared /\ r.stmt # Null /\ ~Drained(q) /\ obj[q] = "held"
  BY DEF Execute, MayExecute, Keeps, AllRules, IndInv, QueryParts, ConnParts, SaidParts, SameStatements
<1>3. r.stmt \in Stmt
  BY <1>2 DEF RSType
<1>4. /\ Served(conn, o, w) /\ StmtsKept(conn.server, o.conn.server)
      /\ o.ok => o.rows \in RowsOf("ok", b) /\ o.rs = RanRS(r, o.rows)
      /\ ~o.ok => o.rs \in {r, ResetRS(r)}
  BY <1>1, <1>2, <1>3, ExecuteServed
<1>5. ConnParts'
  <2>1. ack' = IF o.ok /\ w THEN AckWrite ELSE ack
    BY <1>1 DEF LearnRun, RanAck
  <2> HIDE DEF w, r
  <2> QED BY <1>1, <1>2, <1>4, <2>1, TakeConn
<1> DEFINE v == IF o.ok THEN Started(b, o.rows) ELSE Refused
<1>6. view' = [view EXCEPT ![q] = v]
  BY <1>1 DEF LearnRun, RanView
<1>7. o.rs \in RSType /\ v \in ViewType /\ Agrees(v, o.rs) /\ o.rs.stmt = r.stmt
  <2> HIDE DEF r, w
  <2>2. CASE ~o.ok
    BY <1>2, <1>4, <2>2, RSOps, RSStmts, PlainAgrees, ViewTypes
  <2>3. CASE o.ok
    <3> DEFINE n == o.rows
    <3>1. n \in Counts /\ n \in 0..MaxRows /\ (~b => n = 0) /\ b \in BOOLEAN /\ o.rs = RanRS(r, n)
      BY <1>4, <2>3, ClientAssumption DEF RowsOf, Counts
    <3>2. v = Started(b, n)
      BY <2>3
    <3> HIDE DEF n, b, v
    <3>3. o.rs \in RSType /\ v \in ViewType
      BY <1>2, <3>1, <3>2, RSOps, ViewTypes
    <3>4. Agrees(v, o.rs)
      BY <1>2, <3>1, <3>2, StoredAgrees
    <3>5. RanRS(r, n).stmt = r.stmt
      BY <1>2, <3>1, RSStmts
    <3> QED BY <3>1, <3>3, <3>4, <3>5
  <2> QED BY <2>2, <2>3
<1>8. v.status \in {"open", "ended", "refused"} /\ v.row = 0
  BY DEF Started, Refused, NoView
<1> HIDE DEF v
<1>9. QueryParts'
  BY <1>1, <1>6, <1>7, TakeQuery
<1>10. SaidParts'
  <2>1. /\ conn' = o.conn /\ obj' = [obj EXCEPT ![q] = "held"] /\ rs' = [rs EXCEPT ![q] = o.rs]
        /\ said' = SaidAfter(conn'.server.up)
    BY <1>1 DEF Take, LearnRun
  <2>2. /\ said' \in [Query -> Stmt \cup {Null}]
        /\ \A p \in Query : obj'[p] # "held" => said'[p] = Null
        /\ rs'[q].stmt = rs[q].stmt
        /\ \A p \in Query : p # q => rs'[p] = rs[p] /\ view'[p] = view[p]
    BY <1>6, <1>7, <2>1 DEF SaidAfter, NoStmts, IndInv, SaidParts, QueryParts
  <2>3. \A p \in Query : /\ conn'.server.stmts[p] \in {Null, conn.server.stmts[p]}
                         /\ said'[p] # Null => /\ said'[p] = said[p]
                                               /\ conn'.server.stmts[p] = conn.server.stmts[p]
    BY <1>4, <2>1 DEF SaidAfter, NoStmts, StmtsKept
  <2>4. conn'.server.stmts[q] \in {Null, rs'[q].stmt}
    BY <1>2, <2>2, <2>3
  <2>5. said[q] # Null => rs[q].stmt = said[q] /\ conn.server.stmts[q] = said[q]
    BY <1>2 DEF IndInv, SaidParts, PreparedStays
  <2> QED BY <2>2, <2>3, <2>4, <2>5, SaidStays
<1> QED BY <1>5, <1>9, <1>10 DEF IndInv

(***************************************************************************)
(* nextRow: the result set after it, and what it shows the client.         *)
(***************************************************************************)
NextRS(r) ==
  CASE HasRow(r) -> [r EXCEPT !.at = @ + 1, !.index = @ + 1]
    [] Resets(r) -> CleanupRS(r)
    [] OTHER     -> r

LEMMA NextRowAgrees ==
  ASSUME NEW r \in RSType, NEW v \in ViewType, Agrees(v, r), v.status # "refused",
         NEW f, f = Fetched(v, HasRow(r), r.at + 1)
  PROVE  /\ f \in ViewType /\ NextRS(r) \in RSType /\ Agrees(f, NextRS(r))
         /\ HasRow(r) => /\ v.status = "open" /\ v.row + 1 <= v.made
                         /\ f = [v EXCEPT !.row = v.row + 1] /\ f.status = "open"
                         /\ ~Resets(r)
         /\ ~HasRow(r) /\ v.status = "open" => v.row = v.made
         /\ ~HasRow(r) => f = [v EXCEPT !.status = IF @ = "open" THEN "ended" ELSE @]
         /\ Resets(r) => f.status = "ended" /\ f.row > 0
         /\ ~Resets(r) => /\ NextRS(r).stmt = r.stmt
                          /\ f.status = "ended" /\ f.row > 0 => v = f
<1>1. /\ r.at \in Nat /\ r.rows \in Nat /\ r.at <= MaxRows /\ r.rows <= MaxRows /\ r.index \in Int
      /\ MaxRows \in Nat /\ r.isActive \in BOOLEAN /\ r.prepared \in BOOLEAN
      /\ r.index >= -1 /\ r.index <= MaxRows
  BY ClientAssumption DEF RSType, Counts, Indexes
<1>2. v.row \in Nat /\ v.made \in Nat /\ v.status \in {"idle", "open", "ended"}
  BY DEF ViewType
<1>3. CASE HasRow(r)
  <2>1. r.isActive /\ r.at < r.rows /\ ~Resets(r)
        /\ NextRS(r) = [r EXCEPT !.at = r.at + 1, !.index = r.index + 1]
    BY <1>3 DEF HasRow, Resets, NextRS
  <2>2. v.status = "open"
    BY <1>1, <1>2, <2>1 DEF Agrees
  <2>3. /\ v.row = r.at /\ v.made = r.rows /\ r.index = r.at - 1 /\ (r.prepared => r.stmt # Null)
    BY <2>2 DEF Agrees
  <2>4. f = [v EXCEPT !.row = v.row + 1]
    BY <1>3, <2>3 DEF Fetched
  <2>5. f \in ViewType /\ f.status = "open" /\ f.row = v.row + 1 /\ f.made = v.made
    BY <1>2, <2>2, <2>4 DEF ViewType
  <2>6. /\ r.at + 1 \in Counts /\ r.index + 1 \in Indexes
    BY <1>1, <2>1, <2>3 DEF Counts, Indexes
  <2> DEFINE x == NextRS(r)
  <2>7. /\ x \in RSType /\ x.isActive = r.isActive /\ x.prepared = r.prepared /\ x.stmt = r.stmt
        /\ x.at = r.at + 1 /\ x.rows = r.rows /\ x.index = r.index + 1
    BY <2>1, <2>6 DEF RSType
  <2> HIDE DEF x
  <2>8. Agrees(f, x)
    BY <1>1, <2>1, <2>3, <2>5, <2>7 DEF Agrees
  <2>9. v.row + 1 <= v.made
    BY <1>1, <2>1, <2>3
  <2> QED BY <1>3, <2>1, <2>2, <2>4, <2>5, <2>7, <2>8, <2>9, Zenon DEF x
<1>4. CASE ~HasRow(r)
  <2>1. f = [v EXCEPT !.status = IF @ = "open" THEN "ended" ELSE @]
    BY <1>4 DEF Fetched
  <2>2. f \in ViewType /\ f.row = v.row /\ f.status = IF v.status = "open" THEN "ended" ELSE v.status
    BY <1>2, <2>1 DEF ViewType
  <2>3. v.status = "open" => v.row = v.made /\ r.at = r.rows
    BY <1>1, <1>2, <1>4 DEF Agrees, HasRow
  <2>4. CASE Resets(r)
    <3>1. NextRS(r) = CleanupRS(r) /\ r.isActive /\ r.index # BeforeFirst
      BY <1>4, <2>4 DEF NextRS, Resets
    <3>2. v.status = "open"
      BY <1>2, <3>1 DEF Agrees
    <3>3. v.row > 0
      BY <1>1, <3>1, <3>2 DEF Agrees, BeforeFirst
    <3>4. /\ CleanupRS(r) \in RSType /\ CleanupRS(r).isActive = FALSE
      BY RSOps, RSStmts
    <3>5. Agrees(f, CleanupRS(r))
      BY <2>2, <3>2, <3>4 DEF Agrees
    <3> QED BY <1>4, <2>1, <2>2, <2>3, <2>4, <3>1, <3>2, <3>3, <3>4, <3>5
  <2>5. CASE ~Resets(r)
    <3>1. NextRS(r) = r
      BY <1>4, <2>5 DEF NextRS
    <3>2. r.isActive => r.index = BeforeFirst
      BY <1>4, <2>5 DEF Resets
    <3>3. Agrees(f, r)
      BY <1>1, <1>2, <2>2, <2>3, <3>2 DEF Agrees
    <3>4. v.status = "open" => v.row = 0
      BY <1>1, <3>2 DEF Agrees, BeforeFirst
    <3>5. f.status = "ended" /\ f.row > 0 => v = f
      BY <1>2, <2>1, <2>2, <3>4 DEF ViewType
    <3> QED BY <1>4, <2>1, <2>2, <2>3, <2>5, <3>1, <3>3, <3>5
  <2> QED BY <2>4, <2>5
<1> QED BY <1>3, <1>4

LEMMA NextRowStep ==
  ASSUME IndInv, Rules = AllRules, NEW q \in Query, NextRow(q)
  PROVE  IndInv'
<1> DEFINE r == rs[q]
           f == Fetched(view[q], HasRow(r), r.at + 1)
           n == NextRS(r)
<1>1. /\ obj[q] = "held" /\ view[q].status # "refused"
      /\ rs' = [rs EXCEPT ![q] = n] /\ view' = [view EXCEPT ![q] = f]
      /\ conn' = IF Resets(r) THEN CleanupConn(conn, q, r) ELSE conn
      /\ UNCHANGED <<obj, stray, ack, began, said, lost>>
  BY DEF NextRow, Keeps, AllRules, NextRS
<1>2. r \in RSType /\ view[q] \in ViewType /\ Agrees(view[q], r)
  BY <1>1 DEF IndInv, QueryParts
<1>3. /\ f \in ViewType /\ n \in RSType /\ Agrees(f, n)
      /\ Resets(r) => f.status = "ended" /\ f.row > 0
      /\ ~Resets(r) => n.stmt = r.stmt /\ (f.status = "ended" /\ f.row > 0 => view[q] = f)
      /\ HasRow(r) => f.status = "open" /\ view[q].status = "open"
  BY <1>1, <1>2, NextRowAgrees
<1> HIDE DEF f, n
<1>4. /\ GoodConn(conn') /\ Steady(conn.server, conn'.server)
      /\ conn'.server.stmts = IF Resets(r) THEN [conn.server.stmts EXCEPT ![q] = Null]
                              ELSE conn.server.stmts
  <2>1. GoodConn(conn) /\ GoodSession(conn.server)
    BY DEF IndInv, ConnParts, GoodConn
  <2>2. CASE Resets(r)
    <3>1. Holds(conn, q, r)
      BY DEF Holds, IndInv, ConnParts, SaidParts, SameStatements
    <3>2. Cleaned(conn, q, CleanupConn(conn, q, r))
      BY <3>1, CleanupGood
    <3> QED BY <1>1, <2>2, <3>2 DEF Cleaned
  <2>3. CASE ~Resets(r)
    BY <1>1, <2>1, <2>3, SteadyRefl
  <2> QED BY <2>2, <2>3
<1>5. ConnParts'
  <2>1. Accounted'
    BY <1>1, <1>4, QuietAccounts DEF IndInv, ConnParts, Accounted
  <2> QED BY <1>1, <1>4, <2>1 DEF IndInv, ConnParts
<1>6. QueryParts'
  <2>1. obj' = [obj EXCEPT ![q] = "held"]
    BY <1>1 DEF IndInv, QueryParts
  <2> QED BY <1>1, <1>3, <2>1, QueryChanged
<1>7. SaidParts'
  <2>0. conn.server.stmts \in [Query -> Stmt \cup {Null}]
    BY DEF IndInv, ConnParts, GoodConn, GoodSession, Sessions
  <2>1. \A p \in Query : p # q => /\ rs'[p] = rs[p] /\ view'[p] = view[p]
                                  /\ conn'.server.stmts[p] = conn.server.stmts[p]
    BY <1>1, <1>4, <2>0 DEF IndInv, QueryParts
  <2>2. rs'[q] = n /\ view'[q] = f
    BY <1>1 DEF IndInv, QueryParts
  <2>3. /\ said' \in [Query -> Stmt \cup {Null}] /\ said' = said
        /\ \A p \in Query : obj'[p] # "held" => said'[p] = Null
    BY <1>1 DEF IndInv, SaidParts
  <2>4. conn'.server.stmts[q] \in {Null, rs'[q].stmt}
    <3>1. CASE Resets(r)
      BY <1>4, <2>0, <3>1
    <3>2. CASE ~Resets(r)
      BY <1>3, <1>4, <2>2, <3>2 DEF IndInv, SaidParts, SameStatements
    <3> QED BY <3>1, <3>2
  <2>5. said'[q] # Null => \/ view'[q].status = "ended" /\ view'[q].row > 0
                           \/ rs'[q].stmt = said'[q] /\ conn'.server.stmts[q] = said'[q]
    <3>1. CASE Resets(r)
      BY <1>3, <2>2, <3>1
    <3>2. CASE ~Resets(r) /\ ~Drained(q)
      BY <1>3, <1>4, <2>2, <2>3, <3>2 DEF IndInv, SaidParts, PreparedStays
    <3>3. CASE ~Resets(r) /\ Drained(q)
      <4>1. ~HasRow(r) /\ view[q].status = "ended"
        BY <1>3, <3>3 DEF Drained
      <4>2. f = view[q]
        BY <1>2, <4>1 DEF f, Fetched, ViewType
      <4> QED BY <2>2, <3>3, <4>2 DEF Drained
    <3> QED BY <3>1, <3>2, <3>3
  <2> QED BY <2>1, <2>3, <2>4, <2>5, SaidStays
<1> QED BY <1>5, <1>6, <1>7 DEF IndInv

-----------------------------------------------------------------------------
(* free(), the finalizer, and a reference that is dropped.                 *)

LEMMA ReleaseStep ==
  ASSUME IndInv, NEW q \in Query, Release(q),
         view' = [view EXCEPT ![q] = NoView], said' = [said EXCEPT ![q] = Null]
  PROVE  IndInv'
<1> DEFINE c == CleanupConn(conn, q, rs[q])
<1>1. /\ conn' = c /\ rs' = [rs EXCEPT ![q] = FreshRS] /\ obj' = [obj EXCEPT ![q] = "unused"]
      /\ UNCHANGED <<stray, ack, began, lost>>
  BY DEF Release
<1>2. /\ GoodConn(c) /\ Steady(conn.server, c.server) /\ c.server.stmts[q] = Null
      /\ \A p \in Query : p # q => c.server.stmts[p] = conn.server.stmts[p]
  BY CleanupStmts
<1> HIDE DEF c
<1>3. ConnParts'
  <2>1. Accounted'
    BY <1>1, <1>2, QuietAccounts DEF IndInv, ConnParts, Accounted
  <2> QED BY <1>1, <1>2, <2>1 DEF IndInv, ConnParts
<1>4. QueryParts'
  <2>1. FreshRS \in RSType
    BY RSOps DEF IndInv, QueryParts
  <2>2. NoView \in ViewType
    BY ViewTypes
  <2> QED BY <1>1, <2>1, <2>2, QueryChanged
<1>5. SaidParts'
  <2>1. /\ said' \in [Query -> Stmt \cup {Null}] /\ said'[q] = Null
        /\ \A p \in Query : p # q => said'[p] = said[p] /\ rs'[p] = rs[p] /\ view'[p] = view[p]
        /\ \A p \in Query : obj'[p] # "held" => said'[p] = Null
    BY <1>1 DEF IndInv, SaidParts, QueryParts
  <2>2. conn'.server.stmts[q] = Null
        /\ \A p \in Query : p # q => conn'.server.stmts[p] = conn.server.stmts[p]
    BY <1>1, <1>2
  <2> QED BY <2>1, <2>2, SaidStays
<1> QED BY <1>3, <1>4, <1>5 DEF IndInv

LEMMA CollectStep ==
  ASSUME IndInv, NEW q \in Query, Collect(q)
  PROVE  IndInv'
<1>1. Release(q) /\ obj[q] = "garbage" /\ view' = view /\ said' = said
  BY DEF Collect
<1>2. view' = [view EXCEPT ![q] = NoView] /\ said' = [said EXCEPT ![q] = Null]
  BY <1>1 DEF IndInv, QueryParts, SaidParts
<1> QED BY <1>1, <1>2, ReleaseStep

LEMMA FreeStep ==
  ASSUME IndInv, NEW q \in Query, Free(q)
  PROVE  IndInv'
BY ReleaseStep DEF Free

LEMMA DropStep ==
  ASSUME IndInv, NEW q \in Query, Drop(q)
  PROVE  IndInv'
<1>1. /\ obj' = [obj EXCEPT ![q] = "garbage"] /\ view' = [view EXCEPT ![q] = NoView]
      /\ said' = [said EXCEPT ![q] = Null] /\ UNCHANGED <<conn, rs, stray, ack, began, lost>>
  BY DEF Drop
<1>2. ConnParts'
  BY <1>1 DEF IndInv, ConnParts, Accounted, AckedIsDurable, NoPhantomWrites
<1>3. QueryParts'
  <2>1. rs' = [rs EXCEPT ![q] = rs[q]] /\ rs[q] \in RSType /\ NoView \in ViewType
    BY <1>1, ViewTypes DEF IndInv, QueryParts
  <2> QED BY <1>1, <2>1, QueryChanged
<1>4. SaidParts'
  <2>1. /\ said' \in [Query -> Stmt \cup {Null}] /\ said'[q] = Null
        /\ \A p \in Query : p # q => said'[p] = said[p] /\ rs'[p] = rs[p] /\ view'[p] = view[p]
        /\ \A p \in Query : obj'[p] # "held" => said'[p] = Null
    BY <1>1 DEF IndInv, SaidParts, QueryParts
  <2>2. conn'.server.stmts[q] \in {Null, rs'[q].stmt}
    BY <1>1 DEF IndInv, SaidParts, SameStatements
  <2> QED BY <1>1, <2>1, <2>2, SaidStays
<1> QED BY <1>2, <1>3, <1>4 DEF IndInv

-----------------------------------------------------------------------------
(* The steps of the connection.                                            *)

LEMMA ConnOnlyStep ==
  ASSUME IndInv, NEW c, ConnOnly(c), UNCHANGED <<obj, rs>>,
         GoodConn(c), Steady(conn.server, c.server), StmtsKept(conn.server, c.server)
  PROVE  IndInv'
<1>1. /\ conn' = c /\ lost' = (lost \/ (conn.server.up /\ ~c.server.up))
      /\ said' = SaidAfter(c.server.up) /\ UNCHANGED <<stray, ack, began, view>>
  BY DEF ConnOnly
<1>2. lost' \in BOOLEAN /\ (lost => lost')
  <2>1. lost \in BOOLEAN
    BY DEF IndInv, ConnParts, Accounted
  <2> QED BY <1>1, <2>1
<1>3. ConnParts'
  <2>1. Accounted'
    BY <1>1, <1>2, QuietAccounts DEF IndInv, ConnParts
  <2> QED BY <1>1, <2>1 DEF IndInv, ConnParts
<1>4. QueryParts' /\ SaidParts'
  BY <1>1, SaidKept
<1> QED BY <1>3, <1>4 DEF IndInv

LEMMA IsOpenStep ==
  ASSUME IndInv, IsOpen
  PROVE  IndInv'
<1>1. PICK c \in Checked(conn) : ConnOnly(c)
  BY DEF IsOpen
<1>2. /\ GoodConn(c) /\ Steady(conn.server, c.server) /\ StmtsKept(conn.server, c.server)
      /\ UNCHANGED <<obj, rs>>
  BY <1>1, CheckedConn DEF IndInv, ConnParts, IsOpen
<1> QED BY <1>1, <1>2, ConnOnlyStep

LEMMA ResetErrorStep ==
  ASSUME IndInv, ResetError
  PROVE  IndInv'
<1>1. /\ conn' = [conn EXCEPT !.lastError = "none"]
      /\ UNCHANGED <<obj, rs, stray, ack, began, view, said, lost>>
  BY DEF ResetError, SetError, historyVars
<1>2. GoodConn(conn) /\ conn \in ConnType
  BY DEF IndInv, ConnParts, GoodConn
<1>3. GoodConn(conn') /\ conn'.server = conn.server
  BY <1>1, <1>2 DEF GoodConn, ConnType
<1>4. ConnParts'
  BY <1>1, <1>3 DEF IndInv, ConnParts, Accounted, AckedIsDurable, NoPhantomWrites
<1>5. QueryParts'
  BY <1>1 DEF IndInv, QueryParts
<1>6. SaidParts'
  BY <1>1, <1>3 DEF IndInv, SaidParts, SameStatements, PreparedStays, Drained
<1> QED BY <1>4, <1>5, <1>6 DEF IndInv

LEMMA GetTablesStep ==
  ASSUME IndInv, GetTables
  PROVE  IndInv'
<1>1. PICK a \in AskCatalogue(conn.server) : ConnOnly([conn EXCEPT !.server = a.server])
  BY DEF GetTables
<1> DEFINE c == [conn EXCEPT !.server = a.server]
<1>2. GoodConn(conn) /\ conn \in ConnType /\ conn.isOpen /\ GoodSession(conn.server)
      /\ UNCHANGED <<obj, rs>>
  BY DEF GetTables, IndInv, ConnParts, GoodConn
<1>3. /\ StmtsKept(conn.server, a.server) /\ Steady(conn.server, a.server)
  BY <1>1, <1>2, PingDid
<1>4. GoodSession(a.server) /\ a.server \in Sessions(Stmt)
  BY <1>3 DEF Steady, Idle, GoodSession
<1>5. c \in ConnType /\ c.server = a.server /\ c.isOpen /\ c.handle = conn.handle
  BY <1>2, <1>4 DEF ConnType
<1>6. ConnOnly(c)
  BY <1>1
<1> HIDE DEF c
<1>7. GoodConn(c)
  BY <1>2, <1>4, <1>5 DEF GoodConn
<1> QED BY <1>2, <1>3, <1>5, <1>6, <1>7, ConnOnlyStep

(* A connection before and after a call that only asked something.         *)
Asked(c, d) == GoodConn(d) /\ Steady(c.server, d.server) /\ StmtsKept(c.server, d.server)

LEMMA DescribedAsked ==
  ASSUME NEW c, GoodConn(c), NEW d \in Described(c)
  PROVE  Asked(c, d)
<1> DEFINE e(c1, a) == IF a.reply = "ok" THEN SetError(Told(c1, a, "statement"), "none")
                       ELSE Told(c1, a, "statement")
<1>1. PICK c1 \in Checked(c) :
        d \in IF ~c1.isOpen THEN {SetError(c1, "connection")}
              ELSE {e(c1, a) : a \in AskCatalogue(c1.server)}
  BY DEF Described
<1>2. Asked(c, c1)
  BY <1>1, CheckedConn DEF Asked
<1>3. ASSUME NEW x, GoodConn(x), NEW m \in {"none", "connection"}
      PROVE  GoodConn(SetError(x, m)) /\ SetError(x, m).server = x.server
  BY <1>3 DEF SetError, GoodConn, ConnType
<1>4. CASE ~c1.isOpen
  <2>1. d = SetError(c1, "connection")
    BY <1>1, <1>4
  <2> QED BY <1>2, <1>3, <2>1 DEF Asked
<1>5. CASE c1.isOpen
  <2>1. PICK a \in AskCatalogue(c1.server) : d = e(c1, a)
    BY <1>1, <1>5
  <2>2. GoodSession(c1.server) /\ GoodConn(c1)
    BY <1>2 DEF Asked, GoodConn
  <2>3. StmtsKept(c1.server, a.server) /\ Steady(c1.server, a.server)
    BY <2>1, <2>2, PingDid
  <2> DEFINE t == Told(c1, a, "statement")
  <2>4. GoodConn(t) /\ t.server = a.server
    BY <1>5, <2>2, <2>3, ToldGood DEF Steady, Idle
  <2>5. d = t \/ d = SetError(t, "none")
    BY <2>1
  <2> HIDE DEF t
  <2>6. GoodConn(d) /\ d.server = a.server
    BY <1>3, <2>4, <2>5
  <2> QED BY <1>2, <2>3, <2>6, SteadyTrans, StmtsKeptTrans DEF Asked
<1> QED BY <1>4, <1>5

LEMMA GetTableInfoStep ==
  ASSUME IndInv, GetTableInfo
  PROVE  IndInv'
<1>1. PICK c \in Described(conn) : \E c1 \in {c} \cup Described(c) : ConnOnly(c1)
  BY DEF GetTableInfo
<1>2. PICK c1 \in {c} \cup Described(c) : ConnOnly(c1)
  BY <1>1
<1>3. Asked(conn, c) /\ UNCHANGED <<obj, rs>>
  BY <1>1, DescribedAsked DEF IndInv, ConnParts, GetTableInfo
<1>4. c1 = c \/ Asked(c, c1)
  BY <1>2, <1>3, DescribedAsked DEF Asked
<1>5. Asked(conn, c1)
  BY <1>3, <1>4, SteadyTrans, StmtsKeptTrans DEF Asked
<1> QED BY <1>2, <1>3, <1>5, ConnOnlyStep DEF Asked

(***************************************************************************)
(* A new session, or none.                                                 *)
(***************************************************************************)
LEMMA NewSession ==
  ASSUME IndInv, LearnNewSession, UNCHANGED <<obj, rs>>, GoodConn(conn)', stray' \in BOOLEAN,
         conn'.server.txn = "none", conn'.server.committed = conn.server.committed,
         conn'.server.stmts \in {NoStmts, conn.server.stmts}
  PROVE  IndInv'
<1>1. view' = view /\ lost' = lost /\ said' = NoStmts
  BY DEF LearnNewSession
<1>2. ConnParts'
  <2>1. Accounted /\ GoodSession(conn'.server)
    BY DEF IndInv, ConnParts, GoodConn
  <2>2. Accounted'
    BY <2>1, NewSessionAccounts
  <2> QED BY <2>2 DEF ConnParts
<1>3. QueryParts'
  BY <1>1 DEF IndInv, QueryParts
<1>4. SaidParts'
  BY <1>1 DEF IndInv, SaidParts, SameStatements, PreparedStays, NoStmts
<1> QED BY <1>2, <1>3, <1>4 DEF IndInv

LEMMA ClosedGood ==
  ASSUME NEW c, GoodConn(c), NEW d, d = ClosedConn(c)
  PROVE  /\ GoodConn(d) /\ ~d.isOpen /\ d.server.txn = "none"
         /\ d.server.committed = c.server.committed
         /\ d.server.stmts \in {NoStmts, c.server.stmts}
<1>1. c \in ConnType /\ c.server \in Sessions(Stmt) /\ GoodSession(c.server)
  BY DEF GoodConn, GoodSession
<1>2. CASE c.isOpen
  <2>1. d = [Unconnected EXCEPT !.server = Ended(c.server)]
    BY <1>2 DEF ClosedConn
  <2>2. /\ Ended(c.server) \in Sessions(Stmt) /\ GoodSession(Ended(c.server))
        /\ Ended(c.server).txn = "none" /\ Ended(c.server).stmts = NoStmts
        /\ Ended(c.server).committed = c.server.committed
    BY <1>1, SessionOps, SessionFields, EndedSteady
  <2>3. d \in ConnType /\ d.server = Ended(c.server) /\ ~d.isOpen
    BY <2>1, <2>2 DEF Unconnected, ConnType
  <2> QED BY <2>2, <2>3 DEF GoodConn
<1>3. CASE ~c.isOpen
  BY <1>3 DEF ClosedConn, GoodConn
<1> QED BY <1>2, <1>3

LEMMA CloseStep ==
  ASSUME IndInv, Close
  PROVE  IndInv'
<1>1. /\ conn' = ClosedConn(conn) /\ LearnNewSession /\ UNCHANGED <<obj, rs, stray>>
  BY DEF Close
<1>2. GoodConn(conn) /\ stray' \in BOOLEAN
  BY <1>1 DEF IndInv, ConnParts
<1>3. /\ GoodConn(conn)' /\ conn'.server.txn = "none"
      /\ conn'.server.committed = conn.server.committed
      /\ conn'.server.stmts \in {NoStmts, conn.server.stmts}
  BY <1>1, <1>2, ClosedGood
<1> QED BY <1>1, <1>2, <1>3, NewSession

LEMMA OpenStep ==
  ASSUME IndInv, Open
  PROVE  IndInv'
<1> DEFINE c == ClosedConn(conn)
           h == [c EXCEPT !.handle = TRUE, !.isOpen = FALSE, !.server = Ended(@)]
           failed == SetError(h, "connection")
<1>1. /\ stray' = (stray \/ c.server.up) /\ LearnNewSession /\ UNCHANGED <<obj, rs>>
      /\ conn' \in OpenedConn(c)
  BY DEF Open, ReadyConn
<1>2. /\ GoodConn(c) /\ c.server.committed = conn.server.committed /\ stray \in BOOLEAN
  BY ClosedGood DEF IndInv, ConnParts
<1>3. \/ conn' = [h EXCEPT !.isOpen = TRUE, !.server = Connected(h.server)]
      \/ conn' = failed \/ conn' = [failed EXCEPT !.handle = FALSE]
      \/ conn' = [failed EXCEPT !.server = Connected(failed.server)]
  BY <1>1 DEF OpenedConn
<1> HIDE DEF c
<1>4. c \in ConnType /\ c.server \in Sessions(Stmt) /\ GoodSession(c.server)
  BY <1>2 DEF GoodConn, GoodSession
<1> DEFINE e == Ended(c.server)
           n == Connected(e)
<1>5. /\ e \in Sessions(Stmt) /\ GoodSession(e) /\ e.txn = "none" /\ e.stmts = NoStmts
      /\ e.committed = c.server.committed
  BY <1>4, SessionOps, SessionFields, EndedSteady
<1>6. /\ h \in ConnType /\ h.server = e /\ h.handle = TRUE /\ h.isOpen = FALSE
  BY <1>4, <1>5 DEF ConnType
<1> HIDE DEF e, h
<1>7. /\ n \in Sessions(Stmt) /\ GoodSession(n) /\ n.txn = "none" /\ n.stmts = NoStmts
      /\ n.committed = e.committed
  BY <1>5, SessionOps, SessionFields, EndedSteady
<1>8. failed \in ConnType /\ failed.server = e /\ failed.handle = TRUE /\ failed.isOpen = FALSE
  BY <1>6 DEF SetError, ConnType
<1> HIDE DEF n, failed
<1>9. /\ conn' \in ConnType /\ conn'.server \in {e, n} /\ (conn'.isOpen => conn'.handle)
  BY <1>3, <1>6, <1>7, <1>8 DEF ConnType, n
<1>10. GoodConn(conn)' /\ conn'.server.txn = "none" /\ conn'.server.stmts = NoStmts
       /\ conn'.server.committed = conn.server.committed
  BY <1>2, <1>5, <1>7, <1>9 DEF GoodConn
<1>11. stray' \in BOOLEAN
  BY <1>1, <1>2, <1>4 DEF Sessions
<1> QED BY <1>1, <1>10, <1>11, NewSession

-----------------------------------------------------------------------------
(* Transactions.                                                           *)

(***************************************************************************)
(* The parts of the invariant that a command of a transaction keeps,       *)
(* whatever it answers.                                                    *)
(***************************************************************************)
LEMMA TransactParts ==
  ASSUME IndInv, NEW a, Transact(a), GoodSession(a.server), StmtsKept(conn.server, a.server)
  PROVE  /\ conn'.server = a.server /\ lost' \in BOOLEAN
         /\ (lost => lost') /\ (a.reply = "lost" => lost')
         /\ Accounted' => IndInv'
<1>1. /\ conn.isOpen /\ lost' = (lost \/ a.reply = "lost")
      /\ conn' = [conn EXCEPT !.server = a.server,
                    !.lastError = IF a.reply = "ok" THEN conn.lastError ELSE "transaction"]
      /\ said' = SaidAfter(a.server.up) /\ UNCHANGED <<obj, rs, stray, view>>
  BY DEF Transact, TxnTold
<1>2. GoodConn(conn) /\ conn \in ConnType /\ a.server \in Sessions(Stmt)
      /\ stray \in BOOLEAN /\ lost \in BOOLEAN
  BY DEF IndInv, ConnParts, GoodConn, GoodSession, Accounted
<1>3. /\ conn' \in ConnType /\ conn'.server = a.server
      /\ conn'.isOpen = conn.isOpen /\ conn'.handle = conn.handle
  BY <1>1, <1>2 DEF ConnType
<1>4. GoodConn(conn)'
  BY <1>1, <1>2, <1>3 DEF GoodConn
<1>5. QueryParts' /\ SaidParts'
  BY <1>1, <1>3, SaidKept
<1>6. Accounted' => IndInv'
  BY <1>1, <1>2, <1>4, <1>5 DEF IndInv, ConnParts
<1>7. lost' \in BOOLEAN /\ (lost => lost') /\ (a.reply = "lost" => lost')
  BY <1>1, <1>2
<1> QED BY <1>3, <1>6, <1>7

(* What the answer to a command of a transaction may be: done is what the  *)
(* command makes of the session s.                                         *)
LEMMA TxnAnswers ==
  ASSUME NEW s, GoodSession(s), NEW done, GoodSession(done), done.up = s.up,
         done.stmts = s.stmts, NEW a \in Ask(s, TRUE, done)
  PROVE  /\ GoodSession(a.server) /\ StmtsKept(s, a.server)
         /\ \/ a.reply = "ok" /\ s.up /\ a.server = done
            \/ a.reply # "ok" /\ Steady(s, a.server)
            \/ a.reply = "error" /\ a.server = RolledBack(s)
            \/ a.reply = "lost" /\ a.server = Ended(done)
<1>0. s \in Sessions(Stmt) /\ done \in Sessions(Stmt)
  BY DEF GoodSession
<1>1. CASE a = Answer("lost", s) \/ a = Answer("error", s)
  <2>1. a.server = s /\ a.reply # "ok"
    BY <1>1 DEF Answer
  <2> QED BY <2>1, SteadyRefl DEF StmtsKept
<1>2. CASE a = Answer("error", RolledBack(s))
  <2>1. a.server = RolledBack(s) /\ a.reply = "error"
    BY <1>2 DEF Answer
  <2>2. RolledBack(s).stmts = s.stmts /\ RolledBack(s).up = s.up /\ GoodSession(RolledBack(s))
    BY <1>0, SessionFields, WroteGood
  <2> QED BY <2>1, <2>2 DEF StmtsKept
<1>3. CASE a = Answer("lost", Ended(s)) \/ a = Answer("lost", Ended(done))
  <2>1. a.reply = "lost" /\ (a.server = Ended(s) \/ a.server = Ended(done))
    BY <1>3 DEF Answer
  <2>2. /\ GoodSession(Ended(s)) /\ GoodSession(Ended(done)) /\ Steady(s, Ended(s))
        /\ Ended(s).up = FALSE /\ Ended(done).up = FALSE
        /\ Ended(s).stmts = NoStmts /\ Ended(done).stmts = NoStmts
    BY <1>0, EndedSteady, SessionFields
  <2>3. StmtsKept(s, a.server)
    BY <2>1, <2>2 DEF StmtsKept, NoStmts
  <2> QED BY <2>1, <2>2, <2>3
<1>4. CASE s.up /\ a = Answer("ok", done)
  <2>1. a.server = done /\ a.reply = "ok"
    BY <1>4 DEF Answer
  <2> QED BY <1>4, <2>1 DEF StmtsKept
<1> QED BY <1>1, <1>2, <1>3, <1>4, AskAnswers

LEMMA StartTransactionStep ==
  ASSUME IndInv, Rules = AllRules, StartTransaction
  PROVE  IndInv'
<1> DEFINE s == conn.server
           done == Began(Committed(s))
<1>1. PICK a \in AskBegin(s) : Transact(a) /\ LearnStart(a.reply = "ok")
  BY DEF StartTransaction
<1>2. /\ MayStart /\ began = "no" /\ Accounted /\ GoodSession(s) /\ s \in Sessions(Stmt)
      /\ s.txn = "none" /\ "rollback_after" \in Rules
  BY DEF StartTransaction, MayStart, Keeps, AllRules, IndInv, ConnParts, Accounted, GoodSession
<1>3. s.pending = 0 /\ s.committed \in Nat
  BY <1>2, SessionNumbers DEF GoodSession
<1>4. /\ Committed(s) \in Sessions(Stmt) /\ Committed(s).up = s.up /\ Committed(s).stmts = s.stmts
      /\ Committed(s).committed = s.committed /\ Committed(s).pending = 0
  <2>1. /\ Committed(s) \in Sessions(Stmt) /\ Committed(s).up = s.up
        /\ Committed(s).stmts = s.stmts /\ Committed(s).pending = 0
        /\ Committed(s).committed = s.committed + s.pending
    BY <1>2, SessionOps, SessionFields
  <2> QED BY <1>3, <2>1
<1>5. /\ done \in Sessions(Stmt) /\ done.up = s.up /\ done.stmts = s.stmts
      /\ done.committed = s.committed /\ done.pending = 0 /\ done.txn = "open"
  BY <1>4, SessionOps, SessionFields
<1>6. a \in Ask(s, TRUE, done)
  BY <1>1 DEF AskBegin
<1> HIDE DEF done
<1>7. CASE s.up
  <2>1. GoodSession(done)
    BY <1>5, <1>7 DEF GoodSession
  <2>2. /\ GoodSession(a.server) /\ StmtsKept(s, a.server)
        /\ \/ a.reply = "ok" /\ s.up /\ a.server = done
           \/ a.reply # "ok" /\ Steady(s, a.server)
           \/ a.reply = "error" /\ a.server = RolledBack(s)
           \/ a.reply = "lost" /\ a.server = Ended(done)
    BY <1>2, <1>5, <1>6, <2>1, TxnAnswers
  <2>3. Steady(s, RolledBack(s)) /\ Steady(s, Ended(done))
    <3>1. Steady(s, Ended(done))
      BY <1>2, <1>5, <2>1, EndedSteady
    <3>2. Idle(s, RolledBack(s)) /\ RolledBack(s).txn = "none" /\ RolledBack(s).pending = 0
      BY <1>2, WroteGood, SessionFields
    <3> QED BY <1>2, <1>3, <3>1, <3>2 DEF Steady
  <2>4. /\ conn'.server = a.server /\ lost' \in BOOLEAN /\ (lost => lost')
        /\ Accounted' => IndInv'
    BY <1>1, <2>2, TransactParts
  <2> DEFINE ok == a.reply = "ok"
  <2>5. /\ ok \in BOOLEAN /\ LearnStart(ok)
        /\ IF ok THEN /\ GoodSession(conn'.server) /\ conn.server.up
                      /\ conn'.server.txn = "open" /\ conn'.server.pending = conn.server.pending
                      /\ conn'.server.committed = conn.server.committed
           ELSE Steady(conn.server, conn'.server)
    BY <1>1, <1>3, <1>5, <2>1, <2>2, <2>3, <2>4
  <2> HIDE DEF ok
  <2>6. Accounted'
    BY <1>2, <2>4, <2>5, StartAccounts
  <2> QED BY <2>4, <2>6
<1>8. CASE ~s.up
  <2>1. a.reply = "lost" /\ a.server = s
    <3>1. a = Answer("lost", s)
      BY <1>6, <1>8, AskAnswers
    <3> QED BY <3>1 DEF Answer
  <2>2. GoodSession(a.server) /\ StmtsKept(s, a.server) /\ Steady(s, a.server)
    BY <1>2, <2>1, SteadyRefl DEF StmtsKept
  <2>3. /\ conn'.server = a.server /\ lost' \in BOOLEAN /\ (lost => lost')
        /\ Accounted' => IndInv'
    BY <1>1, <2>2, TransactParts
  <2>4. ack' = ack /\ began' = began
    BY <1>1, <2>1 DEF LearnStart
  <2>5. Accounted'
    BY <1>2, <2>2, <2>3, <2>4, QuietAccounts
  <2> QED BY <2>3, <2>5
<1> QED BY <1>7, <1>8

LEMMA CommitStep ==
  ASSUME IndInv, Rules = AllRules, Commit
  PROVE  IndInv'
<1> DEFINE s == conn.server
           done == Committed(s)
<1>1. PICK a \in AskCommit(s) : Transact(a) /\ LearnCommit(a.reply = "ok")
  BY DEF Commit
<1>2. /\ MayCommit /\ Accounted /\ GoodSession(s) /\ s \in Sessions(Stmt)
      /\ "rollback_after" \in Rules
  BY DEF Commit, AllRules, IndInv, ConnParts, GoodConn, GoodSession
<1>3. s.pending \in Nat /\ s.committed \in Nat
  BY <1>2, SessionNumbers
<1>4. /\ done \in Sessions(Stmt) /\ GoodSession(done) /\ done.up = s.up /\ done.stmts = s.stmts
      /\ done.committed = s.committed + s.pending /\ done.txn = "none"
  BY <1>2, WroteGood, SessionOps, SessionFields
<1>5. a \in Ask(s, TRUE, done)
  BY <1>1 DEF AskCommit
<1> HIDE DEF done
<1>6. /\ GoodSession(a.server) /\ StmtsKept(s, a.server)
      /\ \/ a.reply = "ok" /\ s.up /\ a.server = done
         \/ a.reply # "ok" /\ Steady(s, a.server)
         \/ a.reply = "error" /\ a.server = RolledBack(s)
         \/ a.reply = "lost" /\ a.server = Ended(done)
  BY <1>2, <1>4, <1>5, TxnAnswers
<1>7. Idle(s, RolledBack(s)) /\ Cut(s, Ended(done))
  <2>1. GoodSession(Ended(done)) /\ Ended(done).up = FALSE /\ Ended(done).committed = done.committed
    BY <1>4, EndedSteady, SessionFields
  <2>2. Ended(done).committed >= s.committed
    BY <1>3, <1>4, <2>1
  <2> QED BY <1>2, <2>1, <2>2, WroteGood DEF Cut
<1>8. /\ conn'.server = a.server /\ lost' \in BOOLEAN /\ (lost => lost')
      /\ (a.reply = "lost" => lost') /\ (Accounted' => IndInv')
  BY <1>1, <1>6, TransactParts
<1> DEFINE ok == a.reply = "ok"
<1>9. /\ ok \in BOOLEAN /\ LearnCommit(ok)
      /\ \/ /\ ok /\ GoodSession(conn'.server) /\ conn.server.up /\ conn'.server.txn = "none"
            /\ conn'.server.committed = conn.server.committed + conn.server.pending
         \/ ~ok /\ Idle(conn.server, conn'.server)
         \/ ~ok /\ lost' /\ Cut(conn.server, conn'.server)
  BY <1>1, <1>4, <1>6, <1>7, <1>8 DEF Steady
<1> HIDE DEF ok
<1>10. Accounted'
  BY <1>2, <1>8, <1>9, CommitAccounts
<1> QED BY <1>8, <1>10

LEMMA RollbackStep ==
  ASSUME IndInv, Rollback
  PROVE  IndInv'
<1> DEFINE s == conn.server
           done == RolledBack(s)
<1>1. PICK a \in AskRollback(s) : Transact(a) /\ LearnRollback(a.reply = "ok")
  BY DEF Rollback
<1>2. Accounted /\ GoodSession(s) /\ s \in Sessions(Stmt)
  BY DEF IndInv, ConnParts, GoodConn, GoodSession
<1>3. /\ GoodSession(done) /\ done.up = s.up /\ done.stmts = s.stmts
      /\ done.committed = s.committed /\ done.txn = "none" /\ Idle(s, done)
  BY <1>2, WroteGood, SessionFields
<1>4. a \in Ask(s, TRUE, done)
  BY <1>1 DEF AskRollback
<1>5. Steady(s, Ended(done))
  BY <1>2, <1>3, EndedSteady
<1>6. /\ GoodSession(a.server) /\ StmtsKept(s, a.server)
      /\ \/ a.reply = "ok" /\ s.up /\ a.server = done
         \/ a.reply # "ok" /\ Steady(s, a.server)
         \/ a.reply = "error" /\ a.server = done
         \/ a.reply = "lost" /\ a.server = Ended(done)
  <2> DEFINE d == done
  <2> HIDE DEF d, done
  <2> QED BY <1>2, <1>3, <1>4, TxnAnswers DEF done
<1> HIDE DEF done
<1>7. /\ conn'.server = a.server /\ lost' \in BOOLEAN /\ (lost => lost')
      /\ Accounted' => IndInv'
  BY <1>1, <1>6, TransactParts
<1> DEFINE ok == a.reply = "ok"
<1>8. /\ ok \in BOOLEAN /\ LearnRollback(ok)
      /\ \/ /\ ok /\ GoodSession(conn'.server) /\ conn'.server.txn = "none"
            /\ conn'.server.committed = conn.server.committed
         \/ ~ok /\ Idle(conn.server, conn'.server)
  BY <1>1, <1>3, <1>5, <1>6, <1>7 DEF Steady
<1> HIDE DEF ok
<1>9. Accounted'
  BY <1>2, <1>7, <1>8, RollbackAccounts
<1> QED BY <1>7, <1>9

-----------------------------------------------------------------------------
LEMMA InitInv ==
  ASSUME Init
  PROVE  IndInv
<1> USE DEF Init, ClientInit
<1>1. /\ conn \in ConnType /\ GoodConn(conn) /\ GoodSession(conn.server)
      /\ conn.server.txn = "none" /\ conn.server.committed = 0
      /\ \A q \in Query : conn.server.stmts[q] = Null
  <2>1. NoSession \in Sessions(Stmt)
    BY DEF NoSession, Sessions, NoStmts
  <2>2. /\ NoSession.up = FALSE /\ NoSession.txn = "none" /\ NoSession.pending = 0
        /\ NoSession.committed = 0 /\ \A q \in Query : NoSession.stmts[q] = Null
    BY DEF NoSession, NoStmts
  <2>3. GoodSession(NoSession)
    BY <2>1, <2>2 DEF GoodSession
  <2>4. conn \in ConnType /\ conn.server = NoSession /\ ~conn.isOpen
    BY <2>1 DEF Unconnected, ConnType
  <2> QED BY <2>2, <2>3, <2>4 DEF GoodConn
<1>2. FreshRS \in RSType /\ NoView \in ViewType
  <2>1. 0 \in Counts /\ BeforeFirst \in Indexes
    BY ClientAssumption DEF Counts, Indexes, BeforeFirst
  <2> QED BY <2>1, ViewTypes DEF FreshRS, RSType
<1>3. ConnParts
  <2>1. /\ ack \in [committed : Nat, pending : Nat] /\ ack.committed = 0 /\ ack.pending = 0
        /\ began = "no" /\ lost = FALSE /\ stray = FALSE
    OBVIOUS
  <2>2. AckedIsDurable /\ NoPhantomWrites
    BY <1>1, <2>1 DEF AckedIsDurable, NoPhantomWrites
  <2>3. Accounted
    BY <1>1, <2>1, <2>2 DEF Accounted
  <2> QED BY <1>1, <2>1, <2>3 DEF ConnParts
<1>4. QueryParts
  BY <1>2 DEF QueryParts
<1>5. SaidParts
  BY <1>1 DEF SaidParts, SameStatements, PreparedStays, NoStmts
<1> QED BY <1>3, <1>4, <1>5 DEF IndInv

LEMMA NextInv ==
  ASSUME IndInv, Rules = AllRules, [Next]_vars
  PROVE  IndInv'
<1>1. CASE UNCHANGED vars
  <2>1. UNCHANGED <<conn, obj, rs, stray, ack, began, view, said, lost>>
    BY <1>1 DEF vars, historyVars
  <2>2. ConnParts'
    BY <2>1 DEF IndInv, ConnParts, Accounted, AckedIsDurable, NoPhantomWrites
  <2>3. QueryParts'
    BY <2>1 DEF IndInv, QueryParts
  <2>4. SaidParts'
    BY <2>1 DEF IndInv, SaidParts, SameStatements, PreparedStays, Drained
  <2> QED BY <2>2, <2>3, <2>4 DEF IndInv
<1>2. CASE Open \/ Close \/ ResetError \/ IsOpen
  BY <1>2, OpenStep, CloseStep, ResetErrorStep, IsOpenStep
<1>3. CASE StartTransaction \/ Commit \/ Rollback \/ GetTables \/ GetTableInfo
  BY <1>3, StartTransactionStep, CommitStep, RollbackStep, GetTablesStep, GetTableInfoStep
<1>4. ASSUME NEW q \in Query, Reject(q) \/ Execute(q) \/ NextRow(q)
      PROVE  IndInv'
  BY <1>4, RejectStep, ExecuteStep, NextRowStep
<1>5. ASSUME NEW q \in Query, Free(q) \/ Drop(q) \/ Collect(q)
      PROVE  IndInv'
  BY <1>5, FreeStep, DropStep, CollectStep
<1>6. ASSUME NEW q \in Query, NEW s \in Stmt, Prepare(q, s) \/ ExecuteStatement(q, s)
      PROVE  IndInv'
  BY <1>6, PrepareStep, ExecuteStatementStep
<1> QED BY <1>1, <1>2, <1>3, <1>4, <1>5, <1>6 DEF Next, Stmt

(***************************************************************************)
(* A client that keeps all the rules always finds the connection, the      *)
(* transaction and the result sets in the states of IndInv.                *)
(***************************************************************************)
THEOREM MariaDBInvariance ==
  Rules = AllRules /\ Spec => []IndInv
<1> SUFFICES ASSUME Rules = AllRules PROVE Spec => []IndInv
  OBVIOUS
<1>1. IndInv /\ [Next]_vars => IndInv'
  BY NextInv
<1> QED BY <1>1, InitInv, PTL DEF Spec

(***************************************************************************)
(* commit() and execute(): what the client was told is committed is in the *)
(* database, with any number of writes, deadlocks and lost calls.          *)
(***************************************************************************)
THEOREM MariaDBAckedIsDurable == Rules = AllRules /\ Spec => []AckedIsDurable
<1>1. IndInv => AckedIsDurable
  BY DEF IndInv, ConnParts, Accounted
<1> QED BY MariaDBInvariance, <1>1, PTL

(***************************************************************************)
(* execute(), commit() and rollback(): no write that was refused or undone *)
(* is in the database, unless a call was lost; BEGIN commits nothing for a *)
(* client that does not nest transactions.                                 *)
(***************************************************************************)
THEOREM MariaDBNoPhantomWrites == Rules = AllRules /\ Spec => []NoPhantomWrites
<1>1. IndInv => NoPhantomWrites
  BY DEF IndInv, ConnParts, Accounted
<1> QED BY MariaDBInvariance, <1>1, PTL

(***************************************************************************)
(* prepare() and cleanup(): the query and the server keep a statement that *)
(* was reported as prepared until its rows are read to their end, whatever *)
(* other queries, the collector and failed executions do in between.       *)
(***************************************************************************)
THEOREM MariaDBPreparedStays == Rules = AllRules /\ Spec => []PreparedStays
<1>1. IndInv => PreparedStays
  BY DEF IndInv, SaidParts
<1> QED BY MariaDBInvariance, <1>1, PTL

-----------------------------------------------------------------------------
(* What a step does to the view of the client.                             *)

LEMMA RanViewStep ==
  ASSUME NEW q \in Query, NEW o, NEW w, NEW st, Served(conn, o, w), Take(q, o),
         o.ok => o.rows \in RowsOf("ok", st \in Selects),
         view' = RanView(q, o, st)
  PROVE  ViewStep
<1>1. CASE ~o.ok
  <2>1. view' = [view EXCEPT ![q] = Refused] /\ conn'.lastError # "none"
    BY <1>1 DEF RanView, Served, Take
  <2> QED BY <2>1 DEF ViewStep
<1>2. CASE o.ok
  <2> DEFINE b == st \in Selects
             n == o.rows
  <2>1. /\ b \in BOOLEAN /\ n \in 0..MaxRows /\ (~b => n = 0)
        /\ view' = [view EXCEPT ![q] = Started(b, n)]
    BY <1>2, ClientAssumption DEF RanView, RowsOf
  <2> HIDE DEF b, n
  <2> QED BY <2>1 DEF ViewStep
<1> QED BY <1>1, <1>2

LEMMA ViewSteps ==
  ASSUME IndInv, Rules = AllRules, [Next]_vars
  PROVE  ViewStep
<1>0. GoodConn(conn)
  BY DEF IndInv, ConnParts
<1>h. ASSUME NEW q \in Query PROVE rs[q] \in RSType /\ conn.server.stmts[q] \in {Null, rs[q].stmt}
  BY DEF IndInv, QueryParts, SaidParts, SameStatements
<1>1. CASE UNCHANGED vars
  BY <1>1 DEF vars, historyVars, ViewStep
<1>2. CASE Open \/ Close \/ ResetError \/ IsOpen
  BY <1>2 DEF Open, Close, ResetError, IsOpen, LearnNewSession, ConnOnly, historyVars, ViewStep
<1>3. CASE StartTransaction \/ Commit \/ Rollback \/ GetTables \/ GetTableInfo
  BY <1>3 DEF StartTransaction, Commit, Rollback, GetTables, GetTableInfo, Transact, ConnOnly, ViewStep
<1>4. ASSUME NEW q \in Query, Reject(q)
      PROVE  ViewStep
  <2> DEFINE c == CleanupConn(conn, q, rs[q])
  <2>1. view' = [view EXCEPT ![q] = Refused] /\ conn' = SetError(c, "statement")
    BY <1>4 DEF Reject, Take, Outcome
  <2>2. GoodConn(c)
    BY CleanupStmts
  <2> HIDE DEF c
  <2>3. conn'.lastError # "none"
    BY <2>1, <2>2 DEF GoodConn, ConnType, SetError
  <2> QED BY <2>1, <2>3 DEF ViewStep
<1>5. ASSUME NEW q \in Query, Execute(q)
      PROVE  ViewStep
  <2> DEFINE st == rs[q].stmt
             w  == st \in Writes
  <2>1. PICK o \in QueryExecute(conn, q, rs[q]) : Take(q, o) /\ LearnRun(q, o, st)
    BY <1>5 DEF Execute
  <2>2. rs[q].prepared /\ st \in Stmt
    BY <1>5, <1>h DEF Execute, MayExecute, Keeps, AllRules, RSType
  <2>3. Served(conn, o, w) /\ (o.ok => o.rows \in RowsOf("ok", st \in Selects))
    BY <1>0, <1>h, <2>1, <2>2, ExecuteServed
  <2>4. view' = RanView(q, o, st)
    BY <2>1 DEF LearnRun
  <2> HIDE DEF st, w
  <2> QED BY <2>1, <2>3, <2>4, RanViewStep
<1>6. ASSUME NEW q \in Query, NEW st \in Stmt, ExecuteStatement(q, st)
      PROVE  ViewStep
  <2> DEFINE w == st \in Writes
  <2>1. PICK o \in QueryExecuteStatement(conn, q, rs[q], st) :
          Take(q, o) /\ view' = RanView(q, o, st)
    BY <1>6 DEF ExecuteStatement
  <2>2. Served(conn, o, w) /\ (o.ok => o.rows \in RowsOf("ok", st \in Selects))
    BY <1>0, <1>h, <2>1, ExecuteStatementServed
  <2> HIDE DEF w
  <2> QED BY <2>1, <2>2, RanViewStep
<1>7. ASSUME NEW q \in Query, NEW st \in Stmt, Prepare(q, st)
      PROVE  ViewStep
  <2>1. PICK o \in QueryPrepare(conn, q, rs[q], st) : Take(q, o) /\ LearnPrepare(q, o, st)
    BY <1>7 DEF Prepare
  <2>2. Served(conn, o, FALSE)
    BY <1>0, <1>h, <2>1, PrepareServed
  <2>3. /\ view' = [view EXCEPT ![q] = IF o.ok THEN NoView ELSE Refused]
        /\ ~o.ok => conn'.lastError # "none"
    BY <2>1, <2>2 DEF LearnPrepare, Take, Served
  <2> QED BY <2>3 DEF ViewStep
<1>8. ASSUME NEW q \in Query, NextRow(q)
      PROVE  ViewStep
  <2> DEFINE v == view[q]
             r == rs[q]
             f == Fetched(v, HasRow(r), r.at + 1)
  <2>0. obj[q] = "held" /\ v.status # "refused" /\ view' = [view EXCEPT ![q] = f]
    BY <1>8 DEF NextRow, Keeps, AllRules
  <2>1. v \in ViewType /\ r \in RSType /\ Agrees(v, r) /\ view \in [Query -> ViewType]
    BY <2>0 DEF IndInv, QueryParts
  <2>2. /\ HasRow(r) => /\ v.status = "open" /\ v.row + 1 <= v.made
                        /\ f = [v EXCEPT !.row = v.row + 1]
        /\ ~HasRow(r) /\ v.status = "open" => v.row = v.made
        /\ ~HasRow(r) => f = [v EXCEPT !.status = IF @ = "open" THEN "ended" ELSE @]
    BY <2>0, <2>1, NextRowAgrees
  <2> HIDE DEF f
  <2>3. CASE HasRow(r)
    BY <2>0, <2>1, <2>2, <2>3 DEF ViewStep
  <2>4. CASE ~HasRow(r) /\ v.status = "open"
    <3>1. f = [v EXCEPT !.status = "ended"] /\ v.row = v.made
      BY <2>2, <2>4
    <3> QED BY <2>0, <2>1, <2>4, <3>1 DEF ViewStep
  <2>5. CASE ~HasRow(r) /\ v.status # "open"
    <3>1. f = v
      BY <2>1, <2>2, <2>5 DEF ViewType
    <3>2. view' = view
      BY <2>0, <2>1, <3>1
    <3> QED BY <3>2 DEF ViewStep
  <2> QED BY <2>3, <2>4, <2>5
<1>9. ASSUME NEW q \in Query, Free(q) \/ Drop(q) \/ Collect(q)
      PROVE  ViewStep
  BY <1>9 DEF Free, Drop, Collect, ViewStep
<1> QED
  BY <1>1, <1>2, <1>3, <1>4, <1>5, <1>6, <1>7, <1>8, <1>9 DEF Next, Stmt

(***************************************************************************)
(* prepare() and execute(): in every state, for every call that the rules  *)
(* allow and every answer to it, a False comes with an error to look at.   *)
(***************************************************************************)
THEOREM MariaDBFailuresExplained == Rules = AllRules /\ Spec => []FailuresExplained
<1> SUFFICES ASSUME Rules = AllRules PROVE Spec => []FailuresExplained
  OBVIOUS
<1>1. ASSUME IndInv PROVE FailuresExplained
  <2>1. /\ GoodConn(conn)
        /\ \A q \in Query : /\ rs[q] \in RSType
                             /\ conn.server.stmts[q] \in {Null, rs[q].stmt}
    BY <1>1 DEF IndInv, ConnParts, QueryParts, SaidParts, SameStatements
  <2>2. ASSUME NEW q \in Query, NEW st \in Stmt, NEW o \in QueryPrepare(conn, q, rs[q], st)
        PROVE  Explained(o)
    <3>1. Served(conn, o, FALSE)
      BY <2>1, <2>2, PrepareServed
    <3> QED BY <3>1 DEF Served, Explained
  <2>3. ASSUME NEW q \in Query, NEW st \in Stmt,
               NEW o \in QueryExecuteStatement(conn, q, rs[q], st)
        PROVE  Explained(o)
    <3>1. Served(conn, o, st \in Writes)
      BY <2>1, <2>3, ExecuteStatementServed
    <3> QED BY <3>1 DEF Served, Explained
  <2>4. ASSUME NEW q \in Query, MayExecute(q), NEW o \in QueryExecute(conn, q, rs[q])
        PROVE  Explained(o)
    <3>1. rs[q].prepared /\ rs[q].stmt \in Stmt
      BY <2>1, <2>4 DEF MayExecute, Keeps, AllRules, RSType
    <3>2. Served(conn, o, rs[q].stmt \in Writes)
      BY <2>1, <2>4, <3>1, ExecuteServed
    <3> QED BY <3>2 DEF Served, Explained
  <2> QED BY <2>2, <2>3, <2>4 DEF FailuresExplained, Stmt
<1> QED BY <1>1, MariaDBInvariance, PTL

(***************************************************************************)
(* The driver implements RowCursor: the rows of every execution come in    *)
(* order, each once, whatever happens to the connection in between.        *)
(***************************************************************************)
THEOREM MariaDBRowsInOrder == Rules = AllRules /\ Spec => RowsInOrder
<1> SUFFICES ASSUME Rules = AllRules PROVE Spec => RowsInOrder
  OBVIOUS
<1>1. Init => Contract!Init
  BY DEF Init, ClientInit, Contract!Init, Contract!NoCursor, NoView
<1>2. IndInv /\ [Next]_vars => [Contract!Next]_view
  <2>1. IndInv => view \in [Query -> ViewType]
    BY DEF IndInv, QueryParts
  <2> QED BY <2>1, ViewSteps, ViewStepInOrder
<1>3. RowsInOrder <=> Contract!Init /\ [][Contract!Next]_view
  BY DEF RowsInOrder, Contract!Spec
<1> QED BY <1>1, <1>2, <1>3, MariaDBInvariance, PTL DEF Spec

=============================================================================
