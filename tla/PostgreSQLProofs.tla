--------------------------- MODULE PostgreSQLProofs ---------------------------
(***************************************************************************)
(* Proofs about PostgreSQL, for any number of queries, statements, rows and*)
(* writes, with and without lost calls.  They are about clients that keep  *)
(* all the rules.                                                          *)
(***************************************************************************)
EXTENDS PostgreSQL, ServerClientProofs

RowCounts == -1..MaxRows
Indexes   == -2..MaxRows

RSType ==
  [named : BOOLEAN, result : BOOLEAN, rows : RowCounts,
   isActive : BOOLEAN, index : Indexes]

-----------------------------------------------------------------------------
(* The inductive invariant.                                                *)

(* A connection as it is between two calls: a live session has the open    *)
(* flag on its side, a dead one has no transaction, and only an open one   *)
(* has pending writes.                                                     *)
GoodConn(c) ==
  /\ c \in ConnType
  /\ c.server.up => c.isOpen
  /\ c.isOpen => c.handle
  /\ ~c.server.up => c.server.txn = "none"
  /\ c.server.txn # "open" => c.server.pending = 0

(* What the client knows of its transaction is what the server has, until a*)
(* call has failed.  An aborted transaction always shows as an error.      *)
SameTransaction ==
  /\ began = "no" => conn.server.txn = "none" /\ ack.pending = 0
  /\ began = "yes" /\ conn.server.up => conn.server.txn # "none"
  /\ began = "yes" /\ conn.server.txn = "aborted" => conn.lastError # "none"
  /\ began = "yes" /\ conn.server.txn = "open"
       => conn.server.pending = ack.pending

(* Only a query in use has been said to be prepared, or has been executed. *)
OnlyHeld ==
  \A q \in Query : obj[q] # "held" => said[q] = Null /\ view[q] = NoView

(* The stored result agrees with how far its client has come.              *)
Agrees(v, r) ==
  /\ v.status \in {"idle", "ended"} => ~r.isActive
  /\ v.status = "open" /\ ~r.isActive => v.row = v.made
  /\ v.status = "open" /\ r.isActive =>
       /\ r.index \in Int /\ r.rows \in Nat
       /\ r.index >= BeforeFirst /\ r.index < r.rows
       /\ v.row = r.index + 1 /\ v.made = r.rows
       /\ r.index + 1 < r.rows => r.result

(* The queries of the driver itself only ever select.                      *)
DriverSelects ==
  conn.server.up => \A q \in DriverQuery : conn.server.stmts[q] \notin Writes

IndInv ==
  /\ TypeOK
  /\ GoodConn(conn)
  /\ SameTransaction
  /\ OnlyHeld
  /\ DriverSelects
  /\ \A q \in Query : Agrees(view[q], rs[q])
  /\ AckedIsDurable /\ NoPhantomWrites /\ PreparedStays /\ OneSession

-----------------------------------------------------------------------------
(* The answers of the server.                                              *)

(***************************************************************************)
(* What a call may come back with: nothing from a dead connection, a       *)
(* refusal, a lost answer, or success.                                     *)
(***************************************************************************)
LEMMA AskAnswers ==
  ASSUME NEW s, NEW possible, NEW done, NEW a \in Ask(s, possible, done)
  PROVE  \/ ~s.up /\ a = Answer("none", s)
         \/ s.up /\ a = RefusedBy(s)
         \/ s.up /\ a = Answer("lost", Ended(s))
         \/ s.up /\ a = Answer("lost", Ended(done)) /\ possible /\ s.txn # "aborted"
         \/ s.up /\ a = Answer("ok", done) /\ possible /\ s.txn # "aborted"
BY DEF Ask, Lost

LEMMA RefusedSession ==
  ASSUME NEW s \in Sessions(Stmt)
  PROVE  RefusedBy(s).server \in Sessions(Stmt)
BY DEF RolledBack, RefusedBy, Answer, Sessions

(***************************************************************************)
(* A connection before and after a call that writes nothing, and that may  *)
(* only release the statements of the queries in Q or make them x: an open *)
(* transaction may be aborted, which leaves an error, or the session end.  *)
(***************************************************************************)
Untouched(c, d, Q, x) ==
  /\ GoodConn(d)
  /\ d.server.committed = c.server.committed
  /\ d.server.up => c.server.up
  /\ \/ d.server.txn = c.server.txn /\ d.server.pending = c.server.pending
     \/ ~d.server.up /\ d.server.txn = "none"
     \/ c.server.txn = "open" /\ d.server.txn = "aborted"
  /\ d.server.txn = "aborted" /\ (c.server.txn = "aborted" => c.lastError # "none")
       => d.lastError # "none"
  /\ \A p \in Query : d.server.up => \/ d.server.stmts[p] = c.server.stmts[p]
                                     \/ p \in Q /\ d.server.stmts[p] \in {Null, x}

LEMMA UntouchedTrans ==
  ASSUME NEW c, NEW d, NEW e, NEW Q, NEW x,
         Untouched(c, d, Q, x), Untouched(d, e, Q, x)
  PROVE  Untouched(c, e, Q, x)
BY DEF Untouched

LEMMA UntouchedMore ==
  ASSUME NEW c, NEW d, NEW Q, NEW R, R \subseteq Q, NEW x,
         Untouched(c, d, R, Null)
  PROVE  Untouched(c, d, Q, x)
BY DEF Untouched

LEMMA CheckOpenGood ==
  ASSUME NEW c, GoodConn(c)
  PROVE  /\ Untouched(c, CheckOpen(c), {}, Null)
         /\ CheckOpen(c).server = c.server
         /\ CheckOpen(c).lastError = c.lastError
         /\ CheckOpen(c).isOpen <=> c.isOpen /\ c.server.up
BY DEF GoodConn, Untouched, CheckOpen, ConnType

LEMMA SetErrorGood ==
  ASSUME NEW c, GoodConn(c), NEW e \in {"connection", "statement", "transaction"}
  PROVE  /\ Untouched(c, SetError(c, e), {}, Null)
         /\ SetError(c, e).server = c.server
         /\ SetError(c, e).lastError = e
BY DEF GoodConn, Untouched, SetError, ConnType

(***************************************************************************)
(* The connection after an answer that did no work.                        *)
(***************************************************************************)
LEMMA ToldIdle ==
  ASSUME NEW c, GoodConn(c), NEW a,
         \/ a = RefusedBy(c.server)
         \/ a = Answer("lost", Ended(c.server))
  PROVE  /\ Untouched(c, Told(c, a), {}, Null)
         /\ Told(c, a).server = a.server
         /\ Told(c, a).lastError # "none"
         /\ a.reply # "ok"
<1>1. c.server \in Sessions(Stmt)
  BY DEF GoodConn, ConnType
<1>2. a.server \in Sessions(Stmt)
  BY <1>1, SessionOps, RefusedSession DEF Answer
<1>3. a.reply \in {"error", "lost"}
  BY DEF RefusedBy, Answer
<1>4. /\ Told(c, a) = [c EXCEPT !.server = a.server, !.lastError = "statement"]
      /\ Told(c, a) \in ConnType
  BY <1>2, <1>3 DEF Told, GoodConn, ConnType
<1>5. CASE a = RefusedBy(c.server)
  BY <1>1, <1>2, <1>3, <1>4, <1>5
     DEF GoodConn, Untouched, ConnType, Sessions, RefusedBy, RolledBack, Answer
<1>6. CASE a = Answer("lost", Ended(c.server))
  BY <1>1, <1>2, <1>3, <1>4, <1>6
     DEF GoodConn, Untouched, ConnType, Sessions, Ended, NoSession, Answer
<1> QED BY <1>5, <1>6

-----------------------------------------------------------------------------
(* The calls of the driver, through TDatabaseQuery.                        *)

(***************************************************************************)
(* What an answer makes of a live connection: the work is done, which was a*)
(* write or not, or it was refused, or the session is lost.                *)
(***************************************************************************)
Answered(c, a, w) ==
  /\ GoodConn(Told(c, a))
  /\ \/ /\ a.reply = "ok" /\ c.server.txn # "aborted"
        /\ Told(c, a).server = IF w THEN Wrote(c.server) ELSE c.server
     \/ /\ a.reply = "error" /\ Told(c, a).lastError # "none"
        /\ Untouched(c, Told(c, a), {}, Null)
     \/ /\ a.reply = "lost" /\ Told(c, a).lastError # "none"
        /\ ~Told(c, a).server.up /\ Told(c, a).server.txn = "none"
        /\ Told(c, a).server.committed >= c.server.committed

LEMMA RunTold ==
  ASSUME NEW c, GoodConn(c), c.server.up, NEW st \in Stmt,
         NEW a \in AskRun(c.server, st)
  PROVE  Answered(c, a, st \in Writes)
<1> DEFINE s    == c.server
           done == IF st \in Writes THEN Wrote(s) ELSE s
<1>1. s \in Sessions(Stmt) /\ done \in Sessions(Stmt) /\ Ended(done) \in Sessions(Stmt)
  BY SessionOps DEF GoodConn, ConnType
<1>2. PICK possible : a \in Ask(s, possible, done)
  BY DEF AskRun
<1>3. \/ a = RefusedBy(s)
      \/ a = Answer("lost", Ended(s))
      \/ a = Answer("lost", Ended(done))
      \/ a = Answer("ok", done) /\ s.txn # "aborted"
  BY <1>2, AskAnswers
<1>4. CASE a = RefusedBy(s)
  <2>1. a.reply = "error"
    BY <1>4 DEF RefusedBy, Answer
  <2> QED BY <1>4, <2>1, ToldIdle DEF Untouched, Answered
<1>5. CASE a = Answer("lost", Ended(s)) \/ a = Answer("lost", Ended(done))
  <2>1. done.committed >= s.committed /\ s.committed \in Nat
    BY <1>1 DEF Wrote, Sessions
  <2>2. /\ a.reply = "lost" /\ a.server \in Sessions(Stmt)
        /\ ~a.server.up /\ a.server.txn = "none" /\ a.server.pending = 0
        /\ a.server.committed >= s.committed
    <3> HIDE DEF s, done
    <3>1. PICK x \in Sessions(Stmt) :
            a = Answer("lost", Ended(x)) /\ x.committed >= s.committed
      BY <1>1, <1>5, <2>1
    <3> QED BY <3>1, SessionOps DEF Answer, Ended, NoSession
  <2>3. Told(c, a) = [c EXCEPT !.server = a.server, !.lastError = "statement"]
    BY <2>2 DEF Told
  <2> QED BY <2>2, <2>3 DEF GoodConn, ConnType, Answered
<1>6. CASE a = Answer("ok", done) /\ s.txn # "aborted"
  <2>1. Told(c, a) = [c EXCEPT !.server = done, !.lastError = c.lastError]
    BY <1>6 DEF Told, Answer
  <2>2. /\ done.up = s.up
        /\ done.txn # "open" => done.pending = 0
    BY <1>1, <1>6 DEF Wrote, Sessions, GoodConn
  <2>3. GoodConn(Told(c, a)) /\ Told(c, a).server = done
    BY <1>1, <2>1, <2>2 DEF GoodConn, ConnType
  <2> QED BY <1>6, <2>3 DEF Answer, Answered
<1> QED BY <1>3, <1>4, <1>5, <1>6

(***************************************************************************)
(* Running what the server does not have.                                  *)
(***************************************************************************)
LEMMA IdleTold ==
  ASSUME NEW c, GoodConn(c), c.server.up, NEW a \in Ask(c.server, FALSE, c.server)
  PROVE  Answered(c, a, FALSE) /\ a.reply # "ok"
<1>1. a = RefusedBy(c.server) \/ a = Answer("lost", Ended(c.server))
  BY AskAnswers
<1>2. /\ GoodConn(Told(c, a)) /\ Untouched(c, Told(c, a), {}, Null)
      /\ Told(c, a).server = a.server /\ Told(c, a).lastError # "none" /\ a.reply # "ok"
  BY <1>1, ToldIdle DEF Untouched
<1>3. CASE a = RefusedBy(c.server)
  BY <1>2, <1>3 DEF Answered, RefusedBy, Answer
<1>4. CASE a = Answer("lost", Ended(c.server))
  <2>1. c.server \in Sessions(Stmt)
    BY DEF GoodConn, ConnType
  <2>2. a.reply = "lost" /\ ~a.server.up /\ a.server.txn = "none"
    BY <1>4, <2>1 DEF Answer, Ended, NoSession, Sessions
  <2>3. Told(c, a).server.committed >= c.server.committed
    BY <1>2, <2>1 DEF Untouched, Sessions
  <2> QED BY <1>2, <2>2, <2>3 DEF Answered
<1> QED BY <1>1, <1>2, <1>3, <1>4

(***************************************************************************)
(* DEALLOCATE, by prepare and by the finalizer.                            *)
(***************************************************************************)
LEMMA DeallocatedUntouched ==
  ASSUME NEW c, GoodConn(c), NEW q \in Query, NEW named,
         NEW d \in Deallocated(c, q, named)
  PROVE  /\ Untouched(c, d, {q}, Null)
         /\ c.server.up => d.server.up \/ d.lastError # "none"
<1> DEFINE c1   == CheckOpen(c)
           done == [c.server EXCEPT !.stmts[Name(q)] = Null]
<1>1. GoodConn(c1) /\ Untouched(c, c1, {q}, Null) /\ c1.server = c.server
  BY CheckOpenGood, UntouchedMore DEF Untouched
<1>2. CASE d = c \/ d = c1
  BY <1>1, <1>2 DEF Untouched
<1>3. ASSUME NEW a \in AskDeallocate(c1.server, q), d = Told(c1, a), c1.isOpen
      PROVE  /\ Untouched(c, d, {q}, Null)
             /\ d.server.up \/ d.lastError # "none"
  <2>1. c.server.up /\ c1.server.up
    BY <1>1, <1>3, CheckOpenGood
  <2>2. PICK possible : a \in Ask(c1.server, possible, done)
    BY <1>1, <1>3 DEF AskDeallocate
  <2>3. \/ a = RefusedBy(c1.server)
        \/ a = Answer("lost", Ended(c1.server))
        \/ a = Answer("lost", Ended(done))
        \/ a = Answer("ok", done) /\ c1.server.txn # "aborted"
    BY <2>1, <2>2, AskAnswers
  <2>4. Ended(done) = Ended(c1.server)
    BY <1>1 DEF Ended, GoodConn, ConnType, Sessions
  <2>5. CASE a = RefusedBy(c1.server) \/ a = Answer("lost", Ended(c1.server))
    BY <1>1, <1>3, <2>5, ToldIdle, UntouchedMore, UntouchedTrans
  <2>6. CASE a = Answer("ok", done) /\ c1.server.txn # "aborted"
    <3>1. /\ done \in Sessions(Stmt) /\ done.up = c1.server.up
          /\ done.txn = c1.server.txn /\ done.pending = c1.server.pending
          /\ done.committed = c1.server.committed
          /\ \A p \in Query : done.stmts[p] = IF p = q THEN Null ELSE c1.server.stmts[p]
      BY <1>1 DEF GoodConn, ConnType, Sessions, Name
    <3>2. d = [c1 EXCEPT !.server = done, !.lastError = c1.lastError]
      BY <1>3, <2>6 DEF Told, Answer
    <3> HIDE DEF done, c1
    <3>3. Untouched(c1, d, {q}, Null)
      BY <1>1, <2>6, <3>1, <3>2 DEF GoodConn, Untouched, ConnType
    <3>4. d.server.up
      BY <1>1, <2>1, <3>1, <3>2 DEF GoodConn, ConnType
    <3> QED BY <1>1, <3>3, <3>4, UntouchedTrans
  <2> QED BY <2>3, <2>4, <2>5, <2>6
<1> QED BY <1>2, <1>3 DEF Deallocated

(***************************************************************************)
(* How a call came out, for the connection c it was made on: it succeeded  *)
(* and wrote (w) or not, it was refused with an error, or it was lost.     *)
(***************************************************************************)
Served(c, o, w, Q, x) ==
  /\ GoodConn(o.conn)
  /\ \/ /\ o.ok /\ ~o.lost /\ o.conn.lastError = "none"
        /\ c.server.up /\ c.server.txn # "aborted"
        /\ IF w THEN o.conn.server = Wrote(c.server) ELSE Untouched(c, o.conn, Q, x)
     \/ /\ ~o.ok /\ ~o.lost /\ o.conn.lastError # "none"
        /\ Untouched(c, o.conn, Q, x)
     \/ /\ ~o.ok /\ o.lost /\ o.conn.lastError # "none"
        /\ c.server.up /\ ~o.conn.server.up /\ o.conn.server.txn = "none"
        /\ o.conn.server.committed >= c.server.committed

LEMMA NotOpenServed ==
  ASSUME NEW c, GoodConn(c), NEW r, NEW o \in NotOpen(CheckOpen(c), r), NEW w, NEW Q, NEW x
  PROVE  Served(c, o, w, Q, x) /\ ~o.ok /\ o.rs = r
<1>1. o = Outcome(SetError(CheckOpen(c), "connection"), r, "refused", 0)
  BY DEF NotOpen
<1>2. Untouched(c, SetError(CheckOpen(c), "connection"), {}, Null)
  BY CheckOpenGood, SetErrorGood, UntouchedTrans DEF Untouched
<1>3. SetError(CheckOpen(c), "connection").lastError # "none"
  BY CheckOpenGood, SetErrorGood DEF Untouched
<1> QED BY <1>1, <1>2, <1>3, UntouchedMore DEF Served, Outcome, Untouched

LEMMA SettledGood ==
  ASSUME NEW c, GoodConn(c), NEW r, NEW reply, NEW n, NEW o,
         o = SettledOne(Outcome(c, r, reply, n))
  PROVE  /\ o.ok <=> reply = "ok"
         /\ o.lost <=> reply = "lost"
         /\ o.rs = r /\ o.rows = n
         /\ GoodConn(o.conn) /\ o.conn.server = c.server
         /\ reply = "ok" => o.conn.lastError = "none"
         /\ reply # "ok" => o.conn = c
<1>1. c \in ConnType
  BY DEF GoodConn
<1>2. /\ o.conn \in ConnType /\ o.conn.server = c.server
      /\ o.conn.isOpen = c.isOpen /\ o.conn.handle = c.handle
  BY <1>1, SettledFields
<1>3. GoodConn(o.conn)
  BY <1>2 DEF GoodConn
<1> QED BY <1>1, <1>3, SettledFields

(***************************************************************************)
(* From the answer to a statement to what the client gets.                 *)
(***************************************************************************)
ComesTo(c, a, w, r, n, o) ==
  /\ GoodConn(c) /\ CheckOpen(c).isOpen
  /\ Answered(CheckOpen(c), a, w)
  /\ o = SettledOne(Outcome(Told(CheckOpen(c), a), r, a.reply, n))

LEMMA AnswerServed ==
  ASSUME NEW c, NEW w, NEW a, NEW r, NEW n, NEW o, ComesTo(c, a, w, r, n, o)
  PROVE  /\ Served(c, o, w, {}, Null)
         /\ o.ok <=> a.reply = "ok"
         /\ o.rs = r /\ o.rows = n
<1> USE DEF ComesTo
<1> DEFINE c1 == CheckOpen(c)
           d  == Told(c1, a)
<1>1. GoodConn(c1) /\ c1.server = c.server /\ c.server.up /\ Untouched(c, c1, {}, Null)
  BY CheckOpenGood DEF Untouched
<1>2. /\ GoodConn(d)
      /\ \/ /\ a.reply = "ok" /\ c1.server.txn # "aborted"
            /\ d.server = IF w THEN Wrote(c1.server) ELSE c1.server
         \/ /\ a.reply = "error" /\ d.lastError # "none"
            /\ Untouched(c1, d, {}, Null)
         \/ /\ a.reply = "lost" /\ d.lastError # "none"
            /\ ~d.server.up /\ d.server.txn = "none"
            /\ d.server.committed >= c1.server.committed
  BY DEF Answered
<1>3. /\ o.ok <=> a.reply = "ok"
      /\ o.lost <=> a.reply = "lost"
      /\ o.rs = r /\ o.rows = n
      /\ GoodConn(o.conn) /\ o.conn.server = d.server
      /\ a.reply = "ok" => o.conn.lastError = "none"
      /\ a.reply # "ok" => o.conn = d
  BY <1>2, SettledGood
<1> HIDE DEF c1, d
<1>4. CASE a.reply = "ok" /\ w
  BY <1>1, <1>2, <1>3, <1>4 DEF Served
<1>5. CASE a.reply = "ok" /\ ~w
  BY <1>1, <1>2, <1>3, <1>5 DEF Served, Untouched
<1>6. CASE a.reply = "error"
  BY <1>1, <1>2, <1>3, <1>6, UntouchedTrans DEF Served
<1>7. CASE a.reply = "lost"
  BY <1>1, <1>2, <1>3, <1>7 DEF Served
<1> QED BY <1>2, <1>3, <1>4, <1>5, <1>6, <1>7

(***************************************************************************)
(* execute(sql): what the connection and the result set come to.           *)
(***************************************************************************)
LEMMA ExecuteStatementServed ==
  ASSUME NEW c, GoodConn(c), NEW r, NEW st \in Stmt,
         NEW o \in QueryExecuteStatement(c, r, st)
  PROVE  /\ Served(c, o, st \in Writes, {}, Null)
         /\ LET r1 == [r EXCEPT !.isActive = FALSE]
            IN /\ o.ok => /\ o.rows \in RowsOf("ok", st \in Selects)
                          /\ o.rs = IF st \in Selects THEN StoredRS(r1, o.rows) ELSE CleanupRS(r1)
               /\ ~o.ok => o.rs \in {r1, CleanupRS(r1)}
<1> DEFINE c1 == CheckOpen(c)
           r1 == [r EXCEPT !.isActive = FALSE]
<1>1. CASE ~c1.isOpen
  <2>1. o \in NotOpen(c1, r1)
    BY <1>1 DEF QueryExecuteStatement
  <2> QED BY <2>1, NotOpenServed
<1>2. CASE c1.isOpen
  <2>1. PICK p \in DriverExecuteQuery(c1, r1, st) :
          o = SettledOne(p)
    BY <1>2, SettledOutcome DEF QueryExecuteStatement
  <2>2. PICK a \in AskRun(c1.server, st) : \E n \in RowsOf(a.reply, st \in Selects) :
          p = Outcome(Told(c1, a),
                      IF a.reply = "ok" /\ st \in Selects THEN StoredRS(r1, n) ELSE CleanupRS(r1),
                      a.reply, n)
    BY <2>1 DEF DriverExecuteQuery
  <2>n. PICK n \in RowsOf(a.reply, st \in Selects) :
          p = Outcome(Told(c1, a),
                      IF a.reply = "ok" /\ st \in Selects THEN StoredRS(r1, n) ELSE CleanupRS(r1),
                      a.reply, n)
    BY <2>2
  <2> DEFINE rr == IF a.reply = "ok" /\ st \in Selects THEN StoredRS(r1, n) ELSE CleanupRS(r1)
  <2>3. /\ Served(c, o, st \in Writes, {}, Null) /\ (o.ok <=> a.reply = "ok") /\ o.rows = n
        /\ o.rs = rr
    <3>1. o = SettledOne(Outcome(Told(CheckOpen(c), a), rr, a.reply, n))
      BY <2>1, <2>n
    <3> HIDE DEF rr
    <3>2. Answered(c1, a, st \in Writes)
      BY <1>2, <2>2, CheckOpenGood, RunTold DEF Untouched
    <3> DEFINE w == st \in Writes
    <3>3. Answered(c1, a, w)
      BY <3>2
    <3> HIDE DEF w
    <3>4. /\ Served(c, o, w, {}, Null) /\ (o.ok <=> a.reply = "ok") /\ o.rows = n
          /\ o.rs = rr
      <4>1. ComesTo(c, a, w, rr, n, o)
        BY <1>2, <3>1, <3>3 DEF ComesTo
      <4> QED BY <4>1, AnswerServed
    <3> QED BY <3>4 DEF w
  <2> QED BY <2>n, <2>3
<1> QED BY <1>1, <1>2

(***************************************************************************)
(* execute() of a prepared statement.  One that the server does not have,  *)
(* or none at all, is never run.                                           *)
(***************************************************************************)
LEMMA ExecuteServed ==
  ASSUME NEW c, GoodConn(c), NEW q \in Query, NEW r, NEW o \in QueryExecute(c, q, r)
  PROVE  LET st == c.server.stmts[Name(q)]
         IN /\ Served(c, o, st \in Writes, {}, Null)
            /\ o.ok => /\ o.rows \in RowsOf("ok", st \in Selects)
                       /\ o.rs = IF o.rows > 0 THEN StoredRS(r, o.rows) ELSE CleanupRS(r)
            /\ ~o.ok => o.rs \in {r, CleanupRS(r)}
<1> DEFINE c1 == CheckOpen(c)
           st == c.server.stmts[Name(q)]
<1>1. CASE ~c1.isOpen
  <2>1. o \in NotOpen(c1, r)
    BY <1>1 DEF QueryExecute
  <2> QED BY <2>1, NotOpenServed
<1>2. CASE c1.isOpen
  <2>0. /\ GoodConn(c1) /\ c1.server = c.server /\ c.server.up
        /\ st \in Stmt \cup {Null}
    BY <1>2, CheckOpenGood DEF Untouched, GoodConn, ConnType, Sessions, Name
  <2> DEFINE asks == IF r.named THEN AskExecute(c1.server, q)
                     ELSE Ask(c1.server, FALSE, c1.server)
             out(a) == IF a.reply = "none" THEN SetError(c1, "statement") ELSE Told(c1, a)
             rr(n) == IF n > 0 THEN StoredRS(r, n) ELSE CleanupRS(r)
  <2>1. PICK p \in DriverExecute(c1, q, r) : o = SettledOne(p)
    BY <1>2, SettledOutcome DEF QueryExecute
  <2>2. PICK a \in asks : \E n \in RowsOf(a.reply, st \in Selects) :
          p = Outcome(out(a), rr(n), a.reply, n)
    BY <2>0, <2>1 DEF DriverExecute
  <2>3. PICK n \in RowsOf(a.reply, st \in Selects) :
          p = Outcome(out(a), rr(n), a.reply, n)
    BY <2>2
  <2>4. Answered(c1, a, st \in Writes) \/ (Answered(c1, a, FALSE) /\ a.reply # "ok")
    BY <2>0, <2>2, RunTold, IdleTold DEF AskExecute
  <2>5. a.reply # "none"
    BY <2>4 DEF Answered
  <2>6. o = SettledOne(Outcome(Told(CheckOpen(c), a), rr(n), a.reply, n))
    BY <2>1, <2>3, <2>5
  <2> HIDE DEF rr
  <2>7. /\ Served(c, o, st \in Writes, {}, Null) \/ (Served(c, o, FALSE, {}, Null) /\ ~o.ok)
        /\ o.ok <=> a.reply = "ok"
        /\ o.rs = rr(n) /\ o.rows = n
    <3>1. PICK w : Answered(c1, a, w) /\ (w = (st \in Writes) \/ (w = FALSE /\ a.reply # "ok"))
      BY <2>4
    <3>2. Served(c, o, w, {}, Null) /\ (o.ok <=> a.reply = "ok") /\ o.rs = rr(n) /\ o.rows = n
      <4>1. ComesTo(c, a, w, rr(n), n, o)
        BY <1>2, <2>6, <3>1 DEF ComesTo
      <4> QED BY <4>1, AnswerServed
    <3> QED BY <3>1, <3>2
  <2>8. Served(c, o, st \in Writes, {}, Null)
    BY <2>7 DEF Served
  <2>9. ~o.ok => n = 0
    BY <2>7 DEF RowsOf
  <2> QED BY <2>3, <2>7, <2>8, <2>9 DEF rr
<1> QED BY <1>1, <1>2

(***************************************************************************)
(* PREPARE on a live connection.                                           *)
(***************************************************************************)
LEMMA PrepareTold ==
  ASSUME NEW c, GoodConn(c), c.server.up, NEW q \in Query, NEW st \in Stmt,
         NEW a \in AskPrepare(c.server, q, st)
  PROVE  /\ Untouched(c, Told(c, a), {q}, st)
         /\ \/ /\ a.reply = "ok" /\ Told(c, a).server.up
               /\ Told(c, a).server.txn # "aborted"
               /\ Told(c, a).server.stmts[q] = st
            \/ a.reply = "error" /\ Told(c, a).lastError # "none"
            \/ /\ a.reply = "lost" /\ Told(c, a).lastError # "none"
               /\ ~Told(c, a).server.up /\ Told(c, a).server.txn = "none"
<1> DEFINE done == [c.server EXCEPT !.stmts[Name(q)] = st]
<1>1. /\ done \in Sessions(Stmt) /\ done.up = c.server.up
      /\ done.txn = c.server.txn /\ done.pending = c.server.pending
      /\ done.committed = c.server.committed
      /\ \A p \in Query : done.stmts[p] = IF p = q THEN st ELSE c.server.stmts[p]
  BY DEF GoodConn, ConnType, Sessions, Name
<1>2. PICK possible : a \in Ask(c.server, possible, done)
  BY DEF AskPrepare
<1>3. Ended(done) = Ended(c.server)
  BY DEF Ended, GoodConn, ConnType, Sessions
<1>4. \/ a = RefusedBy(c.server)
      \/ a = Answer("lost", Ended(c.server))
      \/ a = Answer("ok", done) /\ c.server.txn # "aborted"
  BY <1>2, <1>3, AskAnswers
<1> HIDE DEF done
<1>5. CASE a = RefusedBy(c.server)
  <2>1. a.reply = "error"
    BY <1>5 DEF RefusedBy, Answer
  <2> QED BY <1>5, <2>1, ToldIdle, UntouchedMore
<1>6. CASE a = Answer("lost", Ended(c.server))
  <2>1. a.reply = "lost" /\ ~a.server.up /\ a.server.txn = "none"
    BY <1>6 DEF Answer, Ended, NoSession, GoodConn, ConnType, Sessions
  <2> QED BY <1>6, <2>1, ToldIdle, UntouchedMore
<1>7. CASE a = Answer("ok", done) /\ c.server.txn # "aborted"
  <2>1. Told(c, a) = [c EXCEPT !.server = done, !.lastError = c.lastError]
    BY <1>7 DEF Told, Answer
  <2>2. Told(c, a).server = done /\ a.reply = "ok"
    BY <1>7, <2>1 DEF GoodConn, ConnType, Answer
  <2>3. Untouched(c, Told(c, a), {q}, st)
    BY <1>1, <1>7, <2>1 DEF GoodConn, Untouched, ConnType
  <2> QED BY <1>1, <1>7, <2>2, <2>3
<1> QED BY <1>4, <1>5, <1>6, <1>7

(***************************************************************************)
(* prepare(): DEALLOCATE of an earlier statement and PREPARE.  When the    *)
(* session is lost at the first the second gets no result at all, and the  *)
(* error is the one of the first.                                          *)
(***************************************************************************)
LEMMA PrepareServed ==
  ASSUME NEW c, GoodConn(c), NEW q \in Query, NEW r, NEW st \in Stmt,
         NEW o \in QueryPrepare(c, q, r, st)
  PROVE  /\ Served(c, o, FALSE, {q}, st)
         /\ o.ok => o.conn.server.up /\ o.conn.server.stmts[q] = st
         /\ LET r1 == [r EXCEPT !.isActive = FALSE]
                r2 == [CleanupRS(r1) EXCEPT !.named = TRUE]
            IN IF o.ok THEN o.rs = r2 ELSE o.rs \in {r1, r2}
<1> DEFINE c1 == CheckOpen(c)
           r1 == [r EXCEPT !.isActive = FALSE]
           r2 == [CleanupRS(r1) EXCEPT !.named = TRUE]
<1>1. CASE ~c1.isOpen
  <2>1. o \in NotOpen(c1, r1)
    BY <1>1 DEF QueryPrepare
  <2>2. Served(c, o, FALSE, {q}, st) /\ ~o.ok /\ o.rs = r1
    BY <2>1, NotOpenServed
  <2> QED BY <2>2
<1>2. CASE c1.isOpen
  <2>1. GoodConn(c1) /\ c1.server = c.server /\ c.server.up /\ Untouched(c, c1, {q}, st)
    BY <1>2, CheckOpenGood, UntouchedMore DEF Untouched
  <2>2. PICK p \in DriverPrepare(c1, q, r1, st) : o = SettledOne(p)
    BY <1>2, SettledOutcome DEF QueryPrepare
  <2>3. PICK c2 \in Deallocated(c1, q, r1.named) :
          \E a \in AskPrepare(c2.server, q, st) : p = Outcome(Told(c2, a), r2, a.reply, 0)
    BY <2>2 DEF DriverPrepare
  <2>4. PICK a \in AskPrepare(c2.server, q, st) : p = Outcome(Told(c2, a), r2, a.reply, 0)
    BY <2>3
  <2>5. Untouched(c1, c2, {q}, st) /\ (c2.server.up \/ c2.lastError # "none")
    BY <2>1, <2>3, DeallocatedUntouched, UntouchedMore
  <2>6. Untouched(c, c2, {q}, st) /\ GoodConn(c2)
    BY <2>1, <2>5, UntouchedTrans DEF Untouched
  <2> DEFINE d == Told(c2, a)
  <2>7. o = SettledOne(Outcome(d, r2, a.reply, 0))
    BY <2>2, <2>4
  <2> HIDE DEF c1, r1, r2
  <2>8. CASE ~c2.server.up
    <3>1. a = Answer("none", c2.server)
      BY <2>4, <2>8 DEF AskPrepare, Ask
    <3>2. d = c2 /\ a.reply = "none"
      BY <2>6, <3>1 DEF Told, Answer, GoodConn, ConnType
    <3>3. /\ ~o.ok /\ ~o.lost /\ o.rs = r2 /\ o.conn = c2
      BY <2>6, <2>7, <3>2, SettledGood
    <3> QED BY <2>5, <2>6, <2>8, <3>3 DEF Served, r2, r1
  <2>9. CASE c2.server.up
    <3>1. /\ Untouched(c2, d, {q}, st)
          /\ \/ /\ a.reply = "ok" /\ d.server.up /\ d.server.txn # "aborted"
                /\ d.server.stmts[q] = st
             \/ a.reply = "error" /\ d.lastError # "none"
             \/ a.reply = "lost" /\ d.lastError # "none" /\ ~d.server.up /\ d.server.txn = "none"
      BY <2>4, <2>6, <2>9, PrepareTold
    <3>2. Untouched(c, d, {q}, st) /\ GoodConn(d)
      BY <2>6, <3>1, UntouchedTrans DEF Untouched
    <3> HIDE DEF d
    <3>3. /\ o.ok <=> a.reply = "ok"
          /\ o.lost <=> a.reply = "lost"
          /\ o.rs = r2
          /\ GoodConn(o.conn) /\ o.conn.server = d.server
          /\ a.reply = "ok" => o.conn.lastError = "none"
          /\ a.reply # "ok" => o.conn = d
      BY <2>7, <3>2, SettledGood
    <3>4. CASE a.reply = "ok"
      <4>1. c.server.txn # "aborted"
        BY <2>1, <3>1, <3>2, <3>4 DEF Untouched
      <4>2. Untouched(c, o.conn, {q}, st)
        BY <3>1, <3>2, <3>3, <3>4 DEF Untouched
      <4> QED BY <2>1, <3>1, <3>3, <3>4, <4>1, <4>2 DEF Served, r1, r2
    <3>5. CASE a.reply = "error"
      BY <3>1, <3>2, <3>3, <3>5 DEF Served, r1, r2
    <3>6. CASE a.reply = "lost"
      <4>1. d.server.committed >= c.server.committed
        BY <3>2 DEF Untouched, GoodConn, ConnType, Sessions
      <4> QED BY <2>1, <3>1, <3>3, <3>6, <4>1 DEF Served, r1, r2
    <3> QED BY <3>1, <3>4, <3>5, <3>6
  <2> QED BY <2>8, <2>9
<1> QED BY <1>1, <1>2

-----------------------------------------------------------------------------
(* The result set.                                                         *)

LEMMA RSOps ==
  ASSUME NEW r \in RSType
  PROVE  /\ [r EXCEPT !.isActive = FALSE] \in RSType
         /\ CleanupRS(r) \in RSType
         /\ [CleanupRS(r) EXCEPT !.named = TRUE] \in RSType
         /\ \A n \in 0..MaxRows : StoredRS(r, n) \in RSType
         /\ NextRowRS(r) \in RSType
         /\ FreshRS \in RSType
         /\ [FreshRS EXCEPT !.named = r.named] \in RSType
<1>0. /\ -1 \in RowCounts /\ 0..MaxRows \subseteq RowCounts
      /\ BeforeFirst \in Indexes /\ AfterLast \in Indexes
  BY ClientAssumption DEF RowCounts, Indexes, BeforeFirst, AfterLast
<1>1. /\ [r EXCEPT !.isActive = FALSE] \in RSType
      /\ CleanupRS(r) \in RSType
      /\ [CleanupRS(r) EXCEPT !.named = TRUE] \in RSType
      /\ [CleanupRS(r) EXCEPT !.index = AfterLast] \in RSType
  BY <1>0 DEF CleanupRS, RSType
<1>2. \A n \in 0..MaxRows : StoredRS(r, n) \in RSType
  <2> SUFFICES ASSUME NEW n \in RowCounts PROVE StoredRS(r, n) \in RSType
    BY <1>0
  <2> QED BY <1>1 DEF StoredRS, RSType
<1>3. FreshRS \in RSType /\ [FreshRS EXCEPT !.named = r.named] \in RSType
  <2>1. 0 \in RowCounts
    BY ClientAssumption DEF RowCounts
  <2> QED BY <1>0, <2>1 DEF FreshRS, RSType
<1>4. CASE HasNextRow(r)
  <2>1. r.index + 1 \in Indexes
    BY <1>4, ClientAssumption DEF HasNextRow, RSType, Indexes, RowCounts
  <2> DEFINE b == r.index + 2 < r.rows
             i == r.index + 1
  <2>2. FetchedRS(r) = [r EXCEPT !.index = i, !.result = b] /\ b \in BOOLEAN /\ i \in Indexes
    BY <2>1 DEF FetchedRS
  <2> HIDE DEF b, i
  <2>3. FetchedRS(r) \in RSType
    BY <2>2 DEF RSType
  <2> QED BY <1>1, <1>2, <1>3, <1>4, <2>3 DEF NextRowRS
<1>5. CASE ~HasNextRow(r)
  <2>1. NextRowRS(r) \in RSType
    BY <1>1, <1>5 DEF NextRowRS
  <2> QED BY <1>1, <1>2, <1>3, <2>1
<1> QED BY <1>4, <1>5

(***************************************************************************)
(* An execution leaves its result set and what its client sees in          *)
(* agreement.                                                              *)
(***************************************************************************)
LEMMA StoredAgrees ==
  ASSUME NEW r \in RSType, NEW n \in 0..MaxRows
  PROVE  /\ Agrees(Started(TRUE, n), StoredRS(r, n))
         /\ Agrees(Started(TRUE, 0), CleanupRS(r))
         /\ Agrees(Started(FALSE, 0), CleanupRS(r))
         /\ Agrees(NoView, [CleanupRS(r) EXCEPT !.named = TRUE])
BY ClientAssumption
   DEF Agrees, Started, StoredRS, CleanupRS, RSType, NoView, BeforeFirst

LEMMA RefusedAgrees ==
  ASSUME NEW r
  PROVE  Agrees(Refused, r)
BY DEF Agrees, Refused, NoView

-----------------------------------------------------------------------------
(* The steps.                                                              *)

(* The invariant taken apart, and put together again.                      *)
LEMMA Parts ==
  ASSUME IndInv
  PROVE  /\ conn \in ConnType /\ conn.server \in Sessions(Stmt)
         /\ obj \in [Query -> {"unused", "held", "garbage"}]
         /\ rs \in [Query -> RSType] /\ view \in [Query -> ViewType]
         /\ said \in [Query -> Stmt \cup {Null}]
         /\ stray = FALSE /\ lost \in BOOLEAN
         /\ ack \in [committed : Nat, pending : Nat]
         /\ began \in {"no", "yes", "failed"}
         /\ \A q \in Query : Agrees(view[q], rs[q])
         /\ \A q \in Query : obj[q] # "held" => said[q] = Null /\ view[q] = NoView
         /\ \A q \in Query : said[q] # Null => conn.server.stmts[q] = said[q]
<1>1. conn \in ConnType /\ conn.server \in Sessions(Stmt)
  BY DEF IndInv, GoodConn, ConnType
<1>2. rs \in [Query -> RSType] /\ view \in [Query -> ViewType]
  BY DEF IndInv, TypeOK, ClientTypeOK, RSType, ViewType, RowCounts, Indexes
<1>3. said \in [Query -> Stmt \cup {Null}]
  BY DEF IndInv, TypeOK, ClientTypeOK, Stmt
<1>4. \A q \in Query : obj[q] # "held" => said[q] = Null /\ view[q] = NoView
  BY DEF IndInv, OnlyHeld
<1>5. \A q \in Query : said[q] # Null => conn.server.stmts[q] = said[q]
  BY DEF IndInv, PreparedStays, Name
<1>6. \A q \in Query : Agrees(view[q], rs[q])
  BY DEF IndInv
<1> QED BY <1>1, <1>2, <1>3, <1>4, <1>5, <1>6 DEF IndInv, TypeOK, ClientTypeOK, OneSession

ConnParts ==
  /\ GoodConn(conn)
  /\ SameTransaction /\ AckedIsDurable /\ NoPhantomWrites /\ OneSession
  /\ stray \in BOOLEAN /\ lost \in BOOLEAN
  /\ ack \in [committed : Nat, pending : Nat]
  /\ began \in {"no", "yes", "failed"}

QueryParts ==
  /\ obj \in [Query -> {"unused", "held", "garbage"}]
  /\ rs \in [Query -> RSType] /\ view \in [Query -> ViewType]
  /\ \A q \in Query : Agrees(view[q], rs[q])
  /\ \A q \in Query : obj[q] # "held" => view[q] = NoView

SaidParts ==
  /\ said \in [Query -> Stmt \cup {Null}]
  /\ \A q \in Query : said[q] # Null => conn.server.stmts[q] = said[q]
  /\ \A q \in Query : obj[q] # "held" => said[q] = Null
  /\ DriverSelects

LEMMA Together ==
  ASSUME ConnParts', QueryParts', SaidParts'
  PROVE  IndInv'
<1>1. GoodConn(conn)' /\ conn' \in ConnType /\ (conn.isOpen => conn.handle)'
  BY DEF ConnParts, GoodConn
<1>2. ClientTypeOK'
  BY <1>1 DEF ConnParts, QueryParts, SaidParts, ClientTypeOK, ConnType, ViewType, Stmt
<1>3. TypeOK'
  BY <1>1, <1>2 DEF TypeOK, QueryParts, RSType, RowCounts, Indexes
<1>4. OnlyHeld'
  BY DEF OnlyHeld, QueryParts, SaidParts
<1>5. PreparedStays'
  BY DEF PreparedStays, SaidParts, Name
<1> QED BY <1>1, <1>3, <1>4, <1>5 DEF IndInv, ConnParts, QueryParts, SaidParts

(***************************************************************************)
(* What a call on a query makes of the connection and of the accounts of   *)
(* its client.                                                             *)
(***************************************************************************)
LEMMA TakeConn ==
  ASSUME IndInv, Rules = AllRules, NEW q \in Query, NEW o, NEW w, NEW Q, NEW x,
         Usable(q), Take(q, o), Served(conn, o, w, Q, x),
         ack' = IF o.ok /\ w THEN AckWrite ELSE ack
  PROVE  ConnParts'
<1> USE DEF ConnParts
<1>1. /\ conn' = o.conn /\ lost' = (lost \/ o.lost)
      /\ began' = IF o.ok THEN began ELSE Spoiled(began)
      /\ stray' = stray
  BY DEF Take
<1>2. began \in {"no", "yes"}
  BY DEF Usable, Keeps, AllRules, IndInv, TypeOK, ClientTypeOK
<1>3. /\ GoodConn(conn) /\ SameTransaction /\ AckedIsDurable /\ NoPhantomWrites
      /\ stray = FALSE /\ lost \in BOOLEAN /\ ack \in [committed : Nat, pending : Nat]
  BY DEF IndInv, TypeOK, ClientTypeOK, OneSession
<1>4. conn.server \in Sessions(Stmt)
  BY <1>3 DEF GoodConn, ConnType
<1>5. CASE o.ok /\ w
  <2>1. conn'.server = Wrote(conn.server) /\ GoodConn(conn') /\ began' = began
    BY <1>1, <1>5 DEF Served
  <2>2. conn.server.up /\ conn.server.txn # "aborted" /\ ~o.lost
    BY <1>5 DEF Served
  <2>3. conn.server.txn = IF began = "no" THEN "none" ELSE "open"
    BY <1>2, <1>3, <1>4, <2>2 DEF SameTransaction, Sessions
  <2>4. ack' = AckWrite
    BY <1>5
  <2>5. CASE began = "no"
    <3>1. /\ conn'.server.committed = conn.server.committed + 1
          /\ conn'.server.pending = conn.server.pending
          /\ conn'.server.txn = "none"
      BY <1>4, <2>1, <2>3, <2>5 DEF Wrote, Sessions
    <3>2. /\ ack'.committed = ack.committed + 1 /\ ack'.pending = ack.pending
          /\ ack' \in [committed : Nat, pending : Nat]
      BY <1>3, <2>4, <2>5 DEF AckWrite
    <3>3. /\ conn.server.committed \in Nat /\ conn.server.pending \in Nat
          /\ ack.committed \in Nat /\ ack.pending \in Nat
      BY <1>3, <1>4 DEF Sessions
    <3>4. SameTransaction'
      BY <1>3, <2>1, <2>5, <3>1, <3>2 DEF SameTransaction
    <3>5. AckedIsDurable' /\ NoPhantomWrites'
      BY <1>1, <1>3, <3>1, <3>2, <3>3 DEF AckedIsDurable, NoPhantomWrites
    <3> QED BY <1>1, <1>2, <1>3, <2>1, <2>2, <2>5, <3>2, <3>4, <3>5 DEF OneSession
  <2>6. CASE began = "yes"
    <3>1. /\ conn'.server.committed = conn.server.committed
          /\ conn'.server.pending = conn.server.pending + 1
          /\ conn'.server.txn = "open"
      BY <1>4, <2>1, <2>3, <2>6 DEF Wrote, Sessions
    <3>2. /\ ack'.committed = ack.committed /\ ack'.pending = ack.pending + 1
          /\ ack' \in [committed : Nat, pending : Nat]
      BY <1>3, <2>4, <2>6 DEF AckWrite
    <3>3. /\ conn.server.committed \in Nat /\ conn.server.pending \in Nat
          /\ ack.committed \in Nat /\ ack.pending \in Nat
      BY <1>3, <1>4 DEF Sessions
    <3> QED BY <1>1, <1>2, <1>3, <2>1, <2>2, <2>3, <2>6, <3>1, <3>2, <3>3
            DEF SameTransaction, AckedIsDurable, NoPhantomWrites, OneSession
  <2> QED BY <1>2, <2>5, <2>6
<1>6. CASE o.ok /\ ~w
  <2>1. Untouched(conn, conn', Q, x) /\ began' = began /\ ack' = ack /\ lost' = lost
    BY <1>1, <1>3, <1>6 DEF Served
  <2>2. conn.server.txn # "aborted"
    BY <1>6 DEF Served
  <2> QED BY <1>1, <1>2, <1>3, <1>4, <2>1, <2>2
          DEF Untouched, SameTransaction, AckedIsDurable, NoPhantomWrites, OneSession
<1>7. CASE ~o.ok
  <2>1. ack' = ack /\ began' = IF began = "yes" THEN "failed" ELSE began
    BY <1>1, <1>7 DEF Spoiled
  <2>2. CASE Untouched(conn, conn', Q, x)
    BY <1>1, <1>2, <1>3, <1>4, <2>1, <2>2
       DEF Untouched, SameTransaction, AckedIsDurable, NoPhantomWrites, OneSession
  <2>3. CASE /\ o.lost /\ conn'.server.txn = "none"
             /\ conn'.server.committed >= conn.server.committed
    <3>1. GoodConn(conn') /\ lost'
      BY <1>1, <2>3 DEF Served
    <3>2. conn'.server \in Sessions(Stmt)
      BY <3>1 DEF GoodConn, ConnType
    <3>3. AckedIsDurable'
      BY <1>3, <1>4, <2>1, <2>3, <3>2 DEF AckedIsDurable, Sessions
    <3> QED BY <1>1, <1>2, <1>3, <2>1, <2>3, <3>1, <3>3
            DEF SameTransaction, NoPhantomWrites, OneSession
  <2> QED BY <1>1, <1>7, <2>2, <2>3 DEF Served
<1> QED BY <1>5, <1>6, <1>7

LEMMA TakeQuery ==
  ASSUME IndInv, NEW q \in Query, NEW o, Take(q, o), o.rs \in RSType,
         NEW v \in ViewType, Agrees(v, o.rs), view' = [view EXCEPT ![q] = v]
  PROVE  QueryParts'
<1>1. /\ obj' = [obj EXCEPT ![q] = "held"]
      /\ rs' = [rs EXCEPT ![q] = o.rs]
  BY DEF Take
<1>2. /\ obj' \in [Query -> {"unused", "held", "garbage"}]
      /\ rs' \in [Query -> RSType] /\ view' \in [Query -> ViewType]
  BY <1>1, Parts
<1>3. ASSUME NEW p \in Query
      PROVE  Agrees(view[p], rs[p])' /\ (obj[p] # "held" => view[p] = NoView)'
  <2>1. CASE p = q
    BY <1>1, <1>2, <2>1, Parts
  <2>2. CASE p # q
    BY <1>1, <1>2, <2>2, Parts
  <2> QED BY <2>1, <2>2
<1> QED BY <1>2, <1>3 DEF QueryParts

(***************************************************************************)
(* The statements of the server after a call, and what the client was told *)
(* of them.                                                                *)
(***************************************************************************)
KeptStmts(c, d, Q, x) ==
  \A p \in Query : d.server.up => \/ d.server.stmts[p] = c.server.stmts[p]
                                  \/ p \in Q /\ d.server.stmts[p] \in {Null, x}

LEMMA ServedStmts ==
  ASSUME NEW c, GoodConn(c), NEW o, NEW w, NEW Q, NEW x, Served(c, o, w, Q, x)
  PROVE  KeptStmts(c, o.conn, Q, x)
<1>1. CASE ~o.conn.server.up
  BY <1>1 DEF KeptStmts
<1>2. CASE Untouched(c, o.conn, Q, x)
  BY <1>2 DEF Untouched, KeptStmts
<1>3. CASE o.conn.server = Wrote(c.server)
  BY <1>3 DEF KeptStmts, Wrote, GoodConn, ConnType, Sessions
<1> QED BY <1>1, <1>2, <1>3 DEF Served

LEMMA SaidStays ==
  ASSUME IndInv, GoodConn(conn)', NEW Q, NEW x, KeptStmts(conn, conn', Q, x),
         conn'.server.up => conn.server.up,
         said' \in [Query -> Stmt \cup {Null}],
         \A p \in Query : p \in Q => said'[p] = Null \/ said'[p] = conn'.server.stmts[p],
         \A p \in Query : p \notin Q => said'[p] = SaidAfter(conn'.server.up)[p],
         \A p \in Query : obj'[p] # "held" => obj[p] # "held" \/ said'[p] = Null,
         \A p \in Q : obj'[p] # "held" => said'[p] = Null,
         Q \cap DriverQuery = {} \/ x \notin Writes
  PROVE  SaidParts'
<1>1. \A p \in Query : said'[p] # Null => conn'.server.stmts[p] = said'[p]
  BY Parts DEF KeptStmts, SaidAfter, NoStmts
<1>2. \A p \in Query : obj'[p] # "held" => said'[p] = Null
  BY Parts DEF SaidAfter, NoStmts
<1>3. DriverSelects'
  <2> SUFFICES ASSUME NEW p \in DriverQuery, conn'.server.up
               PROVE  conn'.server.stmts[p] \notin Writes
    BY DEF DriverSelects
  <2>1. conn.server.stmts[p] \notin Writes /\ p \in Query /\ Null \notin Writes
    BY ClientAssumption DEF IndInv, DriverSelects, DriverQuery
  <2> QED BY <2>1 DEF KeptStmts
<1> QED BY <1>1, <1>2, <1>3 DEF SaidParts

LEMMA RejectStep ==
  ASSUME IndInv, Rules = AllRules, NEW q \in ClientQuery, Reject(q)
  PROVE  IndInv'
<1> DEFINE o == Outcome(SetError(conn, "statement"),
                        [rs[q] EXCEPT !.isActive = FALSE], "refused", 0)
<1>1. Usable(q) /\ Take(q, o) /\ ack' = ack /\ said' = said /\ view' = [view EXCEPT ![q] = Refused]
  BY DEF Reject
<1>2. q \in Query /\ rs[q] \in RSType /\ GoodConn(conn)
  BY Parts, ClientAssumption DEF IndInv
<1>3. /\ Served(conn, o, FALSE, {}, Null) /\ ~o.ok
      /\ o.rs \in RSType /\ o.conn.server = conn.server
  <2>1. /\ Untouched(conn, SetError(conn, "statement"), {}, Null)
        /\ SetError(conn, "statement").server = conn.server
        /\ SetError(conn, "statement").lastError = "statement"
    BY <1>2, SetErrorGood
  <2>2. [rs[q] EXCEPT !.isActive = FALSE] \in RSType
    BY <1>2, RSOps
  <2> QED BY <2>1, <2>2 DEF Outcome, Served, Untouched
<1> HIDE DEF o
<1>4. ConnParts'
  BY <1>1, <1>2, <1>3, TakeConn
<1>5. QueryParts'
  BY <1>1, <1>2, <1>3, TakeQuery, RefusedAgrees, ViewTypes
<1>6. conn'.server = conn.server /\ obj' = [obj EXCEPT ![q] = "held"]
  BY <1>1, <1>3 DEF Take
<1>7. SaidParts'
  BY <1>1, <1>2, <1>6, Parts DEF SaidParts, DriverSelects, IndInv
<1> QED BY <1>4, <1>5, <1>7, Together

LEMMA PrepareStep ==
  ASSUME IndInv, Rules = AllRules, NEW q \in ClientQuery, NEW st \in Stmt, Prepare(q, st)
  PROVE  IndInv'
<1>1. PICK o \in QueryPrepare(conn, q, rs[q], st) : Take(q, o) /\ LearnPrepare(q, o, st)
  BY DEF Prepare
<1>2. Usable(q) /\ q \in Query /\ rs[q] \in RSType /\ GoodConn(conn)
  BY Parts, ClientAssumption DEF IndInv, Prepare
<1> DEFINE r1 == [rs[q] EXCEPT !.isActive = FALSE]
           r2 == [CleanupRS(r1) EXCEPT !.named = TRUE]
<1>3. /\ Served(conn, o, FALSE, {q}, st)
      /\ o.ok => o.conn.server.up /\ o.conn.server.stmts[q] = st
      /\ IF o.ok THEN o.rs = r2 ELSE o.rs \in {r1, r2}
  BY <1>1, <1>2, PrepareServed
<1>4. /\ r1 \in RSType /\ r2 \in RSType /\ Agrees(NoView, r2)
  <2>1. r1 \in RSType
    BY <1>2, RSOps
  <2> HIDE DEF r1
  <2>2. 0 \in 0..MaxRows
    BY ClientAssumption
  <2> QED BY <2>1, <2>2, RSOps, StoredAgrees
<1> HIDE DEF r1, r2
<1>5. ConnParts'
  BY <1>1, <1>2, <1>3, TakeConn DEF LearnPrepare
<1> DEFINE v == IF o.ok THEN NoView ELSE Refused
<1>6. o.rs \in RSType /\ v \in ViewType /\ Agrees(v, o.rs)
  BY <1>3, <1>4, RefusedAgrees, ViewTypes
<1>7. view' = [view EXCEPT ![q] = v]
  BY <1>1 DEF LearnPrepare
<1> HIDE DEF v
<1>8. QueryParts'
  BY <1>1, <1>2, <1>6, <1>7, TakeQuery
<1>9. SaidParts'
  <2>1. KeptStmts(conn, conn', {q}, st) /\ (conn'.server.up => conn.server.up) /\ GoodConn(conn')
    BY <1>1, <1>2, <1>3, ServedStmts DEF Take, Served, Untouched
  <2>2. SaidAfter(conn'.server.up) \in [Query -> Stmt \cup {Null}]
    BY Parts DEF SaidAfter, NoStmts
  <2>3. said' = [SaidAfter(conn'.server.up) EXCEPT ![q] = IF o.ok THEN st ELSE Null]
    BY <1>1 DEF LearnPrepare, Take
  <2>4. /\ said' \in [Query -> Stmt \cup {Null}]
        /\ said'[q] = IF o.ok THEN st ELSE Null
        /\ \A p \in Query : p \notin {q} => said'[p] = SaidAfter(conn'.server.up)[p]
    BY <1>2, <2>2, <2>3
  <2>5. said'[q] = Null \/ said'[q] = conn'.server.stmts[q]
    BY <1>1, <1>3, <2>4 DEF Take
  <2>6. obj' = [obj EXCEPT ![q] = "held"] /\ obj \in [Query -> {"unused", "held", "garbage"}]
    BY <1>1, Parts DEF Take
  <2>7. {q} \cap DriverQuery = {}
    BY DEF DriverQuery
  <2> QED BY <1>2, <2>1, <2>4, <2>5, <2>6, <2>7, SaidStays
<1> QED BY <1>5, <1>8, <1>9, Together

LEMMA RunStep ==
  ASSUME IndInv, Rules = AllRules, NEW q \in ClientQuery, Usable(q), NEW o, NEW st,
         Take(q, o), LearnRun(q, o, st), Served(conn, o, st \in Writes, {}, Null),
         o.rs \in RSType,
         o.ok => o.rows \in 0..MaxRows /\ Agrees(Started(st \in Selects, o.rows), o.rs)
  PROVE  IndInv'
<1>1. q \in Query /\ GoodConn(conn)
  BY ClientAssumption DEF IndInv
<1>2. ConnParts'
  <2> DEFINE w == st \in Writes
  <2>1. ack' = (IF o.ok /\ w THEN AckWrite ELSE ack) /\ Served(conn, o, w, {}, Null)
    BY DEF LearnRun, RanAck
  <2> HIDE DEF w
  <2> QED BY <1>1, <2>1, TakeConn
<1> DEFINE v == IF o.ok THEN Started(st \in Selects, o.rows) ELSE Refused
<1>3. v \in ViewType /\ Agrees(v, o.rs)
  <2>1. CASE o.ok
    <3> DEFINE b == st \in Selects
    <3>1. b \in BOOLEAN /\ v = Started(b, o.rows) /\ Agrees(Started(b, o.rows), o.rs)
      BY <2>1
    <3> HIDE DEF b, v
    <3> QED BY <2>1, <3>1, ViewTypes
  <2>2. CASE ~o.ok
    BY <2>2, ViewTypes, RefusedAgrees
  <2> QED BY <2>1, <2>2
<1>4. view' = [view EXCEPT ![q] = v]
  BY DEF LearnRun, RanView
<1> HIDE DEF v
<1>5. QueryParts'
  BY <1>1, <1>3, <1>4, TakeQuery
<1>6. SaidParts'
  <2>1. KeptStmts(conn, conn', {}, Null) /\ (conn'.server.up => conn.server.up) /\ GoodConn(conn')
    BY <1>1, ServedStmts DEF Take, Served, Untouched, Wrote
  <2>2. said' = SaidAfter(conn'.server.up)
    BY DEF LearnRun, Take
  <2>3. said' \in [Query -> Stmt \cup {Null}]
    BY <2>2, Parts DEF SaidAfter, NoStmts
  <2>4. obj' = [obj EXCEPT ![q] = "held"] /\ obj \in [Query -> {"unused", "held", "garbage"}]
    BY Parts DEF Take
  <2> QED BY <1>1, <2>1, <2>2, <2>3, <2>4, SaidStays
<1> QED BY <1>2, <1>5, <1>6, Together

LEMMA ExecuteStatementStep ==
  ASSUME IndInv, Rules = AllRules, NEW q \in ClientQuery, NEW st \in Stmt,
         ExecuteStatement(q, st)
  PROVE  IndInv'
<1>1. PICK o \in QueryExecuteStatement(conn, rs[q], st) : Take(q, o) /\ LearnRun(q, o, st)
  BY DEF ExecuteStatement
<1>2. Usable(q) /\ q \in Query /\ rs[q] \in RSType /\ GoodConn(conn)
  BY Parts, ClientAssumption DEF IndInv, ExecuteStatement
<1> DEFINE r1 == [rs[q] EXCEPT !.isActive = FALSE]
<1>3. /\ Served(conn, o, st \in Writes, {}, Null)
      /\ o.ok => /\ o.rows \in RowsOf("ok", st \in Selects)
                 /\ o.rs = IF st \in Selects THEN StoredRS(r1, o.rows) ELSE CleanupRS(r1)
      /\ ~o.ok => o.rs \in {r1, CleanupRS(r1)}
  BY <1>1, <1>2, ExecuteStatementServed
<1>4. r1 \in RSType
  BY <1>2, RSOps
<1> HIDE DEF r1
<1>5. o.ok => o.rows \in 0..MaxRows /\ (st \notin Selects => o.rows = 0)
  BY <1>3, ClientAssumption DEF RowsOf
<1>6. o.rs \in RSType
  BY <1>3, <1>4, <1>5, RSOps
<1>7. o.ok => Agrees(Started(st \in Selects, o.rows), o.rs)
  <2>1. CASE o.ok /\ st \in Selects
    <3>1. Started(st \in Selects, o.rows) = Started(TRUE, o.rows)
      BY <2>1 DEF Started
    <3> QED BY <1>3, <1>4, <1>5, <2>1, <3>1, StoredAgrees
  <2>2. CASE o.ok /\ st \notin Selects
    <3>1. Started(st \in Selects, o.rows) = Started(FALSE, 0)
      BY <1>5, <2>2 DEF Started
    <3> QED BY <1>3, <1>4, <1>5, <2>2, <3>1, StoredAgrees
  <2> QED BY <2>1, <2>2
<1> QED BY <1>1, <1>2, <1>3, <1>5, <1>6, <1>7, RunStep

LEMMA ExecuteStep ==
  ASSUME IndInv, Rules = AllRules, NEW q \in ClientQuery, Execute(q)
  PROVE  IndInv'
<1> DEFINE st == conn.server.stmts[Name(q)]
           r  == rs[q]
<1>1. PICK o \in QueryExecute(conn, q, r) : Take(q, o) /\ LearnRun(q, o, st)
  BY DEF Execute
<1>2. Usable(q) /\ q \in Query /\ r \in RSType /\ GoodConn(conn)
  BY Parts, ClientAssumption DEF IndInv, Execute, MayExecute
<1>3. /\ Served(conn, o, st \in Writes, {}, Null)
      /\ o.ok => /\ o.rows \in RowsOf("ok", st \in Selects)
                 /\ o.rs = IF o.rows > 0 THEN StoredRS(r, o.rows) ELSE CleanupRS(r)
      /\ ~o.ok => o.rs \in {r, CleanupRS(r)}
  BY <1>1, <1>2, ExecuteServed
<1> HIDE DEF st, r
<1>5. o.ok => o.rows \in 0..MaxRows /\ (st \notin Selects => o.rows = 0)
  BY <1>3, ClientAssumption DEF RowsOf
<1>6. o.rs \in RSType
  BY <1>2, <1>3, <1>5, RSOps
<1>7. o.ok => Agrees(Started(st \in Selects, o.rows), o.rs)
  <2>1. CASE o.ok /\ st \in Selects
    <3>1. Started(st \in Selects, o.rows) = Started(TRUE, o.rows)
      BY <2>1 DEF Started
    <3>2. o.rows = 0 \/ o.rows > 0
      BY <1>5, <2>1
    <3> QED BY <1>2, <1>3, <1>5, <2>1, <3>1, <3>2, StoredAgrees
  <2>2. CASE o.ok /\ st \notin Selects
    <3>1. Started(st \in Selects, o.rows) = Started(FALSE, 0) /\ ~(o.rows > 0)
      BY <1>5, <2>2 DEF Started
    <3> QED BY <1>2, <1>3, <1>5, <2>2, <3>1, StoredAgrees
  <2> QED BY <2>1, <2>2
<1> QED BY <1>1, <1>2, <1>3, <1>5, <1>6, <1>7, RunStep

(***************************************************************************)
(* A call of which the client is not told how it ended.                    *)
(***************************************************************************)
Quiet(c, d, Q, x) ==
  \/ Untouched(c, d, Q, x)
  \/ /\ GoodConn(d)
     /\ c.server.up /\ ~d.server.up /\ d.server.txn = "none"
     /\ d.server.committed >= c.server.committed

LEMMA ServedQuiet ==
  ASSUME NEW c, NEW o, NEW w, NEW Q, NEW x, Served(c, o, w, Q, x), ~w
  PROVE  Quiet(c, o.conn, Q, x)
BY DEF Served, Quiet

LEMMA QuietTrans ==
  ASSUME NEW c, GoodConn(c), NEW d, NEW e, NEW Q, NEW x, Quiet(c, d, Q, x), Quiet(d, e, {}, Null)
  PROVE  Quiet(c, e, Q, x)
<1>1. GoodConn(d) /\ GoodConn(e)
  BY DEF Quiet, Untouched
<1>2. /\ c.server.committed \in Nat /\ d.server.committed \in Nat /\ e.server.committed \in Nat
  BY <1>1 DEF GoodConn, ConnType, Sessions
<1>3. CASE Untouched(c, d, Q, x) /\ Untouched(d, e, {}, Null)
  <2>1. Untouched(d, e, Q, x)
    BY <1>3, UntouchedMore
  <2> QED BY <1>3, <2>1, UntouchedTrans DEF Quiet
<1>4. CASE ~Untouched(c, d, Q, x) \/ ~Untouched(d, e, {}, Null)
  BY <1>1, <1>2, <1>4 DEF Quiet, Untouched
<1> QED BY <1>3, <1>4

LEMMA QuietConn ==
  ASSUME IndInv, NEW c, NEW Q, NEW x, ConnOnly(c), Quiet(conn, c, Q, x)
  PROVE  /\ ConnParts' /\ GoodConn(conn)'
         /\ KeptStmts(conn, conn', Q, x) /\ (conn'.server.up => conn.server.up)
<1>1. /\ conn' = c /\ lost' = (lost \/ (conn.server.up /\ ~c.server.up))
      /\ stray' = stray /\ ack' = ack /\ began' = began
  BY DEF ConnOnly
<1>2. GoodConn(conn) /\ SameTransaction /\ AckedIsDurable /\ NoPhantomWrites
  BY DEF IndInv
<1>3. /\ lost \in BOOLEAN /\ ack \in [committed : Nat, pending : Nat] /\ stray = FALSE
      /\ began \in {"no", "yes", "failed"} /\ conn.server \in Sessions(Stmt)
      /\ lost' \in BOOLEAN
  BY <1>1, Parts
<1>4. CASE Untouched(conn, c, Q, x)
  <2>1. SameTransaction'
    BY <1>1, <1>2, <1>4 DEF Untouched, SameTransaction
  <2>2. AckedIsDurable' /\ NoPhantomWrites' /\ GoodConn(conn)'
    BY <1>1, <1>2, <1>4 DEF Untouched, AckedIsDurable, NoPhantomWrites
  <2>3. KeptStmts(conn, conn', Q, x) /\ (conn'.server.up => conn.server.up)
    BY <1>1, <1>4 DEF Untouched, KeptStmts
  <2> QED BY <1>1, <1>3, <2>1, <2>2, <2>3 DEF ConnParts, OneSession
<1>5. CASE ~Untouched(conn, c, Q, x)
  <2>1. /\ GoodConn(c) /\ conn.server.up /\ ~c.server.up /\ c.server.txn = "none"
        /\ c.server.committed >= conn.server.committed
    BY <1>5 DEF Quiet
  <2>2. c.server \in Sessions(Stmt)
    BY <2>1 DEF GoodConn, ConnType
  <2>3. AckedIsDurable'
    BY <1>1, <1>2, <1>3, <2>1, <2>2 DEF AckedIsDurable, Sessions
  <2>4. SameTransaction' /\ NoPhantomWrites'
    BY <1>1, <1>2, <1>3, <2>1 DEF SameTransaction, NoPhantomWrites
  <2> QED BY <1>1, <1>3, <2>1, <2>3, <2>4 DEF ConnParts, OneSession, KeptStmts
<1> QED BY <1>4, <1>5

LEMMA IdleQuery ==
  ASSUME IndInv, NEW q \in Query, NEW z \in {"unused", "garbage"}, NEW r \in RSType, ~r.isActive,
         obj' = [obj EXCEPT ![q] = z], rs' = [rs EXCEPT ![q] = r],
         view' = [view EXCEPT ![q] = NoView]
  PROVE  QueryParts'
<1>1. /\ obj' \in [Query -> {"unused", "held", "garbage"}]
      /\ rs' \in [Query -> RSType] /\ view' \in [Query -> ViewType]
  BY Parts, ViewTypes
<1>2. Agrees(NoView, r)
  BY DEF Agrees, NoView
<1>3. ASSUME NEW p \in Query
      PROVE  Agrees(view[p], rs[p])' /\ (obj[p] # "held" => view[p] = NoView)'
  <2>1. CASE p = q
    BY <1>1, <1>2, <2>1, Parts
  <2>2. CASE p # q
    BY <1>1, <2>2, Parts
  <2> QED BY <2>1, <2>2
<1> QED BY <1>1, <1>3 DEF QueryParts

(***************************************************************************)
(* What the client was told of a query that is not in use is nothing, so   *)
(* that a quiet call on it leaves what is known of the others.             *)
(***************************************************************************)
LEMMA QuietSaid ==
  ASSUME IndInv, NEW c, NEW Q, Q \subseteq Query, NEW x, ConnOnly(c), Quiet(conn, c, Q, x),
         \A p \in Q : obj[p] # "held",
         \A p \in Query : obj'[p] # "held" => obj[p] # "held",
         x \notin Writes
  PROVE  SaidParts'
<1>1. /\ GoodConn(conn)' /\ KeptStmts(conn, conn', Q, x) /\ (conn'.server.up => conn.server.up)
  BY QuietConn
<1>2. said' = SaidAfter(conn'.server.up)
  BY DEF ConnOnly
<1>3. said' \in [Query -> Stmt \cup {Null}] /\ \A p \in Q : said'[p] = Null
  BY <1>2, Parts DEF SaidAfter, NoStmts
<1> QED BY <1>1, <1>2, <1>3, SaidStays

LEMMA CollectStep ==
  ASSUME IndInv, NEW q \in Query, Collect(q)
  PROVE  IndInv'
<1>1. PICK c \in Deallocated(conn, q, rs[q].named) : ConnOnly(c)
  BY DEF Collect
<1>2. /\ obj[q] = "garbage" /\ obj' = [obj EXCEPT ![q] = "unused"]
      /\ rs' = [rs EXCEPT ![q] = FreshRS] /\ GoodConn(conn) /\ rs[q] \in RSType
  BY Parts DEF Collect, IndInv
<1>3. Quiet(conn, c, {q}, Null)
  BY <1>1, <1>2, DeallocatedUntouched DEF Quiet
<1>4. ConnParts'
  BY <1>1, <1>3, QuietConn
<1>5. QueryParts'
  <2>1. FreshRS \in RSType /\ ~FreshRS.isActive
    BY <1>2, RSOps DEF FreshRS
  <2>2. view' = [view EXCEPT ![q] = NoView]
    BY <1>1, <1>2, Parts DEF ConnOnly
  <2> QED BY <1>2, <2>1, <2>2, IdleQuery
<1>6. SaidParts'
  <2>1. /\ \A p \in {q} : obj[p] # "held"
        /\ \A p \in Query : obj'[p] # "held" => obj[p] # "held"
        /\ Null \notin Writes
    BY <1>2, Parts, ClientAssumption
  <2> QED BY <1>1, <1>3, <2>1, QuietSaid
<1> QED BY <1>4, <1>5, <1>6, Together

(***************************************************************************)
(* The calls that leave the queries of the client alone.                   *)
(***************************************************************************)
LEMMA SameQueries ==
  ASSUME IndInv, UNCHANGED <<obj, rs, view>>
  PROVE  QueryParts'
BY Parts DEF QueryParts

LEMMA QuietStep ==
  ASSUME IndInv, NEW c, ConnOnly(c), Quiet(conn, c, {}, Null), UNCHANGED <<obj, rs>>
  PROVE  IndInv'
<1>1. ConnParts' /\ view' = view
  BY QuietConn DEF ConnOnly
<1>2. QueryParts'
  BY <1>1, SameQueries
<1>3. SaidParts'
  BY QuietSaid, ClientAssumption
<1> QED BY <1>1, <1>2, <1>3, Together

LEMMA IsOpenStep ==
  ASSUME IndInv, IsOpen
  PROVE  IndInv'
<1>1. Quiet(conn, CheckOpen(conn), {}, Null)
  BY CheckOpenGood DEF Quiet, IndInv
<1>2. ConnOnly(CheckOpen(conn)) /\ UNCHANGED <<obj, rs>>
  BY DEF IsOpen
<1> QED BY <1>1, <1>2, QuietStep

LEMMA GetTablesStep ==
  ASSUME IndInv, GetTables
  PROVE  IndInv'
<1>1. PICK st \in Selects :
        \E o \in QueryExecuteStatement(conn, FreshRS, st) : ConnOnly(o.conn)
  BY DEF GetTables
<1>2. PICK o \in QueryExecuteStatement(conn, FreshRS, st) : ConnOnly(o.conn)
  BY <1>1
<1>3. st \in Stmt /\ st \notin Writes
  BY ClientAssumption DEF Stmt
<1>4. Served(conn, o, st \in Writes, {}, Null)
  BY <1>2, <1>3, ExecuteStatementServed DEF IndInv
<1>5. Quiet(conn, o.conn, {}, Null)
  BY <1>3, <1>4 DEF Served, Quiet
<1>6. UNCHANGED <<obj, rs>>
  BY DEF GetTables
<1> QED BY <1>2, <1>5, <1>6, QuietStep

LEMMA TableExistsStep ==
  ASSUME IndInv, NEW q \in DriverQuery, TableExists(q)
  PROVE  IndInv'
<1>0. /\ q \in Query /\ obj[q] = "unused" /\ obj' = [obj EXCEPT ![q] = "garbage"]
      /\ GoodConn(conn) /\ rs[q] \in RSType
  BY Parts DEF DriverQuery, TableExists, IndInv
<1>1. PICK st \in Selects : \E p \in QueryPrepare(conn, q, FreshRS, st) :
         \E o \in QueryExecute(p.conn, q, p.rs) :
           /\ ConnOnly(o.conn)
           /\ rs' = [rs EXCEPT ![q] = [FreshRS EXCEPT !.named = p.rs.named]]
  BY DEF TableExists
<1>2. PICK p \in QueryPrepare(conn, q, FreshRS, st) :
         \E o \in QueryExecute(p.conn, q, p.rs) :
           /\ ConnOnly(o.conn)
           /\ rs' = [rs EXCEPT ![q] = [FreshRS EXCEPT !.named = p.rs.named]]
  BY <1>1
<1>3. PICK o \in QueryExecute(p.conn, q, p.rs) :
           /\ ConnOnly(o.conn)
           /\ rs' = [rs EXCEPT ![q] = [FreshRS EXCEPT !.named = p.rs.named]]
  BY <1>2
<1>4. st \in Stmt /\ st \notin Writes /\ Null \notin Writes
  BY ClientAssumption DEF Stmt
<1> DEFINE r1 == [FreshRS EXCEPT !.isActive = FALSE]
           r2 == [CleanupRS(r1) EXCEPT !.named = TRUE]
<1>5. /\ Served(conn, p, FALSE, {q}, st)
      /\ p.rs \in {r1, r2}
  BY <1>0, <1>2, <1>4, PrepareServed
<1>6. p.rs \in RSType
  <2>1. FreshRS \in RSType
    BY <1>0, RSOps
  <2>2. r1 \in RSType
    BY <2>1, RSOps
  <2> HIDE DEF r1
  <2>3. r2 \in RSType
    BY <2>2, RSOps
  <2> QED BY <1>5, <2>2, <2>3
<1> HIDE DEF r1, r2
<1>7. GoodConn(p.conn) /\ Quiet(conn, p.conn, {q}, st)
  BY <1>5, ServedQuiet DEF Served
<1> DEFINE ps == p.conn.server.stmts[Name(q)]
<1>8. Served(p.conn, o, ps \in Writes, {}, Null)
  BY <1>0, <1>3, <1>7, ExecuteServed
<1>9. p.conn.server.up => ps \notin Writes
  <2> SUFFICES ASSUME p.conn.server.up PROVE ps \notin Writes
    OBVIOUS
  <2>1. conn.server.up /\ KeptStmts(conn, p.conn, {q}, st)
    BY <1>0, <1>5, ServedStmts DEF Served, Untouched
  <2>2. conn.server.stmts[q] \notin Writes
    BY <2>1 DEF IndInv, DriverSelects
  <2> QED BY <1>0, <1>4, <2>1, <2>2 DEF KeptStmts, Name
<1>10. Quiet(p.conn, o.conn, {}, Null)
  <2> HIDE DEF ps
  <2> QED BY <1>8, <1>9 DEF Served, Quiet
<1>11. Quiet(conn, o.conn, {q}, st)
  BY <1>0, <1>7, <1>10, QuietTrans
<1>12. ConnParts'
  BY <1>3, <1>11, QuietConn
<1>13. QueryParts'
  <2>1. /\ [FreshRS EXCEPT !.named = p.rs.named] \in RSType
        /\ ~[FreshRS EXCEPT !.named = p.rs.named].isActive
    BY <1>6, RSOps DEF FreshRS
  <2>2. view' = [view EXCEPT ![q] = NoView]
    BY <1>0, <1>3, Parts DEF ConnOnly
  <2> DEFINE r == [FreshRS EXCEPT !.named = p.rs.named]
  <2>3. r \in RSType /\ ~r.isActive /\ rs' = [rs EXCEPT ![q] = r]
    BY <1>3, <2>1
  <2> HIDE DEF r
  <2> QED BY <1>0, <2>2, <2>3, IdleQuery
<1>14. SaidParts'
  <2>1. /\ \A pp \in {q} : obj[pp] # "held"
        /\ \A pp \in Query : obj'[pp] # "held" => obj[pp] # "held"
    BY <1>0, Parts
  <2> QED BY <1>0, <1>3, <1>4, <1>11, <2>1, QuietSaid
<1> QED BY <1>12, <1>13, <1>14, Together

LEMMA ResetErrorStep ==
  ASSUME IndInv, Rules = AllRules, ResetError
  PROVE  IndInv'
<1>1. /\ began = "no" /\ conn' = [conn EXCEPT !.lastError = "none"]
      /\ UNCHANGED <<obj, rs, stray, ack, began, view, said, lost>>
  BY DEF ResetError, Keeps, AllRules, SetError, historyVars
<1>2. GoodConn(conn)' /\ conn'.server = conn.server
  BY <1>1 DEF IndInv, GoodConn, ConnType
<1>3. ConnParts'
  BY <1>1, <1>2, Parts
     DEF IndInv, ConnParts, SameTransaction, AckedIsDurable, NoPhantomWrites, OneSession
<1>4. QueryParts'
  BY <1>1, SameQueries
<1>5. SaidParts'
  BY <1>1, <1>2, Parts DEF IndInv, SaidParts, DriverSelects
<1> QED BY <1>3, <1>4, <1>5, Together

(* A step that leaves the connection and the transactions alone.           *)
LEMMA SameConn ==
  ASSUME IndInv, UNCHANGED <<conn, stray, ack, began, lost>>
  PROVE  ConnParts'
BY Parts DEF IndInv, ConnParts, SameTransaction, AckedIsDurable, NoPhantomWrites, OneSession

LEMMA DropStep ==
  ASSUME IndInv, NEW q \in ClientQuery, Drop(q)
  PROVE  IndInv'
<1>1. q \in Query /\ rs[q] \in RSType
  BY Parts, ClientAssumption
<1>2. ConnParts'
  BY SameConn DEF Drop
<1> DEFINE r == [FreshRS EXCEPT !.named = rs[q].named]
<1>3. /\ r \in RSType /\ ~r.isActive /\ rs' = [rs EXCEPT ![q] = r]
      /\ obj' = [obj EXCEPT ![q] = "garbage"] /\ view' = [view EXCEPT ![q] = NoView]
      /\ said' = [said EXCEPT ![q] = Null] /\ conn' = conn
  BY <1>1, RSOps DEF Drop, FreshRS
<1> HIDE DEF r
<1>4. QueryParts'
  BY <1>1, <1>3, IdleQuery
<1>5. SaidParts'
  BY <1>1, <1>3, Parts DEF IndInv, SaidParts, DriverSelects
<1> QED BY <1>2, <1>4, <1>5, Together

(***************************************************************************)
(* nextRow() keeps the result set and what its client sees in agreement.   *)
(***************************************************************************)
LEMMA NextRowAgrees ==
  ASSUME NEW r \in RSType, NEW v \in ViewType, Agrees(v, r), v.status # "refused",
         NEW f, f = Fetched(v, HasNextRow(r), IF r.result THEN r.index + 2 ELSE 0)
  PROVE  /\ Agrees(f, NextRowRS(r)) /\ f \in ViewType
         /\ HasNextRow(r) => /\ v.status = "open" /\ v.row + 1 <= v.made
                             /\ f = [v EXCEPT !.row = v.row + 1]
         /\ ~HasNextRow(r) /\ v.status = "open" => v.row = v.made
         /\ ~HasNextRow(r) => f = [v EXCEPT !.status = IF @ = "open" THEN "ended" ELSE @]
<1>1. r.index \in Int /\ r.rows \in Int /\ r.isActive \in BOOLEAN /\ r.result \in BOOLEAN
  BY ClientAssumption DEF RSType, Indexes, RowCounts
<1>2. v.status \in {"idle", "open", "ended"} /\ v.row \in Nat /\ v.made \in Nat
  BY DEF ViewType
<1>3. CASE HasNextRow(r)
  <2>1. r.isActive /\ r.index < r.rows - 1 /\ NextRowRS(r) = FetchedRS(r)
    BY <1>3 DEF HasNextRow, NextRowRS
  <2>2. v.status = "open"
    BY <1>2, <2>1 DEF Agrees
  <2>3. /\ r.index >= -1 /\ r.index < r.rows /\ r.rows \in Nat
        /\ v.row = r.index + 1 /\ v.made = r.rows /\ r.result
    BY <1>1, <2>1, <2>2 DEF Agrees, BeforeFirst
  <2>4. f = [v EXCEPT !.row = v.row + 1]
    BY <1>1, <1>3, <2>3 DEF Fetched
  <2>5. f \in ViewType /\ f.status = "open" /\ f.row = v.row + 1 /\ f.made = v.made
    BY <1>2, <2>2, <2>4 DEF ViewType
  <2>6. /\ FetchedRS(r).isActive /\ FetchedRS(r).index = r.index + 1
        /\ FetchedRS(r).rows = r.rows /\ (r.index + 2 < r.rows => FetchedRS(r).result)
    BY <2>1 DEF FetchedRS, RSType
  <2>7. Agrees(f, FetchedRS(r))
    BY <1>1, <2>1, <2>3, <2>5, <2>6 DEF Agrees, BeforeFirst
  <2>8. v.row + 1 <= v.made
    BY <1>1, <1>2, <2>1, <2>3
  <2> QED BY <1>3, <2>1, <2>2, <2>4, <2>5, <2>7, <2>8, Zenon
<1>4. CASE ~HasNextRow(r)
  <2>1. f = [v EXCEPT !.status = IF @ = "open" THEN "ended" ELSE @]
    BY <1>4 DEF Fetched
  <2>2. f \in ViewType /\ f.status \in {"idle", "ended"}
    BY <1>2, <2>1 DEF ViewType
  <2>3. v.status = "open" => v.row = v.made /\ (r.isActive => r.index # AfterLast)
    BY <1>1, <1>2, <1>4 DEF Agrees, HasNextRow, BeforeFirst, AfterLast
  <2>4. ~NextRowRS(r).isActive
    BY <1>1, <1>2, <1>4, <2>3 DEF NextRowRS, CleanupRS, RSType, Agrees
  <2>5. Agrees(f, NextRowRS(r))
    BY <2>2, <2>4 DEF Agrees
  <2> QED BY <1>4, <2>1, <2>2, <2>3, <2>5
<1> QED BY <1>3, <1>4

LEMMA NextRowStep ==
  ASSUME IndInv, Rules = AllRules, NEW q \in ClientQuery, NextRow(q)
  PROVE  IndInv'
<1>1. /\ q \in Query /\ rs[q] \in RSType /\ view[q] \in ViewType /\ Agrees(view[q], rs[q])
  BY Parts, ClientAssumption
<1> DEFINE f == Fetched(view[q], HasNextRow(rs[q]), IF rs[q].result THEN rs[q].index + 2 ELSE 0)
           r == NextRowRS(rs[q])
<1>2. /\ obj[q] = "held" /\ view[q].status # "refused"
      /\ rs' = [rs EXCEPT ![q] = r] /\ view' = [view EXCEPT ![q] = f]
      /\ UNCHANGED <<conn, obj, stray, ack, began, said, lost>>
  BY DEF NextRow, Keeps, AllRules
<1>3. Agrees(f, r) /\ f \in ViewType /\ r \in RSType
  BY <1>1, <1>2, NextRowAgrees, RSOps
<1> HIDE DEF f, r
<1>4. ConnParts'
  BY <1>2, SameConn
<1>5. QueryParts'
  <2>1. /\ rs' \in [Query -> RSType] /\ view' \in [Query -> ViewType]
        /\ obj' \in [Query -> {"unused", "held", "garbage"}]
    BY <1>2, <1>3, Parts
  <2>2. ASSUME NEW p \in Query
        PROVE  Agrees(view[p], rs[p])' /\ (obj[p] # "held" => view[p] = NoView)'
    <3>1. CASE p = q
      BY <1>2, <1>3, <2>1, <3>1, Parts
    <3>2. CASE p # q
      BY <1>2, <2>1, <3>2, Parts
    <3> QED BY <3>1, <3>2
  <2> QED BY <2>1, <2>2 DEF QueryParts
<1>6. SaidParts'
  BY <1>2, Parts DEF IndInv, SaidParts, DriverSelects
<1> QED BY <1>4, <1>5, <1>6, Together

(***************************************************************************)
(* A new session, or none: nothing is left of the old one on either side.  *)
(***************************************************************************)
LEMMA NewSession ==
  ASSUME IndInv, LearnNewSession, UNCHANGED <<obj, rs>>, GoodConn(conn)', stray' = FALSE,
         conn'.server.txn = "none", conn'.server.committed = conn.server.committed,
         \A q \in Query : conn'.server.up => conn'.server.stmts[q] = Null
  PROVE  IndInv'
<1>1. /\ began' = "no" /\ view' = view /\ lost' = lost /\ said' = NoStmts
      /\ ack' = [ack EXCEPT !.pending = 0]
  BY DEF LearnNewSession, AckRollback
<1>2. ack' \in [committed : Nat, pending : Nat] /\ ack'.pending = 0 /\ ack'.committed = ack.committed
  BY <1>1, Parts
<1>3. ConnParts'
  BY <1>1, <1>2, Parts
     DEF IndInv, ConnParts, SameTransaction, AckedIsDurable, NoPhantomWrites, OneSession
<1>4. QueryParts'
  BY <1>1, SameQueries
<1>5. SaidParts'
  BY <1>1, ClientAssumption DEF SaidParts, NoStmts, DriverSelects, DriverQuery
<1> QED BY <1>3, <1>4, <1>5, Together

LEMMA ClosedGood ==
  ASSUME NEW c, GoodConn(c)
  PROVE  /\ GoodConn(ClosedConn(c)) /\ ~ClosedConn(c).server.up
         /\ ClosedConn(c).server.txn = "none"
         /\ ClosedConn(c).server.committed = c.server.committed
<1>1. c \in ConnType /\ c.server \in Sessions(Stmt)
  BY DEF GoodConn, ConnType
<1>2. /\ Ended(c.server) \in Sessions(Stmt) /\ ~Ended(c.server).up
      /\ Ended(c.server).txn = "none" /\ Ended(c.server).pending = 0
      /\ Ended(c.server).committed = c.server.committed
  BY <1>1, SessionOps DEF Ended, NoSession
<1>3. CASE c.isOpen
  <2>1. ClosedConn(c) = [c EXCEPT !.isOpen = FALSE, !.handle = FALSE, !.server = Ended(c.server)]
    BY <1>3 DEF ClosedConn
  <2> QED BY <1>1, <1>2, <2>1 DEF GoodConn, ConnType
<1>4. CASE ~c.isOpen
  BY <1>4 DEF ClosedConn, GoodConn
<1> QED BY <1>3, <1>4

LEMMA CloseStep ==
  ASSUME IndInv, Close
  PROVE  IndInv'
<1>1. /\ conn' = ClosedConn(conn) /\ LearnNewSession /\ UNCHANGED <<obj, rs>> /\ stray' = stray
  BY DEF Close
<1>2. GoodConn(conn) /\ stray = FALSE
  BY Parts DEF IndInv
<1> QED BY <1>1, <1>2, ClosedGood, NewSession

LEMMA OpenStep ==
  ASSUME IndInv, Open
  PROVE  IndInv'
<1> DEFINE c == ClosedConn(conn)
<1>1. /\ stray' = (stray \/ c.server.up)
      /\ \/ conn' = [c EXCEPT !.isOpen = TRUE, !.handle = TRUE, !.server = Connected(c.server)]
         \/ conn' = [c EXCEPT !.isOpen = FALSE, !.handle = FALSE,
                              !.lastError = "connection", !.server = Ended(c.server)]
      /\ LearnNewSession /\ UNCHANGED <<obj, rs>>
  BY DEF Open, ReadyConn
<1>2. /\ GoodConn(c) /\ ~c.server.up /\ c.server.committed = conn.server.committed
      /\ stray = FALSE
  BY ClosedGood, Parts DEF IndInv
<1> HIDE DEF c
<1>3. c \in ConnType /\ c.server \in Sessions(Stmt)
  BY <1>2 DEF GoodConn, ConnType
<1>4. PICK s \in {Connected(c.server), Ended(c.server)} :
        \/ conn' = [c EXCEPT !.isOpen = TRUE, !.handle = TRUE, !.server = s]
        \/ /\ conn' = [c EXCEPT !.isOpen = FALSE, !.handle = FALSE,
                                !.lastError = "connection", !.server = s]
           /\ ~s.up
  BY <1>1 DEF Ended, NoSession
<1>5. /\ s \in Sessions(Stmt) /\ s.txn = "none" /\ s.pending = 0
      /\ s.committed = c.server.committed /\ s.stmts = NoStmts
  BY <1>3, <1>4, SessionOps DEF Connected, Ended, NoSession
<1>6. GoodConn(conn)' /\ conn'.server = s
  BY <1>3, <1>4, <1>5 DEF GoodConn, ConnType
<1>7. \A q \in Query : conn'.server.stmts[q] = Null
  BY <1>5, <1>6 DEF NoStmts
<1> QED BY <1>1, <1>2, <1>5, <1>6, <1>7, NewSession

-----------------------------------------------------------------------------
(* Transactions.                                                           *)

(* An answer to a command of a transaction: no statement is touched.       *)
KeepsSession(s, a) ==
  /\ a.server \in Sessions(Stmt)
  /\ a.server.up => s.up /\ a.server.stmts = s.stmts
  /\ ~a.server.up => a.server.txn = "none"
  /\ a.server.txn # "open" => a.server.pending = 0

LEMMA TransactParts ==
  ASSUME IndInv, NEW a, Transact(a), KeepsSession(conn.server, a)
  PROVE  /\ GoodConn(conn)' /\ QueryParts' /\ SaidParts'
         /\ conn'.server = a.server
         /\ a.reply # "ok" => conn'.lastError = "transaction"
         /\ a.reply = "ok" => conn'.lastError = conn.lastError
         /\ lost' = (lost \/ a.reply = "lost") /\ stray' = FALSE
<1>1. /\ conn.isOpen /\ lost' = (lost \/ a.reply = "lost")
      /\ conn' = [conn EXCEPT !.server = a.server,
                    !.lastError = IF a.reply = "ok" THEN conn.lastError ELSE "transaction"]
      /\ said' = SaidAfter(a.server.up) /\ UNCHANGED <<obj, rs, stray, view>>
  BY DEF Transact, TxnTold
<1>2. /\ GoodConn(conn)' /\ conn'.server = a.server
      /\ a.reply # "ok" => conn'.lastError = "transaction"
      /\ a.reply = "ok" => conn'.lastError = conn.lastError
  BY <1>1 DEF IndInv, GoodConn, ConnType, KeepsSession
<1>3. QueryParts'
  BY <1>1, SameQueries
<1>4. KeptStmts(conn, conn', {}, Null) /\ (conn'.server.up => conn.server.up)
  BY <1>2 DEF KeptStmts, KeepsSession
<1>5. said' \in [Query -> Stmt \cup {Null}]
  BY <1>1, Parts DEF SaidAfter, NoStmts
<1>6. SaidParts'
  BY <1>1, <1>2, <1>4, <1>5, SaidStays
<1> QED BY <1>1, <1>2, <1>3, <1>6, Parts

(* The answers to BEGIN, COMMIT and ROLLBACK.                              *)
LEMMA TxnAnswers ==
  ASSUME NEW c, GoodConn(c), NEW s, s = c.server
  PROVE  /\ KeepsSession(s, Answer("none", s)) /\ KeepsSession(s, Answer("ok", s))
         /\ KeepsSession(s, Answer("error", s))
         /\ s.up => KeepsSession(s, Answer("ok", Began(s)))
         /\ s.up => KeepsSession(s, Answer("ok", RolledBack(s)))
         /\ s.up => KeepsSession(s, Answer("error", RolledBack(s)))
         /\ s.up => KeepsSession(s, Answer("ok", Committed(s)))
         /\ \A x \in Sessions(Stmt) : KeepsSession(s, Answer("lost", Ended(x)))
<1>1. s \in Sessions(Stmt)
  BY DEF GoodConn, ConnType
<1>2. /\ Began(s) \in Sessions(Stmt) /\ RolledBack(s) \in Sessions(Stmt)
      /\ Committed(s) \in Sessions(Stmt)
  BY <1>1, SessionOps
<1>3. \A x \in Sessions(Stmt) : KeepsSession(s, Answer("lost", Ended(x)))
  BY SessionOps DEF KeepsSession, Answer, Ended, NoSession
<1>4. /\ s.up => KeepsSession(s, Answer("ok", Began(s)))
      /\ s.up => KeepsSession(s, Answer("ok", RolledBack(s)))
      /\ s.up => KeepsSession(s, Answer("error", RolledBack(s)))
  BY <1>1, <1>2 DEF KeepsSession, Answer, Began, RolledBack, Sessions
<1>5. s.up => KeepsSession(s, Answer("ok", Committed(s)))
  <2>1. /\ Committed(s).up = s.up /\ Committed(s).stmts = s.stmts
        /\ Committed(s).txn = "none" /\ Committed(s).pending = 0
    BY <1>1 DEF Committed, RolledBack, Sessions
  <2> QED BY <1>2, <2>1 DEF KeepsSession, Answer
<1>6. /\ KeepsSession(s, Answer("none", s)) /\ KeepsSession(s, Answer("ok", s))
      /\ KeepsSession(s, Answer("error", s))
  BY <1>1 DEF KeepsSession, Answer, GoodConn
<1> QED BY <1>3, <1>4, <1>5, <1>6

LEMMA TransactStep ==
  ASSUME IndInv, NEW a, Transact(a), KeepsSession(conn.server, a),
         SameTransaction', AckedIsDurable', NoPhantomWrites',
         ack' \in [committed : Nat, pending : Nat], began' \in {"no", "yes", "failed"}
  PROVE  IndInv'
<1>1. ConnParts' /\ QueryParts' /\ SaidParts'
  BY TransactParts, Parts DEF ConnParts, OneSession
<1> QED BY <1>1, Together

LEMMA StartTransactionStep ==
  ASSUME IndInv, Rules = AllRules, StartTransaction
  PROVE  IndInv'
<1> DEFINE s == conn.server
<1>1. PICK a \in AskBegin(s) : Transact(a) /\ LearnStart(a.reply = "ok")
  BY DEF StartTransaction
<1>2. /\ began \in {"no", "yes"} /\ GoodConn(conn) /\ s \in Sessions(Stmt)
      /\ SameTransaction /\ AckedIsDurable /\ NoPhantomWrites /\ lost \in BOOLEAN
  BY Parts DEF StartTransaction, MayStart, Keeps, AllRules, IndInv
<1>3. \/ a = Answer("ok", s) /\ s.txn = "open"
      \/ a = Answer("ok", Began(s)) /\ s.up /\ s.txn = "none"
      \/ a = Answer("lost", Ended(s)) \/ a = Answer("lost", Ended(Began(s)))
      \/ a = Answer("none", s) /\ ~s.up
      \/ a = Answer("error", s) /\ s.txn # "open"
  <2>1. CASE s.txn = "open"
    BY <1>1, <2>1 DEF AskBegin, Lost
  <2>2. CASE s.txn # "open"
    <3>1. a \in Ask(s, TRUE, Began(s)) /\ s.txn \in {"none", "aborted"} /\ RefusedBy(s) = Answer("error", s)
      BY <1>1, <1>2, <2>2 DEF AskBegin, Sessions, RefusedBy
    <3> QED BY <3>1, AskAnswers
  <2> QED BY <2>1, <2>2
<1>4. KeepsSession(s, a)
  <2>1. Began(s) \in Sessions(Stmt)
    BY <1>2, SessionOps
  <2> QED BY <1>2, <1>3, <2>1, TxnAnswers
<1>5. /\ conn'.server = a.server /\ lost' = (lost \/ a.reply = "lost")
      /\ a.reply # "ok" => conn'.lastError = "transaction"
      /\ ack' = ack /\ began' = IF a.reply = "ok" THEN "yes" ELSE began
  BY <1>1, <1>4, TransactParts DEF LearnStart
<1>6. /\ a.server.committed = s.committed
      /\ a.server.pending \in {s.pending, 0}
      /\ \/ a.reply = "ok" /\ a.server.txn = "open" /\ a.server.pending = s.pending
         \/ a.reply # "ok" /\ ~a.server.up /\ a.server.txn = "none"
         \/ a.reply # "ok" /\ a.server = s /\ s.txn # "open"
         \/ a.reply # "ok" /\ ~s.up /\ a.server = s
  <2>1. /\ Began(s).committed = s.committed /\ Began(s).txn = "open"
        /\ Began(s).pending = s.pending
    BY <1>2 DEF Began, Sessions
  <2>2. /\ Ended(s).committed = s.committed /\ ~Ended(s).up /\ Ended(s).txn = "none"
        /\ Ended(s).pending = 0
        /\ Ended(Began(s)).committed = s.committed /\ ~Ended(Began(s)).up
        /\ Ended(Began(s)).txn = "none" /\ Ended(Began(s)).pending = 0
    BY <2>1 DEF Ended, NoSession
  <2>3. s.up \/ s.txn # "open"
    BY <1>2 DEF GoodConn
  <2> HIDE DEF s
  <2> QED BY <1>3, <2>1, <2>2, <2>3 DEF Answer
<1>7. SameTransaction'
  <2>1. CASE a.reply = "ok"
    <3>1. conn'.server.pending = ack'.pending
      <4>1. CASE began = "no"
        BY <1>2, <1>3, <1>5, <1>6, <2>1, <4>1 DEF SameTransaction, GoodConn
      <4>2. CASE began = "yes"
        BY <1>2, <1>3, <1>5, <1>6, <2>1, <4>2 DEF SameTransaction, Answer
      <4> QED BY <1>2, <4>1, <4>2
    <3> QED BY <1>5, <1>6, <2>1, <3>1 DEF SameTransaction
  <2>2. CASE a.reply # "ok"
    BY <1>2, <1>5, <1>6, <2>2 DEF SameTransaction
  <2> QED BY <2>1, <2>2
<1>8. AckedIsDurable' /\ NoPhantomWrites'
  BY <1>2, <1>5, <1>6 DEF AckedIsDurable, NoPhantomWrites
<1> QED BY <1>1, <1>2, <1>4, <1>5, <1>7, <1>8, Parts, TransactStep

LEMMA CommitStep ==
  ASSUME IndInv, Rules = AllRules, Commit
  PROVE  IndInv'
<1> DEFINE s == conn.server
           done == IF s.txn = "open" THEN Committed(s) ELSE RolledBack(s)
<1>1. PICK a \in AskCommit(s) : Transact(a) /\ LearnCommit(a.reply = "ok")
  BY DEF Commit
<1>2. /\ began \in {"no", "yes"} /\ conn.lastError = "none"
      /\ GoodConn(conn) /\ s \in Sessions(Stmt) /\ done \in Sessions(Stmt)
      /\ SameTransaction /\ AckedIsDurable /\ NoPhantomWrites /\ lost \in BOOLEAN
      /\ ack \in [committed : Nat, pending : Nat]
  BY Parts, SessionOps DEF Commit, MayCommit, Keeps, AllRules, IndInv
<1>3. \/ a = Answer("ok", done) /\ s.up
      \/ a = Answer("lost", Ended(s)) \/ a = Answer("lost", Ended(done))
      \/ a = Answer("none", s) /\ ~s.up
      \/ a = Answer("error", RolledBack(s)) /\ s.up
  BY <1>1 DEF AskCommit, Lost
<1>4. KeepsSession(s, a)
  BY <1>2, <1>3, TxnAnswers
<1>5. /\ conn'.server = a.server /\ lost' = (lost \/ a.reply = "lost")
      /\ a.reply = "ok" => began' = "no" /\ ack' = AckCommit
      /\ a.reply # "ok" => began' = Spoiled(began) /\ ack' = ack
  BY <1>1, <1>4, TransactParts DEF LearnCommit
<1>6. /\ s.committed \in Nat /\ s.pending \in Nat /\ ack.committed \in Nat /\ ack.pending \in Nat
  BY <1>2 DEF Sessions
<1>7. /\ done.txn = "none" /\ done.pending = 0
      /\ done.committed = s.committed + (IF s.txn = "open" THEN s.pending ELSE 0)
      /\ RolledBack(s).txn = "none" /\ RolledBack(s).committed = s.committed
  BY <1>2, <1>6 DEF Committed, RolledBack, Sessions
<1>8. done.committed >= s.committed /\ done.committed \in Nat
  BY <1>6, <1>7
<1>9. /\ Ended(s).committed = s.committed /\ Ended(s).txn = "none"
      /\ Ended(done).committed = done.committed /\ Ended(done).txn = "none"
  BY DEF Ended, NoSession
<1> HIDE DEF s, done
<1>10. CASE a = Answer("ok", done) /\ s.up
  <2>1. /\ conn'.server = done /\ began' = "no" /\ lost' = lost
        /\ ack'.committed = ack.committed + ack.pending /\ ack'.pending = 0
        /\ ack' \in [committed : Nat, pending : Nat]
    BY <1>2, <1>5, <1>6, <1>10 DEF Answer, AckCommit
  <2>2. done.committed = s.committed + ack.pending
    BY <1>2, <1>6, <1>7, <1>10 DEF SameTransaction, GoodConn, s, Sessions
  <2>3. SameTransaction'
    BY <1>7, <2>1 DEF SameTransaction
  <2>4. AckedIsDurable' /\ NoPhantomWrites'
    BY <1>2, <1>6, <2>1, <2>2 DEF AckedIsDurable, NoPhantomWrites, s
  <2> QED BY <1>1, <1>4, <2>1, <2>3, <2>4, TransactStep DEF s
<1>11. CASE a.reply # "ok"
  <2>1. /\ began' = (IF began = "yes" THEN "failed" ELSE began) /\ ack' = ack
    BY <1>5, <1>11 DEF Spoiled
  <2>2. /\ a.server.committed >= s.committed /\ a.server.committed \in Nat
        /\ a.reply # "lost" => a.server.committed = s.committed
        /\ a.server.txn = "none" \/ a.server = s
    BY <1>3, <1>6, <1>7, <1>8, <1>9, <1>11 DEF Answer
  <2>3. SameTransaction'
    BY <1>2, <1>5, <2>1, <2>2 DEF SameTransaction, s
  <2>4. AckedIsDurable'
    BY <1>2, <1>5, <1>6, <2>1, <2>2 DEF AckedIsDurable, s
  <2>5. NoPhantomWrites'
    BY <1>2, <1>5, <2>1, <2>2 DEF NoPhantomWrites, s
  <2> QED BY <1>1, <1>2, <1>4, <2>5, <2>1, <2>3, <2>4, TransactStep DEF s
<1> QED BY <1>3, <1>10, <1>11 DEF Answer

LEMMA RollbackStep ==
  ASSUME IndInv, Rollback
  PROVE  IndInv'
<1> DEFINE s == conn.server
<1>1. PICK a \in AskRollback(s) : Transact(a) /\ LearnRollback(a.reply = "ok")
  BY DEF Rollback
<1>2. /\ began \in {"no", "yes", "failed"}
      /\ GoodConn(conn) /\ s \in Sessions(Stmt) /\ RolledBack(s) \in Sessions(Stmt)
      /\ SameTransaction /\ AckedIsDurable /\ NoPhantomWrites /\ lost \in BOOLEAN
      /\ ack \in [committed : Nat, pending : Nat]
  BY Parts, SessionOps DEF IndInv
<1>3. \/ a = Answer("ok", RolledBack(s)) /\ s.up
      \/ a = Answer("lost", Ended(s)) \/ a = Answer("lost", Ended(RolledBack(s)))
      \/ a = Answer("none", s) /\ ~s.up
  BY <1>1 DEF AskRollback, Lost
<1>4. KeepsSession(s, a)
  BY <1>2, <1>3, TxnAnswers
<1>5. /\ conn'.server = a.server /\ lost' = (lost \/ a.reply = "lost")
      /\ a.reply = "ok" => began' = "no" /\ ack' = AckRollback
      /\ a.reply # "ok" => began' = Spoiled(began) /\ ack' = ack
  BY <1>1, <1>4, TransactParts DEF LearnRollback
<1>6. /\ RolledBack(s).txn = "none" /\ RolledBack(s).committed = s.committed
      /\ Ended(s).committed = s.committed /\ Ended(s).txn = "none"
      /\ Ended(RolledBack(s)).committed = s.committed /\ Ended(RolledBack(s)).txn = "none"
  BY <1>2 DEF RolledBack, Ended, NoSession, Sessions
<1>7. /\ a.server.committed = s.committed
      /\ a.server.txn = "none" \/ (a.reply # "ok" /\ a.server = s)
      /\ a.reply # "ok" => ~a.server.up
  BY <1>2, <1>3, <1>6 DEF Answer, Ended, NoSession
<1>8. /\ ack'.committed = ack.committed /\ ack' \in [committed : Nat, pending : Nat]
      /\ ack'.pending = IF a.reply = "ok" THEN 0 ELSE ack.pending
      /\ began' = IF a.reply = "ok" THEN "no" ELSE IF began = "yes" THEN "failed" ELSE began
  BY <1>2, <1>5 DEF AckRollback, Spoiled
<1>9. SameTransaction'
  BY <1>2, <1>5, <1>7, <1>8 DEF SameTransaction
<1>10. AckedIsDurable' /\ NoPhantomWrites'
  BY <1>2, <1>5, <1>7, <1>8 DEF AckedIsDurable, NoPhantomWrites
<1> QED BY <1>1, <1>2, <1>4, <1>8, <1>9, <1>10, TransactStep

-----------------------------------------------------------------------------
LEMMA InitInv ==
  ASSUME Init
  PROVE  IndInv
<1> USE DEF Init, ClientInit
<1>1. /\ conn \in ConnType /\ GoodConn(conn) /\ conn.server.txn = "none"
      /\ conn.server.committed = 0 /\ ~conn.server.up /\ ~conn.isOpen
  <2>1. NoSession \in Sessions(Stmt)
    BY DEF NoSession, Sessions, NoStmts
  <2> QED BY <2>1 DEF GoodConn, ConnType, Unconnected, NoSession
<1>2. FreshRS \in RSType /\ Agrees(NoView, FreshRS) /\ NoView \in ViewType
  <2>1. 0 \in RowCounts /\ -1 \in Indexes
    BY ClientAssumption DEF RowCounts, Indexes
  <2> QED BY <2>1, ViewTypes DEF FreshRS, RSType, Agrees, NoView, BeforeFirst
<1>3. /\ rs \in [Query -> RSType] /\ view \in [Query -> ViewType]
      /\ said \in [Query -> Stmt \cup {Null}]
      /\ \A q \in Query : view[q] = NoView /\ rs[q] = FreshRS /\ said[q] = Null
  BY <1>2 DEF NoStmts
<1>4. TypeOK
  <2>1. ClientTypeOK
    BY <1>1, <1>3 DEF ClientTypeOK, ConnType, ViewType, Stmt
  <2> QED BY <1>1, <1>3, <2>1 DEF TypeOK, RSType, RowCounts, Indexes
<1>5. OnlyHeld /\ PreparedStays /\ \A q \in Query : Agrees(view[q], rs[q])
  BY <1>2, <1>3 DEF OnlyHeld, PreparedStays
<1> QED BY <1>1, <1>4, <1>5
        DEF IndInv, SameTransaction, DriverSelects, AckedIsDurable, NoPhantomWrites, OneSession

LEMMA NextInv ==
  ASSUME IndInv, Rules = AllRules, [Next]_vars
  PROVE  IndInv'
<1>1. CASE UNCHANGED vars
  <2>1. UNCHANGED <<conn, obj, rs, stray, ack, began, view, said, lost>>
    BY <1>1 DEF vars, historyVars
  <2>2. ConnParts' /\ QueryParts'
    BY <2>1, SameConn, SameQueries
  <2>3. SaidParts'
    BY <2>1, Parts DEF SaidParts, IndInv, DriverSelects
  <2> QED BY <2>2, <2>3, Together
<1>2. CASE Open \/ Close \/ ResetError \/ IsOpen
  BY <1>2, OpenStep, CloseStep, ResetErrorStep, IsOpenStep
<1>3. CASE StartTransaction \/ Commit \/ Rollback \/ GetTables
  BY <1>3, StartTransactionStep, CommitStep, RollbackStep, GetTablesStep
<1>4. ASSUME NEW q \in ClientQuery, Reject(q) \/ Execute(q) \/ NextRow(q) \/ Drop(q)
      PROVE  IndInv'
  BY <1>4, RejectStep, ExecuteStep, NextRowStep, DropStep
<1>5. ASSUME NEW q \in ClientQuery, NEW s \in Stmt, Prepare(q, s) \/ ExecuteStatement(q, s)
      PROVE  IndInv'
  BY <1>5, PrepareStep, ExecuteStatementStep
<1>6. ASSUME NEW q \in DriverQuery, TableExists(q)
      PROVE  IndInv'
  BY <1>6, TableExistsStep
<1>7. ASSUME NEW q \in Query, Collect(q)
      PROVE  IndInv'
  BY <1>7, CollectStep
<1> QED BY <1>1, <1>2, <1>3, <1>4, <1>5, <1>6, <1>7 DEF Next, Stmt

(***************************************************************************)
(* A client that keeps all the rules always finds the connection, the      *)
(* transaction and the result sets in the states of IndInv.                *)
(***************************************************************************)
THEOREM PostgresInvariance ==
  Rules = AllRules /\ Spec => []IndInv
<1> SUFFICES ASSUME Rules = AllRules PROVE Spec => []IndInv
  OBVIOUS
<1>1. IndInv /\ [Next]_vars => IndInv'
  BY NextInv
<1> QED BY <1>1, InitInv, PTL DEF Spec

(***************************************************************************)
(* commit() and execute(): what the client was told is committed is in the *)
(* database, with any number of writes and lost calls.                     *)
(***************************************************************************)
THEOREM PostgresAckedIsDurable == Rules = AllRules /\ Spec => []AckedIsDurable
<1>1. IndInv => AckedIsDurable
  BY DEF IndInv
<1> QED BY PostgresInvariance, <1>1, PTL

(***************************************************************************)
(* execute(), commit() and rollback(): no write that was refused or undone *)
(* is in the database, unless a call was lost.                             *)
(***************************************************************************)
THEOREM PostgresNoPhantomWrites == Rules = AllRules /\ Spec => []NoPhantomWrites
<1>1. IndInv => NoPhantomWrites
  BY DEF IndInv
<1> QED BY PostgresInvariance, <1>1, PTL

(***************************************************************************)
(* prepare() and Delete(): the server keeps a statement that was reported  *)
(* as prepared, whenever the collector runs the finalizers of others.      *)
(***************************************************************************)
THEOREM PostgresPreparedStays == Rules = AllRules /\ Spec => []PreparedStays
<1>1. IndInv => PreparedStays
  BY DEF IndInv
<1> QED BY PostgresInvariance, <1>1, PTL

(***************************************************************************)
(* open(): no live session is ever left behind.                            *)
(***************************************************************************)
THEOREM PostgresOneSession == Rules = AllRules /\ Spec => []OneSession
<1>1. IndInv => OneSession
  BY DEF IndInv
<1> QED BY PostgresInvariance, <1>1, PTL

-----------------------------------------------------------------------------
(* What a step does to the view of the client.                             *)

LEMMA ViewSteps ==
  ASSUME IndInv, Rules = AllRules, [Next]_vars
  PROVE  ViewStep
<1> USE DEF ViewStep
<1>0. GoodConn(conn) /\ ClientQuery \subseteq Query
  BY ClientAssumption DEF IndInv
<1>1. CASE UNCHANGED vars
  BY <1>1 DEF vars, historyVars
<1>2. CASE Open \/ Close \/ ResetError \/ IsOpen
  BY <1>2 DEF Open, Close, ResetError, IsOpen, LearnNewSession, ConnOnly, historyVars
<1>3. CASE StartTransaction \/ Commit \/ Rollback \/ GetTables
  BY <1>3 DEF StartTransaction, Commit, Rollback, GetTables, Transact, ConnOnly
<1>4. ASSUME NEW q \in ClientQuery, Reject(q)
      PROVE  ViewStep
  <2>1. /\ view' = [view EXCEPT ![q] = Refused]
        /\ conn' = [conn EXCEPT !.lastError = "statement"]
    BY <1>4 DEF Reject, Take, Outcome, SetError
  <2>2. conn'.lastError # "none"
    BY <1>0, <2>1 DEF GoodConn, ConnType
  <2> QED BY <1>0, <2>1, <2>2
<1>5. ASSUME NEW q \in ClientQuery, NEW o, NEW w, NEW st, Served(conn, o, w, {}, Null), Take(q, o),
             o.ok => o.rows \in RowsOf("ok", st \in Selects),
             view' = RanView(q, o, st)
      PROVE  ViewStep
  <2>1. CASE ~o.ok
    <3>1. view' = [view EXCEPT ![q] = Refused] /\ conn'.lastError # "none"
      BY <1>5, <2>1 DEF RanView, Served, Take
    <3> QED BY <1>0, <3>1
  <2>2. CASE o.ok
    <3> DEFINE b == st \in Selects
               n == o.rows
    <3>1. /\ b \in BOOLEAN /\ n \in 0..MaxRows /\ (~b => n = 0)
          /\ view' = [view EXCEPT ![q] = Started(b, n)]
      BY <1>5, <2>2, ClientAssumption DEF RanView, RowsOf
    <3> HIDE DEF b, n
    <3> QED BY <1>0, <3>1
  <2> QED BY <2>1, <2>2
<1>6. ASSUME NEW q \in ClientQuery, Execute(q)
      PROVE  ViewStep
  <2> DEFINE st == conn.server.stmts[Name(q)]
             w  == st \in Writes
  <2>1. PICK o \in QueryExecute(conn, q, rs[q]) : Take(q, o) /\ LearnRun(q, o, st)
    BY <1>6 DEF Execute
  <2>2. Served(conn, o, w, {}, Null) /\ (o.ok => o.rows \in RowsOf("ok", st \in Selects))
    BY <1>0, <2>1, ExecuteServed
  <2>3. view' = RanView(q, o, st)
    BY <2>1 DEF LearnRun
  <2> HIDE DEF ViewStep, st, w
  <2> QED BY <1>5, <2>1, <2>2, <2>3
<1>7. ASSUME NEW q \in ClientQuery, NEW st \in Stmt, ExecuteStatement(q, st)
      PROVE  ViewStep
  <2> DEFINE w == st \in Writes
  <2>1. PICK o \in QueryExecuteStatement(conn, rs[q], st) : Take(q, o) /\ LearnRun(q, o, st)
    BY <1>7 DEF ExecuteStatement
  <2>2. Served(conn, o, w, {}, Null) /\ (o.ok => o.rows \in RowsOf("ok", st \in Selects))
    BY <1>0, <2>1, ExecuteStatementServed
  <2>3. view' = RanView(q, o, st)
    BY <2>1 DEF LearnRun
  <2> HIDE DEF ViewStep, w
  <2> QED BY <1>5, <2>1, <2>2, <2>3
<1>8. ASSUME NEW q \in ClientQuery, NEW st \in Stmt, Prepare(q, st)
      PROVE  ViewStep
  <2>1. PICK o \in QueryPrepare(conn, q, rs[q], st) : Take(q, o) /\ LearnPrepare(q, o, st)
    BY <1>8 DEF Prepare
  <2>2. Served(conn, o, FALSE, {q}, st)
    BY <1>0, <2>1, PrepareServed
  <2>3. /\ view' = [view EXCEPT ![q] = IF o.ok THEN NoView ELSE Refused]
        /\ ~o.ok => conn'.lastError # "none"
    BY <2>1, <2>2 DEF LearnPrepare, Take, Served
  <2> QED BY <1>0, <2>3
<1>9. ASSUME NEW q \in ClientQuery, NextRow(q)
      PROVE  ViewStep
  <2> DEFINE v == view[q]
             r == rs[q]
             f == Fetched(v, HasNextRow(r), IF r.result THEN r.index + 2 ELSE 0)
  <2>1. /\ v \in ViewType /\ r \in RSType /\ Agrees(v, r) /\ v.status # "refused"
        /\ view' = [view EXCEPT ![q] = f]
    BY <1>0, <1>9, Parts DEF NextRow, Keeps, AllRules
  <2>2. /\ HasNextRow(r) => /\ v.status = "open" /\ v.row + 1 <= v.made
                            /\ f = [v EXCEPT !.row = v.row + 1]
        /\ ~HasNextRow(r) /\ v.status = "open" => v.row = v.made
        /\ ~HasNextRow(r) => f = [v EXCEPT !.status = IF @ = "open" THEN "ended" ELSE @]
    BY <2>1, NextRowAgrees
  <2> HIDE DEF f
  <2>3. CASE HasNextRow(r)
    BY <1>0, <2>1, <2>2, <2>3
  <2>4. CASE ~HasNextRow(r) /\ v.status = "open"
    <3>1. f = [v EXCEPT !.status = "ended"] /\ v.row = v.made
      BY <2>2, <2>4
    <3> QED BY <1>0, <2>1, <2>4, <3>1
  <2>5. CASE ~HasNextRow(r) /\ v.status # "open"
    <3>1. f = v
      BY <2>1, <2>2, <2>5 DEF ViewType
    <3>2. view' = view
      BY <1>0, <2>1, <3>1, Parts
    <3> QED BY <3>2
  <2> QED BY <2>3, <2>4, <2>5
<1>10. ASSUME NEW q \in ClientQuery, Drop(q)
      PROVE  ViewStep
  BY <1>0, <1>10 DEF Drop
<1>11. ASSUME NEW q \in Query, Collect(q) \/ TableExists(q)
      PROVE  ViewStep
  BY <1>11 DEF Collect, TableExists, ConnOnly
<1> HIDE DEF ViewStep
<1> QED
  BY <1>1, <1>2, <1>3, <1>4, <1>6, <1>7, <1>8, <1>9, <1>10, <1>11 DEF Next, Stmt, DriverQuery

(***************************************************************************)
(* prepare() and execute(): in every state, for every call that the rules  *)
(* allow and every answer to it, a False comes with an error to look at.   *)
(***************************************************************************)
THEOREM PostgresFailuresExplained == Rules = AllRules /\ Spec => []FailuresExplained
<1> SUFFICES ASSUME Rules = AllRules PROVE Spec => []FailuresExplained
  OBVIOUS
<1>1. ASSUME IndInv PROVE FailuresExplained
  <2>1. GoodConn(conn) /\ ClientQuery \subseteq Query
    BY <1>1, ClientAssumption DEF IndInv
  <2>2. ASSUME NEW q \in ClientQuery, NEW st \in Stmt,
               NEW o \in QueryPrepare(conn, q, rs[q], st)
        PROVE  Explained(o)
    <3>1. Served(conn, o, FALSE, {q}, st)
      BY <2>1, <2>2, PrepareServed
    <3> QED BY <3>1 DEF Served, Explained
  <2>3. ASSUME NEW q \in ClientQuery, NEW st \in Stmt,
               NEW o \in QueryExecuteStatement(conn, rs[q], st)
        PROVE  Explained(o)
    <3>1. Served(conn, o, st \in Writes, {}, Null)
      BY <2>1, <2>3, ExecuteStatementServed
    <3> QED BY <3>1 DEF Served, Explained
  <2>4. ASSUME NEW q \in ClientQuery, NEW o \in QueryExecute(conn, q, rs[q])
        PROVE  Explained(o)
    <3>1. Served(conn, o, conn.server.stmts[Name(q)] \in Writes, {}, Null)
      BY <2>1, <2>4, ExecuteServed
    <3> QED BY <3>1 DEF Served, Explained
  <2> QED BY <2>2, <2>3, <2>4 DEF FailuresExplained, Stmt
<1> QED BY <1>1, PostgresInvariance, PTL

(***************************************************************************)
(* The driver implements RowCursor: the rows of every execution come in    *)
(* order, each once, whatever happens to the connection in between.        *)
(***************************************************************************)
THEOREM PostgresRowsInOrder == Rules = AllRules /\ Spec => RowsInOrder
<1> SUFFICES ASSUME Rules = AllRules PROVE Spec => RowsInOrder
  OBVIOUS
<1>1. Init => Contract!Init
  BY DEF Init, ClientInit, Contract!Init, Contract!NoCursor, NoView
<1>2. IndInv /\ [Next]_vars => [Contract!Next]_view
  BY ViewSteps, ViewStepInOrder, Parts
<1>3. RowsInOrder <=> Contract!Init /\ [][Contract!Next]_view
  BY DEF RowsInOrder, Contract!Spec
<1> QED BY <1>1, <1>2, <1>3, PostgresInvariance, PTL DEF Spec

=============================================================================
