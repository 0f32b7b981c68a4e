-------------------------- MODULE ServerClientProofs --------------------------
(***************************************************************************)
(* What the proofs about the drivers for database servers share: the types *)
(* of a connection and of a client's view, the accounts of the client      *)
(* against those of the server, and the steps of a cursor.                 *)
(***************************************************************************)
EXTENDS ServerClient, TLAPS

Stmt == Selects \cup Writes

ConnType ==
  [isOpen : BOOLEAN, handle : BOOLEAN,
   lastError : {"none", "connection", "statement", "transaction"},
   server : Sessions(Stmt)]

ViewType ==
  [status : {"idle", "open", "ended", "refused"}, row : Nat, made : Nat]

-----------------------------------------------------------------------------
(* Sessions, connections and outcomes.                                     *)

(***************************************************************************)
(* What a command makes of a session is a session.                         *)
(***************************************************************************)
LEMMA SessionOps ==
  ASSUME NEW s \in Sessions(Stmt)
  PROVE  /\ Ended(s) \in Sessions(Stmt)
         /\ Connected(s) \in Sessions(Stmt)
         /\ Wrote(s) \in Sessions(Stmt)
         /\ Began(s) \in Sessions(Stmt)
         /\ RolledBack(s) \in Sessions(Stmt)
         /\ Committed(s) \in Sessions(Stmt)
<1> USE DEF Sessions
<1>1. NoStmts \in [Query -> Stmt \cup {Null}]
  BY DEF NoStmts
<1>2. Ended(s) \in Sessions(Stmt) /\ Connected(s) \in Sessions(Stmt)
  BY <1>1 DEF Ended, Connected, NoSession
<1>3. Wrote(s) \in Sessions(Stmt) /\ Began(s) \in Sessions(Stmt)
  BY DEF Wrote, Began
<1>4. RolledBack(s) \in Sessions(Stmt) /\ Committed(s) \in Sessions(Stmt)
  <2>1. RolledBack(s) \in Sessions(Stmt)
    BY DEF RolledBack
  <2>2. s.pending \in Nat
    OBVIOUS
  <2> QED BY <2>1, <2>2 DEF Committed
<1> QED BY <1>2, <1>3, <1>4

LEMMA SessionFields ==
  ASSUME NEW s \in Sessions(Stmt)
  PROVE  /\ s.up \in BOOLEAN /\ s.txn \in {"none", "open", "aborted"}
         /\ s.committed \in Nat /\ s.pending \in Nat /\ s.stmts \in [Query -> Stmt \cup {Null}]
         /\ Ended(s).up = FALSE /\ Ended(s).txn = "none" /\ Ended(s).pending = 0
         /\ Ended(s).committed = s.committed /\ Ended(s).stmts = NoStmts
         /\ Connected(s).up = TRUE /\ Connected(s).txn = "none" /\ Connected(s).pending = 0
         /\ Connected(s).committed = s.committed /\ Connected(s).stmts = NoStmts
         /\ Wrote(s).up = s.up /\ Wrote(s).txn = s.txn /\ Wrote(s).stmts = s.stmts
         /\ Wrote(s).committed = IF s.txn = "none" THEN s.committed + 1 ELSE s.committed
         /\ Wrote(s).pending = IF s.txn = "none" THEN s.pending ELSE s.pending + 1
         /\ RolledBack(s).up = s.up /\ RolledBack(s).txn = "none" /\ RolledBack(s).pending = 0
         /\ RolledBack(s).committed = s.committed /\ RolledBack(s).stmts = s.stmts
         /\ Began(s).up = s.up /\ Began(s).txn = "open" /\ Began(s).pending = s.pending
         /\ Began(s).committed = s.committed /\ Began(s).stmts = s.stmts
         /\ Committed(s).up = s.up /\ Committed(s).txn = "none" /\ Committed(s).pending = 0
         /\ Committed(s).committed = s.committed + s.pending /\ Committed(s).stmts = s.stmts
<1> USE DEF Sessions
<1>1. /\ s.up \in BOOLEAN /\ s.txn \in {"none", "open", "aborted"}
      /\ s.committed \in Nat /\ s.pending \in Nat /\ s.stmts \in [Query -> Stmt \cup {Null}]
  OBVIOUS
<1>2. /\ Ended(s).up = FALSE /\ Ended(s).txn = "none" /\ Ended(s).pending = 0
      /\ Ended(s).committed = s.committed /\ Ended(s).stmts = NoStmts
      /\ Connected(s).up = TRUE /\ Connected(s).txn = "none" /\ Connected(s).pending = 0
      /\ Connected(s).committed = s.committed /\ Connected(s).stmts = NoStmts
  BY DEF Ended, Connected, NoSession
<1>3. /\ Wrote(s).up = s.up /\ Wrote(s).txn = s.txn /\ Wrote(s).stmts = s.stmts
      /\ Wrote(s).committed = IF s.txn = "none" THEN s.committed + 1 ELSE s.committed
      /\ Wrote(s).pending = IF s.txn = "none" THEN s.pending ELSE s.pending + 1
  BY DEF Wrote
<1>4. /\ RolledBack(s).up = s.up /\ RolledBack(s).txn = "none" /\ RolledBack(s).pending = 0
      /\ RolledBack(s).committed = s.committed /\ RolledBack(s).stmts = s.stmts
      /\ Began(s).up = s.up /\ Began(s).txn = "open" /\ Began(s).pending = s.pending
      /\ Began(s).committed = s.committed /\ Began(s).stmts = s.stmts
  BY DEF RolledBack, Began
<1>5. /\ Committed(s).up = s.up /\ Committed(s).txn = "none" /\ Committed(s).pending = 0
      /\ Committed(s).committed = s.committed + s.pending /\ Committed(s).stmts = s.stmts
  BY DEF Committed, RolledBack
<1> QED BY <1>1, <1>2, <1>3, <1>4, <1>5

(* One outcome of a call through TDatabaseQuery.                           *)
SettledOne(p) == [p EXCEPT !.conn.lastError = IF p.ok THEN "none" ELSE @]

LEMMA SettledOutcome ==
  ASSUME NEW S, NEW o \in Settled(S)
  PROVE  \E p \in S : o = SettledOne(p)
BY DEF Settled, SettledOne

LEMMA SettledFields ==
  ASSUME NEW c \in ConnType, NEW r, NEW reply, NEW n, NEW o,
         o = SettledOne(Outcome(c, r, reply, n))
  PROVE  /\ o.ok <=> reply = "ok"
         /\ o.lost <=> reply = "lost"
         /\ o.ok \in BOOLEAN /\ o.lost \in BOOLEAN
         /\ o.rs = r /\ o.rows = n
         /\ o.conn \in ConnType /\ o.conn.server = c.server
         /\ o.conn.isOpen = c.isOpen /\ o.conn.handle = c.handle
         /\ reply = "ok" => o.conn.lastError = "none"
         /\ reply # "ok" => o.conn = c
BY DEF SettledOne, Outcome, ConnType

-----------------------------------------------------------------------------
(* The cursor of a client.                                                 *)

LEMMA ViewTypes ==
  /\ NoView \in ViewType /\ Refused \in ViewType
  /\ \A b \in BOOLEAN, n \in 0..MaxRows : Started(b, n) \in ViewType
BY ClientAssumption DEF NoView, Refused, Started, ViewType

(* The steps that change one view, and the ones that change none.          *)
ViewStep ==
  \/ view' = view
  \/ \E q \in Query :
       \/ view' = [view EXCEPT ![q] = NoView]
       \/ view' = [view EXCEPT ![q] = Refused]
       \/ \E b \in BOOLEAN, n \in 0..MaxRows :
            view' = [view EXCEPT ![q] = Started(b, n)] /\ (~b => n = 0)
       \/ /\ view[q].status = "open" /\ view[q].row + 1 <= view[q].made
          /\ view' = [view EXCEPT ![q] = [view[q] EXCEPT !.row = view[q].row + 1]]
       \/ /\ view[q].status = "open" /\ view[q].row = view[q].made
          /\ view' = [view EXCEPT ![q] = [view[q] EXCEPT !.status = "ended"]]

LEMMA ViewStepInOrder ==
  ASSUME view \in [Query -> ViewType], ViewStep
  PROVE  [Contract!Next]_view
<1>1. view \in [Query -> ViewType]
  OBVIOUS
<1>2. CASE view' = view
  BY <1>2
<1>3. ASSUME NEW q \in Query,
             \/ view' = [view EXCEPT ![q] = NoView]
             \/ view' = [view EXCEPT ![q] = Refused]
      PROVE  Contract!Next
  <2>1. Contract!Forget(q) \/ Contract!Refuse(q)
    BY <1>3 DEF Contract!Forget, Contract!Refuse, Contract!Set, Contract!NoCursor, NoView, Refused
  <2> QED BY <2>1 DEF Contract!Next
<1>4. ASSUME NEW q \in Query, NEW b \in BOOLEAN, NEW n \in 0..MaxRows, ~b => n = 0,
             view' = [view EXCEPT ![q] = Started(b, n)]
      PROVE  Contract!Next
  <2>1. view'[q] = Started(b, n)
    BY <1>1, <1>4
  <2> DEFINE x == Started(b, n)
  <2>2. /\ x.status \in {"open", "ended"} /\ x.made = n /\ n \in Nat
        /\ (x.status = "ended" => n = 0)
        /\ x = [status |-> x.status, row |-> 0, made |-> x.made]
    BY <1>4 DEF Started
  <2>3. Contract!Begin(q)
    <3>1. view'[q] = x /\ view' = [view EXCEPT ![q] = x]
      BY <1>4, <2>1
    <3> HIDE DEF x
    <3> QED BY <2>2, <3>1 DEF Contract!Begin, Contract!Set
  <2> QED BY <2>3 DEF Contract!Next
<1>5. ASSUME NEW q \in Query, view[q].status = "open", view[q].row + 1 <= view[q].made,
             view' = [view EXCEPT ![q] = [view[q] EXCEPT !.row = view[q].row + 1]]
      PROVE  Contract!Next
  <2>1. [view[q] EXCEPT !.row = view[q].row + 1]
          = [status |-> "open", row |-> view[q].row + 1, made |-> view[q].made]
    BY <1>1, <1>5 DEF ViewType
  <2>2. Contract!Advance(q)
    BY <1>5, <2>1 DEF Contract!Advance, Contract!Set
  <2> QED BY <2>2 DEF Contract!Next
<1>6. ASSUME NEW q \in Query, view[q].status = "open", view[q].row = view[q].made,
             view' = [view EXCEPT ![q] = [view[q] EXCEPT !.status = "ended"]]
      PROVE  Contract!Next
  <2>1. Contract!Finish(q)
    BY <1>6 DEF Contract!Finish, Contract!Set
  <2> QED BY <2>1 DEF Contract!Next
<1> QED BY <1>2, <1>3, <1>4, <1>5, <1>6 DEF ViewStep

-----------------------------------------------------------------------------
(* The accounts of the client, for the drivers whose servers never abort a *)
(* transaction without ending it.                                          *)

(* A dead session has no transaction, and only an open one pending writes. *)
GoodSession(s) ==
  /\ s \in Sessions(Stmt) /\ s.txn # "aborted"
  /\ ~s.up => s.txn = "none"
  /\ s.txn # "open" => s.pending = 0

(* A session before and after a call that wrote nothing, but may have      *)
(* undone the transaction; and one that may only have ended the session.   *)
Idle(s, t) ==
  /\ GoodSession(t)
  /\ t.committed = s.committed
  /\ t.up => s.up
  /\ s.txn = "none" => t.txn = "none"

Steady(s, t) == Idle(s, t) /\ (t.up => t.txn = s.txn /\ t.pending = s.pending)

(* It was ended, and the work may have been done before.                   *)
Cut(s, t) == GoodSession(t) /\ ~t.up /\ t.committed >= s.committed

WroteTo(s, t) ==
  /\ GoodSession(t) /\ s.up /\ t.up /\ t.txn = s.txn
  /\ t.committed = IF s.txn = "none" THEN s.committed + 1 ELSE s.committed
  /\ t.pending = IF s.txn = "none" THEN s.pending ELSE s.pending + 1

(* How a call on the session s came out, where w says that it writes.      *)
Fair(s, o, w) ==
  /\ o.ok \in BOOLEAN /\ o.lost \in BOOLEAN
  /\ \/ o.ok /\ w /\ WroteTo(s, o.conn.server)
     \/ o.ok /\ ~w /\ Steady(s, o.conn.server)
     \/ ~o.ok /\ ~o.lost /\ Idle(s, o.conn.server)
     \/ ~o.ok /\ o.lost /\ Cut(s, o.conn.server)

(* What the client counts on is what the server has: until a call of it    *)
(* has failed, its transaction too.                                        *)
Accounted ==
  /\ lost \in BOOLEAN /\ began \in {"no", "yes", "failed"}
  /\ ack \in [committed : Nat, pending : Nat]
  /\ GoodSession(conn.server)
  /\ began = "no" => conn.server.txn = "none" /\ ack.pending = 0
  /\ began = "yes" /\ conn.server.up
       => conn.server.txn = "open" /\ conn.server.pending = ack.pending
  /\ AckedIsDurable /\ NoPhantomWrites

LEMMA SessionNumbers ==
  ASSUME NEW s, GoodSession(s)
  PROVE  s.committed \in Nat /\ s.pending \in Nat /\ s.up \in BOOLEAN
         /\ s.txn \in {"none", "open", "aborted"}
BY SessionFields DEF GoodSession

LEMMA SteadyTrans ==
  ASSUME NEW s, NEW t, NEW u
  PROVE  /\ Steady(s, t) /\ Steady(t, u) => Steady(s, u)
         /\ Steady(s, t) /\ Idle(t, u) => Idle(s, u)
         /\ Steady(s, t) /\ Cut(t, u) => Cut(s, u)
         /\ Steady(s, t) /\ WroteTo(t, u) => WroteTo(s, u)
BY DEF Steady, Idle, Cut, WroteTo

LEMMA SteadyRefl ==
  ASSUME NEW s, GoodSession(s)
  PROVE  Steady(s, s)
BY DEF Steady, Idle

LEMMA EndedSteady ==
  ASSUME NEW s, GoodSession(s), NEW t, GoodSession(t), t.committed = s.committed
  PROVE  Steady(s, Ended(t)) /\ GoodSession(Ended(s)) /\ GoodSession(Connected(s))
<1>1. s \in Sessions(Stmt) /\ t \in Sessions(Stmt)
  BY DEF GoodSession
<1>2. GoodSession(Ended(t)) /\ GoodSession(Ended(s)) /\ GoodSession(Connected(s))
  BY <1>1, SessionOps, SessionFields DEF GoodSession
<1>3. /\ Ended(t).up = FALSE /\ Ended(t).txn = "none" /\ Ended(t).committed = s.committed
  BY DEF Ended, NoSession
<1> QED BY <1>2, <1>3 DEF Steady, Idle

LEMMA TakeAccounts ==
  ASSUME Accounted, "rollback_after" \in Rules, NEW q \in Query, NEW o, NEW w,
         Usable(q), Take(q, o), Fair(conn.server, o, w),
         ack' = IF o.ok /\ w THEN AckWrite ELSE ack
  PROVE  Accounted'
<1> DEFINE s == conn.server
           t == conn'.server
<1>1. /\ t = o.conn.server /\ lost' = (lost \/ o.lost)
      /\ began' = IF o.ok THEN began ELSE Spoiled(began)
  BY DEF Take
<1>2. began \in {"no", "yes"} /\ ack.committed \in Nat /\ ack.pending \in Nat
  BY DEF Usable, Keeps, Accounted
<1>3. /\ GoodSession(s)
      /\ began = "no" => s.txn = "none" /\ ack.pending = 0
      /\ began = "yes" /\ s.up => s.txn = "open" /\ s.pending = ack.pending
      /\ ack.committed <= s.committed
      /\ ~lost => s.committed <= ack.committed
  BY DEF Accounted, AckedIsDurable, NoPhantomWrites
<1>4. /\ s.committed \in Nat /\ s.pending \in Nat
  BY <1>3, SessionNumbers
<1>5. /\ lost \in BOOLEAN /\ o.lost \in BOOLEAN /\ lost' \in BOOLEAN /\ (lost' <=> lost \/ o.lost)
      /\ began' \in {"no", "yes", "failed"}
  BY <1>1, <1>2 DEF Accounted, Fair, Spoiled
<1> HIDE DEF s, t
<1> DEFINE Goal ==
      /\ ack' \in [committed : Nat, pending : Nat]
      /\ GoodSession(t)
      /\ began' = "no" => t.txn = "none" /\ ack'.pending = 0
      /\ began' = "yes" /\ t.up => t.txn = "open" /\ t.pending = ack'.pending
      /\ ack'.committed <= t.committed
      /\ ~lost' => t.committed <= ack'.committed
<1>6. ASSUME o.ok /\ w PROVE Goal
  <2>1. WroteTo(s, t) /\ ack' = AckWrite /\ began' = began
    BY <1>1, <1>6 DEF Fair, s, t
  <2>2. CASE began = "no"
    <3>1. ack' \in [committed : Nat, pending : Nat] /\ ack'.committed = ack.committed + 1 /\ ack'.pending = ack.pending
      BY <2>1, <2>2 DEF AckWrite, Accounted
    <3>2. /\ t.txn = "none" /\ GoodSession(t) /\ t.committed = s.committed + 1
      BY <1>3, <2>1, <2>2 DEF WroteTo
    <3>3. ~lost' => s.committed <= ack.committed
      BY <1>3, <1>5
    <3> QED BY <1>2, <1>3, <1>4, <2>1, <2>2, <3>1, <3>2, <3>3
  <2>3. CASE began = "yes"
    <3>1. /\ ack' \in [committed : Nat, pending : Nat] /\ ack'.committed = ack.committed
          /\ ack'.pending = ack.pending + 1
      BY <2>1, <2>3 DEF AckWrite, Accounted
    <3>2. /\ t.txn = "open" /\ GoodSession(t) /\ t.committed = s.committed /\ t.pending = s.pending + 1
          /\ s.pending = ack.pending
      BY <1>3, <2>1, <2>3 DEF WroteTo
    <3>3. ~lost' => s.committed <= ack.committed
      BY <1>3, <1>5
    <3> QED BY <1>2, <1>3, <1>4, <2>1, <2>3, <3>1, <3>2, <3>3
  <2> QED BY <1>2, <2>2, <2>3
<1>7. ASSUME ~(o.ok /\ w) PROVE Goal
  <2>0. ack' = ack /\ ack \in [committed : Nat, pending : Nat]
    BY <1>7 DEF Accounted
  <2>1. CASE o.ok /\ Steady(s, t)
    <3>1. began' = began
      BY <1>1, <2>1
    <3>2. ~lost' => s.committed <= ack.committed
      BY <1>3, <1>5
    <3> QED BY <1>3, <2>0, <2>1, <3>1, <3>2 DEF Steady, Idle
  <2>2. CASE ~o.ok /\ ~o.lost /\ Idle(s, t)
    <3>1. began' = Spoiled(began) /\ lost' = lost
      BY <1>1, <1>5, <2>2
    <3>2. ~lost' => s.committed <= ack.committed
      BY <1>3, <1>5
    <3> QED BY <1>2, <1>3, <2>0, <2>2, <3>1, <3>2 DEF Spoiled, Idle
  <2>3. CASE ~o.ok /\ o.lost /\ Cut(s, t)
    <3>1. began' = Spoiled(began) /\ lost'
      BY <1>1, <1>5, <2>3
    <3>2. GoodSession(t) /\ t.txn = "none" /\ t.committed \in Nat /\ t.committed >= s.committed
      BY <2>3, SessionNumbers DEF Cut, GoodSession
    <3>3. ack.committed <= t.committed
      BY <1>2, <1>3, <1>4, <3>2
    <3> QED BY <1>2, <1>3, <2>0, <2>3, <3>1, <3>2, <3>3 DEF Spoiled
  <2> QED BY <1>1, <1>7, <2>1, <2>2, <2>3 DEF Fair, s, t
<1>8. Goal
  BY <1>6, <1>7
<1> QED BY <1>5, <1>8 DEF Accounted, AckedIsDurable, NoPhantomWrites, t

LEMMA QuietAccounts ==
  ASSUME Accounted, Steady(conn.server, conn'.server), UNCHANGED <<ack, began>>,
         lost' \in BOOLEAN, lost => lost'
  PROVE  Accounted'
BY DEF Accounted, Steady, Idle, AckedIsDurable, NoPhantomWrites

LEMMA NewSessionAccounts ==
  ASSUME Accounted, LearnNewSession, GoodSession(conn'.server),
         conn'.server.committed = conn.server.committed, conn'.server.txn = "none"
  PROVE  Accounted'
<1>1. /\ ack' = AckRollback /\ began' = "no" /\ lost' = lost
  BY DEF LearnNewSession
<1>2. ack' \in [committed : Nat, pending : Nat] /\ ack'.committed = ack.committed /\ ack'.pending = 0
  BY <1>1 DEF AckRollback, Accounted
<1> QED BY <1>1, <1>2 DEF Accounted, AckedIsDurable, NoPhantomWrites

LEMMA StartAccounts ==
  ASSUME Accounted, "rollback_after" \in Rules, MayStart, NEW ok \in BOOLEAN, LearnStart(ok),
         lost' \in BOOLEAN, lost => lost',
         IF ok THEN /\ GoodSession(conn'.server) /\ conn.server.up
                    /\ conn'.server.txn = "open" /\ conn'.server.pending = conn.server.pending
                    /\ conn'.server.committed = conn.server.committed
         ELSE Steady(conn.server, conn'.server)
  PROVE  Accounted'
<1>1. began' = (IF ok THEN "yes" ELSE began) /\ ack' = ack
  BY DEF LearnStart
<1>2. began \in {"no", "yes"}
  BY DEF MayStart, Keeps, Accounted
<1>3. CASE ~ok
  BY <1>1, <1>3, QuietAccounts
<1>4. CASE ok
  <2>1. conn.server.pending = ack.pending
    BY <1>2, <1>4 DEF Accounted, GoodSession
  <2> QED BY <1>1, <1>4, <2>1 DEF Accounted, AckedIsDurable, NoPhantomWrites
<1> QED BY <1>3, <1>4

(***************************************************************************)
(* commit() and rollback(): what they did when they succeed; otherwise the *)
(* transaction is there or undone, or the session is cut.                  *)
(***************************************************************************)
LEMMA CommitAccounts ==
  ASSUME Accounted, "rollback_after" \in Rules, MayCommit, NEW ok \in BOOLEAN, LearnCommit(ok),
         lost' \in BOOLEAN, lost => lost',
         \/ /\ ok /\ GoodSession(conn'.server) /\ conn.server.up /\ conn'.server.txn = "none"
            /\ conn'.server.committed = conn.server.committed + conn.server.pending
         \/ ~ok /\ Idle(conn.server, conn'.server)
         \/ ~ok /\ lost' /\ Cut(conn.server, conn'.server)
  PROVE  Accounted'
<1>1. /\ GoodSession(conn.server) /\ ack.committed \in Nat /\ ack.pending \in Nat
      /\ conn.server.committed \in Nat /\ conn.server.pending \in Nat
      /\ began \in {"no", "yes"} /\ ack.committed <= conn.server.committed
      /\ ~lost => conn.server.committed <= ack.committed
  BY SessionNumbers DEF Accounted, MayCommit, Keeps, AckedIsDurable, NoPhantomWrites
<1>2. CASE ok
  <2>1. /\ ack' = AckCommit /\ began' = "no" /\ conn.server.up /\ GoodSession(conn'.server)
        /\ conn'.server.committed = conn.server.committed + conn.server.pending
        /\ conn'.server.txn = "none"
    BY <1>2 DEF LearnCommit
  <2>2. conn.server.pending = ack.pending
    BY <1>1, <2>1 DEF Accounted, GoodSession
  <2>3. /\ ack' \in [committed : Nat, pending : Nat] /\ ack'.pending = 0
        /\ ack'.committed = ack.committed + ack.pending
    BY <1>1, <2>1 DEF AckCommit
  <2>4. AckedIsDurable'
    BY <1>1, <2>1, <2>2, <2>3 DEF AckedIsDurable
  <2>5. NoPhantomWrites'
    <3>1. ~lost' => conn.server.committed <= ack.committed
      BY <1>1
    <3> QED BY <1>1, <2>1, <2>2, <2>3, <3>1 DEF NoPhantomWrites
  <2> QED BY <2>1, <2>3, <2>4, <2>5 DEF Accounted
<1>3. CASE ~ok
  <2>1. /\ ack' = ack /\ began' = Spoiled(began)
    BY <1>3 DEF LearnCommit
  <2>2. CASE Idle(conn.server, conn'.server)
    BY <1>1, <2>1, <2>2 DEF Accounted, Idle, Spoiled, AckedIsDurable, NoPhantomWrites
  <2>3. CASE lost' /\ Cut(conn.server, conn'.server)
    <3>1. /\ GoodSession(conn'.server) /\ conn'.server.txn = "none"
          /\ conn'.server.committed \in Nat /\ conn'.server.committed >= conn.server.committed
      BY <2>3, SessionNumbers DEF Cut, GoodSession
    <3>2. AckedIsDurable'
      BY <1>1, <2>1, <3>1 DEF AckedIsDurable
    <3> QED BY <1>1, <2>1, <2>3, <3>1, <3>2 DEF Accounted, Spoiled, NoPhantomWrites
  <2> QED BY <1>3, <2>2, <2>3
<1> QED BY <1>2, <1>3

LEMMA RollbackAccounts ==
  ASSUME Accounted, NEW ok \in BOOLEAN, LearnRollback(ok),
         lost' \in BOOLEAN, lost => lost',
         \/ /\ ok /\ GoodSession(conn'.server) /\ conn'.server.txn = "none"
            /\ conn'.server.committed = conn.server.committed
         \/ ~ok /\ Idle(conn.server, conn'.server)
  PROVE  Accounted'
<1>1. CASE ok
  <2>1. /\ ack' = AckRollback /\ began' = "no"
    BY <1>1 DEF LearnRollback
  <2>2. /\ ack' \in [committed : Nat, pending : Nat] /\ ack'.pending = 0
        /\ ack'.committed = ack.committed
    BY <2>1 DEF AckRollback, Accounted
  <2> QED BY <1>1, <2>1, <2>2 DEF Accounted, AckedIsDurable, NoPhantomWrites
<1>2. CASE ~ok
  <2>1. ack' = ack /\ began' = Spoiled(began) /\ Idle(conn.server, conn'.server)
    BY <1>2 DEF LearnRollback
  <2>2. began' \in {"no", "failed"} /\ (began' = "no" => began = "no")
    BY <2>1 DEF Accounted, Spoiled
  <2> QED BY <2>1, <2>2 DEF Accounted, Idle, AckedIsDurable, NoPhantomWrites
<1> QED BY <1>1, <1>2

(***************************************************************************)
(* What a command with a given reply has made of the session s, where w    *)
(* says that it writes.                                                    *)
(***************************************************************************)
Did(s, t, reply, w) ==
  \/ reply = "ok" /\ w /\ WroteTo(s, t)
  \/ reply = "ok" /\ ~w /\ Steady(s, t)
  \/ reply \notin {"ok", "lost"} /\ Idle(s, t)
  \/ reply = "lost" /\ Cut(s, t)

LEMMA DidAfterSteady ==
  ASSUME NEW s, NEW t, NEW u, NEW reply, NEW w, Steady(s, t), Did(t, u, reply, w)
  PROVE  Did(s, u, reply, w)
BY SteadyTrans DEF Did

LEMMA DidGood ==
  ASSUME NEW s, NEW t, NEW reply, NEW w, Did(s, t, reply, w)
  PROVE  GoodSession(t) /\ (t.up => s.up)
BY DEF Did, WroteTo, Steady, Idle, Cut

LEMMA DidFair ==
  ASSUME NEW s, NEW o, NEW reply, NEW w, Did(s, o.conn.server, reply, w),
         o.ok \in BOOLEAN, o.lost \in BOOLEAN,
         o.ok <=> reply = "ok", o.lost <=> reply = "lost"
  PROVE  Fair(s, o, w)
BY DEF Did, Fair

LEMMA WroteGood ==
  ASSUME NEW s, GoodSession(s)
  PROVE  /\ GoodSession(Wrote(s)) /\ GoodSession(RolledBack(s)) /\ GoodSession(Committed(s))
         /\ s.up => WroteTo(s, Wrote(s))
         /\ Idle(s, RolledBack(s))
<1>1. s \in Sessions(Stmt) /\ s.committed \in Nat /\ s.pending \in Nat
  BY SessionNumbers DEF GoodSession
<1>2. Wrote(s) \in Sessions(Stmt) /\ RolledBack(s) \in Sessions(Stmt) /\ Committed(s) \in Sessions(Stmt)
  BY <1>1, SessionOps
<1>3. GoodSession(RolledBack(s)) /\ GoodSession(Committed(s)) /\ Idle(s, RolledBack(s))
  BY <1>1, <1>2, SessionFields DEF GoodSession, Idle
<1>4. /\ Wrote(s).up = s.up /\ Wrote(s).txn = s.txn
      /\ Wrote(s).committed = IF s.txn = "none" THEN s.committed + 1 ELSE s.committed
      /\ Wrote(s).pending = IF s.txn = "none" THEN s.pending ELSE s.pending + 1
  <2> USE <1>1 DEF Sessions, Wrote
  <2>1. CASE s.txn = "none"
    BY <2>1
  <2>2. CASE s.txn # "none"
    BY <2>2
  <2> QED BY <2>1, <2>2
<1>5. GoodSession(Wrote(s))
  <2>1. s.txn \in {"none", "open"}
    BY SessionNumbers DEF GoodSession
  <2> QED BY <1>2, <1>4, <2>1 DEF GoodSession
<1> QED BY <1>3, <1>4, <1>5 DEF WroteTo

=============================================================================
