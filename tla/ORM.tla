--------------------------------- MODULE ORM ---------------------------------
(***************************************************************************)
(* TOrm, TOrmTransaction and the data access objects: Using blocks around  *)
(* transactions, and the calls that save and find objects within them, on  *)
(* one connection of either dialect.  A call that throws ends the blocks   *)
(* around it, unless the client catches the exception further in.          *)
(***************************************************************************)
EXTENDS Naturals, Sequences, FiniteSets

CONSTANTS
  Write,      \* bound: the changes the client may ask for, each once
  Dialects,   \* the dialects considered: "sqlite", "postgresql"
  MaxDepth,   \* bound: Using blocks within one another
  Rules       \* the rules the client keeps to

AllRules ==
  {"unwind",           \* no exception is caught within a Using block
   "no_nesting",       \* no transaction is started while one is not completed
   "check_find"}       \* after a find, an error outstanding counts as a throw

ASSUME ORMAssumption ==
  /\ Dialects \subseteq {"sqlite", "postgresql"} /\ Dialects # {}
  /\ MaxDepth \in Nat /\ Rules \subseteq AllRules

VARIABLES
  dialect,   \* that of the connection
  db,        \* the connection and the session at its end
  tx,        \* the Using blocks, the innermost last: each a TOrmTransaction
  promise,   \* history: what the client was told of each change
  listed     \* history: the list that the last call returned, if it did

vars == <<dialect, db, tx, promise, listed>>

Keeps(rule, condition) == rule \in Rules => condition

-----------------------------------------------------------------------------
(* The session, and the answers it may give.                               *)
(*   up         it is alive                                                *)
(*   txn        "none", "open", or "aborted" by an error (PostgreSQL)      *)
(*   pending    changes of the open transaction      durable  the table    *)
(*   hasError   the connection has an error outstanding                    *)

NewSession(durable) ==
  [up |-> TRUE, txn |-> "none", pending |-> {}, durable |-> durable, hasError |-> FALSE]

RolledBack(d) == [d EXCEPT !.txn = "none", !.pending = {}]
Committed(d)  == [RolledBack(d) EXCEPT !.durable = @ \cup d.pending]
Ended(d)      == [RolledBack(d) EXCEPT !.up = FALSE]

Changed(d, w) ==
  IF d.txn = "none" THEN [d EXCEPT !.durable = @ \cup {w}]
  ELSE [d EXCEPT !.pending = @ \cup {w}]

Ok(d)     == [reply |-> "ok",    db |-> [d EXCEPT !.hasError = FALSE]]
Failed(d) == [reply |-> "error", db |-> [d EXCEPT !.hasError = TRUE]]
Lost(d)   == [reply |-> "lost",  db |-> [Ended(d) EXCEPT !.hasError = TRUE]]

(* SQLite: most errors undo the statement only; out of memory, a full disk *)
(* and an I/O error undo the whole transaction, and end it, also when they *)
(* strike a statement that only reads.                                     *)
SqliteFailures(d) == {Failed(d), Failed(RolledBack(d))}

(* PostgreSQL: an error within a transaction aborts it; the call is lost   *)
(* when the connection is, before or after the server has acted on it.     *)
PostgresFailures(d, done) ==
  {Failed(IF d.txn = "none" THEN d ELSE [RolledBack(d) EXCEPT !.txn = "aborted"]),
   Lost(d), Lost(done)}

(* Any statement but those below: what it does, if it succeeds.            *)
Run(d, done) ==
  IF ~d.up THEN {Failed(d)}
  ELSE IF dialect = "sqlite" THEN {Ok(done)} \cup SqliteFailures(d)
  ELSE (IF d.txn = "aborted" THEN {} ELSE {Ok(done)}) \cup PostgresFailures(d, done)

(* SQLite has no transaction within a transaction; PostgreSQL only warns.  *)
Begin(d) ==
  IF dialect = "sqlite" /\ d.txn # "none" THEN {Failed(d)}
  ELSE Run(d, IF d.txn = "none" THEN [d EXCEPT !.txn = "open"] ELSE d)

(* A COMMIT that fails leaves SQLite's transaction open (it was busy), or  *)
(* ends it; PostgreSQL always ends it, and takes the COMMIT of an aborted  *)
(* transaction for a ROLLBACK that succeeds.                               *)
CommitWork(d) ==
  IF ~d.up \/ (dialect = "sqlite" /\ d.txn = "none") THEN {Failed(d)}
  ELSE IF dialect = "sqlite" THEN {Ok(Committed(d))} \cup SqliteFailures(d)
  ELSE {Ok(Committed(d)), Failed(RolledBack(d)), Lost(d), Lost(Committed(d))}

(* A ROLLBACK of SQLite in a transaction succeeds.  Left out: a ROLLBACK   *)
(* that cannot be compiled, for lack of memory only, and leaves the        *)
(* transaction open.                                                       *)
RollbackWorkCommits(d) ==      \* seeded fault: the wrong command
  IF ~d.up \/ (dialect = "sqlite" /\ d.txn = "none") THEN {Failed(d)} ELSE {Ok(Committed(d))}
RollbackWork(d) ==
  IF ~d.up \/ (dialect = "sqlite" /\ d.txn = "none") THEN {Failed(d)}
  ELSE IF dialect = "sqlite" THEN {Ok(RolledBack(d))}
  ELSE {Ok(RolledBack(d)), Lost(d)}

-----------------------------------------------------------------------------
(* The client.                                                             *)
(*   completed, isStrict   the fields of the TOrmTransaction               *)
(*   thrown    a call within the block, and in no block within it, threw   *)
(*   unknown   a commit was lost on the way                                *)
(*   writes    the changes made in the transaction                         *)

Block(strict) ==
  [completed |-> FALSE, isStrict |-> strict, thrown |-> FALSE,
   unknown |-> FALSE, writes |-> {}]

Pending == {i \in DOMAIN tx : ~tx[i].completed}

(* The transaction that a change is part of, to the client: the innermost  *)
(* not yet completed.                                                      *)
Owner == CHOOSE i \in Pending : \A j \in Pending : j <= i

(* A throw is felt in the innermost block.                                 *)
Throw(blocks) ==
  [i \in DOMAIN blocks |->
     IF i = Len(blocks) THEN [blocks[i] EXCEPT !.thrown = TRUE] ELSE blocks[i]]

Calm == \A i \in DOMAIN tx : i = Len(tx) => ~tx[i].thrown
MayCall == Keeps("unwind", Calm)

Promised(ws, p) == [w \in Write |-> IF w \in ws THEN p ELSE promise[w]]

Init ==
  /\ dialect \in Dialects
  /\ db = NewSession({})
  /\ tx = <<>>
  /\ promise = [w \in Write |-> "unused"]
  /\ listed = "none"

-----------------------------------------------------------------------------
(* TOrmTransaction.                                                        *)

(* New: throws when the transaction does not start.                        *)
StartTransaction(strict) ==
  /\ MayCall /\ Len(tx) < MaxDepth
  /\ Keeps("no_nesting", Pending = {})
  /\ \E a \in Begin(db) :
       /\ db' = a.db
       /\ tx' = IF a.reply = "ok" THEN Append(tx, Block(strict)) ELSE Throw(tx)
  /\ listed' = "none"
  /\ UNCHANGED <<dialect, promise>>

(* Commit of the block i, which need not be the innermost; it is a no-op   *)
(* once the transaction is completed.                                      *)
Commit(i) ==
  /\ MayCall /\ i \in Pending
  /\ \E a \in CommitWork(db) :
       /\ db' = a.db
       /\ IF a.reply = "ok"
          THEN /\ tx' = [tx EXCEPT ![i].completed = TRUE]
               /\ promise' = Promised(tx[i].writes, "kept")
          ELSE /\ tx' = Throw([tx EXCEPT ![i].unknown = @ \/ a.reply = "lost"])
               /\ UNCHANGED promise
  /\ listed' = "none"
  /\ UNCHANGED dialect

Rollback(i) ==
  /\ MayCall /\ i \in Pending
  /\ \E a \in RollbackWork(db) :
       /\ db' = a.db
       /\ IF a.reply = "ok"
          THEN /\ tx' = [tx EXCEPT ![i].completed = TRUE]
               /\ promise' = Promised(tx[i].writes,
                                      IF tx[i].unknown THEN "unknown" ELSE "undone")
          ELSE /\ tx' = Throw(tx)
               /\ UNCHANGED promise
  /\ listed' = "none"
  /\ UNCHANGED dialect

CloseRetries ==      \* seeded fault: only a rollback that succeeds completes it
  /\ tx # <<>>
  /\ LET b == tx[Len(tx)]
     IN \E a \in RollbackWork(db) :
          /\ db' = a.db
          /\ tx' = IF b.completed \/ a.reply = "ok" THEN SubSeq(tx, 1, Len(tx) - 1)
                   ELSE Throw(tx)
          /\ promise' = Promised(IF b.completed THEN {} ELSE b.writes,
                                 IF b.unknown THEN "unknown" ELSE "undone")
  /\ listed' = "none"
  /\ UNCHANGED dialect
(* Close, on leaving the innermost block: a transaction not completed is   *)
(* rolled back, whatever comes of that, and a strict one then throws; an   *)
(* exception on its way out goes on to the next block.                     *)
CloseForgets ==      \* seeded fault: no rollback
  /\ tx # <<>>
  /\ tx' = LET b == tx[Len(tx)] rest == SubSeq(tx, 1, Len(tx) - 1)
           IN IF b.thrown \/ (~b.completed /\ b.isStrict) THEN Throw(rest) ELSE rest
  /\ promise' = Promised(IF tx[Len(tx)].completed THEN {} ELSE tx[Len(tx)].writes, "undone")
  /\ listed' = "none"
  /\ UNCHANGED <<dialect, db>>
Close ==
  /\ tx # <<>>
  /\ LET b    == tx[Len(tx)]
         rest == SubSeq(tx, 1, Len(tx) - 1)
     IN /\ tx' = IF b.thrown \/ (~b.completed /\ b.isStrict) THEN Throw(rest) ELSE rest
        /\ IF b.completed THEN UNCHANGED <<db, promise>>
           ELSE /\ \E a \in RollbackWork(db) : db' = a.db
                /\ promise' = Promised(b.writes, IF b.unknown THEN "unknown" ELSE "undone")
  /\ listed' = "none"
  /\ UNCHANGED dialect

-----------------------------------------------------------------------------
(* The data access objects.  Each call prepares a query, binds, executes   *)
(* it and frees it; a failure of either step frees the query and throws.   *)

(* A change w was asked for: within a transaction it stands or falls with  *)
(* it, outside it is kept at once, or was never made.                      *)
Told(w, reply) ==
  IF reply = "ok" /\ Pending # {}
  THEN /\ tx' = [tx EXCEPT ![Owner].writes = @ \cup {w}]
       /\ promise' = Promised({w}, "open")
  ELSE /\ tx' = IF reply = "ok" THEN tx ELSE Throw(tx)
       /\ promise' = Promised({w}, CASE reply = "ok"   -> "kept"
                                     [] reply = "lost" -> "unknown"
                                     [] OTHER          -> "undone")

SaveUnchecked(w) ==      \* seeded fault: the result of execute is ignored
  /\ MayCall /\ promise[w] = "unused"
  /\ \E a \in Run(db, Changed(db, w)) : db' = a.db /\ Told(w, "ok")
  /\ listed' = "none"
  /\ UNCHANGED dialect
(* SaveObject: after the INSERT, PostgreSQL's dialect reads the generated  *)
(* id from the row returned; no row (the server has skipped the INSERT)    *)
(* is an exception too.                                                    *)
SaveObject(w) ==
  /\ MayCall /\ promise[w] = "unused"
  /\ \E a \in Run(db, Changed(db, w))
       \cup (IF dialect = "postgresql" /\ db.up /\ db.txn # "aborted"
             THEN {[reply |-> "skipped", db |-> Ok(db).db]} ELSE {}) :
       /\ db' = a.db
       /\ Told(w, a.reply)
  /\ listed' = "none"
  /\ UNCHANGED dialect

UpdateObject(w) ==      \* and RemoveObject, RemoveWhere
  /\ MayCall /\ promise[w] = "unused"
  /\ \E a \in Run(db, Changed(db, w)) :
       /\ db' = a.db
       /\ Told(w, a.reply)
  /\ listed' = "none"
  /\ UNCHANGED dialect

(* PopulateFindAll, PopulateFindWhere: nextRow returns False at the end    *)
(* and on an error alike, and the loop does not tell them apart.  SQLite   *)
(* reads row by row, the first as part of execute; PostgreSQL's result is  *)
(* whole.                                                                  *)
Visible == db.durable \cup db.pending

ReadSilently ==      \* seeded fault: the error of nextRow is not recorded
  IF dialect = "sqlite" /\ db.up /\ Cardinality(Visible) > 1
  THEN {[reply |-> "short", db |-> [a.db EXCEPT !.hasError = FALSE]] : a \in SqliteFailures(db)}
  ELSE {}
ReadShort ==
  IF dialect = "sqlite" /\ db.up /\ Cardinality(Visible) > 1
  THEN {[reply |-> "short", db |-> a.db] : a \in SqliteFailures(db)} ELSE {}

PopulateFindAll ==
  /\ MayCall
  /\ \E a \in Run(db, db) \cup ReadShort :
       /\ db' = a.db
       /\ listed' = CASE a.reply = "ok"    -> "whole"
                      [] a.reply = "short" -> "short"
                      [] OTHER             -> "none"
       /\ tx' = IF a.reply = "ok" \/ (a.reply = "short" /\ "check_find" \notin Rules)
                THEN tx ELSE Throw(tx)
  /\ UNCHANGED <<dialect, promise>>

(* The client opens the connection again once it has been lost.            *)
Reopen ==
  /\ MayCall /\ ~db.up
  /\ db' = NewSession(db.durable)
  /\ listed' = "none"
  /\ UNCHANGED <<dialect, tx, promise>>

Next ==
  \/ \E strict \in BOOLEAN : StartTransaction(strict)
  \/ \E i \in DOMAIN tx : Commit(i) \/ Rollback(i)
  \/ Close
  \/ \E w \in Write : SaveObject(w) \/ UpdateObject(w)
  \/ PopulateFindAll
  \/ Reopen

(* Only an exception is sure to leave its block, and so to close it.       *)
Unwind == ~Calm /\ Close

Spec == Init /\ [][Next]_vars /\ WF_vars(Unwind)

-----------------------------------------------------------------------------
TypeOK ==
  /\ dialect \in Dialects
  /\ db \in [up : BOOLEAN, txn : {"none", "open", "aborted"}, hasError : BOOLEAN,
             pending : SUBSET Write, durable : SUBSET Write]
  /\ db.txn # "open" => db.pending = {}
  /\ tx \in Seq([completed : BOOLEAN, isStrict : BOOLEAN, thrown : BOOLEAN,
                 unknown : BOOLEAN, writes : SUBSET Write])
  /\ promise \in [Write -> {"unused", "open", "kept", "undone", "unknown"}]
  /\ listed \in {"none", "whole", "short"}

(***************************************************************************)
(* A change that Save or Commit reported as done is in the database, also  *)
(* after a commit or a rollback that failed, and when the rollback of an   *)
(* earlier block failed without a word.                                    *)
(***************************************************************************)
KeptIsDurable == \A w \in Write : promise[w] = "kept" => w \in db.durable

(***************************************************************************)
(* Nothing is left of a block that was not committed: "If the transaction  *)
(* has not been committed explicitly, the ORM performs a rollback          *)
(* automatically", doc/intro.bbdoc.                                        *)
(***************************************************************************)
UndoneIsGone ==
  \A w \in Write : promise[w] = "undone" => w \notin db.durable \cup db.pending

(***************************************************************************)
(* With every block completed there is no transaction on the connection    *)
(* that would swallow the changes made next: a failed start, a failed      *)
(* commit and a rollback whose result Close ignores leave none behind.     *)
(***************************************************************************)
NoTransactionLeft == Pending = {} => db.txn = "none"

(***************************************************************************)
(* A list that lacks objects can be told from a whole one: the connection  *)
(* has an error outstanding, and none after a whole list.                  *)
(***************************************************************************)
ShortListsMarked == listed # "none" => (db.hasError <=> listed = "short")

(***************************************************************************)
(* An exception within a block leaves every block around it and ends the   *)
(* transaction, although Close does not look at what came of its rollback. *)
(***************************************************************************)
ThrowReleases == ~Calm ~> (tx = <<>> /\ db.txn = "none")
=============================================================================
