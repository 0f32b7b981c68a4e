----------------------------- MODULE SQLiteDriver -----------------------------
(***************************************************************************)
(* One SQLite connection (TDBSQLite) and the TDatabaseQuery objects made   *)
(* from it, each with its TSQLiteResultSet.  Every public method is one    *)
(* atomic action: the driver has no threads of its own, and what a client  *)
(* can vary is the order of the calls, the results the engine gives, and   *)
(* the moment the garbage collector finalizes a query nobody holds.        *)
(*                                                                         *)
(* External: the SQLite engine, seen through the results of its calls; and *)
(* the collector, which runs TDatabaseQuery.Delete.                        *)
(***************************************************************************)
EXTENDS Integers, Sequences, FiniteSets, QueryRegistry, SQLiteResultSet

CONSTANTS
  ClientQuery,  \* bound: the TDatabaseQuery objects a client has at one time
  DriverQuery,  \* bound: those the driver makes for its own statements
  Selects,      \* client statements that produce rows
  Writes,       \* client statements that change the database (INSERT ...)
  ParamCount,   \* how many ? placeholders a client statement has
  MaxRows,      \* bound: rows of one result
  MaxWrites,    \* bound: rows of the written table
  MaxBinds,     \* bound: bind values given to one query
  MaxOrphans    \* bound: engine handles that no connection refers to

Query       == ClientQuery \cup DriverQuery
ClientStmt  == Selects \cup Writes
TxnStmt     == {"BEGIN", "COMMIT", "ROLLBACK"}
CatalogStmt == {"TABLES", "EXISTS"}
Stmt        == ClientStmt \cup TxnStmt \cup CatalogStmt

ASSUME NullAssumption == Null \notin Query /\ Null \notin Stmt
ASSUME QueryAssumption == ClientQuery \cap DriverQuery = {}
ASSUME StmtAssumption ==
  /\ Selects \cap Writes = {}
  /\ ClientStmt \cap (TxnStmt \cup CatalogStmt) = {}
ASSUME ParamAssumption == ParamCount \in [ClientStmt -> Nat]
ASSUME FiniteAssumption == IsFiniteSet(ClientQuery) /\ IsFiniteSet(DriverQuery)
ASSUME BoundAssumption ==
  /\ MaxRows \in Nat \ {0}
  /\ MaxWrites \in Nat
  /\ MaxBinds \in Nat
  /\ MaxOrphans \in Nat

VARIABLES
  isOpen,     \* _isOpen
  handle,     \* "null", "open", or "failed": allocated by a failed open
  orphans,    \* engine handles that were overwritten without being closed
  lastError,  \* "none" or the kind of the outstanding error
  queries,    \* the registry of result sets
  obj,        \* the life of a query object, see ObjStates
  rs,         \* its result set
  inTxn,      \* the engine: a transaction is open
  db          \* the engine: rows written and committed, written and pending

connVars == <<isOpen, handle, orphans>>
dbVars   == <<inTxn, db>>
vars     == <<connVars, lastError, queries, obj, rs, dbVars>>

(***************************************************************************)
(* "unused"  not allocated (never created, or freed)                       *)
(* "new"     created, no result set yet                                    *)
(* "held"    the client holds it and it has a result set                   *)
(* "garbage" it has a result set and nobody refers to the query any more.  *)
(*           All that is left to see of its result set is the statement and*)
(*           the statement's cursor, so the rest is forgotten (Abandoned). *)
(***************************************************************************)
ObjStates == {"unused", "new", "held", "garbage"}
Errors    == {"none", "connection", "statement", "transaction"}

Abandoned(s, at) == [FreshRS EXCEPT !.stmt = s, !.at = at]

Params(s) ==
  CASE s \in ClientStmt -> ParamCount[s]
    [] s = "EXISTS"     -> 1
    [] OTHER            -> 0

HasColumns(s) == s \in Selects \cup CatalogStmt

-----------------------------------------------------------------------------
(* The engine: what sqlite3_step may answer, and what it does.             *)

StepOutcomes(s, at) ==
  CASE s \in Selects \cup CatalogStmt ->
         {"done", "error"} \cup (IF at < MaxRows THEN {"row"} ELSE {})
    [] s \in Writes ->
         {"error"} \cup (IF db.committed + db.pending < MaxWrites
                         THEN {"done"} ELSE {})
    [] s = "BEGIN"    -> IF inTxn THEN {"error"} ELSE {"done"}
    [] s = "COMMIT"   -> IF inTxn THEN {"done", "error"} ELSE {"error"}
    [] s = "ROLLBACK" -> IF inTxn THEN {"done"} ELSE {"error"}
    [] OTHER          -> {"error"}     \* a null statement: SQLITE_MISUSE

FetchOutcomes(r) == IF r.fake THEN {"buffered"} ELSE StepOutcomes(r.stmt, r.at)

(* A row added to the tally t, within a transaction or outside one.        *)
Tally(t, within) ==
  IF within THEN [t EXCEPT !.pending = @ + 1] ELSE [t EXCEPT !.committed = @ + 1]

Discarded(t) == [t EXCEPT !.pending = 0]

AfterTxn(s, t) ==
  CASE s = "BEGIN"    -> t
    [] s = "COMMIT"   -> [committed |-> t.committed + t.pending, pending |-> 0]
    [] s = "ROLLBACK" -> Discarded(t)

IsWrite(s, out) == s \in Writes /\ out = "done"

(***************************************************************************)
(* What an answer does to the database.  An error undoes its own statement *)
(* (sqlite3VdbeHalt), and with SQLITE_FULL, IOERR, NOMEM or INTERRUPT, of  *)
(* a statement that only reads too, all of the open transaction: then the  *)
(* engine is back in autocommit mode.  Any error may be one of those.      *)
(***************************************************************************)
UndoesAll ==
  /\ inTxn
  /\ inTxn' = FALSE
  /\ db' = Discarded(db)

AfterError == UNCHANGED dbVars \/ UndoesAll

UndoneBy(out) == out \in {"error", "noreset"}

EngineAfter(s, out) ==
  \/ /\ db' = IF IsWrite(s, out) THEN Tally(db, inTxn) ELSE db
     /\ UNCHANGED inTxn
  \/ UndoneBy(out) /\ UndoesAll

-----------------------------------------------------------------------------
(* TSQLiteResultSet.execute, as a function of the result set, the engine's *)
(* answer and the outstanding error: sqlite3_reset, the parameter check,   *)
(* binding, and the fetch of the first row in advance.                     *)

ExecuteOutcomes(r) ==
  (IF r.at > 0 THEN {"noreset"} ELSE {})
    \cup (IF Params(r.stmt) # r.bindCount THEN {"mismatch"}
          ELSE StepOutcomes(r.stmt, 0)
                 \cup (IF Params(r.stmt) > 0 THEN {"nobind"} ELSE {}))

Aborts(out) == out \in {"noreset", "mismatch", "nobind"}

ErrorAfterSilent(out, e) == IF Aborts(out) THEN "statement" ELSE e  \* seeded fault
ErrorAfter(out, e) ==
  IF Aborts(out) \/ out = "error" THEN "statement" ELSE e

Executed(r, out, e) ==
  LET r0 == [r EXCEPT !.fake = FALSE, !.at = 0]
  IN IF Aborts(out) THEN FreeRS(r0)
     ELSE [FetchRS(r0, out, HasColumns(r.stmt))
             EXCEPT !.isActive = (ErrorAfter(out, e) = "none")]

RegistryAfter(reg, q, out) == IF Aborts(out) THEN RemoveQuery(reg, q) ELSE reg

(***************************************************************************)
(* Running the prepared statement of r on query q, with the outstanding    *)
(* error e: on success the error is reset, on failure it stays.            *)
(***************************************************************************)
Run(q, r, reg, e, out) ==
  /\ rs' = [rs EXCEPT ![q] = Executed(r, out, e)]
  /\ queries' = RegistryAfter(reg, q, out)
  /\ lastError' = ErrorAfter(out, e)
  /\ EngineAfter(r.stmt, out)

-----------------------------------------------------------------------------
(* Initially: a connection that has not been opened.                       *)

Init ==
  /\ isOpen = FALSE
  /\ handle = "null"
  /\ orphans = 0
  /\ lastError = "none"
  /\ queries = <<Null, Null>>
  /\ obj = [q \in Query |-> "unused"]
  /\ rs = [q \in Query |-> FreshRS]
  /\ inTxn = FALSE
  /\ db = [committed |-> 0, pending |-> 0]

-----------------------------------------------------------------------------
(* Opening and closing.                                                    *)

(***************************************************************************)
(* The body of close(): every registered result set is freed, then the     *)
(* handle is closed.  sqlite3_close refuses (SQLITE_BUSY) while statements *)
(* are left; the driver records that and drops the handle all the same.    *)
(***************************************************************************)
FreedRSButLast ==    \* seeded fault: the loop stops one slot early
  [q \in Query |->
     IF \E i \in 1..(Len(queries) - 1) : queries[i] = q THEN FreeRS(rs[q]) ELSE rs[q]]
FreedRS ==
  [q \in Query |-> IF q \in Registered(queries) THEN FreeRS(rs[q]) ELSE rs[q]]

CloseError ==
  IF isOpen /\ \E q \in Query : FreedRS[q].stmt # Null
  THEN "connection" ELSE lastError

Closing ==
  /\ rs' = FreedRS
  /\ queries' = ClearQueries(queries)
  /\ inTxn' = FALSE
  /\ db' = Discarded(db)

CloseWithoutEngine ==    \* seeded fault: sqlite3_close is not called
  /\ rs' = FreedRS
  /\ queries' = ClearQueries(queries)
  /\ isOpen' = FALSE
  /\ handle' = IF isOpen THEN "null" ELSE handle
  /\ UNCHANGED <<orphans, lastError, obj, dbVars>>
Close ==
  /\ Closing
  /\ lastError' = CloseError
  /\ isOpen' = FALSE
  /\ handle' = IF isOpen THEN "null" ELSE handle
  /\ UNCHANGED <<orphans, obj>>

(***************************************************************************)
(* Open: an open connection is closed first.  sqlite3_open_v2 stores a     *)
(* handle whether or not it succeeds; after a failure it stays in  handle, *)
(* not open, and the next open overwrites it.                              *)
(***************************************************************************)
Open ==
  /\ handle = "failed" => orphans < MaxOrphans
  /\ orphans' = IF handle = "failed" THEN orphans + 1 ELSE orphans
  /\ IF isOpen THEN Closing
               ELSE UNCHANGED <<rs, queries, inTxn, db>>
  /\ \/ /\ isOpen' = TRUE
        /\ handle' = "open"
        /\ lastError' = CloseError
     \/ /\ isOpen' = FALSE
        /\ handle' = "failed"
        /\ lastError' = "connection"
  /\ UNCHANGED obj

ResetError ==
  /\ lastError # "none"
  /\ lastError' = "none"
  /\ UNCHANGED <<connVars, queries, obj, rs, dbVars>>

-----------------------------------------------------------------------------
(* Query objects.                                                          *)

NewQuery(q) ==
  /\ obj[q] = "unused"
  /\ obj' = [obj EXCEPT ![q] = "new"]
  /\ UNCHANGED <<connVars, lastError, queries, rs, dbVars>>

Usable(q) == obj[q] \in {"new", "held"}

(* What prepare(s) and execute(s) do before anything can fail.             *)
Registry0(q) == IF obj[q] = "held" THEN queries ELSE AddQuery(queries, q)
ResultSet0(q) ==
  IF obj[q] = "held" THEN [ClearRS(rs[q]) EXCEPT !.isActive = FALSE]
                     ELSE FreshRS

(***************************************************************************)
(* prepare(s), execute(s) or executeQuery(s) turned down by TDatabaseQuery *)
(* itself: an empty statement, or a connection that is not open.           *)
(***************************************************************************)
Reject(q) ==
  /\ obj[q] # "garbage"
  /\ \/ lastError' = "statement"
     \/ ~isOpen /\ lastError' = "connection"
  /\ rs' = [rs EXCEPT ![q] = ResultSet0(q)]
  /\ queries' = Registry0(q)
  /\ obj' = [obj EXCEPT ![q] = "held"]
  /\ UNCHANGED <<connVars, dbVars>>

(***************************************************************************)
(* TSQLiteResultSet.prepare: the previous statement is finalized, the      *)
(* result set leaves the registry and re-enters it.                        *)
(***************************************************************************)
ReRegisterLost(reg, q) == RemoveQuery(reg, q)   \* seeded fault: no addQuery
ReRegister(reg, q) == AddQuery(RemoveQuery(reg, q), q)
PreparedRS(r, s) == [CleanupRS(r) EXCEPT !.stmt = s]

PrepareFails(q, e) ==
  /\ rs' = [rs EXCEPT ![q] = CleanupRS(ResultSet0(q))]
  /\ queries' = RemoveQuery(ReRegister(Registry0(q), q), q)
  /\ lastError' = e

Prepare(q, s) ==
  /\ Usable(q)
  /\ isOpen
  /\ \/ PrepareFails(q, "statement")
     \/ /\ rs' = [rs EXCEPT ![q] = PreparedRS(ResultSet0(q), s)]
        /\ queries' = ReRegister(Registry0(q), q)
        /\ lastError' = "none"
  /\ obj' = [obj EXCEPT ![q] = "held"]
  /\ UNCHANGED <<connVars, dbVars>>

AddBindValue(q) ==
  /\ obj[q] = "held"
  /\ rs[q].bindCount < MaxBinds
  /\ rs' = [rs EXCEPT ![q].bindCount = @ + 1]
  /\ UNCHANGED <<connVars, lastError, queries, obj, dbVars>>

ClearBindValues(q) ==
  /\ obj[q] = "held"
  /\ rs' = [rs EXCEPT ![q] = ClearRS(@)]
  /\ UNCHANGED <<connVars, lastError, queries, obj, dbVars>>

(***************************************************************************)
(* execute(): the outstanding error is not reset first, so an error that   *)
(* is already set makes a successful execution return False.               *)
(***************************************************************************)
Execute(q) ==
  /\ obj[q] = "held"
  /\ \/ /\ ~isOpen
        /\ lastError' = "connection"
        /\ UNCHANGED <<queries, rs, dbVars>>
     \/ /\ isOpen
        /\ \E out \in ExecuteOutcomes(rs[q]) :
             Run(q, rs[q], queries, lastError, out)
  /\ UNCHANGED <<connVars, obj>>

(***************************************************************************)
(* execute(s) on query q: prepare and execute in one call, with e the error*)
(* outstanding when the call is made.                                      *)
(***************************************************************************)
Direct(q, s, e) ==
  \/ /\ PrepareFails(q, "statement")
     /\ UNCHANGED dbVars
  \/ LET r == PreparedRS(ResultSet0(q), s)
     IN \E out \in ExecuteOutcomes(r) :
          Run(q, r, ReRegister(Registry0(q), q), e, out)

ExecuteStatement(q, s) ==
  /\ Usable(q)
  /\ isOpen
  /\ Direct(q, s, lastError)
  /\ obj' = [obj EXCEPT ![q] = "held"]
  /\ UNCHANGED connVars

(***************************************************************************)
(* TDBConnection.executeQuery(s): resets the error, then execute(s) on a   *)
(* new query, which it returns.                                            *)
(***************************************************************************)
ExecuteQuery(q, s) ==
  /\ obj[q] = "unused"
  /\ isOpen
  /\ Direct(q, s, "none")
  /\ obj' = [obj EXCEPT ![q] = "held"]
  /\ UNCHANGED connVars

(***************************************************************************)
(* nextRow(), also behind HasNext() of the EachIn enumerator.  A result set*)
(* that is not active returns False and does nothing.                      *)
(***************************************************************************)
Fetch(q, out) ==
  LET r == rs[q]
  IN /\ rs' = [rs EXCEPT ![q] = NextRowRS(r, out, HasColumns(r.stmt))]
     /\ lastError' = IF out = "error" THEN "statement" ELSE lastError
     /\ EngineAfter(r.stmt, out)
     /\ UNCHANGED <<connVars, queries, obj>>

CanFetch(q) == obj[q] = "held" /\ rs[q].isActive /\ rs[q].index # AfterLast

NextRow(q) ==
  /\ CanFetch(q)
  /\ \E out \in FetchOutcomes(rs[q]) : Fetch(q, out)

(***************************************************************************)
(* free(), and Delete() run by the collector on a query nobody holds.      *)
(***************************************************************************)
Release(q) ==
  /\ rs' = [rs EXCEPT ![q] = FreshRS]
  /\ queries' = RemoveQuery(queries, q)
  /\ obj' = [obj EXCEPT ![q] = "unused"]
  /\ UNCHANGED <<connVars, lastError, dbVars>>

FreeQuery(q) == Usable(q) /\ Release(q)

Collect(q) == obj[q] = "garbage" /\ Release(q)

Drop(q) ==
  /\ obj[q] = "held"
  /\ obj' = [obj EXCEPT ![q] = "garbage"]
  /\ rs' = [rs EXCEPT ![q] = Abandoned(@.stmt, @.at)]
  /\ UNCHANGED <<connVars, lastError, queries, dbVars>>

-----------------------------------------------------------------------------
(* Transactions.  Each runs its statement through executeQuery on a query  *)
(* of its own, freed on success and abandoned on failure.                  *)

(* The registry seen by a query that the driver itself creates.            *)
Entered(q) == ReRegister(AddQuery(queries, q), q)

(***************************************************************************)
(* base: the result sets once commit and rollback have reset them all.     *)
(***************************************************************************)
Transact(q, s, base) ==
  /\ isOpen
  /\ obj[q] = "unused"
  /\ \/ /\ "done" \in StepOutcomes(s, 0)
        /\ rs' = base
        /\ queries' = RemoveQuery(Entered(q), q)
        /\ lastError' = "none"
        /\ inTxn' = (s = "BEGIN")
        /\ db' = AfterTxn(s, db)
        /\ UNCHANGED obj
     \/ /\ "error" \in StepOutcomes(s, 0)
        /\ rs' = [base EXCEPT ![q] = Abandoned(s, 0)]
        /\ queries' = Entered(q)
        /\ lastError' = "transaction"
        /\ obj' = [obj EXCEPT ![q] = "garbage"]
        /\ AfterError
     \/ /\ rs' = base                        \* the statement did not compile
        /\ queries' = RemoveQuery(Entered(q), q)
        /\ lastError' = "transaction"
        /\ obj' = [obj EXCEPT ![q] = "garbage"]
        /\ UNCHANGED dbVars
  /\ UNCHANGED connVars

(* resetQueries: every registered result set.                              *)
ResetQueriesSkipped == rs    \* seeded fault
ResetQueries ==
  [q \in Query |-> IF q \in Registered(queries) THEN ResetRS(rs[q]) ELSE rs[q]]

StartTransaction(q) == Transact(q, "BEGIN", rs)
Commit(q)           == Transact(q, "COMMIT", ResetQueries)
Rollback(q)         == Transact(q, "ROLLBACK", ResetQueries)

-----------------------------------------------------------------------------
(* The catalogue.                                                          *)

(***************************************************************************)
(* tableExists.  prepare fails and is ignored, so the bind value that is   *)
(* added next does not match and execute fails too; or execute fails; or   *)
(* it succeeds, one nextRow is made (which steps an empty result again and *)
(* may fail) and the query is freed.  Failed queries are abandoned.        *)
(***************************************************************************)
TableExists(q) ==
  /\ isOpen
  /\ obj[q] = "unused"
  /\ \/ /\ queries' = RemoveQuery(Entered(q), q)
        /\ lastError' = "statement"
        /\ obj' = [obj EXCEPT ![q] = "garbage"]
        /\ UNCHANGED <<rs, dbVars>>
     \/ \E out \in {"error", "nobind"} :
          /\ rs' = [rs EXCEPT
                      ![q] = Abandoned(IF Aborts(out) THEN Null ELSE "EXISTS", 0)]
          /\ queries' = RegistryAfter(Entered(q), q, out)
          /\ lastError' = "statement"
          /\ obj' = [obj EXCEPT ![q] = "garbage"]
          /\ EngineAfter("EXISTS", out)
     \/ /\ queries' = RemoveQuery(Entered(q), q)
        /\ \/ lastError' = "none" /\ UNCHANGED dbVars
           \/ lastError' = "statement" /\ AfterError
        /\ UNCHANGED <<obj, rs>>
  /\ UNCHANGED connVars

(***************************************************************************)
(* getTableInfo, once its call of tableExists (an action of its own) has   *)
(* returned True: it reads all rows of one or two statements of a second   *)
(* query and frees it, which takes and gives back the slot the first query *)
(* has just left.  The prepare of the second statement resets the error the*)
(* rows of the first have left, so an error in between may not be seen.    *)
(***************************************************************************)
GetTableInfo(q) ==
  /\ isOpen
  /\ obj[q] = "unused"
  /\ queries' = RemoveQuery(Entered(q), q)
  /\ lastError' \in {"none", "statement"}
  /\ AfterError
  /\ UNCHANGED <<connVars, obj, rs>>

(***************************************************************************)
(* getTables: execute, then nextRow until it returns False, which leaves   *)
(* the statement reset; the query is never freed.  With an error already   *)
(* outstanding execute returns False although it ran, no row is read, and  *)
(* the cursor stays on the row that was fetched in advance.                *)
(***************************************************************************)
GetTables(q) ==
  /\ isOpen
  /\ obj[q] = "unused"
  /\ \/ /\ queries' = RemoveQuery(Entered(q), q)
        /\ lastError' = "statement"
        /\ UNCHANGED <<rs, dbVars>>
     \/ /\ queries' = Entered(q)
        /\ \/ /\ rs' = [rs EXCEPT ![q] = Abandoned("TABLES", 0)]
              /\ \/ UNCHANGED <<lastError, dbVars>>
                 \/ lastError' = "statement" /\ AfterError
           \/ /\ lastError # "none"
              /\ rs' = [rs EXCEPT ![q] = Abandoned("TABLES", 1)]
              /\ UNCHANGED <<lastError, dbVars>>
  /\ obj' = [obj EXCEPT ![q] = "garbage"]
  /\ UNCHANGED connVars

-----------------------------------------------------------------------------
Next ==
  \/ Open \/ Close \/ ResetError
  \/ \E q \in ClientQuery :
       \/ NewQuery(q) \/ Reject(q)
       \/ \E s \in ClientStmt :
            Prepare(q, s) \/ ExecuteStatement(q, s) \/ ExecuteQuery(q, s)
       \/ AddBindValue(q) \/ ClearBindValues(q) \/ Execute(q) \/ NextRow(q)
       \/ FreeQuery(q) \/ Drop(q)
  \/ \E q \in DriverQuery :
       \/ StartTransaction(q) \/ Commit(q) \/ Rollback(q)
       \/ TableExists(q) \/ GetTableInfo(q) \/ GetTables(q)
  \/ \E q \in Query : Collect(q)

Spec == Init /\ [][Next]_vars

-----------------------------------------------------------------------------
(* Properties that hold whatever the client does.                          *)

Tallies == [committed : Nat, pending : Nat]

ResultSets ==
  [stmt : Stmt \cup {Null}, at : 0..MaxRows, cur : 0..MaxRows,
   index : {BeforeFirst, AfterLast, OnRow}, isActive : BOOLEAN,
   initialFetch : BOOLEAN, fake : BOOLEAN, rec : Stmt \cup {Null},
   emptySet : BOOLEAN, bindCount : Nat]

(***************************************************************************)
(* Every variable keeps its type.                                          *)
(***************************************************************************)
TypeOK ==
  /\ isOpen \in BOOLEAN
  /\ handle \in {"null", "open", "failed"}
  /\ orphans \in 0..MaxOrphans
  /\ lastError \in Errors
  /\ queries \in Seq(Query \cup {Null})
  /\ obj \in [Query -> ObjStates]
  /\ rs \in [Query -> ResultSets]
  /\ inTxn \in BOOLEAN
  /\ db \in Tallies

(***************************************************************************)
(* The registry is sound: a result set that owns a statement is registered *)
(* (close() and commit() will find it), no result set has two slots, and a *)
(* slot never keeps a result set whose query was freed or collected.       *)
(***************************************************************************)
RegistrySound ==
  /\ \A q \in Query : rs[q].stmt # Null => q \in Registered(queries)
  /\ \A q \in Registered(queries) : obj[q] \in {"held", "garbage"}
  /\ Distinct(queries)

(***************************************************************************)
(* No statement outlives its connection: when the connection is not open   *)
(* every statement has been finalized, those of abandoned queries included,*)
(* so sqlite3_close never finds the database busy and handle is dropped    *)
(* only when the engine has released it.                                   *)
(***************************************************************************)
ClosedFinalizesAll == ~isOpen => \A q \in Query : rs[q].stmt = Null

(***************************************************************************)
(* A transaction that commit, rollback, close or a second open ends, be it *)
(* by a COMMIT that fails and is rolled back, ends with every statement of *)
(* the connection reset: "we need to ensure our queries are in a state that*)
(* can be committed".  (An error of a statement may end one at any time.)  *)
(***************************************************************************)
EndsTxn ==
  \/ Open \/ Close
  \/ \E q \in DriverQuery : Commit(q) \/ Rollback(q)

TxnEndsQuiescent ==
  [][EndsTxn /\ inTxn /\ ~inTxn' => \A q \in Query : rs'[q].at = 0]_vars

(***************************************************************************)
(* Work in a transaction is never left behind by a connection: pending     *)
(* writes exist only inside a transaction on an open connection.           *)
(***************************************************************************)
PendingOnlyInTxn == db.pending > 0 => inTxn /\ isOpen

(***************************************************************************)
(* A statement can be on a row only while it exists, a transaction can be  *)
(* open only on an open connection.                                        *)
(***************************************************************************)
CursorNeedsStatement == \A q \in Query : rs[q].at > 0 => rs[q].stmt # Null
TxnNeedsConnection == inTxn => isOpen

(***************************************************************************)
(* The inductive invariant: with it every step preserves the properties    *)
(* above.  commit() resets only what is registered, so that all statements *)
(* are reset needs both that a live statement is registered and that a dead*)
(* one is on no row.                                                       *)
(***************************************************************************)
IndInv ==
  /\ TypeOK
  /\ RegistrySound
  /\ ClosedFinalizesAll
  /\ PendingOnlyInTxn
  /\ CursorNeedsStatement
  /\ TxnNeedsConnection

(***************************************************************************)
(* The registry does not grow with use: freed slots are taken again, so it *)
(* never has more slots than query objects exist at one time (and 2 are    *)
(* there from the start).                                                  *)
(***************************************************************************)
RegistryBounded == Len(queries) <= 2 \/ Len(queries) <= Cardinality(Query)

(***************************************************************************)
(* Every handle the engine has allocated is closed or still referred to by *)
(* the connection.                                                         *)
(***************************************************************************)
NoOrphanHandles == orphans = 0
=============================================================================
