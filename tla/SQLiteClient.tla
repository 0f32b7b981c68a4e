---------------------------- MODULE SQLiteClient ----------------------------
(***************************************************************************)
(* A client of the SQLite driver, and what it observes.  The client calls  *)
(* the driver's operations in any order that the rules in Rules allow;     *)
(* history variables record what the calls returned.  With all the rules   *)
(* the driver implements RowCursor and reports every write truthfully;     *)
(* each rule that is left out shows what the driver then does instead.     *)
(***************************************************************************)
EXTENDS SQLiteDriver

CONSTANT Rules   \* the rules the client keeps to, a subset of AllRules

AllRules ==
  {"one_statement",   \* a query object is given one statement in its life
   "drain_first",     \* a SELECT is executed again only after a drain of rows
   "stop_at_end",     \* no fetch once a fetch has returned False, or on a write
   "reset_error",     \* resetError before execute when an error is outstanding
   "txn_outside",     \* no commit or rollback while a cursor is open
   "keep_binds",      \* no clearBindValues while a cursor is open
   "sole_writer",     \* nobody else writes between two steps of an empty result
   "end_failed",      \* once a call in a transaction failed, no write before its end
   "info_outside"}    \* no getTableInfo within a transaction

ASSUME RulesAssumption == Rules \subseteq AllRules

VARIABLES
  ack,    \* the writes that execute() reported as done
  began,  \* "yes" in a transaction, "failed" once a call in it left an error
  view    \* for each query what its client was told, see RowCursor

clientVars == <<ack, began, view>>
allVars == <<vars, clientVars>>

Keeps(rule, condition) == rule \in Rules => condition

Contract == INSTANCE RowCursor WITH cursor <- view

NoView == [status |-> "idle", row |-> 0, made |-> 0]

-----------------------------------------------------------------------------
(* What the client learns from a call.                                     *)

(* The client looks at hasError() after every call.                        *)
LookForError ==
  began' = IF began = "yes" /\ lastError' # "none" THEN "failed" ELSE began

(* execute(s) has returned; it returned True iff no error is outstanding.  *)
LearnExecute(q, s) ==
  /\ view' = [view EXCEPT ![q] =
       IF lastError' # "none" THEN [NoView EXCEPT !.status = "refused"]
       ELSE [status |-> IF HasColumns(s) THEN "open" ELSE "ended",
             row    |-> 0,
             made   |-> rs'[q].at]]
  /\ ack' = IF lastError' = "none" /\ s \in Writes THEN Tally(ack, began # "no") ELSE ack
  /\ LookForError

(* A fetch has returned; made is capped one above the rows of one result.  *)
FetchedRow(q) == rs'[q].at > rs[q].at

LearnFetch(q, returned) ==
  /\ view' = [view EXCEPT ![q] =
       [status |-> IF returned \/ @.status # "open" THEN @.status ELSE "ended",
        row    |-> IF returned THEN rs'[q].cur ELSE @.row,
        made   |-> IF FetchedRow(q) /\ @.made <= MaxRows THEN @.made + 1
                   ELSE @.made]]
  /\ LookForError
  /\ UNCHANGED ack

LearnNothing == LookForError /\ UNCHANGED <<ack, view>>
LearnForget(q) ==
  /\ view' = [view EXCEPT ![q] = NoView]
  /\ LookForError
  /\ UNCHANGED ack

-----------------------------------------------------------------------------
CInit ==
  /\ Init
  /\ ack = [committed |-> 0, pending |-> 0]
  /\ began = "no"
  /\ view = [q \in Query |-> NoView]

Connecting ==
  \/ (Open \/ Close) /\ ack' = Discarded(ack) /\ began' = "no" /\ UNCHANGED view
  \/ ResetError /\ LearnNothing

MayWrite(s) == Keeps("end_failed", s \in Writes => began # "failed")

Giving(q) ==
  /\ Keeps("one_statement", obj[q] # "held")
  /\ \/ Reject(q) /\ LearnForget(q)
     \/ \E s \in ClientStmt :
          \/ Prepare(q, s) /\ LearnForget(q)
          \/ /\ Keeps("reset_error", lastError = "none")
             /\ MayWrite(s)
             /\ ExecuteStatement(q, s)
             /\ LearnExecute(q, s)
          \/ MayWrite(s) /\ ExecuteQuery(q, s) /\ LearnExecute(q, s)

Executing(q) ==
  /\ Keeps("reset_error", lastError = "none")
  /\ Keeps("drain_first",
           rs[q].stmt \notin Writes =>
             \/ view[q].status = "idle"
             \/ view[q].status = "ended" /\ view[q].row > 0)
  /\ MayWrite(rs[q].stmt)
  /\ Execute(q)
  /\ LearnExecute(q, rs[q].stmt)

Binding(q) ==
  /\ \/ AddBindValue(q)
     \/ Keeps("keep_binds", view[q].status # "open") /\ ClearBindValues(q)
  /\ LearnNothing

(***************************************************************************)
(* nextRow(), and HasNext() of TRowEnumerator, which ends an EachIn loop on*)
(* a fetched row when the record is marked as an empty set.                *)
(***************************************************************************)
Fetching(q) ==
  /\ Keeps("stop_at_end", view[q].status = "open")
  /\ NextRow(q)
  /\ Keeps("sole_writer", view[q].made = 0 => ~FetchedRow(q))
  /\ LET returned == rs[q].fake \/ FetchedRow(q)
     IN \/ LearnFetch(q, returned)
        \/ LearnFetch(q, returned /\ ~rs'[q].emptySet)

Letting(q) ==
  \/ NewQuery(q) /\ LearnNothing
  \/ (FreeQuery(q) \/ Drop(q)) /\ LearnForget(q)

(* BEGIN succeeds only outside a transaction, so it tells that an earlier  *)
(* one is gone, and COMMIT only within one, so it tells that it was not.   *)
LearnTxn(s) ==
  /\ IF lastError' = "none"
     THEN /\ ack' = AfterTxn(s, IF s = "BEGIN" THEN Discarded(ack) ELSE ack)
          /\ began' = IF s = "BEGIN" THEN "yes" ELSE "no"
     ELSE LookForError /\ UNCHANGED ack
  /\ UNCHANGED view

Transacting(q) ==
  \/ StartTransaction(q) /\ LearnTxn("BEGIN")
  \/ /\ Keeps("txn_outside", \A p \in ClientQuery : view[p].status # "open")
     /\ \/ Commit(q) /\ LearnTxn("COMMIT")
        \/ Rollback(q) /\ LearnTxn("ROLLBACK")

Inspecting(q) ==
  /\ \/ TableExists(q) \/ GetTables(q)
     \/ Keeps("info_outside", began = "no") /\ GetTableInfo(q)
  /\ LearnNothing

Collecting(q) == Collect(q) /\ LearnNothing

CNext ==
  \/ Connecting
  \/ \E q \in ClientQuery :
       \/ Giving(q) \/ Executing(q) \/ Binding(q) \/ Fetching(q) \/ Letting(q)
  \/ \E q \in DriverQuery : Transacting(q) \/ Inspecting(q)
  \/ \E q \in Query : Collecting(q)

CSpec == CInit /\ [][CNext]_allVars

(***************************************************************************)
(* A client that loops over a result calls nextRow again and again until it*)
(* returns False (the While loop of the documentation, EachIn).            *)
(***************************************************************************)
LoopingSpec == CSpec /\ \A q \in ClientQuery : WF_allVars(Fetching(q))

-----------------------------------------------------------------------------
(* Properties.                                                             *)

(***************************************************************************)
(* Rows are handed out in order, each exactly once, and False means that   *)
(* there are no more: nextRow "fetches the next row, returning True if the *)
(* fetch was successful, or False if there is no more data".               *)
(***************************************************************************)
RowsInOrder == Contract!Spec

(***************************************************************************)
(* The database holds exactly the writes whose execute() returned True,    *)
(* "True if the execute succeeded": none is lost or repeated, and none is  *)
(* done by a call that returned False.  What was written in a transaction  *)
(* is pending or, once a call in it has left an error, all of it may be    *)
(* gone; but what is committed is exactly what was written outside one or  *)
(* before a commit() that returned True.                                   *)
(***************************************************************************)
WritesExactlyOnce ==
  /\ db.committed = ack.committed
  /\ \/ db.pending = ack.pending /\ (inTxn <=> began # "no")
     \/ began = "failed" /\ ~inTxn /\ db.pending = 0

(***************************************************************************)
(* While rows are being read, the record describes the columns of the      *)
(* statement that was executed: rowRecord "returns the record for the      *)
(* query", which is "a specific record (or row) for a result set".  Not so *)
(* for a query object that is given another statement.                     *)
(***************************************************************************)
RecordMatchesStatement ==
  \A q \in ClientQuery :
    view[q].status = "open" /\ rs[q].stmt # Null => rs[q].rec = rs[q].stmt

(***************************************************************************)
(* A row loop ends: a client that keeps fetching is eventually told that   *)
(* there are no more rows.                                                 *)
(***************************************************************************)
LoopsEnd ==
  \A q \in ClientQuery : view[q].status = "open" ~> view[q].status # "open"
=============================================================================
