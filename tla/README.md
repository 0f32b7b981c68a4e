# database.mod: a TLA+ development

`database.mod` is a set of BlitzMax modules that give a program one interface
(`TDBConnection`, `TDatabaseQuery`, `TQueryRecord`) to several databases, and an
object-relational mapper on top of it. This directory models the
driver-independent core, the four drivers (SQLite, PostgreSQL, MariaDB, ODBC), the
transactions of the mapper and the date values, checks the models with TLC on
small instances, and proves the safety properties the runs check with TLAPS for
instances of any size.

## 1. Inventory

| Part | State it keeps | Operations | Correct when |
|---|---|---|---|
| `TDBConnection` (core.bmx) | `_isOpen`, `handle`, `_lastError` | open, close, executeQuery, startTransaction / commit / rollback, error, resetError | a call reports what happened; nothing is left behind by close |
| `TDatabaseQuery` (core.bmx) | `resultSet` | prepare, execute, nextRow, the typed setters, free, the EachIn enumerator | rows come once, in order; writes happen once per successful execute |
| `TQueryResultSet` (core.bmx) | index, `_isActive`, `boundValues`, `bindCount`, `values`, `rec` | bindValue, addBindValue, clearBindValues, clear | the engine gets the values that were asked for |
| `TQueryRecord`, `TQueryField` (core.bmx) | fields, `_isEmptySet` | setField, value, isEmptySet | it describes the statement whose row is read, and shows that row |
| `TDatabaseError` (core.bmx) | kind, message | isSet | an error is the error of the last call |
| SQLite driver (sqlite.bmx, sqlitehelper.c) | `queries` (the registry of result sets), `stmtHandle`, `initialFetch`, `fakeFirstRowFetch` | Open, close, prepare, execute, nextRow, reset, commit, rollback, getTables, tableExists, getTableInfo, loadOrSaveDB | every statement is finalized before its connection is closed, and reset before a transaction ends |
| PostgreSQL driver (postgresql.bmx, glue.c) | `pgResult`, `_queryRows`, the name of the prepared statement on the server | the same, and DEALLOCATE from the finalizer | what is reported as committed is durable, what failed is not; no finalizer releases another's statement |
| MariaDB driver (mariadb.bmx) | `stmtHandle`, `resultHandle`, `preparedQuery` | the same; cleanup closes the statement | the same |
| ODBC driver (odbc.bmx, odbchelper.c) | `stmtHandle`, autocommit | the same; a transaction is autocommit off, and ends in two calls | the same; no handle is used after it was freed |
| iODBC driver manager (odbc.mod/iodbc) | the state of each statement handle | SQLPrepare, SQLExecDirect, SQLExecute, SQLFetchScroll, SQLEndTran, SQLDisconnect | third-party; refuses calls out of order |
| ORM (orm.bmx, ormsqlite.bmx, ormpostgresql.bmx) | `TOrmTransaction`: completed, isStrict; entity metadata | StartTransaction, Commit, Rollback, Close (the end of a Using block), Save, Update, Delete, finds | a unit of work is committed or leaves nothing |
| date, time and datetime values (dbtypes.bmx, strptime.bmx, core.mod/glue.c) | parts and a count of seconds, `_isNull` | setFromParts, setDate, clear, conversions | both forms are the same instant |
| other value types (dbtypes.bmx) | a value and `_isNull` | set, get, clear, conversions | a conversion returns what was stored |
| loaders | a list of factories | register, search | - |
| engines, servers and client libraries | a session, its transaction and its statements | - | third-party, seen through the results of their calls |

How they interact. A client calls a `TDatabaseQuery`, which calls the
`TQueryResultSet` its connection made for it. All queries of one connection
share the connection's error, its transaction and (SQLite) its registry of result
sets. The registry is what lets close() finalize and commit() reset statements
that belong to other query objects. The garbage collector runs the finalizers of
queries and result sets that nobody holds any more, at moments the program does
not choose; some of them talk to the server. The mapper wraps a transaction in an
object whose Close, called at the end of a `Using` block however it is left, rolls
back what was not completed.

What is hard. There are no threads; what varies is the order of calls on several
queries of one connection, the answer of the engine or server to every call, and
the time of collection.

* SQLite: the code fetches the first row in advance inside execute() and keeps it
  by two flags that five methods set in part. It decides whether a call succeeded
  by looking at the connection's error, which may be older than the call. It
  abandons queries whose statement failed, so live statements exist that only the
  registry knows. Some errors of the engine undo the whole transaction and not only
  the statement.
* Servers: a connection is lost before or after the server has acted; an error
  aborts a transaction (PostgreSQL) or rolls it back unseen (MariaDB on a deadlock);
  `_isOpen` outlives the session; finalizers release statements on the server; an ODBC
  commit may succeed in its first half and fail in its second.
* Objects: bind values and row values are cleared in place and are shared between
  result set, record and client.
* ORM: exceptions pass through Using blocks whose own rollback may fail.
* Dates: two forms of one instant, and day arithmetic on negative eras in C.

`PROJECT.json` lists each hazard at its line.

## 2. Modules

| Module | Models |
|---|---|
| `NullObject` | BlitzMax's `Null` |
| `RowCursor` | the contract of a query, independent of a driver (the abstract specification) |
| `QueryRegistry` | `queries` of `TDBSQLite`: addQuery, removeQuery, clearQueries |
| `SQLiteResultSet` | one `TSQLiteResultSet` as a record, its methods as operators on it |
| `SQLiteDriver` | a connection, its query objects and the part of the engine they see: the state machine |
| `SQLiteClient` | a client of that state machine, the rules it keeps, and what it has been told |
| `DBType` | the values of TDBType objects, and what `clear()` does to them |
| `BindList` | `boundValues` / `bindCount`, with object identity |
| `RowValues` | the value objects of a row, shared by result set, record and client |
| `ServerSession` | a database server: one session that may be lost, and the durable table (external) |
| `ServerClient` | what the models of the three server drivers share: connection, client, history, promises |
| `PostgreSQL`, `MariaDB`, `ODBC` | the drivers, each extending `ServerClient` |
| `DriverManager` | iODBC's states of a statement handle |
| `ORM` | `TOrmTransaction` and the data access objects, on either dialect |
| `CivilDate` | day arithmetic, validators and date objects |
| `MCSQLiteDriver`, `MCSQLiteClient`, `MCRowValues` | constants and symmetry for TLC |
| `SQLiteDriverProofs` | theorems about `QueryRegistry`, `SQLiteDriver` and `SQLiteClient` |
| `ValueProofs` | theorems about `BindList` and about `CivilDate` |
| `RowValuesProofs`, `ORMProofs` | theorems about the module of that name |
| `ServerClientProofs` | lemmas the proofs of the server drivers share |
| `PostgreSQLProofs`, `MariaDBProofs`, `ODBCProofs` | theorems about the drivers |

### SQLiteDriver

Each public method is one action: nothing of the program runs between the
statements of a method, so a method is atomic, with all it calls. The
driver-independent half (core.bmx) and the SQLite half (sqlite.bmx) of an
operation are one action.

* `obj[q]` is the life of a `TDatabaseQuery`: unused, new (no result set), held,
  or garbage (unreachable, not yet collected). `Drop` makes a query garbage,
  `Collect` runs its `Delete`; both may happen at any time.
* `rs[q]` is its result set. `at` is the engine's cursor, which sqlite3_step
  moves and sqlite3_reset takes back; `cur` says which row is in `values`. A row is
  identified by its position in the result. Row indexes above zero are one
  value, because no code tells them apart.
* `queries` is the registry, `<<Null, Null>>` at first like the array.
* `db` counts rows written by INSERT-like statements, committed and pending;
  `inTxn` is the engine's transaction.
* `handle` and `orphans`: `sqlite3_open_v2` stores a handle also when it fails.

The engine answers by `StepOutcomes`: a row, done, or an error. A SELECT may
end or fail at every step. BEGIN fails in a transaction, COMMIT and
ROLLBACK outside one; COMMIT may fail inside one; stepping a null statement is an
error. A statement on a row may fail to reset in execute(). Closing a connection
rolls back. An error undoes its own statement, or all of the transaction, which is
then over (`AfterError`, `EngineAfter`): sqlite3VdbeHalt does that for a full disk, an
I/O error, no memory and an interrupt (sqlite3.c:91049-91082), in a statement that only
reads and in COMMIT too. Any error of the model may be one of those.

`Transact` is the common shape of startTransaction, commit and rollback; they
run their statement on a query of the driver's own (`DriverQuery`), which is freed
on success and abandoned on failure. `GetTables` never frees its query. `GetTableInfo` is
the part of getTableInfo after its call of tableExists; its second prepare resets
the error that the first statement may have left (sqlite.bmx:266).

### SQLiteClient and RowCursor

`SQLiteClient` adds what the client has learnt: `ack`, the writes for which
execute() returned True, `began`, whether it is in a transaction and whether a call in
it has left an error, and `view[q]`, for each query whether it is open, which
row it was handed last and how many rows the engine has made since execute.
`view` is the refinement mapping to `RowCursor`: Begin, Refuse, Advance, Finish,
Forget are the only ways it may change.

The driver honours the contract only for clients that follow some rules, which
the code and its documentation do not state. They are the constant `Rules`; a
configuration leaves one out by giving its name to `Dropped`.

| Rule | Meaning | Without it |
|---|---|---|
| `one_statement` | a query object gets one statement in its life | the record keeps the columns of the first statement: `RecordMatchesStatement` fails (with two SELECTs) |
| `drain_first` | a SELECT is executed again only after rows were read to the end | the first row is lost: `RowsInOrder` fails |
| `stop_at_end` | no nextRow after False, none after a write | the result starts over (`RowsInOrder`); an executed INSERT is done again by nextRow (`WritesExactlyOnce`) |
| `reset_error` | resetError before execute when an error is outstanding | a write that was done is reported as failed: `WritesExactlyOnce` fails |
| `end_failed` | once a call in a transaction left an error, no write before commit, rollback or close | the engine may have ended the transaction, and the write commits on its own: `WritesExactlyOnce` fails |
| `info_outside` | no getTableInfo in a transaction | an error that ended the transaction may be reset inside it: `WritesExactlyOnce` fails |
| `txn_outside` | no commit or rollback while a cursor is open | the loop starts over at each commit and need not end: `LoopsEnd` fails |
| `keep_binds` | no clearBindValues while a cursor is open | the row fetched in advance is wiped: `RowsInOrder` fails |
| `sole_writer` | an empty result is still empty when nextRow steps it again | assumption on the environment: execute() has already stepped the statement, the first nextRow steps it anew |

### DBType, BindList and RowValues

`DBType`: clear() makes an object null, except a blob without a data pointer (`NoData`),
which it leaves as it is (`AfterClear`, dbtypes.bmx:1063-1071). An empty blob that SQLite
returns is one.

`BindList`: positions count from 1 (the code from 0). `content[o]` is what an object
holds, Null when cleared. The history variable `asked` is the list of values the
client asked for; `Sent` is what the engine binds in execute(); it takes a blob without
data pointer as NULL (`Taken`). An object nobody
refers to may be allocated again, which is why `BindNew` takes any object not in the
list.

`RowValues`: `values` are the objects of the result set, `fields` those of the record,
`kept` those a client has taken from a row. A fetch clears the objects of the row
before and makes new ones, except for NULLs, where the cleared object of the
earlier row stays in place, or the blob that clear() did not touch (`Shows`).
`stage` follows the row fetched in advance. The constant
`Careful` says that the client clears no bind values while it reads rows, and does
not clear, through a query it has bound it to, an object of the row being read.

### The server drivers

`ServerSession` is a server as the client libraries show it: whether the session
lives, its transaction (none, open, or aborted), the prepared statement it holds for
each query, and the writes, pending and committed. Only the committed writes outlive
a session. With `Faults` a call may be lost before or after the server has done the
work.

A call of a driver is a set of outcomes, one for each combination of answers it may
get; an action picks one. Operators compose as the code does: `QueryPrepare` is
`TDatabaseQuery.prepare` (isOpen, then the driver, then resetError on success), and
`DriverPrepare` the method of the result set.

`ServerClient` keeps what a client of any of the drivers has been told: `ack` (writes
it may count on), `began` (in a transaction, or in one in which a call failed), `view`
(as in `SQLiteClient`; it refines `RowCursor`), `said` (what prepare() reported as
prepared), `lost` (some answer was lost) and `stray` (a live session nobody refers to).
The promises are stated there once: `AckedIsDurable`, `NoPhantomWrites`, `OneSession`,
`RowsInOrder`; each driver adds its `PreparedStays` and `FailuresExplained`, and ODBC
`HandlesLive`. `FailuresExplained` is an invariant over the calls that are possible in a
state: whatever the answer to a prepare() or execute() that the rules allow, a False
leaves an error, also on a query whose last call has failed already.

* `PostgreSQL`: results are held in the client, statements are named after the
  address of the result set, and `Collect` runs the finalizer's DEALLOCATE at any time.
  COMMIT of an aborted transaction is a ROLLBACK that succeeds. `isOpen()` looks at the
  connection; startTransaction, commit and rollback do not.
* `MariaDB`: `cleanup()` closes the statement on the server, and reading a result to
  its end calls it. An error may roll the transaction back. BEGIN commits an open
  transaction. Reading a prepared result after its session was closed is
  undefined in the client library; the client does not do it (`MayClose`).
* `ODBC`: rows come from the data source one by one and may fail one by one. commit
  and rollback are `SQLEndTran` and then autocommit on. `DriverManager` decides whether a
  call is allowed in the state of the handle; `CursorBehavior` is what the data source
  does to statements when a transaction ends.

| Rule | Kept in | Meaning | Without it |
|---|---|---|---|
| `check_error` | PostgreSQL | commit only when no error is outstanding | commit() of an aborted transaction returns True: `AckedIsDurable` fails |
| `rollback_after` | all three | after a call returned False in a transaction, roll back first | the server may have rolled back, and later writes commit on their own or are lost: `NoPhantomWrites` (ODBC: `AckedIsDurable`) fails |
| `heed_refusal` | all three | no nextRow after a call that returned False | rows of an earlier execution come out: `RowsInOrder` fails |
| `no_nesting` | MariaDB | startTransaction outside a transaction only | the open one is committed: `NoPhantomWrites` fails |
| `prepared_first` | MariaDB, ODBC | execute() only on a query whose last call prepared it (ODBC: that has a statement handle) | False without an error: `FailuresExplained` fails |
| `not_drained` | MariaDB | no execute() after the rows were read to the end | cleanup() has closed the statement: `PreparedStays` fails, and `FailuresExplained` |
| `end_first` | ODBC | end the transaction before closing | the disconnect may be refused: `OneSession` fails |
| `fresh_queries` | ODBC | drop every query before closing | freed handles are used: `HandlesLive` fails |
| `toggle_works` | ODBC | autocommit can be switched on while the session lives | commit() returns False for committed work: `NoPhantomWrites` fails |

### ORM

`tx` is the stack of Using blocks, each a `TOrmTransaction` with its fields and with
whether an exception is in flight in it. A call that throws marks the innermost
block; `Close` runs at the end of a block, normally or by the exception, which it
passes on. `promise[w]` is what the client was told of each change: kept, undone, or
unknown once the answer to a COMMIT was lost. What SQLite does to a transaction on an
error is taken from its source (`SqliteFailures`: some errors undo the statement, some
the transaction, also in statements that only read). The rules: `unwind` (no exception
is caught within a Using block), `no_nesting`, and `check_find` (the client looks for an
error after a find, since the code does not).

### CivilDate

`y`, `m`, `first` walk through the calendar month by month from January 1970 in both
directions, counting days: the reference. In every month the arithmetic of glue.c
(with C's division toward zero) and the validators of strptime.bmx are compared with
it for every day. Objects of the three kinds are set and cleared in any order, at
the ends of the month and of the day and beyond. `Minute`, 60 in the code, is a
constant: TLC's integers have 32 bits and dates before 1902 in seconds do not fit; the
operators are the same for every value.

## 3. Runs

| Run | Instance | States | Shows |
|---|---|---|---|
| `driver` | 1 client and 1 driver query, a SELECT, a one-parameter write, 2 rows, 1 write, up to 2 binds, 1 orphan | 236,176 | the inductive invariant; `PendingOnlyInTxn`; `TxnEndsQuiescent` (commit, rollback, open and close end a transaction only with all statements reset; an error of the engine ends one as it is) |
| `client_rules` | 1 client query, 2 writes, all rules, fairness of the row loop | 72,722 | rows in order (refinement of `RowCursor`), writes exactly once, also when an error ends the transaction, a row loop ends |
| `client_cursors` | 2 client queries and 1 driver query, all rules | 1,310,988 | two cursors do not disturb each other; three result sets share a registry of two slots, which is extended, freed in the middle and filled again: `RegistrySound`, `ClosedFinalizesAll`, `RegistryBounded` |
| `bind_unshared` | 4 objects, 2 values and an empty blob, 3 positions | 56,096 | the values asked for are sent |
| `row_values` | 5 objects, 2 columns, 2 values, an empty blob and NULL, 1 kept object | 20,319 up to symmetry | a row shows what the engine gave and nothing of an earlier row, but for an empty blob in the place of a NULL; a kept object never takes another row's value |
| `postgresql` | 1 client and 1 driver query, 2 rows, 2 writes, lost calls | 147,591 | what was acknowledged is durable, what failed is not there, no finalizer releases another's statement, one session, rows in order, failures have an error |
| `mariadb` | 1 query, 2 rows, 2 writes, lost calls | 39,914 | the same, `OneSession` excepted |
| `odbc` | 1 query, 2 rows, 2 writes, lost calls, cursors closed at the end of a transaction | 18,642 | the same, and no freed handle is used |
| `orm` | 3 changes, both dialects, blocks 2 deep | 39,670 | committed changes are kept, others leave nothing, no transaction outlives its block, short lists can be told, an exception gets out |
| `dates` | years -401 to 2401; objects within 30,000 days of 1970 | 376,386 | day arithmetic, validators and both forms of a date are right |
| `odbc_rerun` | as `odbc`, no lost calls | | violated, see Findings |
| `orm_find` | as `orm`, 1 deep, without `check_find` | | violated, see Findings |

Bounds. Two rows tell the first row (fetched in advance), a later row and the end
apart. One or two writes tell done, done twice and not done apart. Two bind values
against one placeholder give too few, right and too many. Three query objects exceed
the two slots the registry starts with. `MaxOrphans` is the number of handles that may
be lost; Open after a failed Open is disabled at the bound, and the bound is 0 in the
runs that are not about it. `made` in `view` stops counting above `MaxRows`, where the
contract is already broken. On a server the session, the transaction and the
acknowledged writes are shared, and result sets touch each other only there: in
`postgresql` the finalizer of a second result set may run at any time, in MariaDB and
ODBC a statement belongs to its handle and no other result set can name it. Three
changes let the mapper make one before, one in and one after a block. -401 to 2401 is
more than one whole era on either side of the year 0, and the rules repeat after 400
years. Five value objects are two rows of two columns and a kept one. In `row_values`
objects and columns are interchangeable and the invariants name none of them, so
symmetry is sound; the run has no temporal property.

Fairness. `client_rules` uses weak fairness of `Fetching(q)`, the loop
`While query.nextRow()` of the documentation, in which the client calls again as long
as it gets True. `ORM` uses weak fairness of `Unwind`: an exception in flight in a Using
block leaves it and so calls Close, which is what the language does. Nothing is
assumed of an engine, a server or the collector. A SELECT has at most `MaxRows` rows, as
every result is finite.

Every property of a passing run has a seeded fault (operators marked `seeded fault`,
listed under `mutants`) that makes the run fail. Type invariants (`TypeOK`) are stated
in every module that is a state machine; SQLiteDriver's is part of `IndInv` and is
proved, the others say what the values of the variables look like and hold on
the instances above, but are not listed in the configurations.

Deadlock checking is on in every run: a client can always open, close or make a call.

## 4. Findings

Two runs are violated, and `PROJECT.json` quotes both sides:

* `odbc_rerun`: a prepared SELECT whose rows were read to the end cannot be executed
  again, because nothing closes its cursor and iODBC answers 24000
  (odbc.bmx:570, iodbc/execute.c:1034); the documentation of prepare promises several
  executions (core.bmx:372, core.mod/doc/intro.bbdoc:42).
* `orm_find`: a find that is cut short by an error returns the list it has
  (orm.bmx:879). If the error has rolled SQLite's transaction back, a Save that follows
  in the block commits on its own and stays when the block is left without Commit,
  against orm.mod/doc/intro.bbdoc:357.

### Deviations

The rules of section 2 are what the passing runs ask of a client; each was found
because a property failed without it, and each is reproduced by leaving it out of
the run's configuration (`Dropped = ...` in those of `SQLiteClient`). In short, and
with what the documentation says:

* SQLite: the record keeps the columns of the first SELECT of a query object, "A specific
  record (or row) for a result set." (core.bmx:923): `RecordMatchesStatement` with two
  SELECTs and without `one_statement` (sqlite.bmx:644). No passing run lists it, because
  with one statement it says nothing.
* SQLite: with an earlier error outstanding execute(), "True if the execute succeeded."
  (core.bmx:371), does the write and returns False: `WritesExactlyOnce` without
  `reset_error` (sqlite.bmx:610).
* A NULL after an empty blob reads as a blob that is not null, where value() "Returns the
  value of the field at @index." (core.bmx:441): `ValueOfField` as an invariant of
  `row_values` (dbtypes.bmx:1064, sqlite.bmx:652-670). `RowIsCurrent`, which allows just
  this and no more, is checked and proved.
* clearBindValues, "Clears the query bind values." (core.bmx:671), also clears the row that
  is being read or waits to be handed out: `RowIsCurrent` with `Careful = FALSE`
  (core.bmx:794).
* PostgreSQL: commit(), "#True if successful." (core.bmx:123), of a transaction that an
  error has aborted returns True, and nothing was written: `AckedIsDurable` without
  `check_error` (postgresql.bmx:130). The error may be one of a finalizer's DEALLOCATE, so
  that every call of the client has returned True.
* MariaDB: a prepared SELECT that was read to its end cannot be executed again, and the
  False comes without an error (core.bmx:372, 373): `FailuresExplained` without
  `not_drained` (mariadb.bmx:552, 892).
* ODBC: after a failed prepare() and resetError, execute() returns False without an error:
  `FailuresExplained` without `prepared_first` (odbc.bmx:575).
* A failed Open leaks its handle: `NoOrphanHandles` as an invariant of `driver`
  (sqlite.bmx:297; sqlite3.h:3733 asks for a close also after a failure).
* MariaDB: a connection whose database cannot be selected is left behind by the next
  open: `OneSession` as an invariant of `mariadb` (mariadb.bmx:302).
* bindValue clears the object it is about to store when it is the one already there,
  and an object bound twice is sent as NULL: `SentAsAsked` of `BindList` with
  `Unshared = FALSE` (core.bmx:898 against core.bmx:512).
* ODBC commit() reports a failure for work that is committed when only its second half
  fails: `NoPhantomWrites` without `toggle_works` (odbc.bmx:123).
* getTableInfo in a transaction may hide an error that has ended it: `WritesExactlyOnce`
  without `info_outside` (sqlite.bmx:266).
* getTableInfo's columns keep value objects of their rows, which the next fetch clears:
  `KeptNeverChanges` allows a kept object to become null, and no more
  (sqlite.bmx:653).
* ORM: `UndoneIsGone` without `unwind` (an exception caught inside a block after SQLite or
  PostgreSQL has ended the transaction) and without `no_nesting` (the inner Commit of
  PostgreSQL commits the outer transaction).

## 5. Proofs

All theorems are for any number of query objects, statements, rows, writes, columns
and blocks; TLC's bounds are not in them, except as numbers without a value.

Assumptions on the constants. SQLite: `Null` is no query and no statement
(`NullAssumption`), client and driver queries differ (`QueryAssumption`), the kinds
of statements are disjoint (`StmtAssumption`), each client statement has a number
of parameters (`ParamAssumption`), there are finitely many query objects
(`FiniteAssumption`, used only by the bound on the registry), the bounds are
numbers and a result can have a row (`BoundAssumption`). Server drivers: the
client's queries are queries, statements that select and that write differ and are not
`Null` (`ClientAssumption`), a data source has one of ODBC's three cursor behaviours
(`ODBCAssumption`), calls may or may not get lost (`FaultsAssumption`). ORM: one or both of
its dialects (`ORMAssumption`). Values: `Null` is no object and no value
(`ObjectAssumption`, `RowAssumption`, `ValueAssumption`). Dates: a
minute has seconds, and the walk starts within its range (`RangeAssumption`).

Some theorems have the hypothesis `Rules = AllRules` or `Careful`: they speak of a
client that keeps the rules of section 2. The rules are the guards under which
the runs check the same properties; without one of them the property is false.

### SQLite (`SQLiteDriverProofs`)

Whatever the client does:

* `Invariance`: `Spec => []IndInv`. `IndInv` is the type invariant with
  `RegistrySound`, `ClosedFinalizesAll`, `PendingOnlyInTxn`, `CursorNeedsStatement`
  and `TxnNeedsConnection`. `RegistrySound` is not a property of the registry alone:
  close() frees only what is registered, so `ClosedFinalizesAll` needs that every
  live statement is; commit() resets only what is registered, so
  `TransactionsEndQuiescent` needs in addition that a finalized statement is on no row
  (`CursorNeedsStatement`). That close() in a transaction leaves nothing pending
  needs `TxnNeedsConnection`. One lemma per action shows that it keeps the invariant.
  It rests on the lemmas about addQuery, removeQuery and clearQueries (what they
  register, that they keep slots distinct, how they change the length).
* `TypeCorrect`, `RegistryCorrect`, `CloseCorrect`, `PendingCorrect` follow from it.
* `TransactionsEndQuiescent`: the action property, from the invariant. It is about the
  calls that end a transaction; an error that undoes all of it leaves the cursors of
  other statements where they are.
* `RegistryStaysBounded`: the registry has at most two slots, or as many as there are
  query objects. The argument: it grows only when no slot is free; then the slots
  hold different queries, none of them the one that is added, so there are fewer slots
  than queries. It is a second induction, over `IndInv`.

For a client that keeps the rules, with `ClientInvariance` (`CSpec => []ClientInv`):

* `WritesReportedTruthfully`, and `SQLiteRowsInOrder`, the refinement: `SQLiteClient`
  implements `RowCursor`.
* The agreement of the two tallies (`TallyInv`) is between what the client counts and
  what the engine has: they are equal, or the engine has ended the transaction and
  the client has seen an error in it (`began = "failed"`). In the second case the client
  writes nothing more (`end_failed`), a COMMIT or ROLLBACK is refused and a BEGIN that
  succeeds tells that the transaction is gone.
* `ClientInv` adds to `IndInv` and `WritesExactlyOnce` the predicate `Tells`, which relates
  the client's view of each query to its result set. For an open cursor: either the
  first row waits in `values` (`fake`) and none was handed out, or as many rows were handed
  out as the engine made, and the engine is on the last of them; `initialFetch` is down,
  or the next row would be kept back; a result with rows is not marked as an empty set,
  or EachIn would stop early. For a query that may be executed again: `initialFetch` is
  up again and the empty mark is not set. That is where the rules are needed: a
  result that was empty or not read to its end leaves `initialFetch` down, and the next
  execution would hand out its second row first. `WritesExactlyOnce` needs that no open
  cursor is on a write, because a fetch would run it once more, and
  `PendingOnlyInTxn` for an open() that finds the connection closed.

### Values

`ValueProofs`: `BindInvariance`, when bind objects are not shared, the inductive
invariant holds; and from it `BindsAsAsked`, every execution sends what was asked. The
invariant adds to it that no object has two positions and that what is left in the
array beyond the count is bound as NULL (null, or a blob that clear() left there): a
position that is skipped may expose the tail of an earlier list.

`RowValuesProofs`: `RowInvariance`, `RowsAreCurrent`, `KeptTakesNoOtherValue`, for
a careful client. A kept object may be cleared under its holder; that is all.
The two properties need each other and one fact more (`RecordLent`): while a row is
shown the record holds the very objects of the result set.

### Dates (`ValueProofs`)

For any range of years around 1970, any distance from it and any length of a minute:

* `DaysAreCountedRight`, `ValidatorsAreRight`, `FormsAreRight`: the three invariants of
  `dates`, from `DateInvariance` (`DateSpec => []DateInv`).
* Three facts about the code's functions on all their inputs, of which no run can
  check more than a part. `RoundTrip`: db_civil_from_days inverts db_days_from_civil on
  every date. `EveryDayIsADate`: every number of days is taken to a date of the
  calendar, and back. `SplitAndCalc`: the same of a value in seconds, so the parts that
  setDate leaves are valid whatever it is given.

The argument. glue.c counts years from March in eras of 400. `DaysFrom` removes the eras:
with the era rounded down, `db_days_from_civil` is 365 days a year plus the
quotients by 4, 100 and 400, in negative years too. In this form a step from one month to
the next leaves the year unchanged, except from February to March, where the quotients
change exactly in a leap year (`MonthStep`, `LeapYears`): that is the induction along the
walk, started at 1970-01-01 (`Epoch`). For the inverse a year of an era is written as *a*
hundreds, *b* fours and *c* years. `EraQuotients` shows that the three corrections in
`db_civil_from_days` then leave 365 times the year and at most 364 days, also on the
last day of an era, where two of them cancel each other. Values in seconds go through
`DivisionInC`: the division of C goes toward zero, and the rest is negative exactly when
`_splitDateValue` corrects both by one.

`DateInv` is the type invariant with `DaysCountedRight` and `BothFormsRight`. The type of an
object matters: setFromParts calculates the value from both parts, also from the
one that the kind of the object does not keep, and a time in a `TDBDate` that was not
a time of the day would move the value to another day.

The theorems are about integers without a limit. In the code a value has 64 bits and a
year 32; nothing overflows while the year fits 32 bits (less one era at the lower end),
and beyond that db_civil_from_days cuts the year off.

### The server drivers

`ServerClientProofs` has the lemmas that the three drivers share: what the commands of a
session do to it; `Accounted`, the client's tally of its transaction
against the server's, and the calls that keep it (`Steady`), cut the session off (`Cut`) or
write (`WroteTo`); and that a change of one view of the forms in `ViewStep` is a step of
`RowCursor`.

Each of `PostgreSQLProofs`, `MariaDBProofs` and `ODBCProofs` proves the inductive invariant
(`PostgresInvariance`, ...), and from it `AckedIsDurable`, `NoPhantomWrites`,
`PreparedStays`, `FailuresExplained` and the refinement of
`RowCursor`; PostgreSQL and ODBC also `OneSession`, ODBC also `HandlesLive`. A call may be
answered, refused or lost, before or after the server has acted. The invariants differ
in what the drivers keep:

* PostgreSQL. `SameTransaction`: a client that began a transaction has one on the
  server while the session lives, with the writes it counts; if the server has aborted
  it, an error is outstanding. Without that last part commit() could be called on
  an aborted transaction and its "COMMIT" be taken for success.
* MariaDB. A session may be alive with the open flag down (its database could not be
  selected), but then without a transaction; and the statement the server holds
  for a query is the one of its result set or none (`SameStatements`).
* ODBC. A result set in use is without a statement handle only after a call that failed, and
  when the connection is not open there are no statement handles. With the rules
  `end_first` and `fresh_queries` a disconnect is neither refused nor frees a handle that a
  result set still has, which is what `HandlesLive` and `OneSession` need; `toggle_works`
  excludes a commit() that fails in its second half.

In all three `Agrees` relates a view to the stored result (rows, position, row index) and
gives the refinement.

### ORM (`ORMProofs`)

`OrmInvariance`, and from it `OrmKeptIsDurable`, `OrmUndoneIsGone`,
`OrmNoTransactionLeft`, `OrmShortListsMarked`, on either dialect, for any depth of Using
blocks. The invariant (`Blocks`, `Accounts`): only the innermost block can be
not completed; without such a block there is no transaction; with one, the
server's pending changes are changes of that block, none of them is durable unless
a commit was lost, and until a call has thrown the server has all of them. The last
part makes Commit keep everything; the one before makes a rollback that fails harmless.

### Only model-checked

* Liveness (`LoopsEnd`, `ThrowReleases`): the proof system has no rules for fairness and
  ENABLED.
* What the violation runs show is a behaviour, found by TLC.

## 6. What is not modelled

* loadOrSaveDB (the engine's backup interface between two connections);
  resetBindCount, which nothing calls.
* A statement of only blanks or comments, which prepare() accepts without
  making a statement and execute() then fails on.
* Text: dbStrptime and strftime (parsing accumulates digits in an Int without a limit
  on their number), conversions between value types, the encodings of parameters and
  columns in the drivers.
* The number of bind values: PostgreSQL sends as many parameters as the array is long
  (a wrong number is refused by the server, as any execution may be in the model), and
  MariaDB runs a statement with old bindings when the count differs.
* Dates: dbIsValidTime's check of the microseconds; seconds are the smallest part of a time.
* ODBC: the state executed_with_info of a statement whose execution was answered with
  SQL_SUCCESS_WITH_INFO; a success is SQL_SUCCESS in the model.
* ORM: a ROLLBACK that SQLite cannot compile, for want of memory. It would leave the
  transaction open after Close; `SQLiteDriver` has the case.
* ODBC: a dropped query's statement handle (odbc.bmx:404) stays allocated until the disconnect; the model
  forgets it.
* ORM: generated SQL, reflection, JSON fields, schema validation.
* The loaders, lists of factories searched by name.
* SQLite, libpq, the MariaDB client and iODBC themselves, except the states of a
  statement handle. They are third-party, and nearly all of the repository's C and
  header lines are theirs; what is modelled is the BlitzMax code and its glue.

## 7. Plan

1. The bind list together with the number of parameters, for PostgreSQL and MariaDB.
2. dbStrptime against a reference.
