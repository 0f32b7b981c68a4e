------------------------- MODULE SQLiteDriverProofs -------------------------
(***************************************************************************)
(* Proofs about SQLiteDriver and SQLiteClient: for any number of query     *)
(* objects, statements, rows and writes.                                   *)
(***************************************************************************)
EXTENDS SQLiteClient, FiniteSets, FiniteSetTheorems, FunctionTheorems,
        WellFoundedInduction, TLAPS

-----------------------------------------------------------------------------
(* What addQuery, removeQuery and clearQueries do to the registry, for     *)
(* every registry and every set of result sets.                            *)

(***************************************************************************)
(* A value that occurs in a sequence has a first position there (the loops *)
(* of addQuery and removeQuery stop at it).                                *)
(***************************************************************************)
LEMMA FirstIndexExists ==
  ASSUME NEW S, NEW s \in Seq(S), NEW v, \E i \in DOMAIN s : s[i] = v
  PROVE  FirstIndex(s, v) \in DOMAIN s /\ s[FirstIndex(s, v)] = v
<1> DEFINE P == {i \in DOMAIN s : s[i] = v}
           R == {ss \in Nat \X Nat : ss[1] < ss[2]}
<1>0. R = OpToRel(<, Nat)
  BY Zenon DEF OpToRel
<1>1. DOMAIN s \subseteq Nat
  OBVIOUS
<1>2. P \subseteq Nat /\ P # {}
  BY <1>1
<1>3. PICK x \in P : \A y \in P : ~(<<y, x>> \in R)
  <2> HIDE DEF P, R
  <2>1. IsWellFoundedOn(R, Nat)
    BY <1>0, NatLessThanWellFounded, Zenon
  <2> QED BY <1>2, <2>1, WFMin
<1>4. \A y \in P : x <= y
  <2> TAKE y \in P
  <2>1. x \in Nat /\ y \in Nat
    BY <1>2
  <2>2. y < x => <<y, x>> \in R
    BY <2>1
  <2> QED BY <1>3, <2>1, <2>2
<1>5. \E i \in DOMAIN s : s[i] = v /\ \A j \in DOMAIN s : s[j] = v => i <= j
  BY <1>4
<1> QED BY <1>5 DEF FirstIndex

(***************************************************************************)
(* addQuery: the query is registered afterwards, every other query is      *)
(* registered exactly when it was, and no query gets a second slot.        *)
(***************************************************************************)
LEMMA AddQueryRegisters ==
  ASSUME NEW S, NEW reg \in Seq(S \cup {Null}), NEW q \in S, Null \notin S
  PROVE  /\ AddQuery(reg, q) \in Seq(S \cup {Null})
         /\ Registered(AddQuery(reg, q)) = Registered(reg) \cup {q}
         /\ Distinct(reg) => Distinct(AddQuery(reg, q))
<1>1. CASE \E i \in DOMAIN reg : reg[i] = q
  BY <1>1 DEF AddQuery, Registered
<1>2. CASE /\ ~ \E i \in DOMAIN reg : reg[i] = q
           /\ \E i \in DOMAIN reg : reg[i] = Null
  <2> DEFINE f == FirstIndex(reg, Null)
  <2>1. f \in DOMAIN reg /\ reg[f] = Null
    BY <1>2, FirstIndexExists
  <2>2. AddQuery(reg, q) = [reg EXCEPT ![f] = q]
    BY <1>2 DEF AddQuery
  <2> HIDE DEF f
  <2> QED BY <1>2, <2>1, <2>2 DEF Registered, Distinct
<1>3. CASE /\ ~ \E i \in DOMAIN reg : reg[i] = q
           /\ ~ \E i \in DOMAIN reg : reg[i] = Null
  <2> DEFINE new == Append(reg, q)
  <2>1. AddQuery(reg, q) = new
    BY <1>3 DEF AddQuery
  <2>2. /\ new \in Seq(S \cup {Null})
        /\ DOMAIN new = DOMAIN reg \cup {Len(reg) + 1}
        /\ Len(reg) + 1 \notin DOMAIN reg
        /\ \A i \in DOMAIN reg : new[i] = reg[i]
        /\ new[Len(reg) + 1] = q
    OBVIOUS
  <2> HIDE DEF new
  <2>3. Registered(new) = Registered(reg) \cup {q}
    BY <2>2 DEF Registered
  <2>4. Distinct(reg) => Distinct(new)
    BY <1>3, <2>2 DEF Distinct
  <2> QED BY <2>1, <2>2, <2>3, <2>4
<1> QED BY <1>1, <1>2, <1>3

(***************************************************************************)
(* addQuery: the array is extended only when every slot holds a different  *)
(* query, so that it never has more slots than there are queries.          *)
(***************************************************************************)
LEMMA AddQueryReusesSlots ==
  ASSUME NEW S, IsFiniteSet(S), Null \notin S, NEW q \in S,
         NEW reg \in Seq(S \cup {Null}), Distinct(reg)
  PROVE  \/ Len(AddQuery(reg, q)) = Len(reg)
         \/ Len(AddQuery(reg, q)) <= Cardinality(S)
<1>1. CASE \E i \in DOMAIN reg : reg[i] = q
  BY <1>1 DEF AddQuery
<1>2. CASE /\ ~ \E i \in DOMAIN reg : reg[i] = q
           /\ \E i \in DOMAIN reg : reg[i] = Null
  <2> DEFINE f == FirstIndex(reg, Null)
  <2>1. f \in DOMAIN reg
    BY <1>2, FirstIndexExists
  <2>2. AddQuery(reg, q) = [reg EXCEPT ![f] = q]
    BY <1>2 DEF AddQuery
  <2> HIDE DEF f
  <2> QED BY <2>1, <2>2
<1>3. CASE /\ ~ \E i \in DOMAIN reg : reg[i] = q
           /\ ~ \E i \in DOMAIN reg : reg[i] = Null
  <2> DEFINE new == Append(reg, q)
             n == Len(reg) + 1
  <2>1. AddQuery(reg, q) = new
    BY <1>3 DEF AddQuery
  <2>2. /\ n \in Nat
        /\ new \in Seq(S \cup {Null})
        /\ Len(new) = n
        /\ DOMAIN new = 1..n
        /\ DOMAIN reg = 1..Len(reg)
        /\ \A i \in 1..Len(reg) : new[i] = reg[i] /\ i # n
        /\ new[n] = q
        /\ \A i \in 1..n : i = n \/ i \in 1..Len(reg)
    OBVIOUS
  <2> HIDE DEF new
  <2>3. \A i \in 1..n : new[i] \in S
    BY <1>3, <2>2
  <2>4. new \in [1..n -> S]
    BY <2>2, <2>3
  <2>5. \A i, j \in 1..n : new[i] = new[j] => i = j
    BY <1>3, <2>2 DEF Distinct
  <2>6. new \in Injection(1..n, S)
    BY <2>4, <2>5 DEF Injection, IsInjective
  <2>7. Cardinality(1..n) <= Cardinality(S)
    BY <2>6, FS_Injection
  <2>8. Cardinality(1..n) = n
    BY <2>2, FS_Interval
  <2> QED BY <2>1, <2>2, <2>7, <2>8
<1> QED BY <1>1, <1>2, <1>3

(***************************************************************************)
(* removeQuery: the query is not registered afterwards, nobody else leaves.*)
(***************************************************************************)
LEMMA RemoveQueryUnregisters ==
  ASSUME NEW S, NEW reg \in Seq(S \cup {Null}), NEW q \in S, Null \notin S,
         Distinct(reg)
  PROVE  /\ RemoveQuery(reg, q) \in Seq(S \cup {Null})
         /\ Registered(RemoveQuery(reg, q)) = Registered(reg) \ {q}
         /\ Distinct(RemoveQuery(reg, q))
         /\ Len(RemoveQuery(reg, q)) = Len(reg)
<1>1. CASE ~ \E i \in DOMAIN reg : reg[i] = q
  BY <1>1 DEF RemoveQuery, Registered
<1>2. CASE \E i \in DOMAIN reg : reg[i] = q
  <2> DEFINE f == FirstIndex(reg, q)
             new == [reg EXCEPT ![f] = Null]
  <2>1. f \in DOMAIN reg /\ reg[f] = q
    BY <1>2, FirstIndexExists
  <2>2. RemoveQuery(reg, q) = new
    BY <1>2 DEF RemoveQuery
  <2> HIDE DEF f
  <2>3. /\ new \in Seq(S \cup {Null})
        /\ DOMAIN new = DOMAIN reg
        /\ Len(new) = Len(reg)
        /\ new[f] = Null
        /\ \A i \in DOMAIN reg \ {f} : new[i] = reg[i]
    BY <2>1
  <2>4. \A i \in DOMAIN reg \ {f} : reg[i] # q
    BY <2>1 DEF Distinct
  <2> HIDE DEF new
  <2>5. Registered(new) = Registered(reg) \ {q}
    BY <2>1, <2>3, <2>4 DEF Registered
  <2>6. Distinct(new)
    BY <2>1, <2>3 DEF Distinct
  <2> QED BY <2>2, <2>3, <2>5, <2>6
<1> QED BY <1>1, <1>2

(***************************************************************************)
(* clearQueries: nobody is registered afterwards.                          *)
(***************************************************************************)
LEMMA ClearQueriesEmpties ==
  ASSUME NEW S, NEW reg \in Seq(S \cup {Null})
  PROVE  /\ ClearQueries(reg) \in Seq(S \cup {Null})
         /\ Registered(ClearQueries(reg)) = {}
         /\ Distinct(ClearQueries(reg))
         /\ Len(ClearQueries(reg)) = Len(reg)
BY DEF ClearQueries, Registered, Distinct

-----------------------------------------------------------------------------
(* Result sets.                                                            *)

(* A result set as it is between two calls.                                *)
GoodRS == {r \in ResultSets : r.at > 0 => r.stmt # Null}

(***************************************************************************)
(* Storing into a field that is neither the statement nor its cursor.      *)
(***************************************************************************)
LEMMA SetCur ==
  ASSUME NEW r \in GoodRS, NEW x \in 0..MaxRows
  PROVE  /\ [r EXCEPT !.cur = x] \in GoodRS
         /\ [r EXCEPT !.cur = x].stmt = r.stmt
         /\ [r EXCEPT !.cur = x].at = r.at
BY DEF GoodRS, ResultSets

(* The row index.                                                          *)
LEMMA SetIndex ==
  ASSUME NEW r \in GoodRS, NEW x \in {BeforeFirst, AfterLast, OnRow}
  PROVE  /\ [r EXCEPT !.index = x] \in GoodRS
         /\ [r EXCEPT !.index = x].stmt = r.stmt
         /\ [r EXCEPT !.index = x].at = r.at
BY DEF GoodRS, ResultSets

(* The number of bind values.                                              *)
LEMMA SetBindCount ==
  ASSUME NEW r \in GoodRS, NEW x \in Nat
  PROVE  /\ [r EXCEPT !.bindCount = x] \in GoodRS
         /\ [r EXCEPT !.bindCount = x].stmt = r.stmt
         /\ [r EXCEPT !.bindCount = x].at = r.at
BY DEF GoodRS, ResultSets

(* The column description.                                                 *)
LEMMA SetRec ==
  ASSUME NEW r \in GoodRS, NEW x \in Stmt \cup {Null}
  PROVE  /\ [r EXCEPT !.rec = x] \in GoodRS
         /\ [r EXCEPT !.rec = x].stmt = r.stmt
         /\ [r EXCEPT !.rec = x].at = r.at
BY DEF GoodRS, ResultSets

(* The flags: isActive, initialFetch, fakeFirstRowFetch and _isEmptySet.   *)
LEMMA SetFlag ==
  ASSUME NEW r \in GoodRS, NEW x \in BOOLEAN
  PROVE  /\ /\ [r EXCEPT !.isActive = x] \in GoodRS
            /\ [r EXCEPT !.isActive = x].stmt = r.stmt
            /\ [r EXCEPT !.isActive = x].at = r.at
         /\ /\ [r EXCEPT !.initialFetch = x] \in GoodRS
            /\ [r EXCEPT !.initialFetch = x].stmt = r.stmt
            /\ [r EXCEPT !.initialFetch = x].at = r.at
         /\ /\ [r EXCEPT !.fake = x] \in GoodRS
            /\ [r EXCEPT !.fake = x].stmt = r.stmt
            /\ [r EXCEPT !.fake = x].at = r.at
         /\ /\ [r EXCEPT !.emptySet = x] \in GoodRS
            /\ [r EXCEPT !.emptySet = x].stmt = r.stmt
            /\ [r EXCEPT !.emptySet = x].at = r.at
BY DEF GoodRS, ResultSets

(***************************************************************************)
(* Moving the cursor, finalizing and installing a statement.               *)
(***************************************************************************)
LEMMA SetCursor ==
  ASSUME NEW r \in GoodRS
  PROVE  \A x \in 0..MaxRows : (x > 0 => r.stmt # Null)
              => /\ [r EXCEPT !.at = x] \in GoodRS
                 /\ [r EXCEPT !.at = x].stmt = r.stmt
                 /\ [r EXCEPT !.at = x].at = x
BY BoundAssumption DEF GoodRS, ResultSets

(* A statement may be replaced; the cursor is on a row of some statement.  *)
LEMMA SetStmt ==
  ASSUME NEW r \in GoodRS, NEW s \in Stmt \cup {Null}, r.at > 0 => s # Null
  PROVE  /\ [r EXCEPT !.stmt = s] \in GoodRS
         /\ [r EXCEPT !.stmt = s].stmt = s
         /\ [r EXCEPT !.stmt = s].at = r.at
BY BoundAssumption DEF GoodRS, ResultSets

(***************************************************************************)
(* A result set is created good, without a statement.                      *)
(***************************************************************************)
LEMMA FreshOps ==
  FreshRS \in GoodRS /\ FreshRS.stmt = Null /\ FreshRS.at = 0
BY BoundAssumption DEF GoodRS, ResultSets, FreshRS, BeforeFirst, OnRow

(***************************************************************************)
(* clear, free and reset: free leaves no statement, reset no row.          *)
(***************************************************************************)
LEMMA ClearOps ==
  ASSUME NEW r \in GoodRS
  PROVE  /\ ClearRS(r) \in GoodRS
         /\ ClearRS(r).stmt = r.stmt
         /\ ClearRS(r).at = r.at
<1> DEFINE r1 == [r EXCEPT !.bindCount = 0]
<1>1. r1 \in GoodRS /\ r1.stmt = r.stmt /\ r1.at = r.at
  BY SetBindCount
<1>2. ClearRS(r) = [r1 EXCEPT !.cur = 0]
  BY DEF ClearRS
<1> HIDE DEF r1
<1>3. 0 \in 0..MaxRows
  BY BoundAssumption
<1> QED BY <1>1, <1>2, <1>3, SetCur

(* free leaves neither a statement nor a row.                              *)
LEMMA FreeOps ==
  ASSUME NEW r \in GoodRS
  PROVE  FreeRS(r) \in GoodRS /\ FreeRS(r).stmt = Null /\ FreeRS(r).at = 0
<1> DEFINE r1 == [r EXCEPT !.at = 0]
<1>1. r1 \in GoodRS /\ r1.at = 0
  BY SetCursor, BoundAssumption
<1>2. /\ [r1 EXCEPT !.stmt = Null] \in GoodRS
      /\ [r1 EXCEPT !.stmt = Null].stmt = Null
      /\ [r1 EXCEPT !.stmt = Null].at = 0
  <2> HIDE DEF r1
  <2> QED BY <1>1, SetStmt
<1>3. FreeRS(r) = [r1 EXCEPT !.stmt = Null]
  BY DEF FreeRS, GoodRS, ResultSets
<1> QED BY <1>2, <1>3

(* reset keeps the statement and leaves its row.                           *)
LEMMA ResetOps ==
  ASSUME NEW r \in GoodRS
  PROVE  ResetRS(r) \in GoodRS /\ ResetRS(r).stmt = r.stmt /\ ResetRS(r).at = 0
<1> DEFINE r1 == [r EXCEPT !.initialFetch = TRUE]
           r2 == [r1 EXCEPT !.index = BeforeFirst]
<1>1. r1 \in GoodRS /\ r1.stmt = r.stmt
  BY SetFlag
<1>2. ResetRS(r) = [r2 EXCEPT !.at = 0]
  BY DEF ResetRS
<1> HIDE DEF r1
<1>3. r2 \in GoodRS /\ r2.stmt = r.stmt
  BY <1>1, SetIndex
<1> HIDE DEF r2
<1> QED BY <1>2, <1>3, SetCursor, BoundAssumption

(***************************************************************************)
(* cleanup leaves no statement, prepare installs the one it is given.      *)
(***************************************************************************)
LEMMA CleanupOps ==
  ASSUME NEW r \in GoodRS
  PROVE  /\ CleanupRS(r) \in GoodRS
         /\ CleanupRS(r).stmt = Null
         /\ CleanupRS(r).at = 0
<1> DEFINE r1 == [r EXCEPT !.index = BeforeFirst]
           r2 == [r1 EXCEPT !.initialFetch = TRUE]
<1>1. r1 \in GoodRS
  BY SetIndex
<1>2. CleanupRS(r) = FreeRS(ClearRS(r2))
  BY DEF CleanupRS
<1> HIDE DEF r1
<1>3. r2 \in GoodRS
  BY <1>1, SetFlag
<1> HIDE DEF r2
<1>4. ClearRS(r2) \in GoodRS
  BY <1>3, ClearOps
<1> QED BY <1>2, <1>4, FreeOps

(* prepare leaves the new statement before its first row.                  *)
LEMMA PreparedOps ==
  ASSUME NEW r \in GoodRS, NEW s \in Stmt
  PROVE  /\ PreparedRS(r, s) \in GoodRS
         /\ PreparedRS(r, s).stmt = s
         /\ PreparedRS(r, s).at = 0
BY CleanupOps, SetStmt DEF PreparedRS

(***************************************************************************)
(* What is left of an abandoned query's result set is good.                *)
(***************************************************************************)
LEMMA AbandonedOps ==
  ASSUME NEW s \in Stmt \cup {Null}, NEW at \in 0..MaxRows, at > 0 => s # Null
  PROVE  Abandoned(s, at) \in GoodRS /\ Abandoned(s, at).stmt = s
<1> DEFINE r1 == [FreshRS EXCEPT !.stmt = s]
<1>1. r1 \in GoodRS /\ r1.stmt = s
  BY FreshOps, SetStmt
<1>2. Abandoned(s, at) = [r1 EXCEPT !.at = at]
  BY DEF Abandoned
<1> HIDE DEF r1
<1> QED BY <1>1, <1>2, SetCursor

(***************************************************************************)
(* nextRow of the result set keeps it good and keeps its statement, when a *)
(* row comes only from a statement that has rows left.                     *)
(***************************************************************************)
LEMMA FetchOps ==
  ASSUME NEW r \in GoodRS, NEW cols \in BOOLEAN,
         NEW out \in {"buffered", "row", "done", "error"},
         out = "row" => r.at < MaxRows /\ r.stmt # Null
  PROVE  FetchRS(r, out, cols) \in GoodRS /\ FetchRS(r, out, cols).stmt = r.stmt
<1> DEFINE r0 == [r EXCEPT !.fake = r.initialFetch]
           r1 == [r0 EXCEPT !.initialFetch = FALSE]
           fresh == r.rec = Null
<1>1. /\ r.initialFetch \in BOOLEAN
      /\ r.stmt \in Stmt \cup {Null}
      /\ r.rec \in Stmt \cup {Null}
      /\ r.emptySet \in BOOLEAN
      /\ r.at \in 0..MaxRows
  BY DEF GoodRS, ResultSets
<1>2. r0 \in GoodRS /\ r0.stmt = r.stmt
  BY <1>1, SetFlag
<1>3. r1 \in GoodRS /\ r1.stmt = r.stmt
  <2> HIDE DEF r0
  <2> QED BY <1>2, SetFlag
<1>4. r1.rec = r.rec /\ r1.emptySet = r.emptySet
  BY DEF GoodRS, ResultSets
<1>5. CASE out = "buffered"
  BY <1>5, SetFlag DEF FetchRS, HandedOut
<1>6. CASE out = "row"
  <2> DEFINE a == [r1 EXCEPT !.at = r.at + 1]
             b == [a EXCEPT !.cur = r.at + 1]
             c == [b EXCEPT !.index = OnRow]
             x == IF fresh THEN InitRecord(r.stmt, TRUE) ELSE r.rec
             y == IF fresh THEN FALSE ELSE r.emptySet
             d == [c EXCEPT !.rec = x]
             e == [d EXCEPT !.emptySet = y]
  <2>1. FetchRS(r, out, cols) = e
    BY <1>4, <1>6 DEF FetchRS, OnNewRow, Stepped
  <2> HIDE DEF r1, fresh
  <2>2. r.at + 1 \in 0..MaxRows
    BY <1>1, <1>6, BoundAssumption
  <2>x. x \in Stmt \cup {Null} /\ y \in BOOLEAN
    BY <1>1 DEF InitRecord
  <2> HIDE DEF x, y
  <2>3. a \in GoodRS /\ a.stmt = r.stmt
    BY <1>3, <1>6, <2>2, SetCursor
  <2> HIDE DEF a
  <2>4. b \in GoodRS /\ b.stmt = r.stmt
    BY <2>2, <2>3, SetCur
  <2> HIDE DEF b
  <2>5. c \in GoodRS /\ c.stmt = r.stmt
    BY <2>4, SetIndex
  <2> HIDE DEF c
  <2>6. d \in GoodRS /\ d.stmt = r.stmt
    BY <2>5, <2>x, SetRec
  <2> HIDE DEF d
  <2>7. e \in GoodRS /\ e.stmt = r.stmt
    BY <2>6, <2>x, SetFlag
  <2> QED BY <2>1, <2>7
<1>7. CASE out = "done"
  <2> DEFINE a == [r1 EXCEPT !.at = 0]
             b == [a EXCEPT !.fake = FALSE]
             x == IF fresh THEN InitRecord(r.stmt, cols) ELSE r.rec
             y == IF fresh THEN TRUE ELSE r.emptySet
             c == [b EXCEPT !.rec = x]
             d == [c EXCEPT !.emptySet = y]
  <2>1. FetchRS(r, out, cols) = d
    BY <1>4, <1>7 DEF FetchRS, OnDone, Stepped
  <2> HIDE DEF r1, fresh
  <2>x. x \in Stmt \cup {Null} /\ y \in BOOLEAN
    BY <1>1 DEF InitRecord
  <2> HIDE DEF x, y
  <2>2. a \in GoodRS /\ a.stmt = r.stmt
    BY <1>3, SetCursor, BoundAssumption
  <2> HIDE DEF a
  <2>3. b \in GoodRS /\ b.stmt = r.stmt
    BY <2>2, SetFlag
  <2> HIDE DEF b
  <2>4. c \in GoodRS /\ c.stmt = r.stmt
    BY <2>3, <2>x, SetRec
  <2> HIDE DEF c
  <2>5. d \in GoodRS /\ d.stmt = r.stmt
    BY <2>4, <2>x, SetFlag
  <2> QED BY <2>1, <2>5
<1>8. CASE out = "error"
  <2>1. FetchRS(r, out, cols) = [r1 EXCEPT !.at = 0]
    BY <1>8 DEF FetchRS, OnError, Stepped
  <2> HIDE DEF r1
  <2> QED BY <1>3, <2>1, SetCursor, BoundAssumption
<1> QED BY <1>5, <1>6, <1>7, <1>8

(***************************************************************************)
(* The engine hands out a row only for a statement that produces rows, and *)
(* only while the bound on rows allows one more.                           *)
(***************************************************************************)
LEMMA StepOutcomesAre ==
  ASSUME NEW s, NEW at, NEW out \in StepOutcomes(s, at)
  PROVE  /\ out \in {"row", "done", "error"}
         /\ out = "row" => at < MaxRows /\ s \in Selects \cup CatalogStmt
<1>1. CASE s \in Selects \cup CatalogStmt
  BY <1>1 DEF StepOutcomes
<1>2. CASE s \notin Selects \cup CatalogStmt /\ s \in Writes
  BY <1>2 DEF StepOutcomes
<1>3. CASE s \notin Selects \cup CatalogStmt /\ s \notin Writes
  BY <1>3 DEF StepOutcomes
<1> QED BY <1>1, <1>2, <1>3

(***************************************************************************)
(* nextRow of the query keeps the result set good and its statement.       *)
(***************************************************************************)
LEMMA NextRowOps ==
  ASSUME NEW r \in GoodRS, NEW out \in FetchOutcomes(r)
  PROVE  /\ NextRowRS(r, out, HasColumns(r.stmt)) \in GoodRS
         /\ NextRowRS(r, out, HasColumns(r.stmt)).stmt = r.stmt
<1> DEFINE cols == HasColumns(r.stmt)
           f == FetchRS(r, out, cols)
           l == [f EXCEPT !.index = AfterLast]
<1>1. cols \in BOOLEAN
  BY DEF HasColumns
<1>2. /\ out \in {"buffered", "row", "done", "error"}
      /\ out = "row" => r.at < MaxRows /\ r.stmt # Null
  BY StepOutcomesAre, NullAssumption DEF FetchOutcomes, Stmt, ClientStmt
<1>3. f \in GoodRS /\ f.stmt = r.stmt
  <2> HIDE DEF cols
  <2> QED BY <1>1, <1>2, FetchOps
<1>4. NextRowRS(r, out, cols) \in {f, ResetRS(l)}
  BY DEF NextRowRS
<1> HIDE DEF f, cols
<1>5. l \in GoodRS /\ l.stmt = r.stmt
  BY <1>3, SetIndex
<1> HIDE DEF l
<1>6. ResetRS(l) \in GoodRS /\ ResetRS(l).stmt = r.stmt
  BY <1>5, ResetOps
<1> QED BY <1>3, <1>4, <1>6 DEF cols

(***************************************************************************)
(* execute keeps the result set good; it gives the statement up exactly    *)
(* when binding fails.                                                     *)
(***************************************************************************)
LEMMA ExecutedOps ==
  ASSUME NEW r \in GoodRS, NEW e, NEW out \in ExecuteOutcomes(r)
  PROVE  /\ Executed(r, out, e) \in GoodRS
         /\ Executed(r, out, e).stmt = IF Aborts(out) THEN Null ELSE r.stmt
<1> DEFINE a == [r EXCEPT !.fake = FALSE]
           r0 == [a EXCEPT !.at = 0]
           cols == HasColumns(r.stmt)
           f == FetchRS(r0, out, cols)
           act == ErrorAfter(out, e) = "none"
<1>1. a \in GoodRS /\ a.stmt = r.stmt
  BY SetFlag
<1>2. r0 \in GoodRS /\ r0.stmt = r.stmt /\ r0.at = 0
  <2> HIDE DEF a
  <2> QED BY <1>1, SetCursor, BoundAssumption
<1>3. CASE Aborts(out)
  <2>1. Executed(r, out, e) = FreeRS(r0)
    BY <1>3 DEF Executed
  <2> QED BY <1>2, <1>3, <2>1, FreeOps
<1>4. CASE ~Aborts(out)
  <2>1. Executed(r, out, e) = [f EXCEPT !.isActive = act]
    BY <1>4 DEF Executed
  <2>2. out \in StepOutcomes(r.stmt, 0)
    BY <1>4 DEF ExecuteOutcomes, Aborts
  <2>3. /\ out \in {"row", "done", "error"}
        /\ out = "row" => 0 < MaxRows /\ r.stmt # Null
    BY <2>2, StepOutcomesAre, NullAssumption DEF Stmt, ClientStmt
  <2>4. cols \in BOOLEAN /\ act \in BOOLEAN
    BY DEF HasColumns
  <2>5. f \in GoodRS /\ f.stmt = r.stmt
    <3> HIDE DEF r0, cols
    <3> QED BY <1>2, <2>3, <2>4, FetchOps
  <2> DEFINE g == [f EXCEPT !.isActive = act]
  <2>6. g \in GoodRS /\ g.stmt = f.stmt
    <3> HIDE DEF f, act
    <3> QED BY <2>4, <2>5, SetFlag, Zenon
  <2>7. Executed(r, out, e) = g
    BY <2>1, Zenon
  <2> HIDE DEF f, g
  <2> QED BY <1>4, <2>5, <2>6, <2>7
<1> QED BY <1>3, <1>4

-----------------------------------------------------------------------------
(* The registry.                                                           *)

(* A registry as it is between two calls.                                  *)
GoodRegistry == {reg \in Seq(Query \cup {Null}) : Distinct(reg)}

(***************************************************************************)
(* Registering, leaving and re-registering, in the driver's terms.         *)
(***************************************************************************)
LEMMA RegistryOps ==
  ASSUME NEW reg \in GoodRegistry, NEW q \in Query
  PROVE  /\ AddQuery(reg, q) \in GoodRegistry
         /\ Registered(AddQuery(reg, q)) = Registered(reg) \cup {q}
         /\ RemoveQuery(reg, q) \in GoodRegistry
         /\ Registered(RemoveQuery(reg, q)) = Registered(reg) \ {q}
<1>1. reg \in Seq(Query \cup {Null}) /\ Distinct(reg) /\ Null \notin Query
  BY NullAssumption, Zenon DEF GoodRegistry
<1>2. /\ AddQuery(reg, q) \in Seq(Query \cup {Null})
      /\ Registered(AddQuery(reg, q)) = Registered(reg) \cup {q}
      /\ Distinct(reg) => Distinct(AddQuery(reg, q))
  BY <1>1, AddQueryRegisters, Zenon
<1>3. /\ RemoveQuery(reg, q) \in Seq(Query \cup {Null})
      /\ Registered(RemoveQuery(reg, q)) = Registered(reg) \ {q}
      /\ Distinct(RemoveQuery(reg, q))
  BY <1>1, RemoveQueryUnregisters, Zenon
<1> QED BY <1>1, <1>2, <1>3, Zenon DEF GoodRegistry

(* prepare leaves the registry and enters it again.                        *)
LEMMA ReRegisterOps ==
  ASSUME NEW reg \in GoodRegistry, NEW q \in Query
  PROVE  /\ ReRegister(reg, q) \in GoodRegistry
         /\ Registered(ReRegister(reg, q)) = Registered(reg) \cup {q}
BY RegistryOps DEF ReRegister

-----------------------------------------------------------------------------
(* Steps.                                                                  *)

(* The parts of the invariant that speak of queries and their statements.  *)
QueryInv ==
  /\ queries \in GoodRegistry
  /\ obj \in [Query -> ObjStates]
  /\ rs \in [Query -> GoodRS]
  /\ \A q \in Query : rs[q].stmt # Null => q \in Registered(queries) /\ isOpen
  /\ \A q \in Registered(queries) : obj[q] \in {"held", "garbage"}

(* The parts that speak of the connection and the engine.                  *)
EngineInv ==
  /\ isOpen \in BOOLEAN
  /\ handle \in {"null", "open", "failed"}
  /\ orphans \in 0..MaxOrphans
  /\ lastError \in Errors
  /\ inTxn \in BOOLEAN
  /\ db \in Tallies
  /\ PendingOnlyInTxn
  /\ TxnNeedsConnection

(* The inductive invariant is the two parts together.                      *)
LEMMA IndInvParts == IndInv <=> QueryInv /\ EngineInv
BY DEF IndInv, QueryInv, EngineInv, TypeOK, RegistrySound, ClosedFinalizesAll,
       CursorNeedsStatement, GoodRegistry, GoodRS

(***************************************************************************)
(* A step that touches the result set, the slot and the life of one query, *)
(* and of the other queries at most fields of their result sets that are   *)
(* not the statement (base is what the result sets are changed to first).  *)
(***************************************************************************)
LEMMA BasedQueryStep ==
  ASSUME QueryInv, NEW q \in Query, NEW r \in GoodRS, NEW o \in ObjStates,
         NEW base \in [Query -> GoodRS],
         \A p \in Query : base[p].stmt = rs[p].stmt,
         NEW reg \in GoodRegistry,
         Registered(reg) \ {q} = Registered(queries) \ {q},
         r.stmt # Null => q \in Registered(reg) /\ isOpen,
         q \in Registered(reg) => o \in {"held", "garbage"},
         rs' = [base EXCEPT ![q] = r],
         obj' = [obj EXCEPT ![q] = o],
         queries' = reg,
         isOpen' = isOpen
  PROVE  QueryInv'
<1>1. \A p \in Query : /\ rs'[p] = IF p = q THEN r ELSE base[p]
                       /\ obj'[p] = IF p = q THEN o ELSE obj[p]
  BY DEF QueryInv
<1>2. Registered(reg) \subseteq Query
  BY DEF GoodRegistry, Registered
<1>3. /\ rs' \in [Query -> GoodRS]
      /\ obj' \in [Query -> ObjStates]
      /\ queries' \in GoodRegistry
  BY DEF QueryInv
<1>4. \A p \in Query : rs'[p].stmt # Null => p \in Registered(queries') /\ isOpen'
  BY <1>1 DEF QueryInv
<1>5. \A p \in Registered(queries') : obj'[p] \in {"held", "garbage"}
  BY <1>1, <1>2 DEF QueryInv
<1> QED BY <1>3, <1>4, <1>5 DEF QueryInv

(***************************************************************************)
(* A step that touches the result set, the slot and the life of one query. *)
(***************************************************************************)
LEMMA OneQueryStep ==
  ASSUME QueryInv, NEW q \in Query, NEW r \in GoodRS, NEW o \in ObjStates,
         NEW reg \in GoodRegistry,
         Registered(reg) \ {q} = Registered(queries) \ {q},
         r.stmt # Null => q \in Registered(reg) /\ isOpen,
         q \in Registered(reg) => o \in {"held", "garbage"},
         rs' = [rs EXCEPT ![q] = r],
         obj' = [obj EXCEPT ![q] = o],
         queries' = reg,
         isOpen' = isOpen
  PROVE  QueryInv'
<1>1. rs \in [Query -> GoodRS]
  BY DEF QueryInv
<1> QED BY <1>1, BasedQueryStep

(***************************************************************************)
(* A step that leaves the connection and the database alone, or adds a row *)
(* to the written table.                                                   *)
(***************************************************************************)
LEMMA QuietStep ==
  ASSUME EngineInv, UNCHANGED connVars, UNCHANGED dbVars, lastError' \in Errors
  PROVE  EngineInv'
BY DEF EngineInv, connVars, dbVars, PendingOnlyInTxn, TxnNeedsConnection

(* A row is added to the written table, inside or outside a transaction.   *)
LEMMA WriteStep ==
  ASSUME EngineInv, UNCHANGED connVars, UNCHANGED inTxn, lastError' \in Errors,
         db' = Tally(db, inTxn)
  PROVE  EngineInv'
<1>1. CASE inTxn
  <2>1. db' = [db EXCEPT !.pending = @ + 1]
    BY <1>1 DEF Tally
  <2>2. db' \in Tallies
    BY <2>1 DEF EngineInv, Tallies
  <2> QED BY <1>1, <2>2
          DEF EngineInv, connVars, PendingOnlyInTxn, TxnNeedsConnection
<1>2. CASE ~inTxn
  <2>1. db' = [db EXCEPT !.committed = @ + 1]
    BY <1>2 DEF Tally
  <2>2. db' \in Tallies /\ db'.pending = db.pending
    BY <2>1 DEF EngineInv, Tallies
  <2> QED BY <1>2, <2>2
          DEF EngineInv, connVars, PendingOnlyInTxn, TxnNeedsConnection
<1> QED BY <1>1, <1>2

(* The engine undoes the whole transaction.                                *)
LEMMA UndoneStep ==
  ASSUME EngineInv, UNCHANGED connVars, UndoesAll, lastError' \in Errors
  PROVE  EngineInv'
<1>1. inTxn' = FALSE /\ db' = [db EXCEPT !.pending = 0]
  BY DEF UndoesAll, Discarded
<1>2. db' \in Tallies /\ db'.pending = 0
  BY <1>1 DEF EngineInv, Tallies
<1>3. inTxn' \in BOOLEAN /\ ~inTxn'
  BY <1>1, Zenon
<1> QED BY <1>2, <1>3 DEF EngineInv, connVars, PendingOnlyInTxn, TxnNeedsConnection

(* What a call leaves of the database when one of its steps has failed.    *)
LEMMA AfterErrorStep ==
  ASSUME EngineInv, UNCHANGED connVars, AfterError, lastError' \in Errors
  PROVE  EngineInv'
BY QuietStep, UndoneStep DEF AfterError

(* All of them together, as execute and nextRow use them.                  *)
LEMMA EngineAfterStep ==
  ASSUME EngineInv, UNCHANGED connVars, lastError' \in Errors,
         NEW s, NEW out, EngineAfter(s, out)
  PROVE  EngineInv'
BY QuietStep, WriteStep, UndoneStep DEF EngineAfter, dbVars

(* The error outstanding after an execution is one of the error kinds.     *)
LEMMA ErrorAfterIs ==
  ASSUME NEW e \in Errors, NEW out
  PROVE  ErrorAfter(out, e) \in Errors
BY DEF ErrorAfter, Errors

(***************************************************************************)
(* Running a statement.                                                    *)
(***************************************************************************)
LEMMA RunStep ==
  ASSUME QueryInv, EngineInv, NEW q \in Query, isOpen,
         NEW r \in GoodRS, NEW reg \in GoodRegistry, NEW e \in Errors,
         Registered(reg) \ {q} = Registered(queries) \ {q},
         r.stmt # Null => q \in Registered(reg),
         NEW out \in ExecuteOutcomes(r),
         Run(q, r, reg, e, out),
         obj' = [obj EXCEPT ![q] = "held"],
         UNCHANGED connVars
  PROVE  QueryInv' /\ EngineInv'
<1> DEFINE x == Executed(r, out, e)
           reg1 == RegistryAfter(reg, q, out)
<1>1. x \in GoodRS /\ x.stmt = IF Aborts(out) THEN Null ELSE r.stmt
  BY ExecutedOps
<1>2. /\ reg1 \in GoodRegistry
      /\ Registered(reg1) = IF Aborts(out) THEN Registered(reg) \ {q}
                            ELSE Registered(reg)
  BY RegistryOps DEF RegistryAfter
<1>3. rs' = [rs EXCEPT ![q] = x] /\ queries' = reg1
  BY DEF Run
<1>4. isOpen' = isOpen
  BY DEF connVars
<1> HIDE DEF x, reg1
<1>5. "held" \in ObjStates
  BY DEF ObjStates
<1>6. /\ Registered(reg1) \ {q} = Registered(queries) \ {q}
      /\ x.stmt # Null => q \in Registered(reg1) /\ isOpen
  BY <1>1, <1>2
<1>7. QueryInv'
  BY <1>1, <1>2, <1>3, <1>4, <1>5, <1>6, OneQueryStep
<1>8. EngineInv'
  <2>1. lastError' = ErrorAfter(out, e) /\ EngineAfter(r.stmt, out)
    BY DEF Run
  <2> QED BY <2>1, ErrorAfterIs, EngineAfterStep
<1> QED BY <1>7, <1>8

(***************************************************************************)
(* What prepare and execute(s) start from.                                 *)
(***************************************************************************)
LEMMA StartOps ==
  ASSUME QueryInv, NEW q \in Query
  PROVE  /\ ResultSet0(q) \in GoodRS
         /\ Registry0(q) \in GoodRegistry
         /\ Registered(Registry0(q)) \ {q} = Registered(queries) \ {q}
         /\ ResultSet0(q).stmt # Null => q \in Registered(Registry0(q)) /\ isOpen
<1>1. CASE obj[q] = "held"
  <2>1. ClearRS(rs[q]) \in GoodRS /\ ClearRS(rs[q]).stmt = rs[q].stmt
    BY ClearOps DEF QueryInv
  <2>2. /\ ResultSet0(q) = [ClearRS(rs[q]) EXCEPT !.isActive = FALSE]
        /\ Registry0(q) = queries
    BY <1>1 DEF ResultSet0, Registry0
  <2>3. ResultSet0(q) \in GoodRS /\ ResultSet0(q).stmt = rs[q].stmt
    <3>1. /\ [ClearRS(rs[q]) EXCEPT !.isActive = FALSE] \in GoodRS
          /\ [ClearRS(rs[q]) EXCEPT !.isActive = FALSE].stmt = ClearRS(rs[q]).stmt
      BY <2>1, SetFlag, Zenon
    <3> QED BY <2>1, <2>2, <3>1, Zenon
  <2>4. queries \in GoodRegistry /\ (rs[q].stmt # Null => q \in Registered(queries) /\ isOpen)
    BY Zenon DEF QueryInv
  <2> QED BY <2>2, <2>3, <2>4, Zenon
<1>2. CASE obj[q] # "held"
  <2>1. ResultSet0(q) = FreshRS /\ Registry0(q) = AddQuery(queries, q)
    BY <1>2 DEF ResultSet0, Registry0
  <2> QED BY <2>1, FreshOps, RegistryOps DEF QueryInv
<1> QED BY <1>1, <1>2

(* A prepare that fails leaves no statement and no slot.                   *)
LEMMA PrepareFailsStep ==
  ASSUME QueryInv, EngineInv, NEW q \in Query,
         PrepareFails(q, "statement"),
         obj' = [obj EXCEPT ![q] = "held"],
         UNCHANGED connVars, UNCHANGED dbVars
  PROVE  QueryInv' /\ EngineInv'
<1> DEFINE x == CleanupRS(ResultSet0(q))
           reg == RemoveQuery(ReRegister(Registry0(q), q), q)
<1>1. x \in GoodRS /\ x.stmt = Null
  BY StartOps, CleanupOps
<1>2. reg \in GoodRegistry /\ Registered(reg) = Registered(queries) \ {q}
  BY StartOps, ReRegisterOps, RegistryOps
<1>3. rs' = [rs EXCEPT ![q] = x] /\ queries' = reg /\ lastError' = "statement"
  BY DEF PrepareFails
<1>4. isOpen' = isOpen
  BY DEF connVars
<1>5. "held" \in ObjStates
  BY DEF ObjStates
<1> HIDE DEF x, reg
<1>6. QueryInv'
  BY <1>1, <1>2, <1>3, <1>4, <1>5, OneQueryStep
<1> QED BY <1>3, <1>6, QuietStep DEF Errors

(* execute(s), which prepares and runs, on any query object.               *)
LEMMA DirectStep ==
  ASSUME QueryInv, EngineInv, NEW q \in Query, isOpen,
         NEW s \in ClientStmt, NEW e \in Errors,
         Direct(q, s, e),
         obj' = [obj EXCEPT ![q] = "held"],
         UNCHANGED connVars
  PROVE  QueryInv' /\ EngineInv'
<1> DEFINE r == PreparedRS(ResultSet0(q), s)
           reg == ReRegister(Registry0(q), q)
<1>1. CASE PrepareFails(q, "statement") /\ UNCHANGED dbVars
  BY <1>1, PrepareFailsStep
<1>2. CASE \E out \in ExecuteOutcomes(r) : Run(q, r, reg, e, out)
  <2>1. r \in GoodRS /\ r.stmt = s
    BY StartOps, PreparedOps DEF Stmt
  <2>2. /\ reg \in GoodRegistry
        /\ Registered(reg) \ {q} = Registered(queries) \ {q}
        /\ q \in Registered(reg)
    BY StartOps, ReRegisterOps
  <2> HIDE DEF r, reg
  <2> QED BY <1>2, <2>1, <2>2, RunStep
<1> QED BY <1>1, <1>2 DEF Direct

-----------------------------------------------------------------------------
(* The actions.                                                            *)

(***************************************************************************)
(* close() leaves no registered result set and no statement, so afterwards *)
(* the connection may be in any state; no write is pending.                *)
(***************************************************************************)
LEMMA ClosingStep ==
  ASSUME QueryInv, EngineInv, Closing, UNCHANGED obj
  PROVE  /\ QueryInv'
         /\ inTxn' \in BOOLEAN /\ ~inTxn'
         /\ db' \in Tallies
         /\ db'.pending = 0
         /\ \A q \in Query : FreedRS[q].stmt = Null /\ FreedRS[q].at = 0
<1>1. \A q \in Query : FreeRS(rs[q]) \in GoodRS /\ FreeRS(rs[q]).stmt = Null
                       /\ FreeRS(rs[q]).at = 0
  BY FreeOps DEF QueryInv
<1>2. \A q \in Query : /\ FreedRS[q] \in GoodRS
                       /\ FreedRS[q].stmt = Null
                       /\ FreedRS[q].at = 0
  <2> SUFFICES ASSUME NEW q \in Query
               PROVE  /\ FreedRS[q] \in GoodRS
                      /\ FreedRS[q].stmt = Null
                      /\ FreedRS[q].at = 0
    OBVIOUS
  <2>1. CASE q \in Registered(queries)
    BY <1>1, <2>1 DEF FreedRS
  <2>2. CASE q \notin Registered(queries)
    <3>1. FreedRS[q] = rs[q]
      BY <2>2 DEF FreedRS
    <3>2. rs[q] \in GoodRS /\ rs[q].stmt = Null
      BY <2>2 DEF QueryInv
    <3>3. rs[q].at = 0
      BY <3>2, BoundAssumption DEF GoodRS, ResultSets
    <3> QED BY <3>1, <3>2, <3>3
  <2> QED BY <2>1, <2>2
<1>3. FreedRS \in [Query -> GoodRS]
  BY <1>2 DEF FreedRS
<1>4. /\ ClearQueries(queries) \in GoodRegistry
      /\ Registered(ClearQueries(queries)) = {}
  BY ClearQueriesEmpties DEF QueryInv, GoodRegistry
<1>5. QueryInv'
  BY <1>2, <1>3, <1>4 DEF QueryInv, Closing
<1>6. db' \in Tallies /\ db'.pending = 0
  BY DEF Closing, Discarded, EngineInv, Tallies
<1>7. inTxn' \in BOOLEAN /\ ~inTxn'
  BY DEF Closing
<1> QED BY <1>2, <1>5, <1>6, <1>7

(***************************************************************************)
(* The error close() records is one of the error kinds.                    *)
(***************************************************************************)
LEMMA CloseErrorIs ==
  ASSUME EngineInv
  PROVE  CloseError \in Errors
BY DEF EngineInv, CloseError, Errors

(***************************************************************************)
(* close() preserves the invariant.                                        *)
(***************************************************************************)
LEMMA CloseStep ==
  ASSUME QueryInv, EngineInv, Close
  PROVE  QueryInv' /\ EngineInv'
<1>1. /\ QueryInv'
      /\ inTxn' \in BOOLEAN /\ ~inTxn'
      /\ db' \in Tallies
      /\ db'.pending = 0
  BY ClosingStep DEF Close
<1>2. /\ lastError' \in Errors
      /\ isOpen' \in BOOLEAN
      /\ handle' \in {"null", "open", "failed"}
      /\ orphans' \in 0..MaxOrphans
  BY CloseErrorIs DEF Close, EngineInv
<1> QED BY <1>1, <1>2 DEF EngineInv, PendingOnlyInTxn, TxnNeedsConnection

(***************************************************************************)
(* Open preserves the invariant: a connection that was open is closed      *)
(* first, one that was not open has no statement.                          *)
(***************************************************************************)
LEMMA OpenStep ==
  ASSUME QueryInv, EngineInv, Open
  PROVE  QueryInv' /\ EngineInv'
<1>1. UNCHANGED obj
  BY DEF Open
<1>2. /\ lastError' \in Errors
      /\ isOpen' \in BOOLEAN
      /\ handle' \in {"null", "open", "failed"}
  BY CloseErrorIs DEF Open, Errors
<1>3. orphans' \in 0..MaxOrphans
  BY BoundAssumption DEF Open, EngineInv
<1>4. /\ QueryInv'
      /\ inTxn' \in BOOLEAN /\ ~inTxn'
      /\ db' \in Tallies
      /\ db'.pending = 0
  <2>1. CASE isOpen
    BY <1>1, <2>1, ClosingStep DEF Open
  <2>2. CASE ~isOpen
    <3>1. UNCHANGED <<rs, queries, inTxn, db>>
      BY <2>2 DEF Open
    <3>2. \A q \in Query : rs[q].stmt = Null
      BY <2>2 DEF QueryInv
    <3>3. QueryInv'
      BY <1>1, <3>1, <3>2 DEF QueryInv
    <3>4. inTxn \in BOOLEAN /\ ~inTxn /\ db \in Tallies /\ db.pending = 0
      BY <2>2 DEF EngineInv, PendingOnlyInTxn, TxnNeedsConnection, Tallies
    <3> QED BY <3>1, <3>3, <3>4
  <2> QED BY <2>1, <2>2
<1> QED BY <1>2, <1>3, <1>4
        DEF EngineInv, PendingOnlyInTxn, TxnNeedsConnection

(***************************************************************************)
(* prepare turned down, and prepare.                                       *)
(***************************************************************************)
LEMMA RejectStep ==
  ASSUME QueryInv, EngineInv, NEW q \in Query, Reject(q)
  PROVE  QueryInv' /\ EngineInv'
<1> DEFINE x == ResultSet0(q)
           reg == Registry0(q)
<1>1. /\ x \in GoodRS
      /\ reg \in GoodRegistry
      /\ Registered(reg) \ {q} = Registered(queries) \ {q}
      /\ x.stmt # Null => q \in Registered(reg) /\ isOpen
  BY StartOps
<1>2. /\ rs' = [rs EXCEPT ![q] = x]
      /\ queries' = reg
      /\ obj' = [obj EXCEPT ![q] = "held"]
      /\ isOpen' = isOpen
  BY DEF Reject, connVars
<1> HIDE DEF x, reg
<1>3. QueryInv'
  BY <1>1, <1>2, OneQueryStep DEF ObjStates
<1> QED BY <1>3, QuietStep DEF Reject, Errors

(***************************************************************************)
(* A prepare that succeeds has re-registered the result set before the     *)
(* engine is given the statement.                                          *)
(***************************************************************************)
LEMMA PrepareStep ==
  ASSUME QueryInv, EngineInv, NEW q \in Query, NEW s \in ClientStmt,
         Prepare(q, s)
  PROVE  QueryInv' /\ EngineInv'
<1> DEFINE r == PreparedRS(ResultSet0(q), s)
           reg == ReRegister(Registry0(q), q)
<1>0. /\ obj' = [obj EXCEPT ![q] = "held"]
      /\ UNCHANGED connVars
      /\ UNCHANGED dbVars
      /\ isOpen
  BY DEF Prepare
<1>1. CASE PrepareFails(q, "statement")
  BY <1>0, <1>1, PrepareFailsStep
<1>2. CASE rs' = [rs EXCEPT ![q] = r] /\ queries' = reg /\ lastError' = "none"
  <2>1. r \in GoodRS /\ r.stmt = s
    BY StartOps, PreparedOps DEF Stmt
  <2>2. /\ reg \in GoodRegistry
        /\ Registered(reg) \ {q} = Registered(queries) \ {q}
        /\ q \in Registered(reg)
    BY StartOps, ReRegisterOps
  <2> HIDE DEF r, reg
  <2>3. QueryInv'
    BY <1>0, <1>2, <2>1, <2>2, OneQueryStep DEF ObjStates, connVars
  <2> QED BY <1>0, <1>2, <2>3, QuietStep DEF Errors
<1> QED BY <1>1, <1>2 DEF Prepare

(***************************************************************************)
(* The error is reset, a query object is created.                          *)
(***************************************************************************)
LEMMA ResetErrorStep ==
  ASSUME QueryInv, EngineInv, ResetError
  PROVE  QueryInv' /\ EngineInv'
<1>1. QueryInv'
  BY DEF ResetError, QueryInv, connVars
<1> QED BY <1>1, QuietStep DEF ResetError, Errors

(***************************************************************************)
(* A new query object has no result set and is not registered.             *)
(***************************************************************************)
LEMMA NewQueryStep ==
  ASSUME QueryInv, EngineInv, NEW q \in Query, NewQuery(q)
  PROVE  QueryInv' /\ EngineInv'
<1>1. q \notin Registered(queries) /\ obj[q] = "unused"
  BY DEF NewQuery, QueryInv
<1>2. /\ rs' = [rs EXCEPT ![q] = rs[q]]
      /\ obj' = [obj EXCEPT ![q] = "new"]
      /\ queries' = queries
      /\ isOpen' = isOpen
  BY DEF NewQuery, QueryInv, connVars
<1>3. rs[q] \in GoodRS /\ queries \in GoodRegistry /\ rs[q].stmt = Null
  BY <1>1 DEF QueryInv
<1>4. QueryInv'
  BY <1>1, <1>2, <1>3, OneQueryStep DEF ObjStates
<1> QED BY <1>4, QuietStep DEF NewQuery, EngineInv

(***************************************************************************)
(* Only the result set of a query changes, and not its statement.          *)
(***************************************************************************)
LEMMA ResultSetStep ==
  ASSUME QueryInv, NEW q \in Query, NEW r \in GoodRS, r.stmt = rs[q].stmt,
         rs' = [rs EXCEPT ![q] = r],
         UNCHANGED <<queries, obj, isOpen>>
  PROVE  QueryInv'
<1>1. obj' = [obj EXCEPT ![q] = obj[q]] /\ obj[q] \in ObjStates
  BY DEF QueryInv
<1>2. /\ queries \in GoodRegistry
      /\ r.stmt # Null => q \in Registered(queries) /\ isOpen
      /\ q \in Registered(queries) => obj[q] \in {"held", "garbage"}
  BY DEF QueryInv
<1> QED BY <1>1, <1>2, OneQueryStep

(***************************************************************************)
(* The bind values.                                                        *)
(***************************************************************************)
LEMMA BindStep ==
  ASSUME QueryInv, EngineInv, NEW q \in Query,
         AddBindValue(q) \/ ClearBindValues(q)
  PROVE  QueryInv' /\ EngineInv'
<1>0. rs[q] \in GoodRS /\ rs[q].bindCount \in Nat
  BY DEF QueryInv, GoodRS, ResultSets
<1>1. QueryInv'
  <2>1. CASE AddBindValue(q)
    <3> DEFINE n == rs[q].bindCount + 1
               r == [rs[q] EXCEPT !.bindCount = n]
    <3>0. n \in Nat
      BY <1>0
    <3>1. r \in GoodRS /\ r.stmt = rs[q].stmt
      <4> HIDE DEF n
      <4> QED BY <1>0, <3>0, SetBindCount
    <3>2. rs' = [rs EXCEPT ![q] = r]
      BY <2>1 DEF AddBindValue, QueryInv
    <3>3. UNCHANGED <<queries, obj, isOpen>>
      BY <2>1 DEF AddBindValue, connVars
    <3> HIDE DEF r
    <3> QED BY <3>1, <3>2, <3>3, ResultSetStep
  <2>2. CASE ClearBindValues(q)
    <3>1. rs' = [rs EXCEPT ![q] = ClearRS(rs[q])]
      BY <2>2 DEF ClearBindValues, QueryInv
    <3>2. UNCHANGED <<queries, obj, isOpen>>
      BY <2>2 DEF ClearBindValues, connVars
    <3> QED BY <1>0, <3>1, <3>2, ClearOps, ResultSetStep
  <2> QED BY <2>1, <2>2
<1>2. /\ UNCHANGED connVars
      /\ UNCHANGED dbVars
      /\ lastError' \in Errors
  BY DEF AddBindValue, ClearBindValues, EngineInv
<1> QED BY <1>1, <1>2, QuietStep

(***************************************************************************)
(* execute() of a prepared statement.                                      *)
(***************************************************************************)
LEMMA ExecuteStep ==
  ASSUME QueryInv, EngineInv, NEW q \in Query, Execute(q)
  PROVE  QueryInv' /\ EngineInv'
<1>1. UNCHANGED connVars /\ UNCHANGED obj /\ obj[q] = "held"
  BY DEF Execute
<1>2. CASE ~isOpen /\ lastError' = "connection" /\ UNCHANGED <<queries, rs, dbVars>>
  <2>1. QueryInv'
    BY <1>1, <1>2 DEF QueryInv, connVars
  <2> QED BY <1>1, <1>2, <2>1, QuietStep DEF Errors
<1>3. CASE isOpen /\ \E out \in ExecuteOutcomes(rs[q]) :
                       Run(q, rs[q], queries, lastError, out)
  <2>1. obj' = [obj EXCEPT ![q] = "held"]
    BY <1>1 DEF QueryInv
  <2>2. /\ rs[q] \in GoodRS
        /\ queries \in GoodRegistry
        /\ rs[q].stmt # Null => q \in Registered(queries)
        /\ lastError \in Errors
    BY DEF QueryInv, EngineInv
  <2> QED BY <1>1, <1>3, <2>1, <2>2, RunStep
<1> QED BY <1>2, <1>3 DEF Execute

(***************************************************************************)
(* nextRow().                                                              *)
(***************************************************************************)
LEMMA NextRowStep ==
  ASSUME QueryInv, EngineInv, NEW q \in Query, NextRow(q)
  PROVE  QueryInv' /\ EngineInv'
<1>1. PICK out \in FetchOutcomes(rs[q]) : Fetch(q, out)
  BY DEF NextRow
<1> DEFINE r == NextRowRS(rs[q], out, HasColumns(rs[q].stmt))
<1>2. r \in GoodRS /\ r.stmt = rs[q].stmt
  BY NextRowOps DEF QueryInv
<1>3. rs' = [rs EXCEPT ![q] = r] /\ UNCHANGED <<queries, obj, isOpen>>
  BY <1>1 DEF Fetch, connVars
<1> HIDE DEF r
<1>4. QueryInv'
  BY <1>2, <1>3, ResultSetStep
<1>5. /\ UNCHANGED connVars
      /\ lastError' \in Errors
      /\ EngineAfter(rs[q].stmt, out)
  BY <1>1 DEF Fetch, EngineInv, Errors
<1> QED BY <1>4, <1>5, EngineAfterStep

(***************************************************************************)
(* free(), and the finalizer of a query nobody holds: the statement goes   *)
(* and the slot with it.                                                   *)
(***************************************************************************)
LEMMA ReleaseStep ==
  ASSUME QueryInv, EngineInv, NEW q \in Query, Release(q)
  PROVE  QueryInv' /\ EngineInv'
<1> DEFINE reg == RemoveQuery(queries, q)
<1>1. reg \in GoodRegistry /\ Registered(reg) = Registered(queries) \ {q}
  BY RegistryOps DEF QueryInv
<1>2. /\ rs' = [rs EXCEPT ![q] = FreshRS]
      /\ obj' = [obj EXCEPT ![q] = "unused"]
      /\ queries' = reg
      /\ isOpen' = isOpen
  BY DEF Release, connVars
<1> HIDE DEF reg
<1>3. QueryInv'
  BY <1>1, <1>2, FreshOps, OneQueryStep DEF ObjStates
<1> QED BY <1>3, QuietStep DEF Release, EngineInv

(***************************************************************************)
(* A query that the client lets go keeps its statement and its slot.       *)
(***************************************************************************)
LEMMA DropStep ==
  ASSUME QueryInv, EngineInv, NEW q \in Query, Drop(q)
  PROVE  QueryInv' /\ EngineInv'
<1> DEFINE r == Abandoned(rs[q].stmt, rs[q].at)
<1>1. /\ rs[q].stmt \in Stmt \cup {Null}
      /\ rs[q].at \in 0..MaxRows
      /\ rs[q].at > 0 => rs[q].stmt # Null
  BY DEF QueryInv, GoodRS, ResultSets
<1>2. r \in GoodRS /\ r.stmt = rs[q].stmt
  BY <1>1, AbandonedOps
<1>3. /\ rs' = [rs EXCEPT ![q] = r]
      /\ obj' = [obj EXCEPT ![q] = "garbage"]
      /\ queries' = queries
      /\ isOpen' = isOpen
  BY DEF Drop, QueryInv, connVars
<1>4. queries \in GoodRegistry /\ (rs[q].stmt # Null => q \in Registered(queries) /\ isOpen)
  BY DEF QueryInv
<1> HIDE DEF r
<1>5. QueryInv'
  BY <1>2, <1>3, <1>4, OneQueryStep DEF ObjStates
<1> QED BY <1>5, QuietStep DEF Drop, EngineInv

(***************************************************************************)
(* resetQueries takes every statement of the connection off its row, also  *)
(* those it does not find: they have none.                                 *)
(***************************************************************************)
LEMMA ResetQueriesOps ==
  ASSUME QueryInv
  PROVE  /\ ResetQueries \in [Query -> GoodRS]
         /\ \A q \in Query : /\ ResetQueries[q].stmt = rs[q].stmt
                             /\ ResetQueries[q].at = 0
<1>1. \A q \in Query : /\ ResetQueries[q] \in GoodRS
                       /\ ResetQueries[q].stmt = rs[q].stmt
                       /\ ResetQueries[q].at = 0
  <2> SUFFICES ASSUME NEW q \in Query
               PROVE  /\ ResetQueries[q] \in GoodRS
                      /\ ResetQueries[q].stmt = rs[q].stmt
                      /\ ResetQueries[q].at = 0
    OBVIOUS
  <2>1. rs[q] \in GoodRS
    BY DEF QueryInv
  <2>2. CASE q \in Registered(queries)
    BY <2>1, <2>2, ResetOps DEF ResetQueries
  <2>3. CASE q \notin Registered(queries)
    <3>1. ResetQueries[q] = rs[q]
      BY <2>3 DEF ResetQueries
    <3>2. rs[q].stmt = Null
      BY <2>3 DEF QueryInv
    <3>3. rs[q].at = 0
      BY <2>1, <3>2, BoundAssumption DEF GoodRS, ResultSets
    <3> QED BY <2>1, <3>1, <3>3
  <2> QED BY <2>2, <2>3
<1>2. ResetQueries \in [Query -> GoodRS]
  BY <1>1 DEF ResetQueries
<1> QED BY <1>1, <1>2

(***************************************************************************)
(* The registry a query of the driver's own has entered, and left again.   *)
(***************************************************************************)
LEMMA EnteredOps ==
  ASSUME QueryInv, NEW q \in Query
  PROVE  /\ Entered(q) \in GoodRegistry
         /\ Registered(Entered(q)) = Registered(queries) \cup {q}
         /\ RemoveQuery(Entered(q), q) \in GoodRegistry
         /\ Registered(RemoveQuery(Entered(q), q)) = Registered(queries) \ {q}
<1>1. queries \in GoodRegistry
  BY DEF QueryInv
<1>2. /\ Entered(q) \in GoodRegistry
      /\ Registered(Entered(q)) = Registered(queries) \cup {q}
  BY <1>1, RegistryOps, ReRegisterOps DEF Entered
<1>3. /\ RemoveQuery(Entered(q), q) \in GoodRegistry
      /\ Registered(RemoveQuery(Entered(q), q)) = Registered(Entered(q)) \ {q}
  BY <1>2, RegistryOps
<1> QED BY <1>2, <1>3

(***************************************************************************)
(* A query of the driver's own, freed or abandoned: it keeps its slot, or  *)
(* it has no statement.                                                    *)
(***************************************************************************)
LEMMA DriverQueryStep ==
  ASSUME QueryInv, NEW q \in Query, isOpen, isOpen' = isOpen,
         NEW base \in [Query -> GoodRS],
         \A p \in Query : base[p].stmt = rs[p].stmt,
         NEW r \in GoodRS, rs' = [base EXCEPT ![q] = r],
         NEW o \in ObjStates, obj' = [obj EXCEPT ![q] = o],
         \/ queries' = Entered(q) /\ o = "garbage"
         \/ queries' = RemoveQuery(Entered(q), q) /\ r.stmt = Null
  PROVE  QueryInv'
<1> DEFINE reg == Entered(q)
           left == RemoveQuery(Entered(q), q)
<1>1. /\ reg \in GoodRegistry
      /\ Registered(reg) = Registered(queries) \cup {q}
      /\ left \in GoodRegistry
      /\ Registered(left) = Registered(queries) \ {q}
  BY EnteredOps
<1>2. \/ queries' = reg /\ o = "garbage"
      \/ queries' = left /\ r.stmt = Null
  OBVIOUS
<1> HIDE DEF reg, left
<1>3. CASE queries' = reg /\ o = "garbage"
  BY <1>1, <1>3, BasedQueryStep
<1>4. CASE queries' = left /\ r.stmt = Null
  BY <1>1, <1>4, BasedQueryStep
<1> QED BY <1>2, <1>3, <1>4

(***************************************************************************)
(* The same when the driver's query leaves no result set behind.           *)
(***************************************************************************)
LEMMA DriverQueryGone ==
  ASSUME QueryInv, NEW q \in Query, obj[q] = "unused", isOpen, isOpen' = isOpen,
         NEW base \in [Query -> GoodRS],
         \A p \in Query : base[p].stmt = rs[p].stmt,
         rs' = base,
         NEW o \in ObjStates, obj' = [obj EXCEPT ![q] = o],
         queries' = RemoveQuery(Entered(q), q)
  PROVE  QueryInv'
<1>1. q \notin Registered(queries)
  BY DEF QueryInv
<1>2. base[q] \in GoodRS /\ base[q].stmt = Null
  BY <1>1 DEF QueryInv
<1>3. rs' = [base EXCEPT ![q] = base[q]]
  OBVIOUS
<1> QED BY <1>2, <1>3, DriverQueryStep

(***************************************************************************)
(* What BEGIN, COMMIT and ROLLBACK do to the written table.                *)
(***************************************************************************)
LEMMA AfterTxnOps ==
  ASSUME EngineInv, NEW s \in TxnStmt, "done" \in StepOutcomes(s, 0)
  PROVE  /\ AfterTxn(s, db) \in Tallies
         /\ AfterTxn(s, db).pending > 0 => s = "BEGIN"
         /\ s = "BEGIN" <=> ~inTxn
<1>1. s \notin Selects \cup CatalogStmt /\ s \notin Writes
  BY StmtAssumption DEF ClientStmt, TxnStmt, CatalogStmt
<1>2. CASE s = "BEGIN"
  BY <1>1, <1>2 DEF AfterTxn, EngineInv, StepOutcomes
<1>3. CASE s = "COMMIT"
  <2>1. inTxn
    BY <1>1, <1>3 DEF StepOutcomes
  <2> QED BY <1>3, <2>1 DEF AfterTxn, EngineInv, Tallies
<1>4. CASE s = "ROLLBACK"
  <2>1. inTxn
    BY <1>1, <1>4 DEF StepOutcomes
  <2> QED BY <1>4, <2>1 DEF AfterTxn, Discarded, EngineInv, Tallies
<1> QED BY <1>2, <1>3, <1>4 DEF TxnStmt

(***************************************************************************)
(* A transaction statement: done (the query is freed), failed (the query is*)
(* abandoned with its statement), or not compiled (abandoned without).     *)
(***************************************************************************)
LEMMA TransactStep ==
  ASSUME QueryInv, EngineInv, NEW q \in Query, NEW s \in TxnStmt,
         NEW base \in [Query -> GoodRS],
         \A p \in Query : base[p].stmt = rs[p].stmt,
         Transact(q, s, base)
  PROVE  QueryInv' /\ EngineInv'
<1>1. /\ isOpen
      /\ isOpen' = isOpen
      /\ UNCHANGED connVars
      /\ obj[q] = "unused"
  BY DEF Transact, connVars
<1>2. "unused" \in ObjStates /\ "garbage" \in ObjStates
  BY DEF ObjStates
<1>3. CASE /\ "done" \in StepOutcomes(s, 0)
           /\ rs' = base
           /\ queries' = RemoveQuery(Entered(q), q)
           /\ lastError' = "none"
           /\ inTxn' = (s = "BEGIN")
           /\ db' = AfterTxn(s, db)
           /\ UNCHANGED obj
  <2>1. obj' = [obj EXCEPT ![q] = "unused"]
    BY <1>1, <1>3 DEF QueryInv
  <2>2. QueryInv'
    BY <1>1, <1>2, <1>3, <2>1, DriverQueryGone
  <2>3. /\ db' \in Tallies
        /\ db'.pending > 0 => s = "BEGIN"
    BY <1>3, AfterTxnOps
  <2>4. inTxn' \in BOOLEAN /\ (inTxn' <=> s = "BEGIN")
    BY <1>3, Zenon
  <2>5. lastError' \in Errors
    BY <1>3 DEF Errors
  <2>6. EngineInv'
    BY <1>1, <2>3, <2>4, <2>5
       DEF EngineInv, connVars, PendingOnlyInTxn, TxnNeedsConnection
  <2> QED BY <2>2, <2>6
<1>4. CASE /\ rs' = [base EXCEPT ![q] = Abandoned(s, 0)]
           /\ queries' = Entered(q)
           /\ lastError' = "transaction"
           /\ obj' = [obj EXCEPT ![q] = "garbage"]
           /\ AfterError
  <2>1. Abandoned(s, 0) \in GoodRS
    BY AbandonedOps, BoundAssumption DEF Stmt
  <2>2. QueryInv'
    BY <1>1, <1>2, <1>4, <2>1, DriverQueryStep
  <2> QED BY <1>1, <1>4, <2>2, AfterErrorStep DEF Errors
<1>5. CASE /\ rs' = base
           /\ queries' = RemoveQuery(Entered(q), q)
           /\ lastError' = "transaction"
           /\ obj' = [obj EXCEPT ![q] = "garbage"]
           /\ UNCHANGED dbVars
  <2>1. QueryInv'
    BY <1>1, <1>2, <1>5, DriverQueryGone
  <2> QED BY <1>1, <1>5, <2>1, QuietStep DEF Errors
<1> QED BY <1>3, <1>4, <1>5 DEF Transact

(***************************************************************************)
(* startTransaction, commit and rollback.                                  *)
(***************************************************************************)
LEMMA TransactionStep ==
  ASSUME QueryInv, EngineInv, NEW q \in Query,
         StartTransaction(q) \/ Commit(q) \/ Rollback(q)
  PROVE  QueryInv' /\ EngineInv'
<1>1. /\ rs \in [Query -> GoodRS]
      /\ \A p \in Query : rs[p].stmt = rs[p].stmt
  BY DEF QueryInv
<1>2. /\ ResetQueries \in [Query -> GoodRS]
      /\ \A p \in Query : ResetQueries[p].stmt = rs[p].stmt
  BY ResetQueriesOps
<1>3. {"BEGIN", "COMMIT", "ROLLBACK"} \subseteq TxnStmt
  BY DEF TxnStmt
<1>4. CASE StartTransaction(q)
  BY <1>1, <1>3, <1>4, TransactStep DEF StartTransaction
<1>5. CASE Commit(q)
  BY <1>2, <1>3, <1>5, TransactStep DEF Commit
<1>6. CASE Rollback(q)
  BY <1>2, <1>3, <1>6, TransactStep DEF Rollback
<1> QED BY <1>4, <1>5, <1>6

(***************************************************************************)
(* tableExists.                                                            *)
(***************************************************************************)
LEMMA TableExistsStep ==
  ASSUME QueryInv, EngineInv, NEW q \in Query, TableExists(q)
  PROVE  QueryInv' /\ EngineInv'
<1>1. /\ isOpen
      /\ isOpen' = isOpen
      /\ UNCHANGED connVars
      /\ obj[q] = "unused"
      /\ rs \in [Query -> GoodRS]
  BY DEF TableExists, connVars, QueryInv
<1>2. "unused" \in ObjStates /\ "garbage" \in ObjStates
  BY DEF ObjStates
<1>3. lastError' \in Errors
  BY DEF TableExists, Errors
<1>4. ASSUME queries' = RemoveQuery(Entered(q), q), UNCHANGED rs,
             obj' = [obj EXCEPT ![q] = "garbage"]
      PROVE  QueryInv'
  BY <1>1, <1>2, <1>4, DriverQueryGone
<1>5. ASSUME queries' = RemoveQuery(Entered(q), q), UNCHANGED <<obj, rs>>
      PROVE  QueryInv'
  <2>1. obj' = [obj EXCEPT ![q] = "unused"]
    BY <1>1, <1>5 DEF QueryInv
  <2> QED BY <1>1, <1>2, <1>5, <2>1, DriverQueryGone
<1>6. ASSUME NEW out \in {"error", "nobind"},
             rs' = [rs EXCEPT
                      ![q] = Abandoned(IF Aborts(out) THEN Null ELSE "EXISTS", 0)],
             queries' = RegistryAfter(Entered(q), q, out),
             obj' = [obj EXCEPT ![q] = "garbage"]
      PROVE  QueryInv'
  <2>2. CASE Aborts(out)
    <3>1. Abandoned(Null, 0) \in GoodRS /\ Abandoned(Null, 0).stmt = Null
      BY AbandonedOps, BoundAssumption
    <3>2. /\ rs' = [rs EXCEPT ![q] = Abandoned(Null, 0)]
          /\ queries' = RemoveQuery(Entered(q), q)
      BY <1>6, <2>2 DEF RegistryAfter
    <3> QED BY <1>1, <1>2, <1>6, <3>1, <3>2, DriverQueryStep
  <2>3. CASE ~Aborts(out)
    <3>1. Abandoned("EXISTS", 0) \in GoodRS
      BY AbandonedOps, BoundAssumption DEF Stmt, CatalogStmt
    <3>2. /\ rs' = [rs EXCEPT ![q] = Abandoned("EXISTS", 0)]
          /\ queries' = Entered(q)
      BY <1>6, <2>3 DEF RegistryAfter
    <3> QED BY <1>1, <1>2, <1>6, <3>1, <3>2, DriverQueryStep
  <2> QED BY <2>2, <2>3
<1>7. QueryInv'
  BY <1>4, <1>5, <1>6 DEF TableExists
<1>8. AfterError \/ \E s, out : EngineAfter(s, out)
  BY DEF TableExists, AfterError
<1>9. EngineInv'
  BY <1>1, <1>3, <1>8, AfterErrorStep, EngineAfterStep
<1> QED BY <1>7, <1>9

(***************************************************************************)
(* getTableInfo.                                                           *)
(***************************************************************************)
LEMMA GetTableInfoStep ==
  ASSUME QueryInv, EngineInv, NEW q \in Query, GetTableInfo(q)
  PROVE  QueryInv' /\ EngineInv'
<1>1. /\ isOpen
      /\ isOpen' = isOpen
      /\ UNCHANGED connVars
      /\ AfterError
      /\ obj[q] = "unused"
      /\ obj' = obj /\ rs' = rs
      /\ queries' = RemoveQuery(Entered(q), q)
      /\ rs \in [Query -> GoodRS]
  BY DEF GetTableInfo, connVars, QueryInv
<1>2. "unused" \in ObjStates
  BY DEF ObjStates
<1>3. lastError' \in Errors
  BY DEF GetTableInfo, Errors
<1>4. obj' = [obj EXCEPT ![q] = "unused"]
  BY <1>1 DEF QueryInv
<1>5. QueryInv'
  BY <1>1, <1>2, <1>4, DriverQueryGone
<1> QED BY <1>1, <1>3, <1>5, AfterErrorStep

(***************************************************************************)
(* getTables.                                                              *)
(***************************************************************************)
LEMMA GetTablesStep ==
  ASSUME QueryInv, EngineInv, NEW q \in Query, GetTables(q)
  PROVE  QueryInv' /\ EngineInv'
<1>1. /\ isOpen
      /\ isOpen' = isOpen
      /\ UNCHANGED connVars
      /\ AfterError
      /\ obj[q] = "unused"
      /\ obj' = [obj EXCEPT ![q] = "garbage"]
      /\ rs \in [Query -> GoodRS]
  BY DEF GetTables, connVars, QueryInv, AfterError
<1>2. "garbage" \in ObjStates
  BY DEF ObjStates
<1>3. lastError' \in Errors
  BY DEF GetTables, Errors, EngineInv
<1>4. ASSUME queries' = RemoveQuery(Entered(q), q), UNCHANGED rs
      PROVE  QueryInv'
  BY <1>1, <1>2, <1>4, DriverQueryGone
<1>5. ASSUME queries' = Entered(q), NEW at \in {0, 1},
             rs' = [rs EXCEPT ![q] = Abandoned("TABLES", at)]
      PROVE  QueryInv'
  <2>1. "TABLES" \in Stmt /\ at \in 0..MaxRows
    BY BoundAssumption DEF Stmt, CatalogStmt
  <2>2. Abandoned("TABLES", at) \in GoodRS
    BY <2>1, AbandonedOps, NullAssumption
  <2> QED BY <1>1, <1>2, <1>5, <2>2, DriverQueryStep
<1>6. QueryInv'
  BY <1>4, <1>5 DEF GetTables
<1> QED BY <1>1, <1>3, <1>6, AfterErrorStep

-----------------------------------------------------------------------------
(* The theorems.                                                           *)

(***************************************************************************)
(* A connection starts closed, with no query objects.                      *)
(***************************************************************************)
LEMMA InitInv == Init => IndInv
<1> SUFFICES ASSUME Init PROVE QueryInv /\ EngineInv
  BY IndInvParts
<1>1. /\ queries \in Seq(Query \cup {Null})
      /\ Distinct(queries)
      /\ Registered(queries) = {}
  BY DEF Init, Distinct, Registered
<1>2. /\ rs \in [Query -> GoodRS]
      /\ \A q \in Query : rs[q].stmt = Null
  BY FreshOps DEF Init
<1>3. QueryInv
  BY <1>1, <1>2 DEF QueryInv, GoodRegistry, Init, ObjStates
<1>4. EngineInv
  <2>1. /\ orphans \in 0..MaxOrphans
        /\ db \in Tallies
        /\ db.pending = 0
    BY BoundAssumption DEF Init, Tallies
  <2>2. /\ isOpen \in BOOLEAN
        /\ inTxn \in BOOLEAN /\ ~inTxn
        /\ handle \in {"null", "open", "failed"}
        /\ lastError \in Errors
    BY DEF Init, Errors
  <2> QED BY <2>1, <2>2 DEF EngineInv, PendingOnlyInTxn, TxnNeedsConnection
<1> QED BY <1>3, <1>4

(***************************************************************************)
(* Every operation of the driver preserves the inductive invariant.        *)
(***************************************************************************)
LEMMA NextInv == IndInv /\ [Next]_vars => IndInv'
<1>1. ASSUME QueryInv, EngineInv, [Next]_vars
      PROVE  QueryInv' /\ EngineInv'
  <2>q. ClientQuery \subseteq Query /\ DriverQuery \subseteq Query
    BY DEF Query
  <2>1. CASE Open
    BY <1>1, <2>1, OpenStep
  <2>2. CASE Close
    BY <1>1, <2>2, CloseStep
  <2>3. CASE ResetError
    BY <1>1, <2>3, ResetErrorStep
  <2>4. ASSUME NEW q \in ClientQuery,
               NewQuery(q) \/ Reject(q) \/ AddBindValue(q) \/ ClearBindValues(q)
        PROVE  QueryInv' /\ EngineInv'
    BY <1>1, <2>q, <2>4, NewQueryStep, RejectStep, BindStep
  <2>5. ASSUME NEW q \in ClientQuery, NEW s \in ClientStmt, Prepare(q, s)
        PROVE  QueryInv' /\ EngineInv'
    BY <1>1, <2>q, <2>5, PrepareStep
  <2>6. ASSUME NEW q \in ClientQuery, NEW s \in ClientStmt,
               ExecuteStatement(q, s) \/ ExecuteQuery(q, s)
        PROVE  QueryInv' /\ EngineInv'
    <3>1. lastError \in Errors /\ "none" \in Errors
      BY <1>1 DEF EngineInv, Errors
    <3>2. \E e \in Errors : /\ Direct(q, s, e)
                            /\ isOpen
                            /\ obj' = [obj EXCEPT ![q] = "held"]
                            /\ UNCHANGED connVars
      BY <2>6, <3>1 DEF ExecuteStatement, ExecuteQuery
    <3> QED BY <1>1, <2>q, <3>2, DirectStep
  <2>7. ASSUME NEW q \in ClientQuery,
               Execute(q) \/ NextRow(q) \/ FreeQuery(q) \/ Drop(q)
        PROVE  QueryInv' /\ EngineInv'
    BY <1>1, <2>q, <2>7, ExecuteStep, NextRowStep, ReleaseStep, DropStep
       DEF FreeQuery
  <2>8. ASSUME NEW q \in DriverQuery,
               StartTransaction(q) \/ Commit(q) \/ Rollback(q)
        PROVE  QueryInv' /\ EngineInv'
    BY <1>1, <2>q, <2>8, TransactionStep
  <2>9. ASSUME NEW q \in DriverQuery,
               TableExists(q) \/ GetTableInfo(q) \/ GetTables(q)
        PROVE  QueryInv' /\ EngineInv'
    BY <1>1, <2>q, <2>9, TableExistsStep, GetTableInfoStep, GetTablesStep
  <2>10. ASSUME NEW q \in Query, Collect(q)
         PROVE  QueryInv' /\ EngineInv'
    BY <1>1, <2>10, ReleaseStep DEF Collect
  <2>11. CASE UNCHANGED vars
    BY <1>1, <2>11
       DEF vars, connVars, dbVars, QueryInv, EngineInv, PendingOnlyInTxn,
           TxnNeedsConnection
  <2> QED BY <1>1, <2>1, <2>2, <2>3, <2>4, <2>5, <2>6, <2>7, <2>8, <2>9,
             <2>10, <2>11 DEF Next
<1>2. (QueryInv' /\ EngineInv') => IndInv'
  BY IndInvParts, PTL
<1> QED BY <1>1, <1>2, IndInvParts

(***************************************************************************)
(* For any number of queries, statements, rows and writes, IndInv holds in *)
(* every state of the driver.                                              *)
(***************************************************************************)
THEOREM Invariance == Spec => []IndInv
BY InitInv, NextInv, PTL DEF Spec

(***************************************************************************)
(* Type correctness.                                                       *)
(***************************************************************************)
THEOREM TypeCorrect == Spec => []TypeOK
<1>1. IndInv => TypeOK
  BY DEF IndInv
<1> QED BY <1>1, Invariance, PTL

(***************************************************************************)
(* A result set that owns a statement is registered, in one slot, and no   *)
(* slot keeps a result set whose query is gone.                            *)
(***************************************************************************)
THEOREM RegistryCorrect == Spec => []RegistrySound
<1>1. IndInv => RegistrySound
  BY DEF IndInv
<1> QED BY <1>1, Invariance, PTL

(***************************************************************************)
(* No statement outlives its connection, however queries were abandoned,   *)
(* freed, collected or failed before close().                              *)
(***************************************************************************)
THEOREM CloseCorrect == Spec => []ClosedFinalizesAll
<1>1. IndInv => ClosedFinalizesAll
  BY DEF IndInv
<1> QED BY <1>1, Invariance, PTL

(***************************************************************************)
(* Pending writes exist only in a transaction of an open connection.       *)
(***************************************************************************)
THEOREM PendingCorrect == Spec => []PendingOnlyInTxn
<1>1. IndInv => PendingOnlyInTxn
  BY DEF IndInv
<1> QED BY <1>1, Invariance, PTL

(***************************************************************************)
(* The call that ends a transaction leaves every statement reset: close()  *)
(* by freeing what is registered, commit() and rollback() by resetting it, *)
(* and a query of the driver's own that is abandoned is on no row.         *)
(***************************************************************************)
LEMMA EndStep ==
  ASSUME QueryInv, EngineInv, EndsTxn, inTxn, ~inTxn'
  PROVE  \A q \in Query : rs'[q].at = 0
<1>1. CASE Open
  <2>1. Closing /\ UNCHANGED obj
    BY <1>1 DEF Open, EngineInv, TxnNeedsConnection
  <2> QED BY <2>1, ClosingStep DEF Closing
<1>2. CASE Close
  BY <1>2, ClosingStep DEF Close, Closing
<1>3. ASSUME NEW q \in DriverQuery, Commit(q) \/ Rollback(q)
      PROVE  \A p \in Query : rs'[p].at = 0
  <2>1. \/ rs' = ResetQueries
        \/ \E s \in TxnStmt : rs' = [ResetQueries EXCEPT ![q] = Abandoned(s, 0)]
    BY <1>3 DEF Commit, Rollback, Transact, TxnStmt
  <2>2. /\ ResetQueries \in [Query -> GoodRS]
        /\ \A p \in Query : ResetQueries[p].at = 0
    BY ResetQueriesOps
  <2>3. ASSUME NEW s \in TxnStmt
        PROVE  Abandoned(s, 0).at = 0
    BY DEF Abandoned, FreshRS
  <2> QED BY <2>1, <2>2, <2>3
<1> QED BY <1>1, <1>2, <1>3 DEF EndsTxn

(***************************************************************************)
(* A transaction that commit, rollback, close or open ends does so with    *)
(* every statement of the connection reset.                                *)
(***************************************************************************)
THEOREM TransactionsEndQuiescent == Spec => TxnEndsQuiescent
<1>1. IndInv => [EndsTxn /\ inTxn /\ ~inTxn' => \A q \in Query : rs'[q].at = 0]_vars
  BY EndStep, IndInvParts
<1> QED BY <1>1, Invariance, PTL DEF Spec, TxnEndsQuiescent

-----------------------------------------------------------------------------
(* The size of the registry.                                               *)

(* Two slots, or no more than there are query objects.                     *)
Bounded(reg) == Len(reg) <= 2 \/ Len(reg) <= Cardinality(Query)

(***************************************************************************)
(* addQuery, removeQuery and their combinations keep the bound.            *)
(***************************************************************************)
LEMMA BoundedOps ==
  ASSUME NEW reg \in GoodRegistry, Bounded(reg), NEW q \in Query
  PROVE  /\ Bounded(AddQuery(reg, q))
         /\ Bounded(RemoveQuery(reg, q))
         /\ Bounded(ReRegister(reg, q))
<1>1. IsFiniteSet(Query)
  BY FiniteAssumption, FS_Union DEF Query
<1>2. ASSUME NEW g \in GoodRegistry, Bounded(g)
      PROVE  Bounded(AddQuery(g, q))
  BY <1>1, <1>2, NullAssumption, AddQueryReusesSlots DEF GoodRegistry, Bounded
<1>3. Bounded(RemoveQuery(reg, q)) /\ RemoveQuery(reg, q) \in GoodRegistry
  BY NullAssumption, RegistryOps, RemoveQueryUnregisters DEF GoodRegistry, Bounded
<1> QED BY <1>2, <1>3 DEF ReRegister

(***************************************************************************)
(* No step makes the registry larger than the bound.                       *)
(***************************************************************************)
LEMMA BoundedStep ==
  ASSUME QueryInv, RegistryBounded, [Next]_vars
  PROVE  RegistryBounded'
<1> SUFFICES Bounded(queries')
  BY DEF Bounded, RegistryBounded
<1>0. /\ queries \in GoodRegistry
      /\ Bounded(queries)
      /\ ClientQuery \subseteq Query
      /\ DriverQuery \subseteq Query
  BY DEF QueryInv, Bounded, RegistryBounded, Query
<1>1. ASSUME queries' = queries
      PROVE  Bounded(queries')
  BY <1>0, <1>1
<1>2. ASSUME queries' = ClearQueries(queries)
      PROVE  Bounded(queries')
  BY <1>0, <1>2, ClearQueriesEmpties DEF GoodRegistry, Bounded
<1>3. ASSUME NEW q \in Query, queries' = RemoveQuery(queries, q)
      PROVE  Bounded(queries')
  BY <1>0, <1>3, BoundedOps
<1>4. ASSUME NEW q \in Query,
             queries' \in {Registry0(q), ReRegister(Registry0(q), q),
                           RemoveQuery(ReRegister(Registry0(q), q), q)}
      PROVE  Bounded(queries')
  <2>1. Registry0(q) \in GoodRegistry /\ Bounded(Registry0(q))
    BY <1>0, StartOps, BoundedOps DEF Registry0
  <2>2. /\ ReRegister(Registry0(q), q) \in GoodRegistry
        /\ Bounded(ReRegister(Registry0(q), q))
    BY <2>1, ReRegisterOps, BoundedOps
  <2> QED BY <1>4, <2>1, <2>2, BoundedOps
<1>5. ASSUME NEW q \in Query,
             queries' \in {Entered(q), RemoveQuery(Entered(q), q)}
      PROVE  Bounded(queries')
  <2>1. Entered(q) \in GoodRegistry /\ Bounded(Entered(q))
    BY <1>0, EnteredOps, RegistryOps, BoundedOps DEF Entered
  <2> QED BY <1>5, <2>1, BoundedOps
<1>6. CASE Open \/ Close \/ ResetError \/ UNCHANGED vars
  BY <1>1, <1>2, <1>6 DEF Open, Close, Closing, ResetError, vars
<1>7. ASSUME NEW q \in ClientQuery,
             \/ NewQuery(q) \/ AddBindValue(q) \/ ClearBindValues(q) \/ NextRow(q)
             \/ Drop(q)
      PROVE  Bounded(queries')
  BY <1>1, <1>7 DEF NewQuery, AddBindValue, ClearBindValues, NextRow, Fetch, Drop
<1>8. ASSUME NEW q \in Query, Release(q)
      PROVE  Bounded(queries')
  BY <1>3, <1>8 DEF Release
<1>9. ASSUME NEW q \in ClientQuery, Reject(q) \/ Execute(q)
      PROVE  Bounded(queries')
  BY <1>0, <1>1, <1>3, <1>4, <1>9 DEF Reject, Execute, Run, RegistryAfter
<1>10. ASSUME NEW q \in ClientQuery, NEW s \in ClientStmt,
              Prepare(q, s) \/ ExecuteStatement(q, s) \/ ExecuteQuery(q, s)
       PROVE  Bounded(queries')
  <2>1. CASE Prepare(q, s)
    BY <1>0, <1>4, <2>1 DEF Prepare, PrepareFails
  <2>2. CASE ExecuteStatement(q, s) \/ ExecuteQuery(q, s)
    <3>1. \E e : Direct(q, s, e)
      BY <2>2 DEF ExecuteStatement, ExecuteQuery
    <3> QED BY <1>0, <1>4, <3>1 DEF Direct, PrepareFails, Run, RegistryAfter
  <2> QED BY <1>10, <2>1, <2>2
<1>11. ASSUME NEW q \in DriverQuery,
              \/ StartTransaction(q) \/ Commit(q) \/ Rollback(q)
              \/ TableExists(q) \/ GetTableInfo(q) \/ GetTables(q)
       PROVE  Bounded(queries')
  <2>1. queries' \in {Entered(q), RemoveQuery(Entered(q), q)}
    BY <1>11 DEF StartTransaction, Commit, Rollback, Transact, TableExists,
                 GetTableInfo, GetTables, RegistryAfter
  <2> QED BY <1>0, <1>5, <2>1
<1> QED BY <1>0, <1>6, <1>7, <1>8, <1>9, <1>10, <1>11
        DEF Next, FreeQuery, Collect

(***************************************************************************)
(* The registry never has more slots than 2, or than the query objects     *)
(* that exist at one time.                                                 *)
(***************************************************************************)
THEOREM RegistryStaysBounded == Spec => []RegistryBounded
<1>1. Init => RegistryBounded
  BY DEF Init, RegistryBounded
<1>2. IndInv /\ RegistryBounded /\ [Next]_vars => RegistryBounded'
  BY BoundedStep, IndInvParts
<1> QED BY <1>1, <1>2, Invariance, PTL DEF Spec

-----------------------------------------------------------------------------
(* The client that keeps all the rules, and what it is told.               *)

(***************************************************************************)
(* What a client that keeps the rules knows of its query: v is its view of *)
(* the query, o the query's life and r its result set.  The first row of a *)
(* result waits in  values  (fake), every later one is handed out by the   *)
(* fetch that gets it; a result set that may be executed again is back     *)
(* before its first row and was not marked as an empty set.                *)
(***************************************************************************)
Views == [status : {"idle", "open", "ended", "refused"}, row : Nat, made : Nat]

(* The query may be executed: it was never, or its rows have been read.    *)
Executable(v) == v.status = "idle" \/ (v.status = "ended" /\ v.row > 0)

OpenCursor(r, v) ==
  /\ r.stmt \notin Writes
  /\ r.rec = r.stmt \/ r.stmt = Null
  /\ ~r.initialFetch
  /\ r.stmt # Null => r.at = v.made
  /\ r.fake => v.row = 0 /\ v.made = 1 /\ r.cur = 1
  /\ ~r.fake => v.row = v.made
  /\ v.made > 0 => r.index = OnRow /\ ~r.emptySet

Tells(o, r, v) ==
  /\ o # "held" => v.status = "idle"
  /\ r.stmt = Null \/ r.rec = Null \/ r.rec = r.stmt
  /\ Executable(v) => r.initialFetch /\ ~r.emptySet
  /\ v.status = "open" => OpenCursor(r, v)

(* What the client was told of all its queries.                            *)
ViewInv ==
  /\ view \in [Query -> Views]
  /\ \A q \in ClientQuery : Tells(obj[q], rs[q], view[q])

(* What it was told of its writes and its transaction.                     *)
TallyInv ==
  /\ db \in Tallies
  /\ ack \in Tallies
  /\ began \in {"no", "yes", "failed"}
  /\ WritesExactlyOnce

ClientInv == IndInv /\ ViewInv /\ TallyInv

(* A step keeps what the client was told true, and tells it rows in order. *)
Truthful == ViewInv' /\ TallyInv' /\ [Contract!Next]_view

-----------------------------------------------------------------------------
(* The two tallies.                                                        *)

(* A call that has not touched the database, whether it failed or not.     *)
LEMMA QuietTally ==
  ASSUME TallyInv, UNCHANGED dbVars, ack' = ack, LookForError
  PROVE  TallyInv'
BY DEF TallyInv, WritesExactlyOnce, dbVars, LookForError

(* A failed call after which the engine has undone the whole transaction:  *)
(* the client looks at the error and knows that this may have happened.    *)
LEMMA UndoneTally ==
  ASSUME TallyInv, UndoesAll, lastError' # "none", ack' = ack, LookForError
  PROVE  TallyInv'
<1>1. inTxn /\ inTxn' = FALSE /\ db' = [db EXCEPT !.pending = 0]
  BY DEF UndoesAll, Discarded
<1>2. /\ db' \in Tallies
      /\ db'.committed = db.committed
      /\ db'.pending = 0
  BY <1>1 DEF TallyInv, Tallies
<1>3. began' = "failed"
  BY <1>1 DEF TallyInv, WritesExactlyOnce, LookForError
<1>4. db.committed = ack.committed
  BY DEF TallyInv, WritesExactlyOnce
<1> QED BY <1>1, <1>2, <1>3, <1>4 DEF TallyInv, WritesExactlyOnce

LEMMA ErrorTally ==
  ASSUME TallyInv, AfterError, lastError' # "none", ack' = ack, LookForError
  PROVE  TallyInv'
BY QuietTally, UndoneTally DEF AfterError

(* A write that is done, and reported, where the client believes it is.    *)
LEMMA WriteTally ==
  ASSUME TallyInv, began # "failed", db' = Tally(db, inTxn), inTxn' = inTxn,
         ack' = Tally(ack, began # "no"), began' = began
  PROVE  TallyInv'
<1>1. /\ db.committed = ack.committed /\ db.pending = ack.pending
      /\ inTxn <=> began # "no"
  BY DEF TallyInv, WritesExactlyOnce
<1>2. CASE inTxn
  <2>1. db' = [db EXCEPT !.pending = @ + 1] /\ ack' = [ack EXCEPT !.pending = @ + 1]
    BY <1>1, <1>2 DEF Tally
  <2>2. /\ db' \in Tallies /\ ack' \in Tallies
        /\ db'.committed = ack'.committed /\ db'.pending = ack'.pending
    BY <1>1, <2>1 DEF TallyInv, Tallies
  <2> QED BY <1>1, <2>2 DEF TallyInv, WritesExactlyOnce
<1>3. CASE ~inTxn
  <2>1. db' = [db EXCEPT !.committed = @ + 1] /\ ack' = [ack EXCEPT !.committed = @ + 1]
    BY <1>1, <1>3 DEF Tally
  <2>2. /\ db' \in Tallies /\ ack' \in Tallies
        /\ db'.committed = ack'.committed /\ db'.pending = ack'.pending
    BY <1>1, <2>1 DEF TallyInv, Tallies
  <2> QED BY <1>1, <2>2 DEF TallyInv, WritesExactlyOnce
<1> QED BY <1>2, <1>3

(* BEGIN, COMMIT or ROLLBACK that succeeds settles what the client knows.  *)
LEMMA TxnTally ==
  ASSUME TallyInv, EngineInv, NEW s \in TxnStmt, "done" \in StepOutcomes(s, 0),
         inTxn' = (s = "BEGIN"), db' = AfterTxn(s, db),
         ack' = AfterTxn(s, IF s = "BEGIN" THEN Discarded(ack) ELSE ack),
         began' = IF s = "BEGIN" THEN "yes" ELSE "no"
  PROVE  TallyInv'
<1>1. s = "BEGIN" <=> ~inTxn
  BY AfterTxnOps
<1>2. db.committed = ack.committed /\ db \in Tallies /\ ack \in Tallies
  BY DEF TallyInv, WritesExactlyOnce
<1>3. ~inTxn => db.pending = 0
  BY <1>2 DEF EngineInv, PendingOnlyInTxn, Tallies
<1>4. inTxn => db.pending = ack.pending
  BY DEF TallyInv, WritesExactlyOnce
<1>5. inTxn' <=> began' # "no"
  BY <1>1
<1>6. /\ db' \in Tallies /\ ack' \in Tallies
      /\ db'.committed = ack'.committed /\ db'.pending = ack'.pending
  <2>1. CASE s = "BEGIN"
    <3>1. db' = db /\ ack' = [ack EXCEPT !.pending = 0]
      BY <2>1 DEF AfterTxn, Discarded
    <3> QED BY <1>1, <1>2, <1>3, <2>1, <3>1 DEF Tallies
  <2>2. CASE s = "COMMIT"
    <3>1. /\ db' = [committed |-> db.committed + db.pending, pending |-> 0]
          /\ ack' = [committed |-> ack.committed + ack.pending, pending |-> 0]
      BY <2>2 DEF AfterTxn
    <3> QED BY <1>1, <1>2, <1>4, <2>2, <3>1 DEF Tallies
  <2>3. CASE s = "ROLLBACK"
    <3>1. db' = [db EXCEPT !.pending = 0] /\ ack' = [ack EXCEPT !.pending = 0]
      BY <2>3 DEF AfterTxn, Discarded
    <3> QED BY <1>2, <3>1 DEF Tallies
  <2> QED BY <2>1, <2>2, <2>3 DEF TxnStmt
<1> QED BY <1>5, <1>6 DEF TallyInv, WritesExactlyOnce

(* The connection is closed: what was pending is gone for both.            *)
LEMMA ClosedTally ==
  ASSUME TallyInv, ack' = Discarded(ack), began' = "no",
         inTxn' = FALSE, db'.pending = 0, db'.committed = db.committed, db' \in Tallies
  PROVE  TallyInv'
<1>1. ack' = [ack EXCEPT !.pending = 0]
  BY DEF Discarded
<1>2. ack' \in Tallies /\ ack'.pending = 0 /\ ack'.committed = ack.committed
  BY <1>1 DEF TallyInv, Tallies
<1>3. db.committed = ack.committed
  BY DEF TallyInv, WritesExactlyOnce
<1> QED BY <1>2, <1>3 DEF TallyInv, WritesExactlyOnce

-----------------------------------------------------------------------------
(* The result sets.                                                        *)

(* The fields of a result set after each operation on it.                  *)
LEMMA FieldsKept ==
  ASSUME NEW r \in ResultSets
  PROVE  /\ \A x \in {ClearRS(r), FreeRS(r), ResetRS(r)} :
              /\ x.rec = r.rec
              /\ x.emptySet = r.emptySet
              /\ x.fake = r.fake
              /\ x.stmt \in {r.stmt, Null}
         /\ FreeRS(r).cur = r.cur /\ FreeRS(r).index = r.index
         /\ FreeRS(r).initialFetch = r.initialFetch
         /\ FreeRS(r).stmt = Null
         /\ ResetRS(r).initialFetch = TRUE
         /\ ClearRS(r).initialFetch = r.initialFetch
BY DEF ResultSets, ClearRS, FreeRS, ResetRS

(* An execution starts with nothing waiting and before the first row.      *)
LEMMA RestartFields ==
  ASSUME NEW r \in GoodRS
  PROVE  LET r0 == [r EXCEPT !.fake = FALSE, !.at = 0]
         IN /\ r0 \in GoodRS
            /\ r0.stmt = r.stmt
            /\ r0.at = 0
            /\ r0.rec = r.rec
            /\ r0.emptySet = r.emptySet
            /\ r0.initialFetch = r.initialFetch
<1> DEFINE a == [r EXCEPT !.fake = FALSE]
           r0 == [a EXCEPT !.at = 0]
<1>1. a \in GoodRS
  BY SetFlag
<1>2. r0 \in GoodRS /\ r0.stmt = a.stmt /\ r0.at = 0
  <2> HIDE DEF a
  <2> QED BY <1>1, SetCursor, BoundAssumption
<1>3. /\ r0.stmt = r.stmt
      /\ r0.rec = r.rec
      /\ r0.emptySet = r.emptySet
      /\ r0.initialFetch = r.initialFetch
  BY DEF GoodRS, ResultSets
<1>4. r0 = [r EXCEPT !.fake = FALSE, !.at = 0]
  OBVIOUS
<1> HIDE DEF r0
<1> QED BY <1>2, <1>3, <1>4

(* The fetch that got a row.                                               *)
LEMMA OnNewRowFields ==
  ASSUME NEW r \in ResultSets
  PROVE  /\ OnNewRow(r).stmt = r.stmt
         /\ OnNewRow(r).at = r.at + 1
         /\ OnNewRow(r).cur = r.at + 1
         /\ OnNewRow(r).index = OnRow
         /\ OnNewRow(r).fake = r.initialFetch
         /\ OnNewRow(r).initialFetch = FALSE
         /\ OnNewRow(r).rec = IF r.rec = Null THEN r.stmt ELSE r.rec
         /\ OnNewRow(r).emptySet = IF r.rec = Null THEN FALSE ELSE r.emptySet
BY DEF ResultSets, OnNewRow, Stepped, InitRecord

(* The fetch that found the end.                                           *)
LEMMA OnDoneFields ==
  ASSUME NEW r \in ResultSets, NEW cols \in BOOLEAN
  PROVE  /\ OnDone(r, cols).stmt = r.stmt
         /\ OnDone(r, cols).at = 0
         /\ OnDone(r, cols).index = r.index
         /\ OnDone(r, cols).fake = FALSE
         /\ OnDone(r, cols).initialFetch = FALSE
         /\ cols => OnDone(r, cols).rec = IF r.rec = Null THEN r.stmt ELSE r.rec
         /\ OnDone(r, cols).rec \in {r.rec, r.stmt}
         /\ r.rec # Null => OnDone(r, cols).emptySet = r.emptySet
BY DEF ResultSets, OnDone, Stepped, InitRecord

(* The fetch that failed.                                                  *)
LEMMA OnErrorFields ==
  ASSUME NEW r \in ResultSets
  PROVE  /\ OnError(r).stmt = r.stmt
         /\ OnError(r).at = 0
         /\ OnError(r).index = r.index
         /\ OnError(r).fake = r.initialFetch
         /\ OnError(r).initialFetch = FALSE
         /\ OnError(r).rec = r.rec
         /\ OnError(r).emptySet = r.emptySet
BY DEF ResultSets, OnError, Stepped

(* The fetch that hands out the row fetched in advance.                    *)
LEMMA HandedOutFields ==
  ASSUME NEW r \in ResultSets
  PROVE  /\ HandedOut(r).stmt = r.stmt
         /\ HandedOut(r).at = r.at
         /\ HandedOut(r).cur = r.cur
         /\ HandedOut(r).index = r.index
         /\ HandedOut(r).fake = FALSE
         /\ HandedOut(r).initialFetch = r.initialFetch
         /\ HandedOut(r).rec = r.rec
         /\ HandedOut(r).emptySet = r.emptySet
BY DEF ResultSets, HandedOut

(* What execute() of statement s tells the client, with the error e that is*)
(* outstanding afterwards and the cursor at.                               *)
Learned(s, e, at) ==
  IF e # "none" THEN [status |-> "refused", row |-> 0, made |-> 0]
  ELSE [status |-> IF HasColumns(s) THEN "open" ELSE "ended", row |-> 0, made |-> at]

(***************************************************************************)
(* An execution tells the truth when it starts before the first row of a   *)
(* result set that is not marked as empty.                                 *)
(***************************************************************************)
LEMMA ExecutedTells ==
  ASSUME NEW r \in GoodRS, NEW out \in ExecuteOutcomes(r),
         r.stmt = Null \/ r.rec = Null \/ r.rec = r.stmt,
         HasColumns(r.stmt) => r.initialFetch /\ ~r.emptySet,
         NEW x, x = Executed(r, out, "none"),
         NEW v, v = Learned(r.stmt, ErrorAfter(out, "none"), x.at)
  PROVE  /\ v \in Views
         /\ v.row = 0
         /\ v.status \in {"open", "ended", "refused"}
         /\ v.status # "open" => v.made = 0
         /\ Tells("held", x, v)
<1> DEFINE r0 == [r EXCEPT !.fake = FALSE, !.at = 0]
           cols == HasColumns(r.stmt)
           f == FetchRS(r0, out, cols)
<1>1. /\ r0 \in ResultSets /\ r0 \in GoodRS
      /\ r0.stmt = r.stmt
      /\ r0.at = 0
      /\ r0.rec = r.rec
      /\ r0.emptySet = r.emptySet
      /\ r0.initialFetch = r.initialFetch
  BY RestartFields DEF GoodRS
<1>2. cols \in BOOLEAN
  BY DEF HasColumns
<1>c. cols => r.stmt \notin Writes /\ r.stmt # Null
  BY StmtAssumption, NullAssumption DEF HasColumns, Stmt, ClientStmt
<1> HIDE DEF r0
<1>3. CASE Aborts(out)
  <2>1. x = FreeRS(r0)
    BY <1>3, Zenon DEF Executed, r0
  <2>2. v = [status |-> "refused", row |-> 0, made |-> 0]
    BY <1>3 DEF Learned, ErrorAfter
  <2>3. x.stmt = Null
    BY <1>1, <2>1, FieldsKept
  <2> QED BY <2>2, <2>3 DEF Views, Tells, Executable
<1>4. CASE ~Aborts(out)
  <2>1. out \in StepOutcomes(r.stmt, 0)
    BY <1>4 DEF ExecuteOutcomes, Aborts
  <2>2. /\ out \in {"row", "done", "error"}
        /\ out = "row" => cols
    BY <2>1, StepOutcomesAre DEF HasColumns
  <2>3. f \in GoodRS /\ f.stmt = r.stmt
    <3> HIDE DEF cols
    <3>1. out = "row" => r0.at < MaxRows /\ r0.stmt # Null
      BY <1>1, <1>c, <2>2, BoundAssumption
    <3>2. r0 \in GoodRS
      BY <1>1
    <3>3. out \in {"buffered", "row", "done", "error"}
      BY <2>2
    <3>4. FetchRS(r0, out, cols) \in GoodRS /\ FetchRS(r0, out, cols).stmt = r0.stmt
      BY <1>2, <3>1, <3>2, <3>3, FetchOps, Zenon
    <3> QED BY <1>1, <3>4
  <2>4. x = [f EXCEPT !.isActive = (ErrorAfter(out, "none") = "none")]
    BY <1>4, Zenon DEF Executed, r0
  <2>5. /\ x.stmt = f.stmt /\ x.at = f.at /\ x.cur = f.cur /\ x.index = f.index
        /\ x.fake = f.fake /\ x.initialFetch = f.initialFetch
        /\ x.rec = f.rec /\ x.emptySet = f.emptySet
    <3> HIDE DEF f
    <3> QED BY <2>3, <2>4 DEF GoodRS, ResultSets
  <2> HIDE DEF cols
  <2>6. CASE out = "row"
    <3>1. f = OnNewRow(r0)
      BY <2>6 DEF FetchRS
    <3>2. /\ x.stmt = r.stmt /\ x.at = 1 /\ x.cur = 1 /\ x.index = OnRow
          /\ x.fake = TRUE /\ x.initialFetch = FALSE
          /\ x.rec = r.stmt /\ ~x.emptySet
      <4> DEFINE y == OnNewRow(r0)
      <4>1. /\ y.stmt = r0.stmt /\ y.at = r0.at + 1 /\ y.cur = r0.at + 1
            /\ y.index = OnRow /\ y.fake = r0.initialFetch /\ y.initialFetch = FALSE
            /\ y.rec = IF r0.rec = Null THEN r0.stmt ELSE r0.rec
            /\ y.emptySet = IF r0.rec = Null THEN FALSE ELSE r0.emptySet
        BY <1>1, OnNewRowFields
      <4>2. r.initialFetch = TRUE /\ r.emptySet = FALSE
        BY <2>2, <2>6 DEF cols, GoodRS, ResultSets
      <4>3. f = y
        BY <3>1
      <4> HIDE DEF f, y
      <4>4. x.fake = TRUE /\ x.initialFetch = FALSE
        BY <1>1, <2>5, <4>1, <4>2, <4>3, Zenon
      <4>5. x.emptySet = FALSE
        BY <1>1, <2>5, <4>1, <4>2, <4>3, Zenon
      <4>6. x.at = 1 /\ x.cur = 1 /\ x.index = OnRow
        BY <1>1, <2>5, <4>1, <4>3
      <4>7. x.stmt = r.stmt /\ x.rec = r.stmt
        BY <1>1, <1>c, <2>2, <2>5, <2>6, <4>1, <4>3
      <4> QED BY <4>4, <4>5, <4>6, <4>7, Zenon
    <3>3. v = [status |-> "open", row |-> 0, made |-> 1]
      BY <2>2, <2>6, <3>2 DEF Learned, ErrorAfter, Aborts, cols
    <3> HIDE DEF f
    <3> QED BY <1>c, <2>2, <2>6, <3>2, <3>3 DEF Views, Tells, Executable, OpenCursor
  <2>7. CASE out = "done"
    <3>1. f = OnDone(r0, cols)
      BY <2>7 DEF FetchRS
    <3>2. /\ x.stmt = r.stmt /\ x.at = 0
          /\ x.fake = FALSE /\ x.initialFetch = FALSE
          /\ cols => x.rec = r.stmt
          /\ x.rec = Null \/ x.rec = r.stmt \/ r.stmt = Null
      <4> DEFINE y == OnDone(r0, cols)
      <4>1. /\ y.stmt = r0.stmt /\ y.at = 0
            /\ y.fake = FALSE /\ y.initialFetch = FALSE
            /\ cols => y.rec = IF r0.rec = Null THEN r0.stmt ELSE r0.rec
            /\ y.rec \in {r0.rec, r0.stmt}
        BY <1>1, <1>2, OnDoneFields
      <4>2. f = y
        BY <3>1
      <4> HIDE DEF f, y
      <4> QED BY <1>1, <1>c, <2>5, <4>1, <4>2
    <3>3. v = [status |-> IF cols THEN "open" ELSE "ended", row |-> 0, made |-> 0]
      BY <2>7, <3>2 DEF Learned, ErrorAfter, Aborts, cols
    <3> HIDE DEF f
    <3>4. CASE cols
      BY <1>c, <3>2, <3>3, <3>4 DEF Views, Tells, Executable, OpenCursor
    <3>5. CASE ~cols
      BY <3>2, <3>3, <3>5 DEF Views, Tells, Executable
    <3> QED BY <3>4, <3>5
  <2>8. CASE out = "error"
    <3>1. f = OnError(r0)
      BY <2>8 DEF FetchRS
    <3>2. x.stmt = r.stmt /\ x.rec = r.rec
      <4>1. OnError(r0).stmt = r0.stmt /\ OnError(r0).rec = r0.rec
        BY <1>1, OnErrorFields
      <4> HIDE DEF f
      <4> QED BY <1>1, <2>5, <3>1, <4>1
    <3>3. v = [status |-> "refused", row |-> 0, made |-> 0]
      BY <2>8 DEF Learned, ErrorAfter
    <3> QED BY <3>2, <3>3 DEF Views, Tells, Executable
  <2> QED BY <2>2, <2>6, <2>7, <2>8
<1> QED BY <1>3, <1>4

(* A fetch that found the end or failed, and the reset after it.           *)
LEMMA NoRowFields ==
  ASSUME NEW r \in GoodRS, NEW out \in {"done", "error"}, NEW cols \in BOOLEAN,
         NEW x, x = NextRowRS(r, out, cols)
  PROVE  /\ x.stmt = r.stmt /\ x.at = 0
         /\ x.rec \in {r.rec, r.stmt}
         /\ out = "error" \/ r.rec # Null => x.emptySet = r.emptySet
         /\ r.index # BeforeFirst => x.initialFetch = TRUE
<1> DEFINE f == FetchRS(r, out, cols)
           g == [f EXCEPT !.index = AfterLast]
<1>1. f \in GoodRS
  BY FetchOps
<1>2. /\ f.stmt = r.stmt /\ f.at = 0
      /\ f.rec \in {r.rec, r.stmt}
      /\ out = "error" \/ r.rec # Null => f.emptySet = r.emptySet
  <2>0. r \in ResultSets
    BY DEF GoodRS
  <2>1. CASE out = "done"
    <3>1. f = OnDone(r, cols)
      BY <2>1 DEF FetchRS
    <3>2. /\ OnDone(r, cols).stmt = r.stmt /\ OnDone(r, cols).at = 0
          /\ OnDone(r, cols).rec \in {r.rec, r.stmt}
          /\ r.rec # Null => OnDone(r, cols).emptySet = r.emptySet
      BY <2>0, OnDoneFields
    <3> HIDE DEF f
    <3> QED BY <2>1, <3>1, <3>2
  <2>2. CASE out = "error"
    <3>1. f = OnError(r)
      BY <2>2 DEF FetchRS
    <3>2. /\ OnError(r).stmt = r.stmt /\ OnError(r).at = 0
          /\ OnError(r).rec = r.rec /\ OnError(r).emptySet = r.emptySet
      BY <2>0, OnErrorFields
    <3> HIDE DEF f
    <3> QED BY <3>1, <3>2
  <2> QED BY <2>1, <2>2
<1>3. g \in GoodRS
  <2> HIDE DEF f
  <2> QED BY <1>1, SetIndex
<1>4. g.stmt = f.stmt /\ g.at = f.at /\ g.rec = f.rec /\ g.emptySet = f.emptySet
  <2> HIDE DEF f
  <2> QED BY <1>1 DEF GoodRS, ResultSets
<1>5. x = IF r.index = BeforeFirst THEN f ELSE ResetRS(g)
  BY DEF NextRowRS, FetchSucceeds
<1>6. /\ ResetRS(g).stmt = g.stmt /\ ResetRS(g).at = 0
      /\ ResetRS(g).rec = g.rec /\ ResetRS(g).emptySet = g.emptySet
      /\ ResetRS(g).initialFetch = TRUE
  <2> HIDE DEF g
  <2>1. g \in ResultSets
    BY <1>3 DEF GoodRS
  <2> QED BY <1>3, <2>1, ResetOps, FieldsKept
<1> HIDE DEF f, g
<1> QED BY <1>2, <1>4, <1>5, <1>6

(* What a fetch tells the client whose view was v, see LearnFetch.         *)
LearnedRow(v, returned, got, row) ==
  [status |-> IF returned \/ v.status # "open" THEN v.status ELSE "ended",
   row    |-> IF returned THEN row ELSE v.row,
   made   |-> IF got /\ v.made <= MaxRows THEN v.made + 1 ELSE v.made]

(***************************************************************************)
(* A fetch on an open cursor hands out the next row or finds the end, and  *)
(* tells which; EachIn and nextRow are told the same.                      *)
(***************************************************************************)
LEMMA FetchTells ==
  ASSUME NEW r \in GoodRS, NEW v \in Views, v.status = "open", Tells("held", r, v),
         NEW out \in FetchOutcomes(r),
         NEW x, x = NextRowRS(r, out, HasColumns(r.stmt)),
         v.made = 0 => ~(x.at > r.at),
         NEW ret, ret \in {r.fake \/ x.at > r.at, (r.fake \/ x.at > r.at) /\ ~x.emptySet},
         NEW w, w = LearnedRow(v, ret, x.at > r.at, x.cur)
  PROVE  /\ w \in Views
         /\ Tells("held", x, w)
         /\ \/ /\ w.status = "open" /\ w.row = v.row + 1
               /\ w.made \in {v.made, v.made + 1} /\ w.row <= w.made
            \/ /\ w.status = "ended" /\ w.row = v.row
               /\ w.made = v.made /\ v.row = v.made
<1>0. OpenCursor(r, v)
  BY DEF Tells
<1>t. /\ r \in ResultSets /\ r.at \in Nat /\ r.at <= MaxRows /\ MaxRows \in Nat
      /\ r.fake \in BOOLEAN /\ r.initialFetch \in BOOLEAN /\ r.emptySet \in BOOLEAN
      /\ v.row \in Nat /\ v.made \in Nat
  BY BoundAssumption DEF GoodRS, ResultSets, Views
<1>o. OnRow # BeforeFirst
  BY DEF OnRow, BeforeFirst
<1>1. CASE r.fake
  <2>1. x = HandedOut(r)
    BY <1>1 DEF FetchOutcomes, NextRowRS, FetchSucceeds, FetchRS
  <2>2. /\ x.stmt = r.stmt /\ x.at = r.at /\ x.cur = r.cur /\ x.index = r.index
        /\ x.fake = FALSE /\ x.initialFetch = r.initialFetch
        /\ x.rec = r.rec /\ x.emptySet = r.emptySet
    BY <1>t, <2>1, HandedOutFields
  <2>3. v.row = 0 /\ v.made = 1 /\ r.cur = 1 /\ r.index = OnRow /\ ~r.emptySet
    BY <1>0, <1>1 DEF OpenCursor
  <2>4. ~(x.at > r.at)
    BY <1>t, <2>2
  <2>5. ret
    BY <1>1, <2>2, <2>3
  <2>6. w = [status |-> "open", row |-> 1, made |-> 1]
    BY <2>2, <2>3, <2>4, <2>5 DEF LearnedRow
  <2>7. OpenCursor(x, w)
    BY <1>0, <2>2, <2>3, <2>6 DEF OpenCursor
  <2> QED BY <2>2, <2>3, <2>6, <2>7 DEF Tells, Views, Executable
<1>2. CASE ~r.fake /\ out = "row"
  <2>1. x = OnNewRow(r)
    BY <1>2 DEF NextRowRS, FetchSucceeds, FetchRS
  <2>2. /\ x.stmt = r.stmt /\ x.at = r.at + 1 /\ x.cur = r.at + 1 /\ x.index = OnRow
        /\ x.fake = r.initialFetch /\ x.initialFetch = FALSE
        /\ x.rec = IF r.rec = Null THEN r.stmt ELSE r.rec
        /\ x.emptySet = IF r.rec = Null THEN FALSE ELSE r.emptySet
    BY <1>t, <2>1, OnNewRowFields
  <2>3. r.at < MaxRows /\ r.stmt # Null
    BY <1>2, StepOutcomesAre, NullAssumption DEF FetchOutcomes, Stmt, ClientStmt
  <2>4. /\ r.at = v.made /\ v.row = v.made /\ r.rec = r.stmt
        /\ r.initialFetch = FALSE
    BY <1>0, <1>2, <1>t, <2>3 DEF OpenCursor
  <2>5. x.at > r.at
    BY <1>t, <2>2
  <2>6. v.made > 0 /\ r.emptySet = FALSE
    BY <1>0, <1>t, <2>5 DEF OpenCursor
  <2>7. ret
    BY <2>2, <2>5, <2>6
  <2>8. w = [status |-> "open", row |-> v.made + 1, made |-> v.made + 1]
    BY <1>t, <2>2, <2>3, <2>4, <2>5, <2>7 DEF LearnedRow
  <2>9. x.fake = FALSE /\ x.emptySet = FALSE /\ x.rec = x.stmt
    BY <2>2, <2>4, <2>6, Zenon
  <2>10. OpenCursor(x, w)
    BY <1>0, <1>t, <2>2, <2>4, <2>8, <2>9 DEF OpenCursor
  <2> QED BY <1>t, <2>4, <2>8, <2>9, <2>10 DEF Tells, Views, Executable
<1>3. CASE ~r.fake /\ out # "row"
  <2>1. out \in StepOutcomes(r.stmt, r.at)
    BY <1>3 DEF FetchOutcomes
  <2>2. out \in {"done", "error"}
    BY <1>3, <2>1, StepOutcomesAre
  <2>3. out = "done" => r.stmt # Null
    BY <2>1, NullAssumption DEF StepOutcomes, Stmt, ClientStmt, TxnStmt
  <2>4. HasColumns(r.stmt) \in BOOLEAN
    BY DEF HasColumns
  <2>5. /\ x.stmt = r.stmt /\ x.at = 0
        /\ x.rec \in {r.rec, r.stmt}
        /\ out = "error" \/ r.rec # Null => x.emptySet = r.emptySet
        /\ r.index # BeforeFirst => x.initialFetch = TRUE
    <3> DEFINE cols == HasColumns(r.stmt)
    <3>1. cols \in BOOLEAN /\ x = NextRowRS(r, out, cols)
      BY <2>4
    <3> HIDE DEF cols
    <3> QED BY <2>2, <3>1, NoRowFields
  <2>6. ~(x.at > r.at)
    BY <1>t, <2>5
  <2>7. ~ret
    BY <1>3, <2>6
  <2>8. w = [status |-> "ended", row |-> v.row, made |-> v.made]
    BY <2>6, <2>7 DEF LearnedRow
  <2>9. v.row = v.made
    BY <1>0, <1>3 DEF OpenCursor
  <2>10. r.stmt = Null \/ r.rec = r.stmt
    BY <1>0 DEF OpenCursor
  <2>11. v.row > 0 => x.initialFetch /\ ~x.emptySet
    <3>1. v.row > 0 => r.index = OnRow /\ ~r.emptySet
      BY <1>0, <2>9 DEF OpenCursor
    <3>2. x.emptySet = r.emptySet
      BY <2>2, <2>3, <2>5, <2>10
    <3> QED BY <1>o, <2>5, <3>1, <3>2
  <2>12. Tells("held", x, w)
    BY <2>5, <2>8, <2>10, <2>11 DEF Tells, Executable
  <2> QED BY <1>t, <2>8, <2>9, <2>12 DEF Views
<1> QED BY <1>1, <1>2, <1>3

(* A step that changes one query and what its client knows.                *)
LEMMA OneViewStep ==
  ASSUME QueryInv, ViewInv, NEW q \in ClientQuery,
         NEW x, rs' = [rs EXCEPT ![q] = x],
         NEW o, obj' = [obj EXCEPT ![q] = o],
         NEW w \in Views, view' = [view EXCEPT ![q] = w],
         Tells(o, x, w)
  PROVE  ViewInv'
<1>0. ClientQuery \subseteq Query
  BY DEF Query
<1>1. \A p \in Query : /\ rs'[p] = IF p = q THEN x ELSE rs[p]
                       /\ obj'[p] = IF p = q THEN o ELSE obj[p]
                       /\ view'[p] = IF p = q THEN w ELSE view[p]
  BY <1>0 DEF QueryInv, ViewInv
<1>2. view' \in [Query -> Views]
  BY <1>0 DEF ViewInv
<1>3. ASSUME NEW p \in ClientQuery
      PROVE  Tells(obj'[p], rs'[p], view'[p])
  <2>1. CASE p = q
    BY <1>0, <1>1, <2>1
  <2>2. CASE p # q
    BY <1>0, <1>1, <2>2 DEF ViewInv
  <2> QED BY <2>1, <2>2
<1> QED BY <1>2, <1>3 DEF ViewInv

(* A step of which the clients are told nothing.                           *)
LEMMA QuietViewStep ==
  ASSUME ViewInv, view' = view,
         \A q \in ClientQuery : Tells(obj'[q], rs'[q], view[q])
  PROVE  ViewInv'
BY DEF ViewInv

(* A result set whose execution lies ahead: created, prepared or abandoned.*)
LEMMA IdleTells ==
  ASSUME NEW o, NEW x, x.rec = Null, x.initialFetch, ~x.emptySet
  PROVE  NoView \in Views /\ Tells(o, x, NoView)
BY DEF NoView, Views, Tells, Executable

(* The result sets that prepare, free and abandon leave are like that.     *)
LEMMA IdleFields ==
  ASSUME NEW s, NEW at,
         NEW x \in {FreshRS, CleanupRS(FreshRS), PreparedRS(FreshRS, s), Abandoned(s, at)}
  PROVE  x.rec = Null /\ x.initialFetch = TRUE /\ x.emptySet = FALSE
<1>1. CASE x = FreshRS
  BY <1>1 DEF FreshRS
<1>2. CASE x = CleanupRS(FreshRS)
  BY <1>2 DEF FreshRS, CleanupRS, FreeRS, ClearRS
<1>3. CASE x = PreparedRS(FreshRS, s)
  BY <1>3 DEF FreshRS, PreparedRS, CleanupRS, FreeRS, ClearRS
<1>4. CASE x = Abandoned(s, at)
  BY <1>4 DEF FreshRS, Abandoned
<1> QED BY <1>1, <1>2, <1>3, <1>4

-----------------------------------------------------------------------------
(* The steps of the contract.                                              *)

(* Forgetting.                                                             *)
LEMMA ForgetInOrder ==
  ASSUME NEW q \in Query, view' = [view EXCEPT ![q] = NoView]
  PROVE  Contract!Next
<1>1. Contract!Forget(q)
  BY DEF Contract!Forget, Contract!Set, Contract!NoCursor, NoView
<1> QED BY <1>1 DEF Contract!Next

(* An execution, successful or refused.                                    *)
LEMMA LearnedInOrder ==
  ASSUME NEW q \in Query, view \in [Query -> Views], NEW w \in Views,
         view' = [view EXCEPT ![q] = w], w.row = 0,
         w.status \in {"open", "ended", "refused"},
         w.status # "open" => w.made = 0
  PROVE  Contract!Next
<1>1. view'[q] = w
  OBVIOUS
<1>2. w = [status |-> w.status, row |-> 0, made |-> w.made] /\ w.made \in Nat
  BY DEF Views
<1>3. CASE w.status = "refused"
  <2>1. Contract!Refuse(q)
    BY <1>2, <1>3 DEF Contract!Refuse, Contract!Set
  <2> QED BY <2>1 DEF Contract!Next
<1>4. CASE w.status \in {"open", "ended"}
  <2>1. Contract!Begin(q)
    BY <1>1, <1>2, <1>4 DEF Contract!Begin, Contract!Set
  <2> QED BY <2>1 DEF Contract!Next
<1> QED BY <1>3, <1>4

(* A fetch.                                                                *)
LEMMA FetchedInOrder ==
  ASSUME NEW q \in Query, view \in [Query -> Views], NEW w \in Views,
         view' = [view EXCEPT ![q] = w], view[q].status = "open",
         \/ /\ w.status = "open" /\ w.row = view[q].row + 1
            /\ w.made \in {view[q].made, view[q].made + 1} /\ w.row <= w.made
         \/ /\ w.status = "ended" /\ w.row = view[q].row
            /\ w.made = view[q].made /\ view[q].row = view[q].made
  PROVE  Contract!Next
<1>1. /\ w = [status |-> w.status, row |-> w.row, made |-> w.made]
      /\ view[q] \in Views
  BY DEF Views
<1>2. CASE /\ w.status = "open" /\ w.row = view[q].row + 1
           /\ w.made \in {view[q].made, view[q].made + 1} /\ w.row <= w.made
  <2>1. Contract!Advance(q)
    BY <1>1, <1>2 DEF Contract!Advance, Contract!Set
  <2> QED BY <2>1 DEF Contract!Next
<1>3. CASE /\ w.status = "ended" /\ w.row = view[q].row
           /\ w.made = view[q].made /\ view[q].row = view[q].made
  <2>1. w = [view[q] EXCEPT !.status = "ended"]
    BY <1>1, <1>3 DEF Views
  <2>2. Contract!Finish(q)
    BY <1>3, <2>1 DEF Contract!Finish, Contract!Set
  <2> QED BY <2>2 DEF Contract!Next
<1> QED BY <1>2, <1>3

-----------------------------------------------------------------------------
(* The steps of a client that keeps all the rules.                         *)

(* A query is forgotten: prepared again, freed or let go.                  *)
LEMMA ForgetStep ==
  ASSUME QueryInv, ViewInv, TallyInv, NEW q \in ClientQuery,
         NEW s, NEW at,
         NEW x \in {FreshRS, CleanupRS(FreshRS), PreparedRS(FreshRS, s), Abandoned(s, at)},
         rs' = [rs EXCEPT ![q] = x],
         NEW o, obj' = [obj EXCEPT ![q] = o],
         LearnForget(q), UNCHANGED dbVars
  PROVE  Truthful
<1>1. x.rec = Null /\ x.initialFetch = TRUE /\ x.emptySet = FALSE
  BY IdleFields
<1>2. NoView \in Views /\ Tells(o, x, NoView)
  BY <1>1, IdleTells
<1>3. view' = [view EXCEPT ![q] = NoView] /\ ack' = ack /\ LookForError
  BY DEF LearnForget
<1>4. ViewInv'
  BY <1>2, <1>3, OneViewStep
<1>5. q \in Query
  BY DEF Query
<1>6. Contract!Next
  BY <1>3, <1>5, ForgetInOrder
<1>7. TallyInv'
  BY <1>3, QuietTally
<1> QED BY <1>4, <1>6, <1>7 DEF Truthful

(* A statement is run with no error outstanding.                           *)
LEMMA RunTells ==
  ASSUME QueryInv, ViewInv, TallyInv, NEW q \in ClientQuery,
         NEW r \in GoodRS, NEW reg, NEW out \in ExecuteOutcomes(r),
         r.stmt = Null \/ r.rec = Null \/ r.rec = r.stmt,
         HasColumns(r.stmt) => r.initialFetch /\ ~r.emptySet,
         Run(q, r, reg, "none", out),
         LearnExecute(q, r.stmt), MayWrite(r.stmt), Rules = AllRules,
         obj' = [obj EXCEPT ![q] = "held"]
  PROVE  Truthful
<1> DEFINE x == Executed(r, out, "none")
           w == Learned(r.stmt, ErrorAfter(out, "none"), x.at)
<1>0. q \in Query /\ view \in [Query -> Views]
  BY DEF Query, ViewInv
<1>1. /\ w \in Views
      /\ w.row = 0
      /\ w.status \in {"open", "ended", "refused"}
      /\ w.status # "open" => w.made = 0
      /\ Tells("held", x, w)
  BY ExecutedTells
<1>2. rs' = [rs EXCEPT ![q] = x] /\ lastError' = ErrorAfter(out, "none")
  BY DEF Run
<1>3. rs'[q] = x
  <2> HIDE DEF x
  <2> QED BY <1>0, <1>2 DEF QueryInv
<1>4. view' = [view EXCEPT ![q] = w]
  <2> DEFINE y == IF lastError' # "none" THEN [NoView EXCEPT !.status = "refused"]
                  ELSE [status |-> IF HasColumns(r.stmt) THEN "open" ELSE "ended",
                        row |-> 0, made |-> rs'[q].at]
  <2>1. view' = [view EXCEPT ![q] = y]
    BY DEF LearnExecute
  <2>2. [NoView EXCEPT !.status = "refused"] = [status |-> "refused", row |-> 0, made |-> 0]
    BY DEF NoView
  <2>3. y = w
    <3> HIDE DEF x
    <3> QED BY <1>2, <1>3, <2>2 DEF Learned
  <2> QED BY <2>1, <2>3
<1>5. TallyInv'
  <2>1. r.stmt \in Writes => ~HasColumns(r.stmt)
    BY StmtAssumption DEF HasColumns, ClientStmt
  <2>2. r.stmt \in Writes => (IsWrite(r.stmt, out) <=> ErrorAfter(out, "none") = "none")
    <3>1. ~Aborts(out) => out \in StepOutcomes(r.stmt, 0)
      BY DEF ExecuteOutcomes, Aborts
    <3>2. ~Aborts(out) => out \in {"row", "done", "error"} /\ (out = "row" => HasColumns(r.stmt))
      BY <3>1, StepOutcomesAre DEF HasColumns
    <3> QED BY <2>1, <3>2 DEF IsWrite, ErrorAfter, Aborts
  <2>3. EngineAfter(r.stmt, out)
    BY DEF Run
  <2>4. ack' = IF ErrorAfter(out, "none") = "none" /\ r.stmt \in Writes
               THEN Tally(ack, began # "no") ELSE ack
    BY <1>2 DEF LearnExecute
  <2>5. IsWrite(r.stmt, out) <=> ErrorAfter(out, "none") = "none" /\ r.stmt \in Writes
    BY <2>2 DEF IsWrite
  <2>6. LookForError
    BY DEF LearnExecute
  <2>7. CASE IsWrite(r.stmt, out)
    <3>1. /\ db' = Tally(db, inTxn) /\ inTxn' = inTxn
          /\ ack' = Tally(ack, began # "no")
      BY <2>3, <2>4, <2>5, <2>7 DEF EngineAfter, IsWrite, UndoneBy
    <3>2. began' = began
      BY <1>2, <2>5, <2>6, <2>7 DEF LookForError
    <3>3. began # "failed"
      BY <2>7 DEF MayWrite, Keeps, AllRules, IsWrite
    <3> QED BY <3>1, <3>2, <3>3, WriteTally
  <2>8. CASE ~IsWrite(r.stmt, out)
    <3>1. ack' = ack
      BY <2>4, <2>5, <2>8
    <3>2. CASE UNCHANGED dbVars
      BY <2>6, <3>1, <3>2, QuietTally
    <3>3. CASE UndoneBy(out) /\ UndoesAll
      <4>1. lastError' # "none"
        BY <1>2, <3>3 DEF UndoneBy, ErrorAfter, Aborts
      <4> QED BY <2>6, <3>1, <3>3, <4>1, UndoneTally
    <3> QED BY <2>3, <2>8, <3>2, <3>3 DEF EngineAfter, dbVars
  <2> QED BY <2>7, <2>8
<1> HIDE DEF x, w
<1>6. ViewInv'
  BY <1>1, <1>2, <1>4, OneViewStep
<1>7. Contract!Next
  BY <1>0, <1>1, <1>4, LearnedInOrder
<1> QED BY <1>5, <1>6, <1>7 DEF Truthful

(* An execution that was turned down before it reached the engine.         *)
LEMMA RefusedStep ==
  ASSUME QueryInv, ViewInv, TallyInv, NEW q \in ClientQuery,
         NEW s, LearnExecute(q, s), lastError' # "none", UNCHANGED dbVars,
         NEW x, rs' = [rs EXCEPT ![q] = x],
         x.stmt = Null \/ x.rec = Null \/ x.rec = x.stmt,
         obj' = [obj EXCEPT ![q] = "held"]
  PROVE  Truthful
<1> DEFINE w == [status |-> "refused", row |-> 0, made |-> 0]
<1>0. q \in Query /\ view \in [Query -> Views]
  BY DEF Query, ViewInv
<1>1. view' = [view EXCEPT ![q] = w] /\ ack' = ack /\ LookForError
  <2>1. w = [NoView EXCEPT !.status = "refused"]
    BY DEF NoView
  <2>2. /\ view' = [view EXCEPT ![q] = [NoView EXCEPT !.status = "refused"]]
        /\ ack' = ack
        /\ LookForError
    BY DEF LearnExecute
  <2> QED BY <2>1, <2>2
<1>2. /\ w \in Views /\ w.row = 0 /\ w.made = 0
      /\ w.status \in {"open", "ended", "refused"}
      /\ Tells("held", x, w)
  BY DEF Views, Tells, Executable
<1> HIDE DEF w
<1>3. ViewInv'
  BY <1>1, <1>2, OneViewStep
<1>4. Contract!Next
  BY <1>0, <1>1, <1>2, LearnedInOrder
<1>5. TallyInv'
  BY <1>1, QuietTally
<1> QED BY <1>3, <1>4, <1>5 DEF Truthful

(* A query object is given its statement.                                  *)
LEMMA GivingTells ==
  ASSUME Rules = AllRules, QueryInv, ViewInv, TallyInv,
         NEW q \in ClientQuery, Giving(q)
  PROVE  Truthful
<1>1. obj[q] # "held"
  BY DEF Giving, Keeps, AllRules
<1>2. ResultSet0(q) = FreshRS
  BY <1>1 DEF ResultSet0
<1>3. CASE Reject(q) /\ LearnForget(q)
  <2>1. /\ rs' = [rs EXCEPT ![q] = FreshRS]
        /\ obj' = [obj EXCEPT ![q] = "held"]
        /\ UNCHANGED dbVars
    BY <1>2, <1>3 DEF Reject
  <2> QED BY <1>3, <2>1, ForgetStep
<1>4. ASSUME NEW s \in ClientStmt, Prepare(q, s), LearnForget(q)
      PROVE  Truthful
  <2>1. /\ \/ rs' = [rs EXCEPT ![q] = CleanupRS(FreshRS)]
           \/ rs' = [rs EXCEPT ![q] = PreparedRS(FreshRS, s)]
        /\ obj' = [obj EXCEPT ![q] = "held"]
        /\ UNCHANGED dbVars
    BY <1>2, <1>4 DEF Prepare, PrepareFails
  <2>2. CASE rs' = [rs EXCEPT ![q] = CleanupRS(FreshRS)]
    BY <1>4, <2>1, <2>2, ForgetStep
  <2>3. CASE rs' = [rs EXCEPT ![q] = PreparedRS(FreshRS, s)]
    BY <1>4, <2>1, <2>3, ForgetStep
  <2> QED BY <2>1, <2>2, <2>3
<1>5. ASSUME NEW s \in ClientStmt, Direct(q, s, "none"), LearnExecute(q, s),
             MayWrite(s), obj' = [obj EXCEPT ![q] = "held"]
      PROVE  Truthful
  <2>1. CASE PrepareFails(q, "statement") /\ UNCHANGED dbVars
    <3> DEFINE x == CleanupRS(FreshRS)
    <3>1. rs' = [rs EXCEPT ![q] = x] /\ lastError' # "none"
      BY <1>2, <2>1 DEF PrepareFails
    <3>2. x.rec = Null
      BY IdleFields
    <3> HIDE DEF x
    <3> QED BY <1>5, <2>1, <3>1, <3>2, RefusedStep
  <2>2. CASE \E out \in ExecuteOutcomes(PreparedRS(ResultSet0(q), s)) :
               Run(q, PreparedRS(ResultSet0(q), s), ReRegister(Registry0(q), q), "none", out)
    <3> DEFINE r == PreparedRS(FreshRS, s)
    <3>1. \E out \in ExecuteOutcomes(r) :
            Run(q, r, ReRegister(Registry0(q), q), "none", out)
      BY <1>2, <2>2
    <3>2. r \in GoodRS /\ r.stmt = s
      BY FreshOps, PreparedOps DEF Stmt
    <3>3. r.rec = Null /\ r.initialFetch = TRUE /\ r.emptySet = FALSE
      BY IdleFields
    <3> HIDE DEF r
    <3>4. LearnExecute(q, r.stmt) /\ MayWrite(r.stmt)
      BY <1>5, <3>2
    <3> QED BY <1>5, <3>1, <3>2, <3>3, <3>4, RunTells
  <2> QED BY <1>5, <2>1, <2>2 DEF Direct
<1>6. ASSUME NEW s \in ClientStmt, LearnExecute(q, s), MayWrite(s),
             \/ Keeps("reset_error", lastError = "none") /\ ExecuteStatement(q, s)
             \/ ExecuteQuery(q, s)
      PROVE  Truthful
  <2>1. Direct(q, s, "none") /\ obj' = [obj EXCEPT ![q] = "held"]
    BY <1>6 DEF ExecuteStatement, ExecuteQuery, Keeps, AllRules
  <2> QED BY <1>5, <1>6, <2>1
<1> QED BY <1>3, <1>4, <1>6 DEF Giving

(* execute() of a prepared query.                                          *)
LEMMA ExecutingTells ==
  ASSUME Rules = AllRules, QueryInv, ViewInv, TallyInv,
         NEW q \in ClientQuery, Executing(q)
  PROVE  Truthful
<1>0. /\ q \in Query
      /\ rs[q] \in GoodRS
      /\ Tells(obj[q], rs[q], view[q])
  BY DEF Query, QueryInv, ViewInv
<1>1. /\ lastError = "none"
      /\ rs[q].stmt \notin Writes => Executable(view[q])
      /\ obj[q] = "held"
      /\ LearnExecute(q, rs[q].stmt)
      /\ MayWrite(rs[q].stmt)
      /\ UNCHANGED obj
  BY DEF Executing, Execute, Keeps, AllRules, Executable
<1>2. obj' = [obj EXCEPT ![q] = "held"]
  BY <1>1 DEF QueryInv
<1>3. rs[q].stmt = Null \/ rs[q].rec = Null \/ rs[q].rec = rs[q].stmt
  BY <1>0 DEF Tells
<1>4. CASE ~isOpen
  <2>1. lastError' = "connection" /\ rs' = rs /\ UNCHANGED dbVars
    BY <1>4 DEF Executing, Execute
  <2>2. rs' = [rs EXCEPT ![q] = rs[q]]
    BY <2>1 DEF QueryInv
  <2> QED BY <1>1, <1>2, <1>3, <2>1, <2>2, RefusedStep
<1>5. CASE isOpen
  <2>1. \E out \in ExecuteOutcomes(rs[q]) : Run(q, rs[q], queries, "none", out)
    BY <1>1, <1>5 DEF Executing, Execute
  <2>2. HasColumns(rs[q].stmt) => rs[q].stmt \notin Writes
    BY StmtAssumption DEF HasColumns, ClientStmt
  <2>3. HasColumns(rs[q].stmt) => rs[q].initialFetch /\ ~rs[q].emptySet
    BY <1>0, <1>1, <2>2 DEF Tells
  <2> QED BY <1>0, <1>1, <1>2, <1>3, <2>1, <2>3, RunTells
<1> QED BY <1>4, <1>5

(* A step on one query of which its client is told nothing.                *)
LEMMA SilentStep ==
  ASSUME QueryInv, ViewInv, TallyInv, NEW q \in ClientQuery,
         NEW x, rs' = [rs EXCEPT ![q] = x],
         NEW o, obj' = [obj EXCEPT ![q] = o],
         LearnNothing, UNCHANGED dbVars, Tells(o, x, view[q])
  PROVE  Truthful
<1>1. view[q] \in Views /\ view = [view EXCEPT ![q] = view[q]]
  BY DEF ViewInv, Query
<1>2. view' = view /\ ack' = ack /\ LookForError
  BY DEF LearnNothing
<1>3. view' = [view EXCEPT ![q] = view[q]]
  BY <1>1, <1>2, Zenon
<1>4. ViewInv'
  BY <1>1, <1>3, OneViewStep
<1>5. TallyInv'
  BY <1>2, QuietTally
<1> QED BY <1>2, <1>4, <1>5 DEF Truthful

(* Bind values.                                                            *)
LEMMA BindingTells ==
  ASSUME Rules = AllRules, QueryInv, ViewInv, TallyInv,
         NEW q \in ClientQuery, Binding(q)
  PROVE  Truthful
<1> DEFINE r == rs[q]
           a == [r EXCEPT !.bindCount = @ + 1]
           c == ClearRS(r)
<1>0. /\ q \in Query
      /\ r \in GoodRS /\ r \in ResultSets
      /\ Tells(obj[q], r, view[q])
  BY DEF Query, QueryInv, ViewInv, GoodRS
<1>1. /\ LearnNothing
      /\ obj' = [obj EXCEPT ![q] = obj[q]]
      /\ UNCHANGED dbVars
      /\ \/ rs' = [rs EXCEPT ![q] = a]
         \/ rs' = [rs EXCEPT ![q] = c] /\ view[q].status # "open"
  BY DEF Binding, AddBindValue, ClearBindValues, Keeps, AllRules, QueryInv
<1>2. Tells(obj[q], a, view[q])
  <2>1. /\ a.stmt = r.stmt /\ a.at = r.at /\ a.cur = r.cur /\ a.index = r.index
        /\ a.fake = r.fake /\ a.initialFetch = r.initialFetch
        /\ a.rec = r.rec /\ a.emptySet = r.emptySet
    <3> HIDE DEF r
    <3> QED BY <1>0 DEF ResultSets
  <2> HIDE DEF r, a
  <2> QED BY <1>0, <2>1 DEF Tells, OpenCursor
<1>3. view[q].status # "open" => Tells(obj[q], c, view[q])
  <2>1. c.rec = r.rec /\ c.emptySet = r.emptySet /\ c.initialFetch = r.initialFetch
    BY <1>0, FieldsKept
  <2>2. c.stmt = r.stmt
    BY <1>0, ClearOps
  <2> HIDE DEF r, c
  <2> QED BY <1>0, <2>1, <2>2 DEF Tells
<1> HIDE DEF r, a, c
<1>4. CASE rs' = [rs EXCEPT ![q] = a]
  BY <1>1, <1>2, <1>4, SilentStep
<1>5. CASE rs' = [rs EXCEPT ![q] = c] /\ view[q].status # "open"
  BY <1>1, <1>3, <1>5, SilentStep
<1> QED BY <1>1, <1>4, <1>5

(* A fetch, by nextRow or by an EachIn loop.                               *)
LEMMA FetchingTells ==
  ASSUME Rules = AllRules, QueryInv, ViewInv, TallyInv,
         NEW q \in ClientQuery, Fetching(q)
  PROVE  Truthful
<1> DEFINE r == rs[q]
           v == view[q]
<1>0. /\ q \in Query
      /\ r \in GoodRS
      /\ v \in Views
      /\ Tells(obj[q], r, v)
      /\ view \in [Query -> Views]
  BY DEF Query, QueryInv, ViewInv
<1>1. /\ v.status = "open"
      /\ NextRow(q)
      /\ v.made = 0 => ~FetchedRow(q)
  BY DEF Fetching, Keeps, AllRules
<1>2. obj[q] = "held" /\ Tells("held", r, v)
  BY <1>0, <1>1 DEF NextRow, CanFetch
<1>3. PICK out \in FetchOutcomes(r) : Fetch(q, out)
  BY <1>1 DEF NextRow
<1> DEFINE x == NextRowRS(r, out, HasColumns(r.stmt))
<1>4. /\ rs' = [rs EXCEPT ![q] = x]
      /\ lastError' = IF out = "error" THEN "statement" ELSE lastError
      /\ EngineAfter(r.stmt, out)
      /\ UNCHANGED obj
  BY <1>3 DEF Fetch
<1>5. rs'[q] = x
  <2> HIDE DEF x
  <2> QED BY <1>0, <1>4 DEF QueryInv
<1>6. obj' = [obj EXCEPT ![q] = "held"]
  BY <1>2, <1>4 DEF QueryInv
<1>7. UNCHANGED dbVars \/ (lastError' # "none" /\ UndoesAll)
  <2>1. ~IsWrite(r.stmt, out)
    BY <1>1, <1>2 DEF Tells, OpenCursor, IsWrite
  <2>2. out \in {"buffered", "row", "done", "error"}
    BY StepOutcomesAre DEF FetchOutcomes
  <2> QED BY <1>4, <2>1, <2>2 DEF EngineAfter, UndoneBy, dbVars
<1> DEFINE got == x.at > r.at
<1>8. FetchedRow(q) <=> got
  BY <1>5 DEF FetchedRow
<1>9. PICK ret \in {r.fake \/ got, (r.fake \/ got) /\ ~x.emptySet} : LearnFetch(q, ret)
  <2>1. \/ LearnFetch(q, rs[q].fake \/ FetchedRow(q))
        \/ LearnFetch(q, (rs[q].fake \/ FetchedRow(q)) /\ ~rs'[q].emptySet)
    BY DEF Fetching
  <2> QED BY <1>5, <2>1 DEF FetchedRow
<1> DEFINE w == LearnedRow(v, ret, got, x.cur)
<1>10. view' = [view EXCEPT ![q] = w] /\ ack' = ack /\ LookForError
  BY <1>5, <1>9 DEF LearnFetch, LearnedRow, FetchedRow
<1>11. /\ w \in Views
       /\ Tells("held", x, w)
       /\ \/ /\ w.status = "open" /\ w.row = v.row + 1
             /\ w.made \in {v.made, v.made + 1} /\ w.row <= w.made
          \/ /\ w.status = "ended" /\ w.row = v.row
             /\ w.made = v.made /\ v.row = v.made
  BY <1>0, <1>1, <1>2, <1>8, FetchTells
<1> HIDE DEF w, x
<1>12. ViewInv'
  BY <1>4, <1>6, <1>10, <1>11, OneViewStep
<1>13. Contract!Next
  BY <1>0, <1>1, <1>10, <1>11, FetchedInOrder
<1>14. TallyInv'
  BY <1>7, <1>10, QuietTally, UndoneTally
<1> QED BY <1>12, <1>13, <1>14 DEF Truthful

(* Making, freeing and dropping a query object.                            *)
LEMMA LettingTells ==
  ASSUME QueryInv, ViewInv, TallyInv, NEW q \in ClientQuery, Letting(q)
  PROVE  Truthful
<1>0. q \in Query /\ Tells(obj[q], rs[q], view[q])
  BY DEF Query, ViewInv
<1>1. CASE NewQuery(q) /\ LearnNothing
  <2>1. /\ rs' = [rs EXCEPT ![q] = rs[q]]
        /\ obj' = [obj EXCEPT ![q] = "new"]
        /\ UNCHANGED dbVars
        /\ obj[q] = "unused"
    BY <1>0, <1>1 DEF NewQuery, QueryInv
  <2>2. Tells("new", rs[q], view[q])
    BY <1>0, <2>1 DEF Tells
  <2> QED BY <1>1, <2>1, <2>2, SilentStep
<1>2. CASE FreeQuery(q) /\ LearnForget(q)
  <2>1. /\ rs' = [rs EXCEPT ![q] = FreshRS]
        /\ obj' = [obj EXCEPT ![q] = "unused"]
        /\ UNCHANGED dbVars
    BY <1>2 DEF FreeQuery, Release
  <2> QED BY <1>2, <2>1, ForgetStep
<1>3. CASE Drop(q) /\ LearnForget(q)
  <2>1. /\ rs' = [rs EXCEPT ![q] = Abandoned(rs[q].stmt, rs[q].at)]
        /\ obj' = [obj EXCEPT ![q] = "garbage"]
        /\ UNCHANGED dbVars
    BY <1>3 DEF Drop
  <2> QED BY <1>3, <2>1, ForgetStep
<1> QED BY <1>1, <1>2, <1>3 DEF Letting

(* open() and close(): every open transaction's rows are gone for both.    *)
LEMMA ConnectingTells ==
  ASSUME QueryInv, EngineInv, ViewInv, TallyInv, Connecting
  PROVE  Truthful
<1>0. ClientQuery \subseteq Query
  BY DEF Query
<1>1. ASSUME NEW q \in ClientQuery
      PROVE  /\ Tells(obj[q], rs[q], view[q])
             /\ Tells(obj[q], FreedRS[q], view[q])
  <2> DEFINE r == rs[q]
             f == FreeRS(r)
  <2>1. q \in Query /\ r \in ResultSets /\ Tells(obj[q], r, view[q])
    BY <1>0 DEF ViewInv, QueryInv, GoodRS
  <2>2. /\ f.stmt = Null /\ f.rec = r.rec /\ f.emptySet = r.emptySet
        /\ f.fake = r.fake /\ f.cur = r.cur /\ f.index = r.index
        /\ f.initialFetch = r.initialFetch
    BY <2>1, FieldsKept
  <2>3. Null \notin Writes
    BY NullAssumption DEF Stmt, ClientStmt
  <2>4. Tells(obj[q], f, view[q])
    <3> HIDE DEF r, f
    <3> QED BY <2>1, <2>2, <2>3 DEF Tells, OpenCursor
  <2>5. FreedRS[q] = IF q \in Registered(queries) THEN f ELSE r
    BY <2>1 DEF FreedRS
  <2> HIDE DEF f
  <2> QED BY <2>1, <2>4, <2>5
<1>2. CASE ResetError /\ LearnNothing
  <2>1. /\ view' = view /\ ack' = ack /\ rs' = rs /\ obj' = obj
        /\ UNCHANGED dbVars /\ LookForError
    BY <1>2 DEF ResetError, LearnNothing
  <2>2. ViewInv'
    BY <1>1, <2>1, QuietViewStep
  <2>3. TallyInv'
    BY <2>1, QuietTally
  <2> QED BY <2>1, <2>2, <2>3 DEF Truthful
<1>3. CASE (Open \/ Close) /\ ack' = Discarded(ack) /\ began' = "no" /\ UNCHANGED view
  <2>1. /\ obj' = obj
        /\ \/ rs' = FreedRS /\ inTxn' = FALSE /\ db' = Discarded(db)
           \/ rs' = rs /\ inTxn' = inTxn /\ db' = db /\ ~isOpen
    BY <1>3 DEF Open, Close, Closing
  <2>2. ViewInv'
    BY <1>1, <1>3, <2>1, QuietViewStep
  <2>3. /\ inTxn' = FALSE
        /\ db' \in Tallies /\ db'.pending = 0 /\ db'.committed = db.committed
    <3>1. /\ Discarded(db) \in Tallies
          /\ Discarded(db).pending = 0
          /\ Discarded(db).committed = db.committed
      BY DEF EngineInv, Discarded, Tallies
    <3>2. ~isOpen => db.pending = 0 /\ db \in Tallies
      BY DEF EngineInv, PendingOnlyInTxn, Tallies
    <3>3. ~isOpen => inTxn = FALSE
      BY Zenon DEF EngineInv, TxnNeedsConnection
    <3> QED BY <2>1, <3>1, <3>2, <3>3
  <2>4. TallyInv'
    BY <1>3, <2>3, ClosedTally
  <2> QED BY <1>3, <2>2, <2>4 DEF Truthful
<1> QED BY <1>2, <1>3 DEF Connecting

(* A step of a query of the driver's own, which touches no client's query. *)
LEMMA DriverTells ==
  ASSUME QueryInv, ViewInv, NEW q \in DriverQuery, view' = view,
         NEW base \in [Query -> GoodRS],
         rs' = base \/ \E x : rs' = [base EXCEPT ![q] = x],
         obj' = obj \/ \E o : obj' = [obj EXCEPT ![q] = o],
         \A p \in ClientQuery : Tells(obj[p], base[p], view[p])
  PROVE  ViewInv'
<1>1. ASSUME NEW p \in ClientQuery
      PROVE  rs'[p] = base[p] /\ obj'[p] = obj[p]
  <2>1. p \in Query /\ p # q
    BY QueryAssumption DEF Query
  <2> QED BY <2>1 DEF QueryInv
<1>2. \A p \in ClientQuery : Tells(obj'[p], rs'[p], view[p])
  BY <1>1
<1> QED BY <1>2, QuietViewStep

(* startTransaction, commit and rollback.                                  *)
LEMMA TransactingTells ==
  ASSUME Rules = AllRules, QueryInv, EngineInv, ViewInv, TallyInv,
         NEW q \in DriverQuery, Transacting(q)
  PROVE  Truthful
<1>0. ClientQuery \subseteq Query
  BY DEF Query
<1>1. ASSUME NEW s \in TxnStmt, NEW base \in [Query -> GoodRS], Transact(q, s, base),
             LearnTxn(s), \A p \in ClientQuery : Tells(obj[p], base[p], view[p])
      PROVE  Truthful
  <2>1. view' = view
    BY <1>1 DEF LearnTxn
  <2>2. /\ rs' = base \/ \E x : rs' = [base EXCEPT ![q] = x]
        /\ obj' = obj \/ \E o : obj' = [obj EXCEPT ![q] = o]
    BY <1>1 DEF Transact
  <2>3. ViewInv'
    BY <1>1, <2>1, <2>2, DriverTells
  <2>4. \/ /\ lastError' = "none" /\ "done" \in StepOutcomes(s, 0)
           /\ inTxn' = (s = "BEGIN") /\ db' = AfterTxn(s, db)
        \/ lastError' = "transaction" /\ AfterError
    BY <1>1 DEF Transact, AfterError
  <2>5. CASE /\ lastError' = "none" /\ "done" \in StepOutcomes(s, 0)
             /\ inTxn' = (s = "BEGIN") /\ db' = AfterTxn(s, db)
    <3>1. /\ ack' = AfterTxn(s, IF s = "BEGIN" THEN Discarded(ack) ELSE ack)
          /\ began' = IF s = "BEGIN" THEN "yes" ELSE "no"
      BY <1>1, <2>5 DEF LearnTxn
    <3> QED BY <2>1, <2>3, <2>5, <3>1, TxnTally DEF Truthful
  <2>6. CASE lastError' = "transaction" /\ AfterError
    <3>1. LookForError /\ ack' = ack
      BY <1>1, <2>6 DEF LearnTxn
    <3> QED BY <2>1, <2>3, <2>6, <3>1, ErrorTally DEF Truthful
  <2> QED BY <2>4, <2>5, <2>6
<1>2. "BEGIN" \in TxnStmt /\ "COMMIT" \in TxnStmt /\ "ROLLBACK" \in TxnStmt
  BY DEF TxnStmt
<1>3. CASE StartTransaction(q) /\ LearnTxn("BEGIN")
  <2>1. rs \in [Query -> GoodRS] /\ \A p \in ClientQuery : Tells(obj[p], rs[p], view[p])
    BY DEF QueryInv, ViewInv
  <2> QED BY <1>1, <1>2, <1>3, <2>1 DEF StartTransaction
<1>4. CASE /\ \A p \in ClientQuery : view[p].status # "open"
           /\ \/ Commit(q) /\ LearnTxn("COMMIT")
              \/ Rollback(q) /\ LearnTxn("ROLLBACK")
  <2>1. ResetQueries \in [Query -> GoodRS]
    BY ResetQueriesOps
  <2>2. ASSUME NEW p \in ClientQuery
        PROVE  Tells(obj[p], ResetQueries[p], view[p])
    <3> DEFINE r == rs[p]
               z == ResetRS(r)
    <3>1. p \in Query /\ r \in GoodRS /\ r \in ResultSets /\ Tells(obj[p], r, view[p])
      BY <1>0 DEF ViewInv, QueryInv, GoodRS
    <3>2. z.stmt = r.stmt
      BY <3>1, ResetOps
    <3>3. z.rec = r.rec /\ z.emptySet = r.emptySet /\ z.initialFetch = TRUE
      BY <3>1, FieldsKept
    <3>4. Tells(obj[p], z, view[p])
      <4> HIDE DEF r, z
      <4> QED BY <1>4, <3>1, <3>2, <3>3 DEF Tells
    <3>5. ResetQueries[p] = IF p \in Registered(queries) THEN z ELSE r
      BY <3>1 DEF ResetQueries
    <3> HIDE DEF z
    <3> QED BY <3>1, <3>4, <3>5
  <2> QED BY <1>1, <1>2, <1>4, <2>1, <2>2 DEF Commit, Rollback
<1> QED BY <1>3, <1>4 DEF Transacting, Keeps, AllRules

(* The catalogue.                                                          *)
LEMMA InspectingTells ==
  ASSUME Rules = AllRules, QueryInv, ViewInv, TallyInv,
         NEW q \in DriverQuery, Inspecting(q)
  PROVE  Truthful
<1>1. view' = view /\ ack' = ack /\ LookForError
  BY DEF Inspecting, LearnNothing
<1>2. /\ rs' = rs \/ \E x : rs' = [rs EXCEPT ![q] = x]
      /\ obj' = obj \/ \E o : obj' = [obj EXCEPT ![q] = o]
  BY DEF Inspecting, TableExists, GetTableInfo, GetTables
<1>3. rs \in [Query -> GoodRS] /\ \A p \in ClientQuery : Tells(obj[p], rs[p], view[p])
  BY DEF QueryInv, ViewInv
<1>4. ViewInv'
  BY <1>1, <1>2, <1>3, DriverTells
<1>5. UNCHANGED dbVars \/ (lastError' # "none" /\ UndoesAll)
  <2>1. CASE TableExists(q)
    <3>1. \A out : ~IsWrite("EXISTS", out)
      BY StmtAssumption DEF IsWrite, ClientStmt, CatalogStmt
    <3> QED BY <2>1, <3>1 DEF TableExists, EngineAfter, AfterError, dbVars
  <2>2. CASE GetTables(q)
    BY <2>2 DEF GetTables, AfterError
  <2>3. CASE Keeps("info_outside", began = "no") /\ GetTableInfo(q)
    <3>1. ~inTxn
      BY <2>3 DEF Keeps, AllRules, TallyInv, WritesExactlyOnce
    <3> QED BY <2>3, <3>1 DEF GetTableInfo, AfterError, UndoesAll
  <2> QED BY <2>1, <2>2, <2>3 DEF Inspecting
<1>6. TallyInv'
  BY <1>1, <1>5, QuietTally, UndoneTally
<1> QED BY <1>1, <1>4, <1>6 DEF Truthful

(* The collector finalizes a query nobody holds.                           *)
LEMMA CollectingTells ==
  ASSUME QueryInv, ViewInv, TallyInv, NEW q \in Query, Collecting(q)
  PROVE  Truthful
<1>1. /\ LearnNothing /\ view' = view /\ ack' = ack /\ LookForError
      /\ UNCHANGED dbVars
      /\ obj[q] = "garbage"
      /\ rs' = [rs EXCEPT ![q] = FreshRS]
      /\ obj' = [obj EXCEPT ![q] = "unused"]
  BY DEF Collecting, Collect, Release, LearnNothing
<1>2. CASE q \in ClientQuery
  <2>1. FreshRS.rec = Null /\ FreshRS.initialFetch = TRUE /\ FreshRS.emptySet = FALSE
    BY IdleFields
  <2>2. Tells("unused", FreshRS, view[q])
    <3>1. Tells(obj[q], rs[q], view[q])
      BY <1>2 DEF ViewInv
    <3> QED BY <1>1, <2>1, <3>1 DEF Tells
  <2> QED BY <1>1, <1>2, <2>2, SilentStep
<1>3. CASE q \in DriverQuery
  <2>1. rs \in [Query -> GoodRS] /\ \A p \in ClientQuery : Tells(obj[p], rs[p], view[p])
    BY DEF QueryInv, ViewInv
  <2>2. ViewInv'
    BY <1>1, <1>3, <2>1, DriverTells
  <2>3. TallyInv'
    BY <1>1, QuietTally
  <2> QED BY <1>1, <2>2, <2>3 DEF Truthful
<1> QED BY <1>2, <1>3 DEF Query

(* Every step of the client keeps what it was told true.                   *)
LEMMA ClientTruthful ==
  ASSUME Rules = AllRules, ClientInv, [CNext]_allVars
  PROVE  Truthful
<1>0. QueryInv /\ EngineInv /\ ViewInv /\ TallyInv
  BY IndInvParts DEF ClientInv
<1>1. CASE Connecting
  BY <1>0, <1>1, ConnectingTells
<1>2. ASSUME NEW q \in ClientQuery,
             \/ Giving(q) \/ Executing(q) \/ Binding(q) \/ Fetching(q) \/ Letting(q)
      PROVE  Truthful
  BY <1>0, <1>2, GivingTells, ExecutingTells, BindingTells, FetchingTells, LettingTells
<1>3. ASSUME NEW q \in DriverQuery, Transacting(q) \/ Inspecting(q)
      PROVE  Truthful
  BY <1>0, <1>3, TransactingTells, InspectingTells
<1>4. ASSUME NEW q \in Query, Collecting(q)
      PROVE  Truthful
  BY <1>0, <1>4, CollectingTells
<1>5. CASE UNCHANGED allVars
  <2>1. /\ view' = view /\ ack' = ack /\ began' = began /\ rs' = rs /\ obj' = obj
        /\ db' = db /\ inTxn' = inTxn
    BY <1>5 DEF allVars, vars, clientVars, dbVars
  <2> QED BY <1>0, <2>1 DEF Truthful, ViewInv, TallyInv, WritesExactlyOnce
<1> QED BY <1>1, <1>2, <1>3, <1>4, <1>5 DEF CNext

(* The client only calls operations of the driver.                         *)
LEMMA ClientCallsDriver == [CNext]_allVars => [Next]_vars
<1>1. Connecting => Next
  BY DEF Connecting, Next
<1>2. ASSUME NEW q \in ClientQuery,
             \/ Giving(q) \/ Executing(q) \/ Binding(q) \/ Fetching(q) \/ Letting(q)
      PROVE  Next
  <2>1. CASE Giving(q)
    BY <2>1 DEF Giving, Next
  <2>2. CASE Executing(q) \/ Binding(q) \/ Fetching(q) \/ Letting(q)
    BY <2>2 DEF Executing, Binding, Fetching, Letting, Next
  <2> QED BY <1>2, <2>1, <2>2
<1>3. ASSUME NEW q \in DriverQuery, Transacting(q) \/ Inspecting(q)
      PROVE  Next
  BY <1>3 DEF Transacting, Inspecting, Next
<1>4. ASSUME NEW q \in Query, Collecting(q)
      PROVE  Next
  BY <1>4 DEF Collecting, Next
<1>5. UNCHANGED allVars => UNCHANGED vars
  BY DEF allVars
<1> QED BY <1>1, <1>2, <1>3, <1>4, <1>5 DEF CNext

(***************************************************************************)
(* For a client that keeps all the rules, and for any number of queries,   *)
(* statements, rows and writes, the driver's invariant and what the client *)
(* was told hold together in every state.                                  *)
(***************************************************************************)
THEOREM ClientInvariance == Rules = AllRules /\ CSpec => []ClientInv
<1> SUFFICES ASSUME Rules = AllRules PROVE CSpec => []ClientInv
  OBVIOUS
<1>1. CInit => ClientInv
  <2> SUFFICES ASSUME CInit PROVE ClientInv
    OBVIOUS
  <2>1. /\ Init /\ ack = [committed |-> 0, pending |-> 0] /\ began = "no"
        /\ view = [q \in Query |-> NoView]
    BY DEF CInit
  <2>2. IndInv
    BY <2>1, InitInv
  <2>3. FreshRS.rec = Null /\ FreshRS.initialFetch = TRUE /\ FreshRS.emptySet = FALSE
    BY IdleFields
  <2>4. NoView \in Views /\ Tells("unused", FreshRS, NoView)
    BY <2>3, IdleTells
  <2>5. ViewInv
    BY <2>1, <2>4 DEF ViewInv, Init, Query
  <2>6. TallyInv
    BY <2>1 DEF TallyInv, WritesExactlyOnce, Tallies, Init
  <2> QED BY <2>2, <2>5, <2>6 DEF ClientInv
<1>2. ClientInv /\ [CNext]_allVars => ClientInv'
  <2>1. ClientInv /\ [CNext]_allVars => ViewInv' /\ TallyInv'
    BY ClientTruthful DEF Truthful
  <2>2. ClientInv /\ [CNext]_allVars => IndInv'
    BY ClientCallsDriver, NextInv DEF ClientInv
  <2> QED BY <2>1, <2>2 DEF ClientInv
<1> QED BY <1>1, <1>2, PTL DEF CSpec

(***************************************************************************)
(* What is committed is exactly what execute() reported as written outside *)
(* a transaction or before a commit() that returned True, and what is      *)
(* pending exactly what was reported in the open transaction, across failed*)
(* statements, failed commits, close() and a new open(); only after an     *)
(* error may the engine have undone all of the transaction.                *)
(***************************************************************************)
THEOREM WritesReportedTruthfully == Rules = AllRules /\ CSpec => []WritesExactlyOnce
<1>1. ClientInv => WritesExactlyOnce
  BY DEF ClientInv, TallyInv
<1> QED BY <1>1, ClientInvariance, PTL

(***************************************************************************)
(* The driver implements RowCursor: nextRow and EachIn hand out the rows of*)
(* every execution in order, each once, and False means that there are no  *)
(* more.                                                                   *)
(***************************************************************************)
THEOREM SQLiteRowsInOrder == Rules = AllRules /\ CSpec => RowsInOrder
<1> SUFFICES ASSUME Rules = AllRules PROVE CSpec => RowsInOrder
  OBVIOUS
<1>1. CInit => Contract!Init
  BY DEF CInit, Contract!Init, Contract!NoCursor, NoView
<1>2. ClientInv /\ [CNext]_allVars => [Contract!Next]_view
  BY ClientTruthful DEF Truthful
<1>3. RowsInOrder <=> Contract!Init /\ [][Contract!Next]_view
  BY DEF RowsInOrder, Contract!Spec
<1> QED BY <1>1, <1>2, <1>3, ClientInvariance, PTL DEF CSpec
=============================================================================
