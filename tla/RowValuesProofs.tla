--------------------------- MODULE RowValuesProofs ---------------------------
(***************************************************************************)
(* Proofs about RowValues, for any number of objects, columns and values.  *)
(***************************************************************************)
EXTENDS RowValues, TLAPS

(***************************************************************************)
(* The inductive invariant.  A record that was filled in for the row has   *)
(* the result set's own objects in it; that keeps what is cleared through  *)
(* another query, which is none of these, from showing in the record.      *)
(***************************************************************************)
RecordLent == shown => fields = values

IndInv == TypeOK /\ RowIsCurrent /\ KeptNeverChanges /\ RecordLent

LEMMA InitInv == Init => IndInv
BY RowAssumption
   DEF Init, IndInv, TypeOK, RowIsCurrent, KeptNeverChanges, RecordLent, Rows, Read, Shows

(***************************************************************************)
(* clear() leaves a value of the type that shows as NULL and is either the *)
(* value it found or null.                                                 *)
(***************************************************************************)
LEMMA ClearShowsNull ==
  ASSUME NEW v \in Value \cup {Null}
  PROVE  /\ AfterClear(v) \in Value \cup {Null}
         /\ AfterClear(v) \in NoData \cup {Null}
         /\ AfterClear(v) \in {v, Null}
         /\ Shows(AfterClear(v), Null)
BY ValueAssumption DEF AfterClear, Shows

(***************************************************************************)
(* The contents once the objects of the row have been cleared.             *)
(***************************************************************************)
LEMMA ClearedContent ==
  ASSUME TypeOK
  PROVE  /\ Cleared \in [Object -> Value \cup {Null}]
         /\ \A o \in Object : Cleared[o] \in {content[o], Null}
         /\ \A c \in Column : values[c] # Null => Shows(Cleared[values[c]], Null)
<1>1. \A o \in Object : content[o] \in Value \cup {Null}
  BY DEF TypeOK
<1>2. \A o \in Object : /\ AfterClear(content[o]) \in Value \cup {Null}
                        /\ AfterClear(content[o]) \in {content[o], Null}
                        /\ Shows(AfterClear(content[o]), Null)
  BY <1>1, ClearShowsNull
<1>3. \A c \in Column : values[c] # Null =>
         values[c] \in Object /\ Cleared[values[c]] = AfterClear(content[values[c]])
  BY DEF TypeOK, Cleared
<1> QED BY <1>1, <1>2, <1>3 DEF Cleared

(***************************************************************************)
(* What the contents are once a row has been stored: the value of the row  *)
(* in each new object, what clear() leaves in the objects of the row       *)
(* before, and no change elsewhere.                                        *)
(***************************************************************************)
LEMMA StoredContent ==
  ASSUME TypeOK, NEW r \in Rows, NEW new \in Fresh(r), Stored(r, new)
  PROVE  /\ content' \in [Object -> Value \cup {Null}]
         /\ \A c \in Column : r[c] # Null => content'[new[c]] = r[c]
         /\ \A o \in Object :
              (\A c \in Column : new[c] # o) => content'[o] = Cleared[o]
<1> DEFINE D(o, c) == r[c] # Null /\ new[c] = o
<1>1. /\ new \in [Column -> Free \cup {Null}]
      /\ \A c \in Column : (new[c] = Null) <=> (r[c] = Null)
      /\ \A c, d \in Column : c # d /\ new[c] # Null => new[c] # new[d]
  BY DEF Fresh
<1>2. content' = [o \in Object |->
         IF \E c \in Column : D(o, c) THEN r[CHOOSE c \in Column : D(o, c)] ELSE Cleared[o]]
  BY DEF Stored
<1>3. \A o \in Object : Cleared[o] \in Value \cup {Null}
  BY ClearedContent
<1>4. \A o, c, d : c \in Column /\ d \in Column /\ D(o, c) /\ D(o, d) => c = d
  BY <1>1
<1>5. ASSUME NEW o \in Object, NEW c \in Column, D(o, c)
      PROVE  content'[o] = r[c]
  <2>1. PICK d \in Column : D(o, d) /\ d = CHOOSE x \in Column : D(o, x)
    BY <1>5, Zenon
  <2>2. d = c
    BY <1>4, <1>5, <2>1
  <2> QED BY <1>2, <1>5, <2>1, <2>2
<1>6. \A o \in Object : ~(\E c \in Column : D(o, c)) => content'[o] = Cleared[o]
  BY <1>2
<1>7. \A c \in Column : r[c] \in Value \cup {Null}
  BY DEF Rows
<1>8. \A c \in Column : r[c] # Null => new[c] \in Object
  BY <1>1 DEF Free
<1>9. \A o \in Object : content'[o] \in Value \cup {Null}
  BY <1>3, <1>5, <1>6, <1>7
<1>10. content' \in [Object -> Value \cup {Null}]
  BY <1>2, <1>9
<1> QED BY <1>5, <1>6, <1>8, <1>10

(***************************************************************************)
(* A fetch, by execute or by nextRow.                                      *)
(***************************************************************************)
LEMMA FetchInv ==
  ASSUME IndInv, NEW r \in Rows, NEW to \in {"ahead", "on"}, Fetch(r, to)
  PROVE  IndInv'
<1> USE DEF IndInv
<1>1. PICK new \in Fresh(r) : Stored(r, new)
  BY DEF Fetch
<1>2. /\ content' \in [Object -> Value \cup {Null}]
      /\ \A c \in Column : r[c] # Null => content'[new[c]] = r[c]
      /\ \A o \in Object : (\A c \in Column : new[c] # o) => content'[o] = Cleared[o]
  BY <1>1, StoredContent
<1>3. /\ new \in [Column -> Free \cup {Null}]
      /\ \A c \in Column : (new[c] = Null) <=> (r[c] = Null)
      /\ \A c, d \in Column : c # d /\ new[c] # Null => new[c] # new[d]
  BY DEF Fresh
<1>4. /\ values' = [c \in Column |-> IF r[c] = Null THEN values[c] ELSE new[c]]
      /\ row' = r /\ stage' = to /\ shown' = FALSE
      /\ fields' = fields /\ kept' = kept
  BY <1>1 DEF Stored, Fetch
<1>5. \A c, d \in Column : new[c] # Null => new[c] # values[d]
  BY <1>3 DEF Free, InUse
<1>6. \A k \in kept : \A c \in Column : new[c] # k.object
  BY <1>3, RowAssumption DEF Free, InUse, Held, TypeOK
<1>7. TypeOK'
  <2>1. values' \in [Column -> Object \cup {Null}]
    BY <1>3, <1>4 DEF TypeOK, Free
  <2>2. \A c, d \in Column : c # d /\ values'[c] # Null => values'[c] # values'[d]
    BY <1>3, <1>4, <1>5 DEF TypeOK
  <2> QED BY <1>2, <1>4, <2>1, <2>2 DEF TypeOK
<1>8. RowIsCurrent'
  <2> SUFFICES ASSUME NEW c \in Column
               PROVE  Shows(Read(values[c])', r[c])
    BY <1>4 DEF RowIsCurrent
  <2>1. CASE r[c] # Null
    BY <1>2, <1>3, <1>4, <2>1 DEF Read, Shows
  <2>2. CASE r[c] = Null /\ values[c] = Null
    BY <1>4, <2>2 DEF Read, Shows
  <2>3. CASE r[c] = Null /\ values[c] # Null
    <3>1. values[c] \in Object
      BY <2>3 DEF TypeOK
    <3>2. \A d \in Column : new[d] # values[c]
      BY <1>5, <2>3
    <3>3. Shows(content'[values[c]], Null)
      BY <1>2, <2>3, <3>1, <3>2, ClearedContent
    <3> QED BY <1>4, <2>3, <3>3 DEF Read
  <2> QED BY <2>1, <2>2, <2>3
<1>9. KeptNeverChanges'
  <2> SUFFICES ASSUME NEW k \in kept
               PROVE  content'[k.object] \in {k.held, Null}
    BY <1>4 DEF KeptNeverChanges
  <2>1. k.object \in Object
    BY DEF TypeOK
  <2>2. content'[k.object] = Cleared[k.object]
    BY <1>2, <1>6, <2>1
  <2> QED BY <2>1, <2>2, ClearedContent DEF KeptNeverChanges
<1>10. RecordLent'
  BY <1>4 DEF RecordLent
<1> QED BY <1>7, <1>8, <1>9, <1>10

(***************************************************************************)
(* prepare, and clearBindValues of a careful client: the objects of the row*)
(* are cleared while no row is being read.                                 *)
(***************************************************************************)
LEMMA ClearedInv ==
  ASSUME IndInv, content' = Cleared, stage' \in {"idle", "end"},
         shown' \in BOOLEAN, shown' => shown,
         UNCHANGED <<values, fields, row, kept>>
  PROVE  IndInv'
<1>1. Cleared \in [Object -> Value \cup {Null}]
  BY ClearedContent DEF IndInv
<1>2. TypeOK'
  BY <1>1 DEF IndInv, TypeOK
<1>3. RowIsCurrent'
  BY DEF RowIsCurrent
<1>4. RecordLent'
  BY Zenon DEF IndInv, RecordLent
<1>5. KeptNeverChanges'
  BY ClearedContent DEF IndInv, TypeOK, KeptNeverChanges
<1> QED BY <1>2, <1>3, <1>4, <1>5 DEF IndInv

(***************************************************************************)
(* Every step of a careful client keeps the invariant.                     *)
(***************************************************************************)
LEMMA StepInv ==
  ASSUME Careful, IndInv, [Next]_vars
  PROVE  IndInv'
<1>1. ASSUME NEW r \in Rows, Execute(r) \/ NextRow(r)
      PROVE  IndInv'
  BY <1>1, FetchInv DEF Execute, NextRow
<1>2. CASE ExecuteEmpty
  BY <1>2 DEF ExecuteEmpty, IndInv, TypeOK, RowIsCurrent, KeptNeverChanges, RecordLent
<1>3. CASE NextRowAhead
  BY <1>3 DEF NextRowAhead, IndInv, TypeOK, RowIsCurrent, KeptNeverChanges, RecordLent, Read
<1>4. CASE NextRowEnd
  BY <1>4 DEF NextRowEnd, IndInv, TypeOK, RowIsCurrent, KeptNeverChanges, RecordLent
<1>5. CASE RowRecord
  BY <1>5 DEF RowRecord, IndInv, TypeOK, RowIsCurrent, KeptNeverChanges, RecordLent, Read
<1>6. CASE Prepare
  BY <1>6, ClearedInv DEF Prepare, IndInv, TypeOK
<1>7. CASE ClearBindValues
  BY <1>7, ClearedInv DEF ClearBindValues, IndInv, TypeOK
<1>8. ASSUME NEW c \in Column, Keep(c)
      PROVE  IndInv'
  <2>1. values[c] \in Object
    BY <1>8 DEF Keep, IndInv, TypeOK
  <2>2. content[values[c]] \in Value \cup {Null}
    BY <2>1 DEF IndInv, TypeOK
  <2>3. TypeOK'
    BY <1>8, <2>1, <2>2 DEF Keep, IndInv, TypeOK
  <2>4. KeptNeverChanges'
    BY <1>8 DEF Keep, IndInv, KeptNeverChanges
  <2>5. RowIsCurrent' /\ RecordLent'
    BY <1>8 DEF Keep, IndInv, RowIsCurrent, RecordLent, Read
  <2> QED BY <2>3, <2>4, <2>5 DEF IndInv
<1>9. ASSUME NEW k \in kept, LetGo(k)
      PROVE  IndInv'
  BY <1>9 DEF LetGo, IndInv, TypeOK, RowIsCurrent, KeptNeverChanges, RecordLent, Read
<1>10. ASSUME NEW k \in kept, ClearElsewhere(k)
       PROVE  IndInv'
  <2>1. k.object \in Object
    BY DEF IndInv, TypeOK
  <2>2. /\ content' \in [Object -> Value \cup {Null}]
        /\ content'[k.object] \in {content[k.object], Null}
        /\ \A o \in Object \ {k.object} : content'[o] = content[o]
        /\ UNCHANGED <<values, fields, stage, shown, row, kept>>
    <3>1. content[k.object] \in Value \cup {Null} /\ content \in [Object -> Value \cup {Null}]
      BY <2>1 DEF IndInv, TypeOK
    <3>2. /\ AfterClear(content[k.object]) \in Value \cup {Null}
          /\ AfterClear(content[k.object]) \in {content[k.object], Null}
      BY <3>1, ClearShowsNull
    <3> QED BY <1>10, <2>1, <3>1, <3>2 DEF ClearElsewhere
  <2>3. \A c \in Column : values[c] # k.object
    BY <1>10 DEF ClearElsewhere
  <2>4. TypeOK'
    BY <2>2 DEF IndInv, TypeOK
  <2>5. \A c \in Column : Read(values[c])' = Read(values[c])
    BY <2>2, <2>3 DEF IndInv, TypeOK, Read
  <2>6. RowIsCurrent'
    BY <2>2, <2>5 DEF IndInv, RowIsCurrent, RecordLent
  <2>7. KeptNeverChanges' /\ RecordLent'
    BY <2>2 DEF IndInv, TypeOK, KeptNeverChanges, RecordLent
  <2> QED BY <2>4, <2>6, <2>7 DEF IndInv
<1>11. CASE UNCHANGED vars
  BY <1>11 DEF vars, IndInv, TypeOK, RowIsCurrent, KeptNeverChanges, RecordLent, Read
<1> QED
  BY <1>1, <1>2, <1>3, <1>4, <1>5, <1>6, <1>7, <1>8, <1>9, <1>10, <1>11 DEF Next

(***************************************************************************)
(* The inductive invariant holds in every run of a careful client.         *)
(***************************************************************************)
THEOREM RowInvariance == Careful /\ Spec => []IndInv
<1> SUFFICES ASSUME Careful PROVE Spec => []IndInv
  OBVIOUS
<1>1. IndInv /\ [Next]_vars => IndInv'
  BY StepInv
<1> QED BY InitInv, <1>1, PTL DEF Spec

(***************************************************************************)
(* nextRow and rowRecord: on a row, the values and the record show what the*)
(* engine gave, and at most a blob without data for a NULL, for any number *)
(* of columns and any pattern of NULLs.                                    *)
(***************************************************************************)
THEOREM RowsAreCurrent == Careful /\ Spec => []RowIsCurrent
<1>1. IndInv => RowIsCurrent
  BY DEF IndInv
<1> QED BY RowInvariance, <1>1, PTL

(***************************************************************************)
(* value(): an object that was kept never takes on the value of another    *)
(* row; it may be cleared to null under the one who keeps it.              *)
(***************************************************************************)
THEOREM KeptTakesNoOtherValue == Careful /\ Spec => []KeptNeverChanges
<1>1. IndInv => KeptNeverChanges
  BY DEF IndInv
<1> QED BY RowInvariance, <1>1, PTL
=============================================================================
