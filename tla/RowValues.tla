------------------------------ MODULE RowValues ------------------------------
(***************************************************************************)
(* The values of a row: TDBType objects that the result set, the record of *)
(* the query and the client share.  nextRow clears the objects of the row  *)
(* before and puts new ones in their places, except where the new row has  *)
(* a NULL; rowRecord lends the objects to the record; value() hands them   *)
(* to the client, who may bind them to another query.                      *)
(***************************************************************************)
EXTENDS Naturals, FiniteSets, DBType

CONSTANTS
  Object,    \* bound: the value objects there may be at one time
  Column,    \* the columns of the result
  MaxKept,   \* bound: objects the client holds on to
  Careful    \* the client clears no list of bind values while it reads rows, and
             \* none that holds a value of the row

ASSUME RowAssumption ==
  Null \notin Object /\ MaxKept \in Nat /\ Careful \in BOOLEAN

VARIABLES
  content,   \* what each object holds; Null: isNull()
  values,    \* the objects of the result set
  fields,    \* the objects in the record
  stage,     \* "idle", "ahead": a row was fetched in advance, "on" a row, "end"
  shown,     \* the record was filled in for this row
  row,       \* history: the row the engine gave last
  kept       \* history: the objects the client holds, and what they held then

vars == <<content, values, fields, stage, shown, row, kept>>

Rows == [Column -> Value \cup {Null}]

(* What a reader of a place finds there.                                   *)
Read(place) == IF place = Null THEN Null ELSE content[place]

Held == {k.object : k \in kept}
InUse == {values[c] : c \in Column} \cup {fields[c] : c \in Column} \cup Held
Free  == Object \ InUse

Init ==
  /\ content = [o \in Object |-> Null]
  /\ values = [c \in Column |-> Null]
  /\ fields = [c \in Column |-> Null]
  /\ stage = "idle"
  /\ shown = FALSE
  /\ row = [c \in Column |-> Null]
  /\ kept = {}

-----------------------------------------------------------------------------
(* The contents once every object in values has been cleared.              *)
Cleared ==
  [o \in Object |->
     IF \E c \in Column : values[c] = o THEN AfterClear(content[o]) ELSE content[o]]

StoredInPlace(r, new) ==     \* seeded fault: objects are set again, not replaced
  /\ values' = [c \in Column |->
       IF r[c] = Null \/ values[c] # Null THEN values[c] ELSE new[c]]
  /\ content' = [o \in Object |->
       IF \E c \in Column : r[c] # Null /\ values'[c] = o
       THEN r[CHOOSE c \in Column : r[c] # Null /\ values'[c] = o] ELSE Cleared[o]]
StoredUncleared(r, new) ==   \* seeded fault: what a NULL column held is not cleared
  /\ values' = [c \in Column |-> IF r[c] = Null THEN values[c] ELSE new[c]]
  /\ content' = [o \in Object |->
       IF \E c \in Column : r[c] # Null /\ new[c] = o
       THEN r[CHOOSE c \in Column : r[c] # Null /\ new[c] = o] ELSE content[o]]
(* One row r has been stepped to: new is the object made for each column   *)
(* that is not NULL.                                                       *)
Stored(r, new) ==
  /\ values' = [c \in Column |-> IF r[c] = Null THEN values[c] ELSE new[c]]
  /\ content' = [o \in Object |->
       IF \E c \in Column : r[c] # Null /\ new[c] = o
       THEN r[CHOOSE c \in Column : r[c] # Null /\ new[c] = o] ELSE Cleared[o]]

(* New objects: distinct, and not in use.                                  *)
Fresh(r) ==
  {new \in [Column -> Free \cup {Null}] :
     /\ \A c \in Column : (new[c] = Null) <=> (r[c] = Null)
     /\ \A c, d \in Column : c # d /\ new[c] # Null => new[c] # new[d]}

(* TSQLiteResultSet.nextRow up to the engine's answer SQLITE_ROW.          *)
Fetch(r, to) ==
  /\ \E new \in Fresh(r) : Stored(r, new)
  /\ row' = r
  /\ stage' = to
  /\ shown' = FALSE
  /\ UNCHANGED <<fields, kept>>

(* execute of the prepared statement fetches its first row in advance, or  *)
(* finds none.                                                             *)
Execute(r) == Fetch(r, "ahead")
ExecuteEmpty ==
  /\ stage' = "end"
  /\ shown' = FALSE
  /\ UNCHANGED <<content, values, fields, row, kept>>

(* nextRow: the row fetched in advance, then rows of its own; at the end   *)
(* nothing is cleared.                                                     *)
NextRowAhead ==
  /\ stage = "ahead"
  /\ stage' = "on"
  /\ UNCHANGED <<content, values, fields, shown, row, kept>>
NextRow(r) == stage = "on" /\ Fetch(r, "on")
NextRowEnd ==
  /\ stage = "on"
  /\ stage' = "end"
  /\ UNCHANGED <<content, values, fields, shown, row, kept>>

(* rowRecord: the record is the same for all rows.                         *)
RowRecord ==
  /\ stage = "on"
  /\ fields' = values
  /\ shown' = TRUE
  /\ UNCHANGED <<content, values, stage, row, kept>>

(* value(c), by the query or by its record; the client, getTableInfo for   *)
(* one, holds on to the object.                                            *)
Keep(c) ==
  /\ stage = "on"
  /\ values[c] # Null /\ Cardinality(kept) < MaxKept
  /\ kept' = kept \cup {[object |-> values[c], held |-> content[values[c]]]}
  /\ UNCHANGED <<content, values, fields, stage, shown, row>>

LetGo(k) ==
  /\ kept' = kept \ {k}
  /\ UNCHANGED <<content, values, fields, stage, shown, row>>

(* prepare, or execute with a statement, begins with clear().              *)
Prepare ==
  /\ content' = Cleared
  /\ stage' = "idle"
  /\ shown' = FALSE
  /\ UNCHANGED <<values, fields, row, kept>>

(* clearBindValues clears the values of the row, too.                      *)
ClearBindValues ==
  /\ Careful => stage \in {"idle", "end"}
  /\ content' = Cleared
  /\ UNCHANGED <<values, fields, stage, shown, row, kept>>

(* The client has bound an object it holds to another query, and replaces  *)
(* or clears that binding.                                                 *)
ClearElsewhere(k) ==
  /\ Careful => \A c \in Column : values[c] # k.object
  /\ content' = [content EXCEPT ![k.object] = AfterClear(@)]
  /\ UNCHANGED <<values, fields, stage, shown, row, kept>>

Next ==
  \/ \E r \in Rows : Execute(r) \/ NextRow(r)
  \/ ExecuteEmpty \/ NextRowAhead \/ NextRowEnd \/ RowRecord
  \/ Prepare \/ ClearBindValues
  \/ \E c \in Column : Keep(c)
  \/ \E k \in kept : LetGo(k) \/ ClearElsewhere(k)

Spec == Init /\ [][Next]_vars

-----------------------------------------------------------------------------
TypeOK ==
  /\ content \in [Object -> Value \cup {Null}]
  /\ values \in [Column -> Object \cup {Null}]
  /\ fields \in [Column -> Object \cup {Null}]
  /\ stage \in {"idle", "ahead", "on", "end"} /\ shown \in BOOLEAN
  /\ row \in Rows
  /\ kept \subseteq [object : Object, held : Value \cup {Null}]
  /\ \A c, d \in Column : c # d /\ values[c] # Null => values[c] # values[d]

(* What a column may read as for what the engine gave: the same, where it  *)
(* gave a value; for a NULL, null or a blob without data that an earlier   *)
(* row left in the place and clear() did not touch.                        *)
Shows(read, given) ==
  IF given = Null THEN read \in NoData \cup {Null} ELSE read = given

(***************************************************************************)
(* On a row, value(c) is what the engine gave for the column and no value  *)
(* of an earlier row, although the object of an earlier row is still in    *)
(* place where the engine gave NULL; at most a blob without data is left   *)
(* there.  So is the record once rowRecord was called.  The row fetched in *)
(* advance waits intact for the nextRow that hands it out.                 *)
(***************************************************************************)
RowIsCurrent ==
  stage \in {"ahead", "on"} =>
    \A c \in Column : /\ Shows(Read(values[c]), row[c])
                      /\ shown => Shows(Read(fields[c]), row[c])

(***************************************************************************)
(* "Returns the value of the field at @index.": on a row, value(c) is what *)
(* the engine gave, NULL where it gave NULL.                               *)
(***************************************************************************)
ValueOfField ==
  stage \in {"ahead", "on"} => \A c \in Column : Read(values[c]) = row[c]

(***************************************************************************)
(* An object the client has kept from a row holds what it held then, or is *)
(* null, as when the row has been left: it never takes on the value of     *)
(* another row.                                                            *)
(***************************************************************************)
KeptNeverChanges == \A k \in kept : content[k.object] \in {k.held, Null}
=============================================================================
