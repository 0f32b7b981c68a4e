------------------------------- MODULE BindList -------------------------------
(***************************************************************************)
(* The bind values of a TQueryResultSet, shared by all the drivers: an     *)
(* array of references to TDBType objects, which is never shortened, and a *)
(* count.  Replacing a value and clearing the list do not only drop the    *)
(* references, they clear the objects, for whoever still refers to them.   *)
(*                                                                         *)
(* External: the client, and the collector, which lets an object that      *)
(* nobody refers to be allocated again.                                    *)
(***************************************************************************)
EXTENDS Naturals, Sequences, DBType

CONSTANTS
  Object,     \* bound: the TDBType objects that exist at one time
  MaxBinds,   \* bound: positions that are bound
  Unshared    \* the client sets and passes only objects the list does not hold

ASSUME ObjectAssumption == Null \notin Object
ASSUME SizeAssumption == MaxBinds \in Nat /\ Unshared \in BOOLEAN

VARIABLES
  content,      \* what each object holds, Null when _isNull
  boundValues,
  bindCount,
  asked         \* history: the value last given for each position

vars == <<content, boundValues, bindCount, asked>>

Init ==
  /\ content = [o \in Object |-> Null]
  /\ boundValues = <<>>
  /\ bindCount = 0
  /\ asked = <<>>

Longer(m, n) == IF m > n THEN m ELSE n

(* s with x at position i, after gaps of Null where s was shorter.         *)
Extended(s, i, x) ==
  [k \in 1..Longer(i, Len(s)) |->
     IF k = i THEN x ELSE IF k <= Len(s) THEN s[k] ELSE Null]

Holds(i, o) == i \in DOMAIN boundValues /\ boundValues[i] = o

Bound == {o \in Object : \E i \in DOMAIN boundValues : Holds(i, o)}

(* bindValue clears the object it replaces, before it stores the new one.  *)
Replaced(i) ==
  [o \in Object |-> IF Holds(i, o) THEN AfterClear(content[o]) ELSE content[o]]

(***************************************************************************)
(* bindValue, for the position i (from 1; the code counts from 0) and o an *)
(* object or Null.  addBindValue is the case i = bindCount + 1.            *)
(***************************************************************************)
BindCountAfter(i) == Longer(i, bindCount)

BindValue(i, o) ==
  /\ boundValues' = Extended(boundValues, i, o)
  /\ bindCount' = BindCountAfter(i)

(* setString, setInt, ..., addString, addInt, ...: a new object for v; for *)
(* blobs there is no such call.                                            *)
BindNew(i, o, v) ==
  /\ o \notin Bound
  /\ BindValue(i, o)
  /\ content' = [Replaced(i) EXCEPT ![o] = v]
  /\ asked' = Extended(asked, i, v)

(* addNull, and bindValue(i, Null).                                        *)
BindNull(i) ==
  /\ BindValue(i, Null)
  /\ content' = Replaced(i)
  /\ asked' = Extended(asked, i, Null)

(* The client gives a value to an object of its own (TDBInt.Set, setInt).  *)
SetOwn(o, v) ==
  /\ o \notin Bound
  /\ content' = [content EXCEPT ![o] = v]
  /\ UNCHANGED <<boundValues, bindCount, asked>>

(* bindValue and addBindValue with such an object.                         *)
BindOwn(i, o) ==
  /\ Unshared => o \notin Bound
  /\ content[o] # Null
  /\ BindValue(i, o)
  /\ content' = Replaced(i)
  /\ asked' = Extended(asked, i, content[o])

(***************************************************************************)
(* clearBindValues: the count is reset and every object in the array is    *)
(* cleared, also beyond the count; the array keeps its references.         *)
(***************************************************************************)
ClearedKept == content         \* seeded fault: only the count is reset
Cleared == [o \in Object |-> IF o \in Bound THEN AfterClear(content[o]) ELSE content[o]]

ClearBindValues ==
  /\ boundValues # <<>>
  /\ content' = Cleared
  /\ bindCount' = 0
  /\ asked' = <<>>
  /\ UNCHANGED boundValues

Next ==
  \/ \E i \in 1..MaxBinds :
       \/ BindNull(i)
       \/ \E o \in Object : BindOwn(i, o) \/ \E v \in Value \ NoData : BindNew(i, o, v)
  \/ \E o \in Object, v \in Value : SetOwn(o, v)
  \/ ClearBindValues

Spec == Init /\ [][Next]_vars

-----------------------------------------------------------------------------
(* What the engine makes of a value it is given: a blob without data       *)
(* pointer is bound as NULL.                                               *)
Taken(v) == IF v \in NoData THEN Null ELSE v

(* What execute() has the engine bind, for the first bindCount positions:  *)
(* NULL for no object and for an object that is null.                      *)
Sent ==
  [k \in 1..bindCount |->
     IF boundValues[k] = Null THEN Null ELSE Taken(content[boundValues[k]])]

(***************************************************************************)
(* Every variable keeps its type, and the array is as long as the count.   *)
(***************************************************************************)
TypeOK ==
  /\ content \in [Object -> Value \cup {Null}]
  /\ boundValues \in Seq(Object \cup {Null})
  /\ bindCount \in 0..Len(boundValues)
  /\ asked \in Seq(Value \cup {Null})

(***************************************************************************)
(* An execution sends exactly the values asked for since the last clear:   *)
(* "If a bind value already exists at the specified position, it is        *)
(* replaced with the new one", a position that was skipped is NULL, and    *)
(* nothing of an earlier list shows through, not even a blob without data  *)
(* that clear() left there.                                                *)
(***************************************************************************)
SentAsAsked == Sent = [k \in DOMAIN asked |-> Taken(asked[k])]

(***************************************************************************)
(* Why it holds when no object is shared: none has two positions, and what *)
(* is left in the array beyond the count is bound as NULL.                 *)
(***************************************************************************)
NoAlias ==
  \A i, j \in DOMAIN boundValues :
    boundValues[i] = boundValues[j] /\ boundValues[i] # Null => i = j

TailIsNull ==
  \A i \in DOMAIN boundValues :
    i > bindCount /\ boundValues[i] # Null => Taken(content[boundValues[i]]) = Null

IndInv == TypeOK /\ NoAlias /\ TailIsNull /\ SentAsAsked
=============================================================================
