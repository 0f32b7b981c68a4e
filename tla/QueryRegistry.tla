---------------------------- MODULE QueryRegistry ----------------------------
(***************************************************************************)
(* The array  queries:TSQLiteResultSet[]  with which a TDBSQLite keeps     *)
(* track of the result sets that may own an sqlite3 statement: close()     *)
(* finalizes, commit() and rollback() reset, exactly the ones found here.  *)
(* A slot holds a result set or Null; slots are reused before the array is *)
(* extended.                                                               *)
(***************************************************************************)
EXTENDS Naturals, Sequences, NullObject

(***************************************************************************)
(* The lowest position of v in s, where v occurs in s.                     *)
(***************************************************************************)
FirstIndex(s, v) ==
  CHOOSE i \in DOMAIN s : s[i] = v /\ \A j \in DOMAIN s : s[j] = v => i <= j

(***************************************************************************)
(* The result sets the registry tracks.                                    *)
(***************************************************************************)
Registered(queries) == {queries[i] : i \in DOMAIN queries} \ {Null}

(***************************************************************************)
(* No result set has two slots.                                            *)
(***************************************************************************)
Distinct(queries) ==
  \A i, j \in DOMAIN queries :
    queries[i] = queries[j] /\ queries[i] # Null => i = j

(***************************************************************************)
(* addQuery: nothing when the query is already there, else the first free  *)
(* slot, else one more slot.                                               *)
(***************************************************************************)
AddQueryAppending(queries, q) ==    \* seeded fault: free slots are not reused
  IF \E i \in DOMAIN queries : queries[i] = q THEN queries ELSE Append(queries, q)
AddQuery(queries, q) ==
  IF \E i \in DOMAIN queries : queries[i] = q THEN queries
  ELSE IF \E i \in DOMAIN queries : queries[i] = Null
       THEN [queries EXCEPT ![FirstIndex(queries, Null)] = q]
       ELSE Append(queries, q)

(***************************************************************************)
(* removeQuery: the first slot that holds the query becomes Null.          *)
(***************************************************************************)
RemoveQuery(queries, q) ==
  IF \E i \in DOMAIN queries : queries[i] = q
  THEN [queries EXCEPT ![FirstIndex(queries, q)] = Null]
  ELSE queries

(***************************************************************************)
(* clearQueries: every registered query is freed, and TSQLiteResultSet.free*)
(* removes it from the registry while the loop runs over the slots.  The   *)
(* array keeps its length.                                                 *)
(***************************************************************************)
ClearQueries(queries) == [i \in DOMAIN queries |-> Null]
=============================================================================
