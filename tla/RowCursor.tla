------------------------------ MODULE RowCursor ------------------------------
(***************************************************************************)
(* What a query promises its client, for any driver: an execution that     *)
(* succeeds opens a cursor, each fetch that returns True hands out the next*)
(* row of that execution, and a fetch returns False when all rows have been*)
(* handed out.  After that the cursor gives nothing until the query is     *)
(* executed again.                                                         *)
(***************************************************************************)
EXTENDS Naturals

CONSTANT Query

VARIABLE cursor

(***************************************************************************)
(* status  "idle" not executed; "open" rows may follow; "ended" a fetch    *)
(*         returned False, or the statement has no rows; "refused" execute *)
(*         returned False                                                  *)
(* row     the position of the row handed out last, 0 before the first     *)
(* made    how many rows the engine has produced since execute             *)
(***************************************************************************)
NoCursor == [status |-> "idle", row |-> 0, made |-> 0]

Init == cursor = [q \in Query |-> NoCursor]

Set(q, c) == cursor' = [cursor EXCEPT ![q] = c]

(***************************************************************************)
(* execute() returned True: the first row fetched in advance, or all of the*)
(* rows stored, or none yet.                                               *)
(***************************************************************************)
Begin(q) ==
  LET c == cursor'[q]
  IN /\ c.status \in {"open", "ended"}
     /\ c.made \in Nat
     /\ c.status = "ended" => c.made = 0
     /\ Set(q, [status |-> c.status, row |-> 0, made |-> c.made])

(* execute() returned False.                                               *)
Refuse(q) == Set(q, [status |-> "refused", row |-> 0, made |-> 0])

(* A fetch returned True: the next row, and one the engine did produce.    *)
Advance(q) ==
  /\ cursor[q].status = "open"
  /\ \E made \in {cursor[q].made, cursor[q].made + 1} :
       /\ cursor[q].row + 1 <= made
       /\ Set(q, [status |-> "open", row |-> cursor[q].row + 1, made |-> made])

(* A fetch returned False: every row produced was handed out.              *)
Finish(q) ==
  /\ cursor[q].status = "open"
  /\ cursor[q].row = cursor[q].made
  /\ Set(q, [cursor[q] EXCEPT !.status = "ended"])

(* The query was prepared again or freed.                                  *)
Forget(q) == Set(q, NoCursor)

Next ==
  \E q \in Query :
    Begin(q) \/ Refuse(q) \/ Advance(q) \/ Finish(q) \/ Forget(q)

Spec == Init /\ [][Next]_cursor
=============================================================================
