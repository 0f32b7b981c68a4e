------------------------------- MODULE ORMProofs ------------------------------
(***************************************************************************)
(* Proofs about ORM, for any set of changes, either dialect and any depth  *)
(* of Using blocks.  They are about clients that keep all the rules.       *)
(***************************************************************************)
EXTENDS ORM, TLAPS

BlockType ==
  [completed : BOOLEAN, isStrict : BOOLEAN, thrown : BOOLEAN,
   unknown : BOOLEAN, writes : SUBSET Write]

DbType ==
  [up : BOOLEAN, txn : {"none", "open", "aborted"}, hasError : BOOLEAN,
   pending : SUBSET Write, durable : SUBSET Write]

-----------------------------------------------------------------------------
(* The inductive invariant.                                                *)

(* A session: only an open transaction has changes, a dead one has none.   *)
GoodDb(d) ==
  /\ d \in DbType
  /\ d.txn # "open" => d.pending = {}
  /\ ~d.up => d.txn = "none"

(* A block whose transaction is not completed, and the session: what the   *)
(* transaction has on the server was written in the block; unless a commit *)
(* was lost nothing of it is durable; and until a call has thrown the      *)
(* server has all of it.                                                   *)
Holds(b, d) ==
  /\ d.pending \subseteq b.writes
  /\ ~b.unknown => b.writes \cap d.durable = {}
  /\ ~b.thrown => d.up /\ d.txn = "open" /\ d.pending = b.writes /\ ~b.unknown

(* Only the innermost block is not completed, and without one there is no  *)
(* transaction.                                                            *)
Blocks(d, t) ==
  /\ GoodDb(d)
  /\ t \in Seq(BlockType)
  /\ \A i \in DOMAIN t : ~t[i].completed => i = Len(t) /\ Holds(t[i], d)
  /\ (\A i \in DOMAIN t : t[i].completed) => d.txn = "none"

(* What the client was told, and the database.                             *)
Accounts(d, p) ==
  /\ p \in [Write -> {"unused", "open", "kept", "undone", "unknown"}]
  /\ \A w \in Write : p[w] = "kept" => w \in d.durable
  /\ \A w \in Write : p[w] \in {"undone", "unused"} => w \notin d.durable \cup d.pending

IndInv ==
  /\ dialect \in Dialects
  /\ Blocks(db, tx)
  /\ Accounts(db, promise)
  /\ listed \in {"none", "whole", "short"}
  /\ ShortListsMarked

-----------------------------------------------------------------------------
(* The session.                                                            *)

(* A session after a call that did not succeed: the changes of its         *)
(* transaction are there or gone, and what W may have become durable.      *)
Fallen(d, e, W) ==
  /\ GoodDb(e)
  /\ e.pending \subseteq d.pending
  /\ d.durable \subseteq e.durable /\ e.durable \subseteq d.durable \cup W
  /\ d.txn = "none" => e.txn = "none"

LEMMA SessionOps ==
  ASSUME NEW d, GoodDb(d)
  PROVE  /\ RolledBack(d) \in DbType /\ Ended(d) \in DbType /\ Committed(d) \in DbType
         /\ RolledBack(d).txn = "none" /\ RolledBack(d).pending = {}
         /\ RolledBack(d).durable = d.durable /\ RolledBack(d).up = d.up
         /\ Ended(d).txn = "none" /\ Ended(d).pending = {}
         /\ Ended(d).durable = d.durable /\ Ended(d).up = FALSE
         /\ Committed(d).txn = "none" /\ Committed(d).pending = {} /\ Committed(d).up = d.up
         /\ Committed(d).durable = d.durable \cup d.pending
<1>1. /\ RolledBack(d) \in DbType /\ RolledBack(d).txn = "none" /\ RolledBack(d).pending = {}
      /\ RolledBack(d).durable = d.durable /\ RolledBack(d).up = d.up
  BY DEF GoodDb, DbType, RolledBack
<1>2. /\ Ended(d) \in DbType /\ Ended(d).txn = "none" /\ Ended(d).pending = {}
      /\ Ended(d).durable = d.durable /\ Ended(d).up = FALSE
  BY <1>1 DEF DbType, Ended
<1>3. d.pending \in SUBSET Write
  BY DEF GoodDb, DbType
<1>4. /\ Committed(d) \in DbType /\ Committed(d).txn = "none" /\ Committed(d).pending = {}
      /\ Committed(d).up = d.up /\ Committed(d).durable = d.durable \cup d.pending
  BY <1>1, <1>3 DEF DbType, Committed
<1> QED BY <1>1, <1>2, <1>4

LEMMA AnswerFields ==
  ASSUME NEW d \in DbType
  PROVE  /\ Ok(d).reply = "ok" /\ Failed(d).reply = "error" /\ Lost(d).reply = "lost"
         /\ Ok(d).db \in DbType /\ Failed(d).db \in DbType
         /\ Ok(d).db.up = d.up /\ Ok(d).db.txn = d.txn /\ Ok(d).db.pending = d.pending
         /\ Ok(d).db.durable = d.durable /\ ~Ok(d).db.hasError
         /\ Failed(d).db.up = d.up /\ Failed(d).db.txn = d.txn
         /\ Failed(d).db.pending = d.pending
         /\ Failed(d).db.durable = d.durable /\ Failed(d).db.hasError
BY DEF Ok, Failed, Lost, DbType

LEMMA LostFields ==
  ASSUME NEW d, GoodDb(d)
  PROVE  /\ Lost(d).db \in DbType /\ Lost(d).db.up = FALSE /\ Lost(d).db.txn = "none"
         /\ Lost(d).db.pending = {} /\ Lost(d).db.durable = d.durable /\ Lost(d).db.hasError
<1>1. /\ Ended(d) \in DbType /\ Ended(d).txn = "none" /\ Ended(d).pending = {}
      /\ Ended(d).durable = d.durable /\ Ended(d).up = FALSE
  BY SessionOps
<1>2. Lost(d).db = [Ended(d) EXCEPT !.hasError = TRUE]
  BY DEF Lost
<1> QED BY <1>1, <1>2 DEF DbType

LEMMA OkGood ==
  ASSUME NEW d, GoodDb(d)
  PROVE  GoodDb(Ok(d).db) /\ GoodDb(RolledBack(d)) /\ GoodDb(Committed(d))
<1>1. d \in DbType
  BY DEF GoodDb
<1>2. GoodDb(Ok(d).db)
  BY <1>1, AnswerFields DEF GoodDb
<1>3. GoodDb(RolledBack(d)) /\ GoodDb(Committed(d))
  BY SessionOps DEF GoodDb
<1> QED BY <1>2, <1>3

LEMMA Falls ==
  ASSUME NEW d, GoodDb(d), NEW W
  PROVE  /\ Fallen(d, Failed(d).db, W)
         /\ Fallen(d, Failed(RolledBack(d)).db, W)
         /\ Fallen(d, Lost(d).db, W)
         /\ Fallen(d, Lost(Committed(d)).db, d.pending)
         /\ d.txn # "none" => Fallen(d, Failed([RolledBack(d) EXCEPT !.txn = "aborted"]).db, W)
<1>0. d \in DbType
  BY DEF GoodDb
<1>1. Fallen(d, Failed(d).db, W)
  BY <1>0, AnswerFields DEF Fallen, GoodDb
<1>2. Fallen(d, Failed(RolledBack(d)).db, W)
  <2> DEFINE e == RolledBack(d)
  <2>1. e \in DbType /\ e.txn = "none" /\ e.pending = {} /\ e.durable = d.durable
    BY SessionOps
  <2> HIDE DEF e
  <2>2. Fallen(d, Failed(e).db, W)
    BY <2>1, AnswerFields DEF Fallen, GoodDb
  <2> QED BY <2>2 DEF e
<1>3. Fallen(d, Lost(d).db, W)
  BY LostFields DEF Fallen, GoodDb
<1>4. Fallen(d, Lost(Committed(d)).db, d.pending)
  <2>1. GoodDb(Committed(d)) /\ Committed(d).durable = d.durable \cup d.pending
    BY OkGood, SessionOps
  <2> QED BY <2>1, LostFields DEF Fallen, GoodDb
<1>5. ASSUME d.txn # "none"
      PROVE  Fallen(d, Failed([RolledBack(d) EXCEPT !.txn = "aborted"]).db, W)
  <2> DEFINE e == [RolledBack(d) EXCEPT !.txn = "aborted"]
  <2>1. e \in DbType /\ e.txn = "aborted" /\ e.pending = {} /\ e.durable = d.durable /\ e.up = d.up
    <3>1. /\ RolledBack(d) \in DbType /\ RolledBack(d).pending = {}
          /\ RolledBack(d).durable = d.durable /\ RolledBack(d).up = d.up
      BY SessionOps
    <3> QED BY <3>1 DEF DbType
  <2> HIDE DEF e
  <2>2. Fallen(d, Failed(e).db, W)
    BY <1>5, <2>1, AnswerFields DEF Fallen, GoodDb
  <2> QED BY <2>2 DEF e
<1> QED BY <1>1, <1>2, <1>3, <1>4, <1>5

(***************************************************************************)
(* A statement that succeeds does what it does, on a live session; any     *)
(* other outcome is an error.                                              *)
(***************************************************************************)
LEMMA RunAnswers ==
  ASSUME NEW d, GoodDb(d), NEW done, GoodDb(done), NEW W,
         d.durable \subseteq done.durable, done.durable \subseteq d.durable \cup W,
         NEW a \in Run(d, done)
  PROVE  \/ a = Ok(done) /\ d.up
         \/ a.reply = "error" /\ Fallen(d, a.db, {})
         \/ a.reply = "lost" /\ Fallen(d, a.db, W)
<1>1. \/ a = Ok(done) /\ d.up
      \/ a = Failed(d) \/ a = Failed(RolledBack(d))
      \/ d.txn # "none" /\ a = Failed([RolledBack(d) EXCEPT !.txn = "aborted"])
      \/ a = Lost(d) \/ a = Lost(done)
  BY DEF Run, SqliteFailures, PostgresFailures
<1>2. CASE a = Failed(d) \/ a = Failed(RolledBack(d))
           \/ (d.txn # "none" /\ a = Failed([RolledBack(d) EXCEPT !.txn = "aborted"]))
  <2>1. a.reply = "error"
    BY <1>2 DEF Failed
  <2> QED BY <1>2, <2>1, Falls
<1>3. CASE a = Lost(d) \/ a = Lost(done)
  <2>1. a.reply = "lost"
    BY <1>3 DEF Lost
  <2>2. a.db \in DbType /\ ~a.db.up /\ a.db.txn = "none" /\ a.db.pending = {} /\ a.db.hasError
    BY <1>3, LostFields
  <2>3. a.db.durable = d.durable \/ a.db.durable = done.durable
    BY <1>3, LostFields
  <2> QED BY <2>1, <2>2, <2>3 DEF Fallen, GoodDb
<1> QED BY <1>1, <1>2, <1>3

-----------------------------------------------------------------------------
(* The blocks.                                                             *)

LEMMA ThrowFields ==
  ASSUME NEW t \in Seq(BlockType)
  PROVE  /\ Throw(t) \in Seq(BlockType) /\ Len(Throw(t)) = Len(t)
         /\ DOMAIN Throw(t) = DOMAIN t
         /\ \A i \in DOMAIN t :
              /\ Throw(t)[i].completed = t[i].completed
              /\ Throw(t)[i].unknown = t[i].unknown
              /\ Throw(t)[i].writes = t[i].writes
              /\ i = Len(t) => Throw(t)[i].thrown
              /\ i # Len(t) => Throw(t)[i] = t[i]
<1>1. Len(t) \in Nat /\ DOMAIN t = 1..Len(t) /\ \A i \in 1..Len(t) : t[i] \in BlockType
  OBVIOUS
<1>2. /\ DOMAIN Throw(t) = 1..Len(t)
      /\ \A i \in 1..Len(t) :
           Throw(t)[i] = IF i = Len(t) THEN [t[i] EXCEPT !.thrown = TRUE] ELSE t[i]
  BY <1>1 DEF Throw
<1>3. \A i \in 1..Len(t) : Throw(t)[i] \in BlockType
  BY <1>1, <1>2 DEF BlockType
<1>4. Throw(t) \in [1..Len(t) -> BlockType]
  BY <1>1, <1>3 DEF Throw
<1>5. Throw(t) \in Seq(BlockType) /\ Len(Throw(t)) = Len(t)
  BY <1>1, <1>4
<1>6. ASSUME NEW i \in DOMAIN t
      PROVE  /\ Throw(t)[i].completed = t[i].completed
             /\ Throw(t)[i].unknown = t[i].unknown
             /\ Throw(t)[i].writes = t[i].writes
             /\ i = Len(t) => Throw(t)[i].thrown
             /\ i # Len(t) => Throw(t)[i] = t[i]
  BY <1>1, <1>2, <1>6 DEF BlockType
<1> QED BY <1>1, <1>2, <1>5, <1>6

(* A call is only made while the innermost block has seen no exception.    *)
Quiet(t) == \A i \in DOMAIN t : i = Len(t) => ~t[i].thrown

LEMMA FallBlocks ==
  ASSUME NEW d, NEW t, Blocks(d, t), Quiet(t), NEW e, NEW W, Fallen(d, e, W),
         d.txn = "none" \/ W = {}
  PROVE  Blocks(e, Throw(t))
<1>1. /\ t \in Seq(BlockType) /\ Throw(t) \in Seq(BlockType)
      /\ Len(Throw(t)) = Len(t) /\ DOMAIN Throw(t) = DOMAIN t
  BY ThrowFields DEF Blocks
<1>2. ASSUME NEW i \in DOMAIN t, ~Throw(t)[i].completed
      PROVE  i = Len(t) /\ Holds(Throw(t)[i], e)
  <2>1. ~t[i].completed /\ i = Len(t) /\ Holds(t[i], d) /\ ~t[i].thrown
    BY <1>1, <1>2, ThrowFields DEF Blocks, Quiet
  <2>2. d.txn = "open" /\ W = {}
    BY <2>1 DEF Holds
  <2>3. Throw(t)[i].unknown = t[i].unknown /\ Throw(t)[i].writes = t[i].writes /\ Throw(t)[i].thrown
    BY <1>1, <2>1, ThrowFields
  <2> QED BY <2>1, <2>2, <2>3 DEF Holds, Fallen
<1>3. ASSUME \A i \in DOMAIN t : Throw(t)[i].completed
      PROVE  e.txn = "none"
  <2>1. \A i \in DOMAIN t : t[i].completed
    BY <1>1, <1>3, ThrowFields
  <2> QED BY <2>1 DEF Blocks, Fallen
<1> QED BY <1>1, <1>2, <1>3 DEF Blocks, Fallen

LEMMA FallAccounts ==
  ASSUME NEW d, NEW p, Accounts(d, p), NEW e, NEW W, Fallen(d, e, W), NEW r,
         r \in [Write -> {"unused", "open", "kept", "undone", "unknown"}],
         \A w \in Write : r[w] = "kept" => p[w] = "kept",
         \A w \in Write : r[w] \in {"undone", "unused"}
                            => p[w] \in {"undone", "unused"} /\ w \notin W
  PROVE  Accounts(e, r)
BY DEF Accounts, Fallen

(***************************************************************************)
(* A call that throws, and changes nothing of what the client was told.    *)
(***************************************************************************)
LEMMA ThrowStep ==
  ASSUME IndInv, Quiet(tx), Fallen(db, db', {}), tx' = Throw(tx),
         UNCHANGED <<dialect, promise>>,
         listed' = "none" \/ (listed' = "short" /\ db'.hasError)
  PROVE  IndInv'
<1>1. Blocks(db, tx)'
  BY FallBlocks DEF IndInv
<1>2. Accounts(db, promise)'
  BY FallAccounts DEF IndInv, Accounts
<1>3. ShortListsMarked'
  BY DEF ShortListsMarked
<1> QED BY <1>1, <1>2, <1>3 DEF IndInv

LEMMA PendingBlocks ==
  ASSUME IndInv
  PROVE  /\ Pending \subseteq {Len(tx)}
         /\ Pending = {} => db.txn = "none"
         /\ Pending # {} => Len(tx) \in DOMAIN tx /\ ~tx[Len(tx)].completed /\ Holds(tx[Len(tx)], db)
         /\ Pending # {} => Owner = Len(tx)
<1>1. Pending \subseteq {Len(tx)}
  BY DEF IndInv, Blocks, Pending
<1>2. Pending = {} => db.txn = "none"
  BY DEF IndInv, Blocks, Pending
<1>3. ASSUME Pending # {}
      PROVE  Len(tx) \in DOMAIN tx /\ ~tx[Len(tx)].completed /\ Holds(tx[Len(tx)], db)
  BY <1>1, <1>3 DEF IndInv, Blocks, Pending
<1>4. ASSUME Pending # {}
      PROVE  Owner = Len(tx)
  <2>1. Pending = {Len(tx)} /\ Len(tx) \in Nat
    BY <1>1, <1>4 DEF IndInv, Blocks
  <2>2. \E i \in Pending : \A j \in Pending : j <= i
    BY <2>1
  <2>3. Owner \in Pending
    BY <2>2 DEF Owner
  <2> QED BY <2>1, <2>3
<1> QED BY <1>1, <1>2, <1>3, <1>4

LEMMA RuleKept ==
  ASSUME Rules = AllRules
  PROVE  /\ MayCall => Quiet(tx)
         /\ \A c : Keeps("no_nesting", c) => c
         /\ "check_find" \in Rules
BY DEF Keeps, AllRules, MayCall, Calm, Quiet

-----------------------------------------------------------------------------
(* The steps.                                                              *)

LEMMA StartStep ==
  ASSUME IndInv, Rules = AllRules, NEW strict \in BOOLEAN, StartTransaction(strict)
  PROVE  IndInv'
<1>1. Quiet(tx) /\ Pending = {} /\ db.txn = "none" /\ GoodDb(db) /\ tx \in Seq(BlockType)
  BY PendingBlocks, RuleKept DEF StartTransaction, IndInv, Blocks, Keeps, AllRules
<1>2. PICK a \in Begin(db) :
        /\ db' = a.db
        /\ tx' = IF a.reply = "ok" THEN Append(tx, Block(strict)) ELSE Throw(tx)
  BY DEF StartTransaction
<1>3. listed' = "none" /\ UNCHANGED <<dialect, promise>>
  BY DEF StartTransaction
<1> DEFINE done == [db EXCEPT !.txn = "open"]
<1>4. a \in Run(db, done)
  BY <1>1, <1>2 DEF Begin
<1>5. CASE ~db.up
  <2>1. a = Failed(db)
    BY <1>4, <1>5 DEF Run
  <2> QED BY <1>1, <1>2, <1>3, <2>1, Falls, ThrowStep DEF Failed
<1>6. CASE db.up
  <2>1. /\ GoodDb(done) /\ done.durable = db.durable /\ done.txn = "open"
        /\ done.pending = {} /\ done.up
    BY <1>1, <1>6 DEF GoodDb, DbType
  <2> HIDE DEF done
  <2>2. \/ a = Ok(done)
        \/ a.reply \in {"error", "lost"} /\ Fallen(db, a.db, {})
    <3>1. db.durable \subseteq done.durable /\ done.durable \subseteq db.durable \cup {}
      BY <2>1
    <3> QED BY <1>1, <1>4, <2>1, <3>1, RunAnswers
  <2>3. CASE a = Ok(done)
    <3>1. /\ a.reply = "ok" /\ GoodDb(db') /\ db'.txn = "open" /\ db'.pending = {}
          /\ db'.durable = db.durable /\ db'.up
      BY <1>2, <2>1, <2>3, AnswerFields, OkGood DEF GoodDb
    <3>2. tx' = Append(tx, Block(strict)) /\ Block(strict) \in BlockType
      BY <1>2, <3>1 DEF Block, BlockType
    <3>3. /\ tx' \in Seq(BlockType) /\ Len(tx') = Len(tx) + 1 /\ Len(tx) \in Nat
          /\ DOMAIN tx = 1..Len(tx) /\ DOMAIN tx' = 1..(Len(tx) + 1)
          /\ \A i \in DOMAIN tx : tx'[i] = tx[i]
          /\ tx'[Len(tx) + 1] = Block(strict)
      BY <1>1, <3>2
    <3>4. ASSUME NEW i \in DOMAIN tx', ~tx'[i].completed
          PROVE  i = Len(tx') /\ Holds(tx'[i], db')
      <4>1. i \notin DOMAIN tx
        BY <1>1, <3>3, <3>4 DEF Pending
      <4>2. i = Len(tx) + 1
        BY <3>3, <3>4, <4>1
      <4> QED BY <3>1, <3>3, <4>2 DEF Holds, Block
    <3>5. ~tx'[Len(tx) + 1].completed /\ Len(tx) + 1 \in DOMAIN tx'
      BY <3>3 DEF Block
    <3>6. Blocks(db, tx)'
      BY <3>1, <3>3, <3>4, <3>5 DEF Blocks
    <3>7. Accounts(db, promise)'
      BY <1>1, <1>3, <3>1 DEF IndInv, Accounts, GoodDb
    <3> QED BY <1>3, <3>6, <3>7 DEF IndInv, ShortListsMarked
  <2>4. CASE a.reply \in {"error", "lost"} /\ Fallen(db, a.db, {})
    BY <1>1, <1>2, <1>3, <2>4, ThrowStep
  <2> QED BY <2>2, <2>3, <2>4
<1> QED BY <1>5, <1>6

(* The innermost block while its transaction is under way.                 *)
LEMMA OpenBlock ==
  ASSUME IndInv, Quiet(tx), NEW i \in Pending
  PROVE  /\ i = Len(tx) /\ i \in DOMAIN tx /\ tx[i] \in BlockType
         /\ db.up /\ db.txn = "open" /\ db.pending = tx[i].writes
         /\ ~tx[i].unknown /\ tx[i].writes \cap db.durable = {}
         /\ \A j \in DOMAIN tx : j # i => tx[j].completed
<1>1. i = Len(tx) /\ i \in DOMAIN tx /\ tx[i] \in BlockType /\ ~tx[i].completed
  BY PendingBlocks DEF IndInv, Blocks, Pending
<1>2. Holds(tx[i], db) /\ ~tx[i].thrown
  BY <1>1 DEF IndInv, Blocks, Quiet
<1>3. \A j \in DOMAIN tx : j # i => tx[j].completed
  BY <1>1 DEF IndInv, Blocks
<1> QED BY <1>1, <1>2, <1>3 DEF Holds

(***************************************************************************)
(* A transaction is completed: no block is under way, and the session has  *)
(* none.                                                                   *)
(***************************************************************************)
LEMMA CompletedBlocks ==
  ASSUME IndInv, Quiet(tx), NEW i \in Pending, NEW e, GoodDb(e), e.txn = "none"
  PROVE  Blocks(e, [tx EXCEPT ![i].completed = TRUE])
<1> DEFINE t == [tx EXCEPT ![i].completed = TRUE]
<1>1. /\ i \in DOMAIN tx /\ tx[i] \in BlockType /\ tx \in Seq(BlockType)
      /\ \A j \in DOMAIN tx : j # i => tx[j].completed
  BY OpenBlock DEF IndInv, Blocks
<1>2. [tx[i] EXCEPT !.completed = TRUE] \in BlockType /\ [tx[i] EXCEPT !.completed = TRUE].completed
  BY <1>1 DEF BlockType
<1>3. /\ t \in Seq(BlockType) /\ DOMAIN t = DOMAIN tx
      /\ t[i] = [tx[i] EXCEPT !.completed = TRUE]
      /\ \A j \in DOMAIN tx : j # i => t[j] = tx[j]
  BY <1>1, <1>2
<1> HIDE DEF t
<1>4. \A j \in DOMAIN t : t[j].completed
  BY <1>1, <1>2, <1>3
<1>5. Blocks(e, t)
  BY <1>3, <1>4 DEF Blocks
<1> QED BY <1>5 DEF t

LEMMA PromisedFields ==
  ASSUME IndInv, NEW ws, NEW p \in {"open", "kept", "undone", "unknown"}
  PROVE  /\ Promised(ws, p) \in [Write -> {"unused", "open", "kept", "undone", "unknown"}]
         /\ \A w \in Write : Promised(ws, p)[w] = IF w \in ws THEN p ELSE promise[w]
BY DEF Promised, IndInv, Accounts

LEMMA CommitStep ==
  ASSUME IndInv, Rules = AllRules, NEW i, Commit(i)
  PROVE  IndInv'
<1>1. Quiet(tx) /\ i \in Pending /\ GoodDb(db) /\ tx \in Seq(BlockType)
  BY RuleKept DEF Commit, IndInv, Blocks
<1>2. PICK a \in CommitWork(db) :
        /\ db' = a.db
        /\ IF a.reply = "ok"
           THEN /\ tx' = [tx EXCEPT ![i].completed = TRUE]
                /\ promise' = Promised(tx[i].writes, "kept")
           ELSE /\ tx' = Throw([tx EXCEPT ![i].unknown = @ \/ a.reply = "lost"])
                /\ UNCHANGED promise
  BY DEF Commit
<1>3. listed' = "none" /\ UNCHANGED dialect
  BY DEF Commit
<1>4. /\ i = Len(tx) /\ i \in DOMAIN tx /\ tx[i] \in BlockType
      /\ db.up /\ db.txn = "open" /\ db.pending = tx[i].writes
      /\ ~tx[i].unknown /\ tx[i].writes \cap db.durable = {}
      /\ \A j \in DOMAIN tx : j # i => tx[j].completed
  BY <1>1, OpenBlock
<1>5. \/ a = Ok(Committed(db))
      \/ a = Failed(db) \/ a = Failed(RolledBack(db))
      \/ a = Lost(db) \/ a = Lost(Committed(db))
  BY <1>2, <1>4 DEF CommitWork, SqliteFailures
<1>6. CASE a = Ok(Committed(db))
  <2>1. /\ a.reply = "ok" /\ GoodDb(db') /\ db'.txn = "none" /\ db'.pending = {}
        /\ db'.durable = db.durable \cup db.pending
    <3>1. GoodDb(Committed(db)) /\ Committed(db) \in DbType
      BY <1>1, OkGood, SessionOps
    <3>2. /\ Committed(db).txn = "none" /\ Committed(db).pending = {}
          /\ Committed(db).durable = db.durable \cup db.pending
      BY <1>1, SessionOps
    <3> QED BY <1>2, <1>6, <3>1, <3>2, OkGood, AnswerFields
  <2>2. Blocks(db, tx)'
    BY <1>1, <1>2, <2>1, CompletedBlocks
  <2>3. /\ promise' \in [Write -> {"unused", "open", "kept", "undone", "unknown"}]
        /\ \A w \in Write : promise'[w] = IF w \in tx[i].writes THEN "kept" ELSE promise[w]
    BY <1>2, <2>1, PromisedFields
  <2>4. Accounts(db, promise)'
    BY <1>4, <2>1, <2>3 DEF IndInv, Accounts
  <2> QED BY <1>3, <2>2, <2>4 DEF IndInv, ShortListsMarked
<1>7. CASE a = Failed(db) \/ a = Failed(RolledBack(db))
  <2>0. a.reply = "error"
    BY <1>7 DEF Failed
  <2>1. a.reply = "error" /\ Fallen(db, db', {})
    BY <1>1, <1>2, <1>7, <2>0, Falls
  <2>2. [tx EXCEPT ![i].unknown = @ \/ a.reply = "lost"] = tx
    <3>1. [tx[i] EXCEPT !.unknown = @ \/ a.reply = "lost"] = tx[i]
      BY <1>4, <2>1 DEF BlockType
    <3> QED BY <1>1, <3>1
  <2>3. tx' = Throw(tx) /\ promise' = promise
    BY <1>2, <2>1, <2>2
  <2> QED BY <1>1, <1>3, <2>1, <2>3, ThrowStep
<1>8. CASE a = Lost(db) \/ a = Lost(Committed(db))
  <2>0. a.reply = "lost"
    BY <1>8 DEF Lost
  <2>1. a.reply = "lost" /\ Fallen(db, db', db.pending)
    BY <1>1, <1>2, <1>8, <2>0, Falls
  <2> DEFINE t == [tx EXCEPT ![i].unknown = @ \/ a.reply = "lost"]
  <2>2. /\ [tx[i] EXCEPT !.unknown = @ \/ a.reply = "lost"] \in BlockType
        /\ [tx[i] EXCEPT !.unknown = @ \/ a.reply = "lost"].unknown
        /\ [tx[i] EXCEPT !.unknown = @ \/ a.reply = "lost"].writes = tx[i].writes
        /\ [tx[i] EXCEPT !.unknown = @ \/ a.reply = "lost"].completed = tx[i].completed
    BY <1>4, <2>1 DEF BlockType
  <2>3. /\ t \in Seq(BlockType) /\ DOMAIN t = DOMAIN tx /\ Len(t) = Len(tx)
        /\ t[i] = [tx[i] EXCEPT !.unknown = @ \/ a.reply = "lost"]
        /\ \A j \in DOMAIN tx : j # i => t[j] = tx[j]
    BY <1>1, <1>4, <2>2
  <2>4. tx' = Throw(t) /\ promise' = promise
    BY <1>2, <2>1
  <2> HIDE DEF t
  <2>5. /\ tx' \in Seq(BlockType) /\ Len(tx') = Len(tx) /\ DOMAIN tx' = DOMAIN tx
        /\ tx'[i].unknown /\ tx'[i].writes = tx[i].writes /\ tx'[i].thrown
        /\ tx'[i].completed = tx[i].completed
        /\ \A j \in DOMAIN tx : j # i => tx'[j] = tx[j]
    <3>1. tx' \in Seq(BlockType) /\ Len(tx') = Len(tx) /\ DOMAIN tx' = DOMAIN tx
      BY <2>3, <2>4, ThrowFields
    <3>2. \A j \in DOMAIN tx : j # i => tx'[j] = tx[j]
      BY <1>4, <2>3, <2>4, ThrowFields
    <3>3. /\ tx'[i].unknown = t[i].unknown /\ tx'[i].writes = t[i].writes /\ tx'[i].thrown
          /\ tx'[i].completed = t[i].completed
      <4>1. i \in DOMAIN t /\ i = Len(t)
        BY <1>4, <2>3
      <4>2. /\ Throw(t)[i].unknown = t[i].unknown /\ Throw(t)[i].writes = t[i].writes
            /\ Throw(t)[i].completed = t[i].completed
        BY <2>3, <4>1, ThrowFields
      <4>3. Throw(t)[i].thrown
        BY <2>3, <4>1, ThrowFields
      <4> QED BY <2>4, <4>2, <4>3
    <3> QED BY <2>2, <2>3, <3>1, <3>2, <3>3
  <2>6. Holds(tx'[i], db')
    BY <1>4, <2>1, <2>5 DEF Holds, Fallen
  <2>7. \A j \in DOMAIN tx' : ~tx'[j].completed => j = Len(tx') /\ Holds(tx'[j], db')
    BY <1>4, <2>5, <2>6
  <2>8. ~tx'[i].completed
    BY <1>1, <2>5 DEF Pending
  <2>9. Blocks(db, tx)'
    BY <1>4, <2>1, <2>5, <2>7, <2>8 DEF Blocks, Fallen
  <2>10. Accounts(db, promise)'
    BY <2>1, <2>4 DEF IndInv, Accounts, Fallen
  <2> QED BY <1>3, <2>9, <2>10 DEF IndInv, ShortListsMarked
<1> QED BY <1>5, <1>6, <1>7, <1>8

(***************************************************************************)
(* What a rollback comes to: no transaction, however it answers.           *)
(***************************************************************************)
LEMMA RollbackAnswers ==
  ASSUME NEW d, GoodDb(d), NEW a \in RollbackWork(d)
  PROVE  /\ GoodDb(a.db) /\ a.db.txn = "none" /\ a.db.pending = {}
         /\ a.db.durable = d.durable
         /\ a.reply # "ok" => Fallen(d, a.db, {})
<1>1. \/ a = Failed(d) /\ d.txn = "none"
      \/ a = Ok(RolledBack(d))
      \/ a = Lost(d)
  BY DEF RollbackWork, GoodDb
<1>2. CASE a = Failed(d) /\ d.txn = "none"
  BY <1>2, AnswerFields, Falls DEF GoodDb, Fallen
<1>3. CASE a = Lost(d)
  BY <1>3, LostFields, Falls DEF Fallen
<1>4. CASE a = Ok(RolledBack(d))
  <2> DEFINE e == RolledBack(d)
  <2>1. GoodDb(e) /\ e \in DbType /\ e.txn = "none" /\ e.pending = {} /\ e.durable = d.durable
    BY OkGood, SessionOps
  <2> HIDE DEF e
  <2> QED BY <1>4, <2>1, OkGood, AnswerFields DEF e
<1> QED BY <1>1, <1>2, <1>3, <1>4

LEMMA UndoneAccounts ==
  ASSUME IndInv, NEW b \in BlockType, ~b.unknown => b.writes \cap db.durable = {},
         NEW e, e.pending = {}, e.durable = db.durable, NEW r,
         r = Promised(b.writes, IF b.unknown THEN "unknown" ELSE "undone")
  PROVE  Accounts(e, r)
<1> DEFINE p == IF b.unknown THEN "unknown" ELSE "undone"
<1>1. p \in {"undone", "unknown"} /\ (p = "undone" => b.writes \cap db.durable = {})
  OBVIOUS
<1> HIDE DEF p
<1>2. /\ r \in [Write -> {"unused", "open", "kept", "undone", "unknown"}]
      /\ \A w \in Write : r[w] = IF w \in b.writes THEN p ELSE promise[w]
  BY <1>1, PromisedFields DEF p
<1> QED BY <1>1, <1>2 DEF IndInv, Accounts

LEMMA RollbackStep ==
  ASSUME IndInv, Rules = AllRules, NEW i, Rollback(i)
  PROVE  IndInv'
<1>1. Quiet(tx) /\ i \in Pending /\ GoodDb(db) /\ tx \in Seq(BlockType)
  BY RuleKept DEF Rollback, IndInv, Blocks
<1>2. PICK a \in RollbackWork(db) :
       /\ db' = a.db
       /\ IF a.reply = "ok"
          THEN /\ tx' = [tx EXCEPT ![i].completed = TRUE]
               /\ promise' = Promised(tx[i].writes,
                                      IF tx[i].unknown THEN "unknown" ELSE "undone")
          ELSE /\ tx' = Throw(tx)
               /\ UNCHANGED promise
  BY DEF Rollback
<1>3. listed' = "none" /\ UNCHANGED dialect
  BY DEF Rollback
<1>4. /\ GoodDb(db') /\ db'.txn = "none" /\ db'.pending = {} /\ db'.durable = db.durable
      /\ a.reply # "ok" => Fallen(db, db', {})
  BY <1>1, <1>2, RollbackAnswers
<1>5. CASE a.reply = "ok"
  <2>1. Blocks(db, tx)'
    BY <1>1, <1>2, <1>4, <1>5, CompletedBlocks
  <2>2. tx[i] \in BlockType /\ tx[i].writes \cap db.durable = {}
    BY <1>1, OpenBlock
  <2>3. Accounts(db, promise)'
    BY <1>2, <1>4, <1>5, <2>2, UndoneAccounts
  <2> QED BY <1>3, <2>1, <2>3 DEF IndInv, ShortListsMarked
<1>6. CASE a.reply # "ok"
  BY <1>1, <1>2, <1>3, <1>4, <1>6, ThrowStep
<1> QED BY <1>5, <1>6

LEMMA CloseStep ==
  ASSUME IndInv, Close
  PROVE  IndInv'
<1> DEFINE b    == tx[Len(tx)]
           rest == SubSeq(tx, 1, Len(tx) - 1)
<1>1. /\ tx # <<>> /\ listed' = "none" /\ UNCHANGED dialect
      /\ tx' = Throw(rest) \/ tx' = rest
      /\ IF b.completed THEN UNCHANGED <<db, promise>>
         ELSE /\ \E a \in RollbackWork(db) : db' = a.db
              /\ promise' = Promised(b.writes, IF b.unknown THEN "unknown" ELSE "undone")
  BY DEF Close
<1>2. /\ tx \in Seq(BlockType) /\ Len(tx) \in Nat /\ Len(tx) > 0 /\ GoodDb(db)
      /\ DOMAIN tx = 1..Len(tx)
  BY <1>1 DEF IndInv, Blocks
<1>3. /\ rest \in Seq(BlockType) /\ Len(rest) = Len(tx) - 1 /\ DOMAIN rest = 1..(Len(tx) - 1)
      /\ \A j \in 1..(Len(tx) - 1) : rest[j] = tx[j]
  BY <1>2
<1>4. b \in BlockType /\ Len(tx) \in DOMAIN tx
  BY <1>2
<1> HIDE DEF rest, b
<1>5. \A j \in DOMAIN rest : rest[j].completed
  BY <1>2, <1>3 DEF IndInv, Blocks
<1>6. tx' \in Seq(BlockType) /\ \A j \in DOMAIN tx' : tx'[j].completed
  BY <1>1, <1>3, <1>5, ThrowFields
<1>7. GoodDb(db') /\ db'.txn = "none" /\ Accounts(db, promise)'
  <2>1. CASE b.completed
    <3>1. db' = db /\ promise' = promise
      BY <1>1, <2>1
    <3>2. \A j \in DOMAIN tx : tx[j].completed
      BY <2>1 DEF IndInv, Blocks, b
    <3> QED BY <3>1, <3>2 DEF IndInv, Blocks
  <2>2. CASE ~b.completed
    <3>1. /\ GoodDb(db') /\ db'.txn = "none" /\ db'.pending = {} /\ db'.durable = db.durable
      BY <1>1, <1>2, <2>2, RollbackAnswers
    <3>2. Holds(b, db)
      BY <1>4, <2>2 DEF IndInv, Blocks, b
    <3>3. promise' = Promised(b.writes, IF b.unknown THEN "unknown" ELSE "undone")
      BY <1>1, <2>2
    <3> QED BY <1>4, <3>1, <3>2, <3>3, UndoneAccounts DEF Holds
  <2> QED BY <2>1, <2>2
<1>8. Blocks(db, tx)'
  BY <1>6, <1>7 DEF Blocks
<1> QED BY <1>1, <1>7, <1>8 DEF IndInv, ShortListsMarked

LEMMA ChangedFields ==
  ASSUME IndInv, Quiet(tx), NEW w \in Write
  PROVE  /\ GoodDb(Changed(db, w)) /\ Changed(db, w).txn = db.txn /\ Changed(db, w).up = db.up
         /\ Pending = {} => /\ db.txn = "none"
                            /\ Changed(db, w).durable = db.durable \cup {w}
                            /\ Changed(db, w).pending = db.pending
         /\ Pending # {} => /\ db.txn = "open"
                            /\ Changed(db, w).durable = db.durable
                            /\ Changed(db, w).pending = db.pending \cup {w}
<1>1. GoodDb(db) /\ db \in DbType
  BY DEF IndInv, Blocks, GoodDb
<1>2. CASE Pending = {}
  <2>1. db.txn = "none"
    BY <1>2, PendingBlocks
  <2> QED BY <1>1, <1>2, <2>1 DEF GoodDb, DbType, Changed
<1>3. CASE Pending # {}
  <2>1. db.txn = "open"
    BY <1>3, OpenBlock
  <2> QED BY <1>1, <1>3, <2>1 DEF GoodDb, DbType, Changed
<1> QED BY <1>2, <1>3

(***************************************************************************)
(* A change that is asked for: it succeeds, or it throws.                  *)
(***************************************************************************)
LEMMA ChangeStep ==
  ASSUME IndInv, Rules = AllRules, NEW w \in Write, MayCall, promise[w] = "unused",
         NEW a, db' = a.db, Told(w, a.reply), listed' = "none", UNCHANGED dialect,
         \/ a \in Run(db, Changed(db, w))
         \/ a.reply = "skipped" /\ a.db = Ok(db).db
  PROVE  IndInv'
<1> DEFINE done == Changed(db, w)
           W    == IF Pending = {} THEN {w} ELSE {}
<1>1. Quiet(tx) /\ GoodDb(db) /\ tx \in Seq(BlockType) /\ Blocks(db, tx) /\ Accounts(db, promise)
  BY RuleKept DEF IndInv, Blocks
<1>2. /\ GoodDb(done) /\ done.txn = db.txn /\ done.up = db.up
      /\ Pending = {} => /\ db.txn = "none"
                         /\ done.durable = db.durable \cup {w}
                         /\ done.pending = db.pending
      /\ Pending # {} => /\ db.txn = "open"
                         /\ done.durable = db.durable
                         /\ done.pending = db.pending \cup {w}
  BY <1>1, ChangedFields
<1> HIDE DEF done
<1>3. \/ a = Ok(done) /\ db.up
      \/ a.reply = "error" /\ Fallen(db, a.db, {})
      \/ a.reply = "lost" /\ Fallen(db, a.db, W)
      \/ a.reply = "skipped" /\ Fallen(db, a.db, {})
  <2>1. CASE a \in Run(db, done)
    <3>1. db.durable \subseteq done.durable /\ done.durable \subseteq db.durable \cup W
      BY <1>2
    <3> HIDE DEF W
    <3> QED BY <1>1, <1>2, <2>1, <3>1, RunAnswers
  <2>2. CASE a.reply = "skipped" /\ a.db = Ok(db).db
    <3>1. db \in DbType
      BY <1>1 DEF GoodDb
    <3> QED BY <1>1, <2>2, <3>1, AnswerFields, OkGood DEF Fallen
  <2> QED BY <2>1, <2>2 DEF done
<1>4. w \notin db.durable \cup db.pending
  BY DEF IndInv, Accounts
<1>5. CASE a = Ok(done) /\ db.up
  <2>1. /\ a.reply = "ok" /\ GoodDb(db') /\ db'.txn = done.txn /\ db'.up
        /\ db'.pending = done.pending /\ db'.durable = done.durable
    <3>1. done \in DbType
      BY <1>2 DEF GoodDb
    <3> QED BY <1>2, <1>5, <3>1, AnswerFields, OkGood
  <2>2. CASE Pending = {}
    <3>1. tx' = tx /\ promise' = Promised({w}, "kept")
      BY <2>1, <2>2 DEF Told
    <3>2. Blocks(db, tx)'
      BY <1>1, <1>2, <2>1, <2>2, <3>1 DEF Blocks, Pending
    <3>3. /\ promise' \in [Write -> {"unused", "open", "kept", "undone", "unknown"}]
          /\ \A x \in Write : promise'[x] = IF x = w THEN "kept" ELSE promise[x]
      BY <3>1, PromisedFields
    <3>4. Accounts(db, promise)'
      BY <1>1, <1>2, <2>1, <2>2, <3>3 DEF Accounts
    <3> QED BY <3>2, <3>4 DEF IndInv, ShortListsMarked
  <2>3. CASE Pending # {}
    <3> DEFINE i == Len(tx)
    <3>1. Owner = i /\ i \in Pending
      BY <2>3, PendingBlocks
    <3> HIDE DEF i
    <3>2. /\ tx' = [tx EXCEPT ![i].writes = @ \cup {w}] /\ promise' = Promised({w}, "open")
      BY <2>1, <2>3, <3>1 DEF Told
    <3>3. /\ i = Len(tx) /\ i \in DOMAIN tx /\ tx[i] \in BlockType
          /\ db.pending = tx[i].writes
          /\ ~tx[i].unknown /\ tx[i].writes \cap db.durable = {}
          /\ \A j \in DOMAIN tx : j # i => tx[j].completed
      BY <1>1, <3>1, OpenBlock
    <3> DEFINE b == [tx[i] EXCEPT !.writes = @ \cup {w}]
    <3>4. /\ b \in BlockType /\ b.writes = tx[i].writes \cup {w} /\ b.unknown = tx[i].unknown
          /\ b.completed = tx[i].completed
      BY <3>3 DEF BlockType
    <3>5. tx' = [tx EXCEPT ![i] = b]
      BY <3>2
    <3> HIDE DEF b
    <3>6. /\ tx' \in Seq(BlockType) /\ DOMAIN tx' = DOMAIN tx /\ Len(tx') = Len(tx)
          /\ tx'[i] = b /\ \A j \in DOMAIN tx : j # i => tx'[j] = tx[j]
      BY <1>1, <3>3, <3>4, <3>5
    <3>7. Holds(b, db')
      BY <1>2, <1>4, <2>1, <2>3, <3>3, <3>4 DEF Holds
    <3>8. ~b.completed
      BY <3>1, <3>4 DEF Pending
    <3>9. Blocks(db, tx)'
      BY <2>1, <3>3, <3>6, <3>7, <3>8 DEF Blocks
    <3>10. /\ promise' \in [Write -> {"unused", "open", "kept", "undone", "unknown"}]
           /\ \A x \in Write : promise'[x] = IF x = w THEN "open" ELSE promise[x]
      BY <3>2, PromisedFields
    <3>11. Accounts(db, promise)'
      BY <1>1, <1>2, <2>1, <2>3, <3>10 DEF Accounts
    <3> QED BY <3>9, <3>11 DEF IndInv, ShortListsMarked
  <2> QED BY <2>2, <2>3
<1>6. CASE a.reply # "ok" /\ Fallen(db, a.db, IF a.reply = "lost" THEN W ELSE {})
  <2> DEFINE V == IF a.reply = "lost" THEN W ELSE {}
             p == IF a.reply = "lost" THEN "unknown" ELSE "undone"
  <2>1. tx' = Throw(tx) /\ promise' = Promised({w}, p)
    BY <1>6 DEF Told
  <2>2. /\ Fallen(db, db', V) /\ (db.txn = "none" \/ V = {}) /\ V \subseteq {w}
        /\ p \in {"unknown", "undone"} /\ (p = "undone" => V = {})
    BY <1>2, <1>6
  <2> HIDE DEF V, p
  <2>3. Blocks(db, tx)'
    BY <1>1, <2>1, <2>2, FallBlocks
  <2>4. /\ promise' \in [Write -> {"unused", "open", "kept", "undone", "unknown"}]
        /\ \A x \in Write : promise'[x] = IF x = w THEN p ELSE promise[x]
    BY <2>1, <2>2, PromisedFields
  <2>5. Accounts(db, promise)'
    BY <1>1, <1>4, <2>2, <2>4 DEF Accounts, Fallen
  <2> QED BY <2>3, <2>5 DEF IndInv, ShortListsMarked
<1> QED BY <1>3, <1>5, <1>6

LEMMA SaveStep ==
  ASSUME IndInv, Rules = AllRules, NEW w \in Write, SaveObject(w) \/ UpdateObject(w)
  PROVE  IndInv'
<1>1. /\ MayCall /\ promise[w] = "unused" /\ listed' = "none" /\ UNCHANGED dialect
  BY DEF SaveObject, UpdateObject
<1>2. PICK a : /\ \/ a \in Run(db, Changed(db, w))
                  \/ a = [reply |-> "skipped", db |-> Ok(db).db]
               /\ db' = a.db /\ Told(w, a.reply)
  BY DEF SaveObject, UpdateObject
<1> QED BY <1>1, <1>2, ChangeStep

LEMMA FindStep ==
  ASSUME IndInv, Rules = AllRules, PopulateFindAll
  PROVE  IndInv'
<1>1. Quiet(tx) /\ GoodDb(db) /\ tx \in Seq(BlockType) /\ UNCHANGED <<dialect, promise>>
  BY RuleKept DEF IndInv, Blocks, PopulateFindAll
<1>2. PICK a \in Run(db, db) \cup ReadShort :
        /\ db' = a.db
        /\ listed' = CASE a.reply = "ok"    -> "whole"
                       [] a.reply = "short" -> "short"
                       [] OTHER             -> "none"
        /\ tx' = IF a.reply = "ok" THEN tx ELSE Throw(tx)
  BY RuleKept DEF PopulateFindAll
<1>3. CASE a \in Run(db, db)
  <2>1. \/ a = Ok(db)
        \/ a.reply \in {"error", "lost"} /\ Fallen(db, a.db, {})
    BY <1>1, <1>3, RunAnswers
  <2>2. CASE a = Ok(db)
    <3>0. db \in DbType
      BY <1>1 DEF GoodDb
    <3>1. /\ a.reply = "ok" /\ GoodDb(db') /\ ~db'.hasError
          /\ db'.up = db.up /\ db'.txn = db.txn /\ db'.pending = db.pending
          /\ db'.durable = db.durable
      BY <1>1, <1>2, <2>2, <3>0, AnswerFields, OkGood
    <3>2. tx' = tx /\ listed' = "whole"
      BY <1>2, <3>1
    <3>3. Blocks(db, tx)'
      BY <3>1, <3>2 DEF IndInv, Blocks, Holds
    <3>4. Accounts(db, promise)'
      BY <1>1, <3>1 DEF IndInv, Accounts
    <3> QED BY <1>1, <3>1, <3>2, <3>3, <3>4 DEF IndInv, ShortListsMarked
  <2>3. CASE a.reply \in {"error", "lost"} /\ Fallen(db, a.db, {})
    <3>1. listed' = "none" /\ tx' = Throw(tx)
      BY <1>2, <2>3
    <3> QED BY <1>1, <1>2, <2>3, <3>1, ThrowStep
  <2> QED BY <2>1, <2>2, <2>3
<1>4. CASE a \in ReadShort
  <2>1. a.reply = "short" /\ (a.db = Failed(db).db \/ a.db = Failed(RolledBack(db)).db)
    BY <1>4 DEF ReadShort, SqliteFailures
  <2>2. Fallen(db, db', {})
    BY <1>1, <1>2, <2>1, Falls
  <2>3. db'.hasError
    <3>1. db \in DbType /\ RolledBack(db) \in DbType
      BY <1>1, SessionOps DEF GoodDb
    <3> QED BY <1>2, <2>1, <3>1, AnswerFields
  <2>4. listed' = "short" /\ tx' = Throw(tx)
    BY <1>2, <2>1
  <2> QED BY <1>1, <2>2, <2>3, <2>4, ThrowStep
<1> QED BY <1>2, <1>3, <1>4

LEMMA ReopenStep ==
  ASSUME IndInv, Rules = AllRules, Reopen
  PROVE  IndInv'
<1>1. /\ Quiet(tx) /\ ~db.up /\ db' = NewSession(db.durable)
      /\ listed' = "none" /\ UNCHANGED <<dialect, tx, promise>>
  BY RuleKept DEF Reopen
<1>2. Pending = {}
  BY <1>1, OpenBlock
<1>3. /\ GoodDb(db') /\ db'.txn = "none" /\ db'.pending = {} /\ db'.durable = db.durable
  BY <1>1 DEF NewSession, GoodDb, DbType, IndInv, Blocks
<1>4. Blocks(db, tx)'
  BY <1>1, <1>2, <1>3 DEF IndInv, Blocks, Pending
<1>5. Accounts(db, promise)'
  BY <1>1, <1>3 DEF IndInv, Accounts
<1> QED BY <1>1, <1>4, <1>5 DEF IndInv, ShortListsMarked

-----------------------------------------------------------------------------
(* The theorems.                                                           *)

(***************************************************************************)
(* For a client that keeps the rules, every step of TOrmTransaction and of *)
(* the data access objects keeps the blocks, the session and what the      *)
(* client was told in agreement.                                           *)
(***************************************************************************)
THEOREM OrmInvariance == Rules = AllRules /\ Spec => []IndInv
<1> SUFFICES ASSUME Rules = AllRules PROVE Spec => []IndInv
  OBVIOUS
<1>1. Init => IndInv
  <2> SUFFICES ASSUME Init PROVE IndInv
    OBVIOUS
  <2> USE DEF Init
  <2>1. GoodDb(db) /\ db.txn = "none" /\ db.durable = {} /\ db.pending = {}
    BY DEF NewSession, GoodDb, DbType
  <2>2. Blocks(db, tx)
    BY <2>1 DEF Blocks
  <2>3. Accounts(db, promise)
    BY <2>1 DEF Accounts
  <2> QED BY <2>2, <2>3 DEF IndInv, ShortListsMarked
<1>2. IndInv /\ [Next]_vars => IndInv'
  <2> SUFFICES ASSUME IndInv, [Next]_vars PROVE IndInv'
    OBVIOUS
  <2>1. CASE UNCHANGED vars
    BY <2>1 DEF vars, IndInv, ShortListsMarked
  <2>2. CASE Next
    BY <2>2, StartStep, CommitStep, RollbackStep, CloseStep, SaveStep, FindStep, ReopenStep
       DEF Next
  <2> QED BY <2>1, <2>2
<1>3. Spec => Init /\ [][Next]_vars
  BY PTL DEF Spec
<1> QED BY <1>1, <1>2, <1>3, PTL

(***************************************************************************)
(* What Save or Commit reported as done is in the database.                *)
(***************************************************************************)
THEOREM OrmKeptIsDurable == Rules = AllRules /\ Spec => []KeptIsDurable
<1>1. IndInv => KeptIsDurable
  BY DEF IndInv, Accounts, KeptIsDurable
<1> QED BY <1>1, OrmInvariance, PTL

(***************************************************************************)
(* Nothing is left of a block that was not committed.                      *)
(***************************************************************************)
THEOREM OrmUndoneIsGone == Rules = AllRules /\ Spec => []UndoneIsGone
<1>1. IndInv => UndoneIsGone
  BY DEF IndInv, Accounts, UndoneIsGone
<1> QED BY <1>1, OrmInvariance, PTL

(***************************************************************************)
(* With every block completed there is no transaction on the connection.   *)
(***************************************************************************)
THEOREM OrmNoTransactionLeft == Rules = AllRules /\ Spec => []NoTransactionLeft
<1>1. IndInv => NoTransactionLeft
  BY DEF IndInv, Blocks, NoTransactionLeft, Pending
<1> QED BY <1>1, OrmInvariance, PTL

(***************************************************************************)
(* A list that lacks objects leaves an error outstanding, a whole one none.*)
(***************************************************************************)
THEOREM OrmShortListsMarked == Rules = AllRules /\ Spec => []ShortListsMarked
<1>1. IndInv => ShortListsMarked
  BY DEF IndInv
<1> QED BY <1>1, OrmInvariance, PTL

=============================================================================
