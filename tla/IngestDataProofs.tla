--------------------------- MODULE IngestDataProofs ---------------------------
(***************************************************************************)
(* Proofs about the sides of MCIngestData, for every evidence, any limit   *)
(* and any batch.  The sides share no step, so each theorem is about the   *)
(* behaviours of one of them.                                              *)
(***************************************************************************)
EXTENDS MCIngestData, FiniteSetTheorems, TLAPS

----------------------------------------------------------------------------
(* The parser.  Where it is: in a block it may read, and at an item of it. *)
AtItem     == {"itemFailed", "afterItem", "batchCommit", "batchCheck", "batchBegin"}
InBlock    == AtItem \cup {"item"}
AfterStore == {"endStore", "storeCommit", "storeCheck", "storeBegin"}
Between    == {"batchCheck", "batchBegin", "storeCheck", "storeBegin"}

\* The blocks up to one of a store that the block limit counts.
Counted(st, n) == {m \in 1..n : P!Stores[st].blocks[m].read # "badHeader"}

Places ==
  /\ pc \in P!Reading => store \in DOMAIN P!Stores /\ P!Stores[store].kind = "ok"
  /\ store > 0 /\ block > 0 /\ item > 0
  /\ pc \in {"begin", "store"} => block = 1 /\ item = 1 /\ blocks = 0
  /\ pc = "begin" => store = 1 /\ pending = {} /\ saved = {} /\ parsed = 0 /\ ~txn /\ ~poisoned
  /\ pc = "block" => item = 1 /\ blocks = Cardinality(Counted(store, block - 1))
  /\ pc \in InBlock => /\ block \in P!Reached(store) /\ P!Blocks[block].read = "ok"
                       /\ blocks = Cardinality(Counted(store, block))
  /\ pc \in AtItem => item \in DOMAIN P!Items
PlaceInv == P!TypeOK /\ Places

\* A transaction is open while rows wait for a commit, and none is between a
\* commit and the next BEGIN.
TxnInv == /\ ~txn => pending = {}
          /\ pc \in Between \cup {"begin", "returned"} => ~txn

\* The places of the records there are: of items that can be decoded, and none
\* ahead of the parser.
Recorded == P!Records(pending \cup saved)
Inside(x) == \/ x[2] < block
             \/ x[2] = block /\ x[3] < item
             \/ x[2] = block /\ x[3] = item /\ pc # "item"
Behind(x) == \/ x[1] < store
             \/ /\ x[1] = store /\ pc \notin {"begin", "store"}
                /\ pc = "block" => x[2] < block
                /\ pc \in InBlock => Inside(x)
Over == {"finalCommit", "returned", "aborted", "threw"}
RecordsInv == /\ Recorded \subseteq P!GoodItems
              /\ pc \notin Over => \A x \in Recorded : Behind(x)
              /\ pc # "threw" => parsed <= Cardinality(Recorded)

\* A transaction once lost is not begun again before the call throws.  Until then
\* every item behind the parser is recorded, or there are as many as the limit
\* lets through.
Sound == txn \/ pc \in Between \cup {"begin", "returned"}
Full  == task.maxRecords > 0 /\ parsed >= task.maxRecords
CoverInv ==
  Sound => /\ ~poisoned
           /\ limited => Full
           /\ Full => P!Wanted \subseteq Recorded
           /\ ~Full => \A x \in P!GoodItems :
                         pc \in {"finalCommit", "returned"} \/ Behind(x) => x \in Recorded

\* With the database to itself the parser loses no transaction, and stops at the
\* limit.
AloneInv ==
  P!Alone => /\ txn \/ pc \in Between \cup {"begin", "returned", "aborted"}
             /\ pc # "threw"
             /\ Recorded \subseteq P!Wanted
             /\ Cardinality(Recorded) <= parsed
             /\ Full /\ pc \notin {"afterItem", "batchCommit", "batchCheck", "batchBegin",
                                   "finalCommit", "returned", "aborted"} => limited /\ pc \in AfterStore

\* The rows a crash would cost.
BatchInv ==
  P!Alone => /\ Cardinality(P!Records(pending)) <= IF pc = "batchCommit" THEN Batch ELSE parsed % Batch
             /\ pc = "batchCommit" => parsed % Batch = 0

\* Verdicts are given in order, one to a store.
Verdicts == {r \in pending \cup saved : r.what \in {"SUCCESS", "FAILED"}}
VerdictInv ==
  P!Alone => /\ \A r \in Verdicts : r.at[1] <= store
             /\ pc \notin {"storeCommit", "storeCheck", "storeBegin", "finalCommit", "returned", "aborted"} =>
                  \A r \in Verdicts : r.at[1] < store
             /\ \A r1, r2 \in Verdicts : r1.at[1] = r2.at[1] => r1 = r2

ParserInv == /\ PlaceInv /\ TxnInv /\ RecordsInv /\ CoverInv /\ AloneInv /\ BatchInv /\ VerdictInv

\* The instance counts as this module does.
LEMMA SameCardinality == \A X : P!Cardinality(X) = Cardinality(X)
BY DEF P!Cardinality, Cardinality

\* Places are ordered.
LEMMA PlacesOrdered ==
  ASSUME NEW x \in Nat \X Nat \X Nat, NEW y \in Nat \X Nat \X Nat, NEW z \in Nat \X Nat \X Nat
  PROVE  /\ P!Before(x, y) \/ x = y \/ P!Before(y, x)
         /\ ~P!Before(x, x)
         /\ P!Before(x, y) /\ P!Before(y, z) => P!Before(x, z)
BY DEF P!Before

\* A record is where its row is.
LEMMA RecordsOfRows ==
  /\ \A X, Y : P!Records(X \cup Y) = P!Records(X) \cup P!Records(Y)
  /\ P!Records({}) = {}
  /\ P!Records({P!Row("record")}) = {P!at}
  /\ P!Records({P!Row("failure")}) = {}
  /\ P!Records({P!Row("SUCCESS")}) = {}
  /\ P!Records({P!Row("failure"), P!Row("FAILED")}) = {}
<1>1. \A X, Y : P!Records(X \cup Y) = P!Records(X) \cup P!Records(Y)
  BY DEF P!Records
<1>2. \A X, y : y \in P!Records(X) <=> \E r \in X : r.what = "record" /\ y = r.at
  BY DEF P!Records
<1>3. \A w : P!Row(w).what = w /\ P!Row(w).at = P!at
  BY DEF P!Row
<1> QED BY <1>1, <1>2, <1>3

\* A task is what it was.
LEMMA TaskStays ==
  ASSUME UNCHANGED task
  PROVE  /\ P!Stores' = P!Stores /\ P!Faults' = P!Faults /\ P!Alone' = P!Alone
         /\ P!GoodItems' = P!GoodItems /\ P!Wanted' = P!Wanted
         /\ \A st : P!Reached(st)' = P!Reached(st)
         /\ \A st, n : Counted(st, n)' = Counted(st, n)
<1>1. P!Stores' = P!Stores /\ P!Faults' = P!Faults
  BY DEF P!Stores, P!Faults
<1>2. P!Alone' = P!Alone
  BY <1>1 DEF P!Alone
<1>3. \A st : P!Reached(st)' = P!Reached(st)
  BY <1>1 DEF P!Reached
<1>4. P!GoodItems' = P!GoodItems
  BY <1>1, <1>3 DEF P!GoodItems
<1>5. P!Wanted' = P!Wanted
  BY <1>4 DEF P!Wanted
<1>6. \A st, n : Counted(st, n)' = Counted(st, n)
  BY <1>1 DEF Counted
<1> QED BY <1>1, <1>2, <1>3, <1>4, <1>5, <1>6

\* What a task is made of.
LEMMA TaskTypes ==
  ASSUME task \in P!Task
  PROVE  /\ Len(P!Stores) \in Nat /\ DOMAIN P!Stores = 1..Len(P!Stores)
         /\ task.maxRecords \in Nat /\ task.maxBlocks \in Nat
         /\ \A st \in DOMAIN P!Stores :
              LET store_ == P!Stores[st]
              IN  /\ store_.kind \in {"invalid", "badHeader", "unopened", "ok"}
                  /\ Len(store_.blocks) \in Nat /\ DOMAIN store_.blocks = 1..Len(store_.blocks)
                  /\ \A n \in DOMAIN store_.blocks :
                       /\ store_.blocks[n].read \in {"badHeader", "badPacking", "ok"}
                       /\ Len(store_.blocks[n].items) \in Nat
                       /\ DOMAIN store_.blocks[n].items = 1..Len(store_.blocks[n].items)
                       /\ \A k \in DOMAIN store_.blocks[n].items : store_.blocks[n].items[k] \in {"good", "bad"}
<1>1. /\ P!Stores \in Seq(P!StoreInfo) /\ task.maxRecords \in Nat /\ task.maxBlocks \in Nat
  BY DEF P!Task, P!Stores
<1>2. ASSUME NEW st \in DOMAIN P!Stores
      PROVE  P!Stores[st].blocks \in Seq(P!Block) /\ P!Stores[st].kind \in {"invalid", "badHeader", "unopened", "ok"}
  <2>1. P!Stores[st] \in P!StoreInfo
    BY <1>1
  <2> QED BY <2>1 DEF P!StoreInfo
<1>3. ASSUME NEW st \in DOMAIN P!Stores, NEW n \in DOMAIN P!Stores[st].blocks
      PROVE  /\ P!Stores[st].blocks[n].read \in {"badHeader", "badPacking", "ok"}
             /\ P!Stores[st].blocks[n].items \in Seq(P!Item)
  <2>1. P!Stores[st].blocks[n] \in P!Block
    BY <1>2
  <2> QED BY <2>1 DEF P!Block
<1>4. ASSUME NEW st \in DOMAIN P!Stores, NEW n \in DOMAIN P!Stores[st].blocks,
             NEW k \in DOMAIN P!Stores[st].blocks[n].items
      PROVE  P!Stores[st].blocks[n].items[k] \in {"good", "bad"}
  BY <1>3 DEF P!Item
<1> QED BY <1>1, <1>2, <1>3, <1>4

\* The items that can be decoded, one by one.
LEMMA GoodMember ==
  \A x : x \in P!GoodItems <=>
    \E st \in DOMAIN P!Stores : \E n \in P!Reached(st) : \E k \in DOMAIN P!Stores[st].blocks[n].items :
      /\ x = <<st, n, k>> /\ P!Stores[st].kind = "ok" /\ P!Stores[st].blocks[n].read = "ok"
      /\ P!Stores[st].blocks[n].items[k] = "good"
<1>1. ASSUME NEW st \in DOMAIN P!Stores, NEW n \in P!Reached(st)
      PROVE  n \in DOMAIN P!Stores[st].blocks
  BY DEF P!Reached
<1> QED BY <1>1 DEF P!GoodItems

\* The good items of a block, and of a store.
GoodOf(st, n) == {<<st, n, k>> : k \in {k \in DOMAIN P!Stores[st].blocks[n].items :
                                          P!Stores[st].blocks[n].items[k] = "good"}}
GoodIn(st) == UNION {GoodOf(st, n) : n \in {n \in P!Reached(st) : P!Stores[st].blocks[n].read = "ok"}}

\* Their places are places, and there are finitely many.
LEMMA GoodFinite ==
  ASSUME task \in P!Task
  PROVE  P!GoodItems \subseteq Nat \X Nat \X Nat /\ IsFiniteSet(P!GoodItems)
<1>1. P!GoodItems \subseteq Nat \X Nat \X Nat
  <2>1. ASSUME NEW st \in DOMAIN P!Stores, NEW n \in P!Reached(st), NEW k \in DOMAIN P!Stores[st].blocks[n].items
        PROVE  <<st, n, k>> \in Nat \X Nat \X Nat
    <3>1. n \in DOMAIN P!Stores[st].blocks
      BY DEF P!Reached
    <3> QED BY <3>1, TaskTypes
  <2> QED BY <2>1, GoodMember
<1>2. ASSUME NEW D, NEW f, f = [x \in D |-> f[x]], IsFiniteSet(D), \A x \in D : IsFiniteSet(f[x])
      PROVE  IsFiniteSet(UNION {f[x] : x \in D})
  <2>1. f \in Surjection(D, {f[x] : x \in D})
    BY <1>2 DEF Surjection
  <2>2. IsFiniteSet({f[x] : x \in D})
    BY <1>2, <2>1, FS_Surjection
  <2> QED BY <1>2, <2>2, FS_UNION
<1>3. ASSUME NEW st \in DOMAIN P!Stores, NEW n \in P!Reached(st)
      PROVE  IsFiniteSet(GoodOf(st, n))
  <2> DEFINE K == {k \in DOMAIN P!Stores[st].blocks[n].items : P!Stores[st].blocks[n].items[k] = "good"}
             g == [k \in K |-> <<st, n, k>>]
  <2>1. n \in DOMAIN P!Stores[st].blocks
    BY DEF P!Reached
  <2>2. PICK len \in Nat : DOMAIN P!Stores[st].blocks[n].items = 1..len
    BY <2>1, TaskTypes
  <2>3. IsFiniteSet(1..len) /\ K \in SUBSET (1..len)
    BY <2>2, FS_Interval
  <2>4. IsFiniteSet(K)
    BY <2>3, FS_Subset
  <2>5. g \in Surjection(K, {<<st, n, k>> : k \in K})
    BY DEF Surjection
  <2>6. GoodOf(st, n) = {<<st, n, k>> : k \in K}
    BY DEF GoodOf
  <2> HIDE DEF g, K
  <2> QED BY <2>4, <2>5, <2>6, FS_Surjection
<1>4. ASSUME NEW st \in DOMAIN P!Stores
      PROVE  IsFiniteSet(GoodIn(st))
  <2> DEFINE Open == {n \in P!Reached(st) : P!Stores[st].blocks[n].read = "ok"}
             g == [n \in Open |-> GoodOf(st, n)]
  <2>1. PICK len \in Nat : DOMAIN P!Stores[st].blocks = 1..len
    BY TaskTypes
  <2>2. IsFiniteSet(1..len) /\ Open \in SUBSET (1..len)
    BY <2>1, FS_Interval DEF P!Reached
  <2>3. IsFiniteSet(Open)
    BY <2>2, FS_Subset
  <2>4. g = [n \in Open |-> g[n]] /\ \A n \in Open : IsFiniteSet(g[n])
    BY <1>3
  <2>5. GoodIn(st) = UNION {g[n] : n \in Open}
    BY DEF GoodIn
  <2> HIDE DEF g, Open
  <2> QED BY <1>2, <2>3, <2>4, <2>5
<1>5. IsFiniteSet(P!GoodItems)
  <2> DEFINE Open == {st \in DOMAIN P!Stores : P!Stores[st].kind = "ok"}
             g == [st \in Open |-> GoodIn(st)]
  <2>1. PICK len \in Nat : DOMAIN P!Stores = 1..len
    BY TaskTypes
  <2>2. IsFiniteSet(1..len) /\ Open \in SUBSET (1..len)
    <3>1. Open \subseteq DOMAIN P!Stores
      OBVIOUS
    <3> HIDE DEF Open
    <3> QED BY <2>1, <3>1, FS_Interval
  <2>3. IsFiniteSet(Open)
    BY <2>2, FS_Subset
  <2>4. g = [st \in Open |-> g[st]] /\ \A st \in Open : IsFiniteSet(g[st])
    BY <1>4
  <2>5. P!GoodItems = UNION {GoodIn(st) : st \in Open}
    BY Zenon DEF P!GoodItems, GoodIn, GoodOf
  <2>6. P!GoodItems = UNION {g[st] : st \in Open}
    BY <2>5
  <2> HIDE DEF g, Open
  <2> QED BY <1>2, <2>3, <2>4, <2>6
<1> QED BY <1>1, <1>5

\* The blocks that count, one by one.
LEMMA CountedBlocks ==
  ASSUME NEW st
  PROVE  /\ Cardinality(Counted(st, 0)) = 0
         /\ \A n \in Nat : IsFiniteSet(Counted(st, n)) /\ Cardinality(Counted(st, n)) \in Nat
         /\ \A n \in Nat \ {0} :
              Cardinality(Counted(st, n)) =
                IF P!Stores[st].blocks[n].read = "badHeader" THEN Cardinality(Counted(st, n - 1))
                                                             ELSE Cardinality(Counted(st, n - 1)) + 1
         /\ \A m, n \in Nat : m <= n => Cardinality(Counted(st, m)) <= Cardinality(Counted(st, n))
         /\ \A n : n \in P!Reached(st) <=> /\ n \in DOMAIN P!Stores[st].blocks
                                           /\ task.maxBlocks = 0 \/ Cardinality(Counted(st, n)) <= task.maxBlocks
<1>1. \A n \in Nat : IsFiniteSet(Counted(st, n)) /\ Cardinality(Counted(st, n)) \in Nat
  <2>1. ASSUME NEW n \in Nat
        PROVE  IsFiniteSet(1..n) /\ Counted(st, n) \in SUBSET (1..n)
    BY FS_Interval DEF Counted
  <2> QED BY <2>1, FS_Subset, FS_CardinalityType
<1>2. Cardinality(Counted(st, 0)) = 0
  <2>1. Counted(st, 0) = {}
    BY DEF Counted
  <2> QED BY <2>1, FS_EmptySet
<1>3. ASSUME NEW n \in Nat \ {0}
      PROVE  Cardinality(Counted(st, n)) =
                IF P!Stores[st].blocks[n].read = "badHeader" THEN Cardinality(Counted(st, n - 1))
                                                             ELSE Cardinality(Counted(st, n - 1)) + 1
  <2>1. CASE P!Stores[st].blocks[n].read = "badHeader"
    <3>1. Counted(st, n) = Counted(st, n - 1)
      BY <2>1 DEF Counted
    <3> QED BY <2>1, <3>1
  <2>2. CASE P!Stores[st].blocks[n].read # "badHeader"
    <3>1. Counted(st, n) = Counted(st, n - 1) \cup {n} /\ n \notin Counted(st, n - 1)
      BY <2>2 DEF Counted
    <3>2. IsFiniteSet(Counted(st, n - 1))
      BY <1>1
    <3> QED BY <2>2, <3>1, <3>2, FS_AddElement
  <2> QED BY <2>1, <2>2
<1>4. ASSUME NEW m \in Nat, NEW n \in Nat, m <= n
      PROVE  Cardinality(Counted(st, m)) <= Cardinality(Counted(st, n))
  <2>1. Counted(st, m) \in SUBSET Counted(st, n)
    BY <1>4 DEF Counted
  <2> QED BY <1>1, <2>1, FS_Subset
<1>5. ASSUME NEW n
      PROVE  n \in P!Reached(st) <=> /\ n \in DOMAIN P!Stores[st].blocks
                                     /\ task.maxBlocks = 0 \/ Cardinality(Counted(st, n)) <= task.maxBlocks
  <2>1. {m \in 1..n : P!Stores[st].blocks[m].read # "badHeader"} = Counted(st, n)
    BY DEF Counted
  <2>2. n \in P!Reached(st) <=>
          /\ n \in DOMAIN P!Stores[st].blocks
          /\ task.maxBlocks = 0
             \/ Cardinality({m \in 1..n : P!Stores[st].blocks[m].read # "badHeader"}) <= task.maxBlocks
    BY SameCardinality DEF P!Reached
  <2> QED BY <2>1, <2>2
<1> QED BY <1>1, <1>2, <1>3, <1>4, <1>5

\* Whatever is inserted where the parser is are rows.
LEMMA RowsTyped ==
  ASSUME P!TypeOK, NEW D, P!Insert(D), D \subseteq {P!Row(w) : w \in P!RowKinds}
  PROVE  /\ pending' \subseteq [what : P!RowKinds, at : Nat \X Nat \X Nat]
         /\ saved' \subseteq [what : P!RowKinds, at : Nat \X Nat \X Nat]
<1>1. \A w \in P!RowKinds : P!Row(w) \in [what : P!RowKinds, at : Nat \X Nat \X Nat]
  BY DEF P!Row, P!TypeOK
<1> QED BY <1>1 DEF P!Insert, P!TypeOK

\* The steps keep the parser in its place.
LEMMA PlaceStep ==
  ASSUME PlaceInv, P!Next
  PROVE  PlaceInv'
<1> DEFINE Kind == [what : P!RowKinds, at : Nat \X Nat \X Nat]
           Positions == store \in Nat /\ block \in Nat /\ item \in Nat
           Counters == /\ blocks \in Nat /\ parsed \in Nat
                       /\ limited \in BOOLEAN /\ txn \in BOOLEAN /\ poisoned \in BOOLEAN
                       /\ pc \in P!Ended \cup P!Reading \cup {"begin", "store", "storeFailed", "finalCommit"}
           Data_ == pending \subseteq Kind /\ saved \subseteq Kind
<1>1. Positions /\ Counters /\ Data_ /\ Places /\ task \in P!Task
  BY DEF PlaceInv, P!TypeOK, P!at
<1>2. /\ task' = task /\ P!Stores' = P!Stores
      /\ \A n : P!Reached(n)' = P!Reached(n)
      /\ \A n, m : Counted(n, m)' = Counted(n, m)
  <2>1. task' = task
    BY DEF P!Next, P!Begin, P!RefuseStore, P!OpenStore, P!StoreEscapes, P!StoreThrows, P!AllStoresRead,
           P!FailStore, P!EndStore, P!CommitStore, P!CheckStore, P!CheckSizeAt, P!BeginAfterStore, P!FinalCommit,
           P!AllBlocksRead, P!StopAtBlockLimit, P!SkipBlock, P!ReadBlock, P!EndBlock,
           P!InsertItem, P!PoisonItem, P!DropPoisonedItem, P!DropItem, P!CommitBatch, P!CheckBatch, P!BeginBatch,
           P!FailItem, P!AfterItem, P!Done, P!Go, P!GoOn, P!NextStore, P!Escape, P!LeaveBlock, P!vars
  <2> QED BY <2>1, TaskStays
<1>3. SUFFICES Positions' /\ Counters' /\ Data_' /\ Places'
  <2>1. P!at \in Nat \X Nat \X Nat <=> Positions
    BY DEF P!at
  <2>2. (P!at \in Nat \X Nat \X Nat)' <=> Positions'
    BY DEF P!at
  <2> QED BY <1>1, <1>2, <2>2 DEF PlaceInv, P!TypeOK, Places
<1> USE DEF P!Go, P!GoOn, P!Reading, P!Ended
<1> HIDE DEF Kind
<1>r. ASSUME NEW D, P!Insert(D), D \subseteq {P!Row(w) : w \in P!RowKinds}
      PROVE  Data_'
  BY <1>r, RowsTyped DEF PlaceInv, Kind
<1>w. /\ {P!Row("record")} \subseteq {P!Row(w) : w \in P!RowKinds}
      /\ {P!Row("failure")} \subseteq {P!Row(w) : w \in P!RowKinds}
      /\ {P!Row("SUCCESS")} \subseteq {P!Row(w) : w \in P!RowKinds}
      /\ {P!Row("failure"), P!Row("FAILED")} \subseteq {P!Row(w) : w \in P!RowKinds}
  BY DEF P!RowKinds
<1>4. CASE P!Begin
  <2>1. Positions'
    BY <1>1, <1>4 DEF P!Begin, P!Begins, P!BeginFails, P!at
  <2>2. Counters'
    BY <1>1, <1>4 DEF P!Begin, P!Begins, P!BeginFails, P!at, P!data
  <2>3. Data_'
    BY <1>1, <1>4 DEF P!Begin, P!Begins, P!BeginFails, P!data
  <2>4. Places'
    BY <1>1, <1>2, <1>4, CountedBlocks DEF P!Begin, P!Begins, P!BeginFails, Places, InBlock, AtItem, P!at, P!data, P!Blocks, P!Items
  <2> QED BY <2>1, <2>2, <2>3, <2>4
<1>5. CASE P!RefuseStore
  <2>1. Positions'
    BY <1>1, <1>5 DEF P!RefuseStore, P!Insert, P!NextStore, P!Refused, P!Row, P!at
  <2>2. Counters'
    BY <1>1, <1>5 DEF P!RefuseStore, P!Insert, P!NextStore, P!Refused, P!Row, P!at, P!data
  <2>3. Data_'
    BY <1>1, <1>r, <1>w, <1>5 DEF P!RefuseStore, P!NextStore, P!Refused, P!data
  <2>4. Places'
    BY <1>1, <1>2, <1>5, CountedBlocks DEF P!RefuseStore, P!Insert, P!NextStore, P!Refused, P!Row, Places, InBlock, AtItem, P!at, P!data, P!Blocks, P!Items
  <2> QED BY <2>1, <2>2, <2>3, <2>4
<1>6. CASE P!OpenStore
  <2>1. Positions'
    BY <1>1, <1>6 DEF P!OpenStore, P!Refused, P!at
  <2>2. Counters'
    BY <1>1, <1>6 DEF P!OpenStore, P!Refused, P!at, P!data
  <2>3. Data_'
    BY <1>1, <1>6 DEF P!OpenStore, P!Refused, P!data
  <2>4. Places'
    <3>1. P!Stores[store].kind \in {"invalid", "badHeader", "unopened", "ok"} /\ store \in DOMAIN P!Stores
      BY <1>1, <1>6, TaskTypes DEF P!OpenStore, Places
    <3>2. Cardinality(Counted(store, 1 - 1)) = 0
      BY CountedBlocks
    <3> QED BY <1>1, <1>2, <1>6, <3>1, <3>2 DEF P!OpenStore, P!Refused, Places, InBlock, AtItem, P!at, P!data, P!Blocks, P!Items
  <2> QED BY <2>1, <2>2, <2>3, <2>4
<1>7. CASE P!StoreEscapes
  <2>1. Positions'
    BY <1>1, <1>7 DEF P!StoreEscapes, P!Escape, P!Rollback, P!at
  <2>2. Counters'
    BY <1>1, <1>7 DEF P!StoreEscapes, P!Escape, P!Rollback, P!at, P!data
  <2>3. Data_'
    BY <1>1, <1>7 DEF P!StoreEscapes, P!Escape, P!Rollback, P!data
  <2>4. Places'
    BY <1>1, <1>2, <1>7, CountedBlocks DEF P!StoreEscapes, P!Escape, P!Rollback, Places, InBlock, AtItem, P!at, P!data, P!Blocks, P!Items
  <2> QED BY <2>1, <2>2, <2>3, <2>4
<1>8. CASE P!StoreThrows
  <2>1. Positions'
    BY <1>1, <1>8 DEF P!StoreThrows, P!at
  <2>2. Counters'
    BY <1>1, <1>8 DEF P!StoreThrows, P!at, P!data
  <2>3. Data_'
    BY <1>1, <1>8 DEF P!StoreThrows, P!data
  <2>4. Places'
    BY <1>1, <1>2, <1>8, CountedBlocks DEF P!StoreThrows, Places, InBlock, AtItem, P!at, P!data, P!Blocks, P!Items
  <2> QED BY <2>1, <2>2, <2>3, <2>4
<1>9. CASE P!AllStoresRead
  <2>1. Positions'
    BY <1>1, <1>9 DEF P!AllStoresRead, P!at
  <2>2. Counters'
    BY <1>1, <1>9 DEF P!AllStoresRead, P!at, P!data
  <2>3. Data_'
    BY <1>1, <1>9 DEF P!AllStoresRead, P!data
  <2>4. Places'
    BY <1>1, <1>2, <1>9, CountedBlocks DEF P!AllStoresRead, Places, InBlock, AtItem, P!at, P!data, P!Blocks, P!Items
  <2> QED BY <2>1, <2>2, <2>3, <2>4
<1>10. CASE P!FailStore
  <2>1. Positions'
    BY <1>1, <1>10 DEF P!FailStore, P!Insert, P!NextStore, P!Escape, P!Rollback, P!at
  <2>2. Counters'
    <3>1. CASE P!NextStore("store")
      BY <1>1, <3>1 DEF P!NextStore
    <3>2. CASE P!Escape("threw")
      BY <1>1, <3>2 DEF P!Escape, P!Rollback, P!at
    <3> QED BY <1>10, <3>1, <3>2 DEF P!FailStore
  <2>3. Data_'
    BY <1>1, <1>r, <1>w, <1>10 DEF P!FailStore, P!NextStore, P!Escape, P!Rollback, P!data
  <2>4. Places'
    BY <1>1, <1>2, <1>10, CountedBlocks DEF P!FailStore, P!Insert, P!NextStore, P!Escape, P!Rollback, Places, InBlock, AtItem, P!at, P!data, P!Blocks, P!Items
  <2> QED BY <2>1, <2>2, <2>3, <2>4
<1>11. CASE P!EndStore
  <2>1. Positions'
    BY <1>1, <1>11 DEF P!EndStore, P!Insert, P!at
  <2>2. Counters'
    BY <1>1, <1>11 DEF P!EndStore, P!Insert, P!at, P!data
  <2>3. Data_'
    BY <1>1, <1>r, <1>w, <1>11 DEF P!EndStore, P!data
  <2>4. Places'
    BY <1>1, <1>2, <1>11, CountedBlocks DEF P!EndStore, P!Insert, Places, InBlock, AtItem, P!at, P!data, P!Blocks, P!Items
  <2> QED BY <2>1, <2>2, <2>3, <2>4
<1>12. CASE P!CommitStore
  <2>1. Positions'
    BY <1>1, <1>12 DEF P!CommitStore, P!Commits, P!CommitFails, P!at
  <2>2. Counters'
    BY <1>1, <1>12 DEF P!CommitStore, P!Commits, P!CommitFails, P!at, P!data
  <2>3. Data_'
    BY <1>1, <1>12 DEF P!CommitStore, P!Commits, P!CommitFails, P!data
  <2>4. Places'
    BY <1>1, <1>2, <1>12, CountedBlocks DEF P!CommitStore, P!Commits, P!CommitFails, Places, InBlock, AtItem, P!at, P!data, P!Blocks, P!Items
  <2> QED BY <2>1, <2>2, <2>3, <2>4
<1>13. CASE P!CheckStore
  <2>1. Positions'
    BY <1>1, <1>13 DEF P!CheckStore, P!CheckSizeAt, P!Escape, P!Rollback, P!at
  <2>2. Counters'
    BY <1>1, <1>13 DEF P!CheckStore, P!CheckSizeAt, P!Escape, P!Rollback, P!at, P!data
  <2>3. Data_'
    BY <1>1, <1>13 DEF P!CheckStore, P!CheckSizeAt, P!Escape, P!Rollback, P!data
  <2>4. Places'
    BY <1>1, <1>2, <1>13, CountedBlocks DEF P!CheckStore, P!CheckSizeAt, P!Escape, P!Rollback, Places, InBlock, AtItem, P!at, P!data, P!Blocks, P!Items
  <2> QED BY <2>1, <2>2, <2>3, <2>4
<1>14. CASE P!BeginAfterStore
  <2>1. Positions'
    BY <1>1, <1>14 DEF P!BeginAfterStore, P!BeginFails, P!at
  <2>2. Counters'
    <3>1. CASE P!BeginFails /\ P!GoOn("storeFailed")
      BY <1>1, <3>1 DEF P!BeginFails, P!at, P!data
    <3>2. CASE /\ txn' = TRUE /\ UNCHANGED <<P!data, parsed, poisoned>>
               /\ pc' = (IF limited THEN "finalCommit" ELSE "store") /\ blocks' = 0 /\ limited' = FALSE
      BY <1>1, <3>2
    <3> QED BY <1>14, <3>1, <3>2 DEF P!BeginAfterStore
  <2>3. Data_'
    BY <1>1, <1>14 DEF P!BeginAfterStore, P!BeginFails, P!data
  <2>4. Places'
    BY <1>1, <1>2, <1>14, CountedBlocks DEF P!BeginAfterStore, P!BeginFails, Places, InBlock, AtItem, P!at, P!data, P!Blocks, P!Items
  <2> QED BY <2>1, <2>2, <2>3, <2>4
<1>15. CASE P!FinalCommit
  <2>1. Positions'
    BY <1>1, <1>15 DEF P!FinalCommit, P!Commits, P!Escape, P!Rollback, P!at
  <2>2. Counters'
    BY <1>1, <1>15 DEF P!FinalCommit, P!Commits, P!Escape, P!Rollback, P!at, P!data
  <2>3. Data_'
    BY <1>1, <1>15 DEF P!FinalCommit, P!Commits, P!Escape, P!Rollback, P!data
  <2>4. Places'
    BY <1>1, <1>2, <1>15, CountedBlocks DEF P!FinalCommit, P!Commits, P!Escape, P!Rollback, Places, InBlock, AtItem, P!at, P!data, P!Blocks, P!Items
  <2> QED BY <2>1, <2>2, <2>3, <2>4
<1>16. CASE P!AllBlocksRead
  <2>1. Positions'
    BY <1>1, <1>16 DEF P!AllBlocksRead, P!at
  <2>2. Counters'
    BY <1>1, <1>16 DEF P!AllBlocksRead, P!at, P!data
  <2>3. Data_'
    BY <1>1, <1>16 DEF P!AllBlocksRead, P!data
  <2>4. Places'
    BY <1>1, <1>2, <1>16, CountedBlocks DEF P!AllBlocksRead, Places, InBlock, AtItem, P!at, P!data, P!Blocks, P!Items
  <2> QED BY <2>1, <2>2, <2>3, <2>4
<1>17. CASE P!StopAtBlockLimit
  <2>1. Positions'
    BY <1>1, <1>17 DEF P!StopAtBlockLimit, P!at
  <2>2. Counters'
    BY <1>1, <1>17 DEF P!StopAtBlockLimit, P!at, P!data
  <2>3. Data_'
    BY <1>1, <1>17 DEF P!StopAtBlockLimit, P!data
  <2>4. Places'
    BY <1>1, <1>2, <1>17, CountedBlocks DEF P!StopAtBlockLimit, Places, InBlock, AtItem, P!at, P!data, P!Blocks, P!Items
  <2> QED BY <2>1, <2>2, <2>3, <2>4
<1>18. CASE P!SkipBlock
  <2>1. Positions'
    BY <1>1, <1>18 DEF P!SkipBlock, P!Insert, P!at
  <2>2. Counters'
    BY <1>1, <1>18 DEF P!SkipBlock, P!Insert, P!at, P!data
  <2>3. Data_'
    BY <1>1, <1>r, <1>w, <1>18 DEF P!SkipBlock, P!data
  <2>4. Places'
    <3>1. /\ block + 1 - 1 = block
          /\ Cardinality(Counted(store, block)) =
               IF P!Stores[store].blocks[block].read = "badHeader" THEN Cardinality(Counted(store, block - 1))
                                                                   ELSE Cardinality(Counted(store, block - 1)) + 1
      BY <1>1, CountedBlocks DEF Places
    <3> QED BY <1>1, <1>2, <1>18, <3>1 DEF P!SkipBlock, Places, InBlock, AtItem, P!at, P!data, P!Blocks, P!Items
  <2> QED BY <2>1, <2>2, <2>3, <2>4
<1>19. CASE P!ReadBlock
  <2>1. Positions'
    BY <1>1, <1>19 DEF P!ReadBlock, P!at
  <2>2. Counters'
    BY <1>1, <1>19 DEF P!ReadBlock, P!at, P!data
  <2>3. Data_'
    BY <1>1, <1>19 DEF P!ReadBlock, P!data
  <2>4. Places'
    <3>a. Cardinality(Counted(store, block)) =
               IF P!Stores[store].blocks[block].read = "badHeader" THEN Cardinality(Counted(store, block - 1))
                                                                   ELSE Cardinality(Counted(store, block - 1)) + 1
      BY <1>1, CountedBlocks DEF Places
    <3>1. /\ blocks = Cardinality(Counted(store, block - 1))
          /\ Cardinality(Counted(store, block)) = blocks + 1
      BY <1>1, <1>19, <3>a DEF P!ReadBlock, P!Blocks, Places
    <3>2. block \in DOMAIN P!Stores[store].blocks /\ task.maxBlocks \in Nat
      BY <1>1, <1>19, TaskTypes DEF P!ReadBlock, P!Blocks, Places
    <3>b. block \in P!Reached(store) <=>
             /\ block \in DOMAIN P!Stores[store].blocks
             /\ task.maxBlocks = 0 \/ Cardinality(Counted(store, block)) <= task.maxBlocks
      BY CountedBlocks
    <3>3. block \in P!Reached(store)
      BY <1>1, <3>b, <1>19, <3>1, <3>2 DEF P!ReadBlock, P!BlockLimit
    <3> QED BY <1>1, <1>2, <1>19, <3>1, <3>3 DEF P!ReadBlock, Places, InBlock, AtItem, P!at, P!data, P!Blocks, P!Items
  <2> QED BY <2>1, <2>2, <2>3, <2>4
<1>20. CASE P!EndBlock
  <2>1. Positions'
    BY <1>1, <1>20 DEF P!EndBlock, P!LeaveBlock, P!at
  <2>2. Counters'
    BY <1>1, <1>20 DEF P!EndBlock, P!LeaveBlock, P!at, P!data
  <2>3. Data_'
    BY <1>1, <1>20 DEF P!EndBlock, P!LeaveBlock, P!data
  <2>4. Places'
    BY <1>1, <1>2, <1>20, CountedBlocks DEF P!EndBlock, P!LeaveBlock, Places, InBlock, AtItem, P!at, P!data, P!Blocks, P!Items
  <2> QED BY <2>1, <2>2, <2>3, <2>4
<1>21. CASE P!InsertItem
  <2>1. Positions'
    BY <1>1, <1>21 DEF P!InsertItem, P!Insert, P!at
  <2>2. Counters'
    BY <1>1, <1>21 DEF P!InsertItem, P!Insert, P!at, P!data
  <2>3. Data_'
    BY <1>1, <1>r, <1>w, <1>21 DEF P!InsertItem, P!data
  <2>4. Places'
    BY <1>1, <1>2, <1>21, CountedBlocks DEF P!InsertItem, P!Insert, Places, InBlock, AtItem, P!at, P!data, P!Blocks, P!Items
  <2> QED BY <2>1, <2>2, <2>3, <2>4
<1>22. CASE P!PoisonItem
  <2>1. Positions'
    BY <1>1, <1>22 DEF P!PoisonItem, P!HalfInsert, P!Insert, P!at
  <2>2. Counters'
    BY <1>1, <1>22 DEF P!PoisonItem, P!HalfInsert, P!Insert, P!at, P!data
  <2>3. Data_'
    BY <1>1, <1>r, <1>w, <1>22 DEF P!PoisonItem, P!HalfInsert, P!data
  <2>4. Places'
    BY <1>1, <1>2, <1>22, CountedBlocks DEF P!PoisonItem, P!HalfInsert, P!Insert, Places, InBlock, AtItem, P!at, P!data, P!Blocks, P!Items
  <2> QED BY <2>1, <2>2, <2>3, <2>4
<1>23. CASE P!DropPoisonedItem
  <2>1. Positions'
    BY <1>1, <1>23 DEF P!DropPoisonedItem, P!HalfInsert, P!Insert, P!at
  <2>2. Counters'
    BY <1>1, <1>23 DEF P!DropPoisonedItem, P!HalfInsert, P!Insert, P!at, P!data
  <2>3. Data_'
    BY <1>1, <1>r, <1>w, <1>23 DEF P!DropPoisonedItem, P!HalfInsert, P!data
  <2>4. Places'
    BY <1>1, <1>2, <1>23, CountedBlocks DEF P!DropPoisonedItem, P!HalfInsert, P!Insert, Places, InBlock, AtItem, P!at, P!data, P!Blocks, P!Items
  <2> QED BY <2>1, <2>2, <2>3, <2>4
<1>24. CASE P!DropItem
  <2>1. Positions'
    BY <1>1, <1>24 DEF P!DropItem, P!at
  <2>2. Counters'
    BY <1>1, <1>24 DEF P!DropItem, P!at, P!data
  <2>3. Data_'
    BY <1>1, <1>24 DEF P!DropItem, P!data
  <2>4. Places'
    BY <1>1, <1>2, <1>24, CountedBlocks DEF P!DropItem, Places, InBlock, AtItem, P!at, P!data, P!Blocks, P!Items
  <2> QED BY <2>1, <2>2, <2>3, <2>4
<1>25. CASE P!CommitBatch
  <2>1. Positions'
    BY <1>1, <1>25 DEF P!CommitBatch, P!Commits, P!CommitFails, P!at
  <2>2. Counters'
    BY <1>1, <1>25 DEF P!CommitBatch, P!Commits, P!CommitFails, P!at, P!data
  <2>3. Data_'
    BY <1>1, <1>25 DEF P!CommitBatch, P!Commits, P!CommitFails, P!data
  <2>4. Places'
    BY <1>1, <1>2, <1>25, CountedBlocks DEF P!CommitBatch, P!Commits, P!CommitFails, Places, InBlock, AtItem, P!at, P!data, P!Blocks, P!Items
  <2> QED BY <2>1, <2>2, <2>3, <2>4
<1>26. CASE P!CheckBatch
  <2>1. Positions'
    BY <1>1, <1>26 DEF P!CheckBatch, P!CheckSizeAt, P!Escape, P!Rollback, P!at
  <2>2. Counters'
    BY <1>1, <1>26 DEF P!CheckBatch, P!CheckSizeAt, P!Escape, P!Rollback, P!at, P!data
  <2>3. Data_'
    BY <1>1, <1>26 DEF P!CheckBatch, P!CheckSizeAt, P!Escape, P!Rollback, P!data
  <2>4. Places'
    BY <1>1, <1>2, <1>26, CountedBlocks DEF P!CheckBatch, P!CheckSizeAt, P!Escape, P!Rollback, Places, InBlock, AtItem, P!at, P!data, P!Blocks, P!Items
  <2> QED BY <2>1, <2>2, <2>3, <2>4
<1>27. CASE P!BeginBatch
  <2>1. Positions'
    BY <1>1, <1>27 DEF P!BeginBatch, P!Begins, P!BeginFails, P!at
  <2>2. Counters'
    BY <1>1, <1>27 DEF P!BeginBatch, P!Begins, P!BeginFails, P!at, P!data
  <2>3. Data_'
    BY <1>1, <1>27 DEF P!BeginBatch, P!Begins, P!BeginFails, P!data
  <2>4. Places'
    BY <1>1, <1>2, <1>27, CountedBlocks DEF P!BeginBatch, P!Begins, P!BeginFails, Places, InBlock, AtItem, P!at, P!data, P!Blocks, P!Items
  <2> QED BY <2>1, <2>2, <2>3, <2>4
<1>28. CASE P!FailItem
  <2>1. Positions'
    BY <1>1, <1>28 DEF P!FailItem, P!Insert, P!LeaveBlock, P!at
  <2>2. Counters'
    BY <1>1, <1>28 DEF P!FailItem, P!Insert, P!LeaveBlock, P!at, P!data
  <2>3. Data_'
    BY <1>1, <1>r, <1>w, <1>28 DEF P!FailItem, P!LeaveBlock, P!data
  <2>4. Places'
    BY <1>1, <1>2, <1>28, CountedBlocks DEF P!FailItem, P!Insert, P!LeaveBlock, Places, InBlock, AtItem, P!at, P!data, P!Blocks, P!Items
  <2> QED BY <2>1, <2>2, <2>3, <2>4
<1>29. CASE P!AfterItem
  <2>1. Positions'
    BY <1>1, <1>29 DEF P!AfterItem, P!at
  <2>2. Counters'
    BY <1>1, <1>29 DEF P!AfterItem, P!at, P!data
  <2>3. Data_'
    BY <1>1, <1>29 DEF P!AfterItem, P!data
  <2>4. Places'
    BY <1>1, <1>2, <1>29, CountedBlocks DEF P!AfterItem, Places, InBlock, AtItem, P!at, P!data, P!Blocks, P!Items
  <2> QED BY <2>1, <2>2, <2>3, <2>4
<1>30. CASE P!Done
  <2>1. Positions'
    BY <1>1, <1>30 DEF P!Done, P!vars, P!at
  <2>2. Counters'
    BY <1>1, <1>30 DEF P!Done, P!vars, P!at, P!data
  <2>3. Data_'
    BY <1>1, <1>30 DEF P!Done, P!vars, P!data
  <2>4. Places'
    BY <1>1, <1>2, <1>30, CountedBlocks DEF P!Done, P!vars, Places, InBlock, AtItem, P!at, P!data, P!Blocks, P!Items
  <2> QED BY <2>1, <2>2, <2>3, <2>4
<1> QED BY <1>4, <1>5, <1>6, <1>7, <1>8, <1>9, <1>10, <1>11, <1>12, <1>13, <1>14, <1>15, <1>16, <1>17, <1>18, <1>19, <1>20, <1>21, <1>22, <1>23, <1>24, <1>25, <1>26, <1>27, <1>28, <1>29, <1>30 DEF P!Next

\* What an insertion, a commit and a rollback make of the rows.
LEMMA RowsChange ==
  /\ \A D : P!Insert(D) => /\ (pending \cup saved)' = pending \cup saved \cup D
                           /\ Recorded' = Recorded \cup P!Records(D)
                           /\ IF txn THEN pending' = pending \cup D ELSE pending' = pending
  /\ P!Commits => pending' = {} /\ (pending \cup saved)' = pending \cup saved /\ Recorded' = Recorded
  /\ UNCHANGED P!data => /\ (pending \cup saved)' = pending \cup saved /\ Recorded' = Recorded
                         /\ pending' = pending
<1>1. Recorded = P!Records(pending \cup saved) /\ Recorded' = P!Records((pending \cup saved)')
  BY DEF Recorded, P!Records
<1> QED BY <1>1, RecordsOfRows DEF P!Insert, P!Commits, P!data

\* A transaction is lost by a commit, or by a step that ends the call.
LEMMA TxnStep ==
  ASSUME PlaceInv, TxnInv, P!Next
  PROVE  TxnInv'
<1> USE DEF TxnInv, Between, P!Go, P!GoOn
<1>1. \A D : P!Insert(D) /\ txn' = txn => (~txn' => pending' = {})
  BY DEF P!Insert
<1>2. CASE P!Begin
  BY <1>1, <1>2 DEF P!Begin, P!Begins, P!BeginFails, P!data
<1>3. CASE P!RefuseStore
  BY <1>1, <1>3 DEF P!RefuseStore, P!NextStore, P!data
<1>4. CASE P!OpenStore
  BY <1>1, <1>4 DEF P!OpenStore, P!data
<1>5. CASE P!StoreEscapes
  BY <1>1, <1>5 DEF P!StoreEscapes, P!Escape, P!Rollback, P!data
<1>6. CASE P!StoreThrows
  BY <1>1, <1>6 DEF P!StoreThrows, P!data
<1>7. CASE P!AllStoresRead
  BY <1>1, <1>7 DEF P!AllStoresRead, P!data
<1>8. CASE P!FailStore
  BY <1>1, <1>8 DEF P!FailStore, P!NextStore, P!Escape, P!Rollback, P!data
<1>9. CASE P!EndStore
  BY <1>1, <1>9 DEF P!EndStore, P!data
<1>10. CASE P!CommitStore
  BY <1>1, <1>10 DEF P!CommitStore, P!Commits, P!CommitFails, P!data
<1>11. CASE P!CheckStore
  BY <1>1, <1>11 DEF P!CheckStore, P!CheckSizeAt, P!Escape, P!Rollback, P!data
<1>12. CASE P!BeginAfterStore
  BY <1>1, <1>12 DEF P!BeginAfterStore, P!BeginFails, P!data
<1>13. CASE P!FinalCommit
  BY <1>1, <1>13 DEF P!FinalCommit, P!Commits, P!Escape, P!Rollback, P!data
<1>14. CASE P!AllBlocksRead
  BY <1>1, <1>14 DEF P!AllBlocksRead, P!data
<1>15. CASE P!StopAtBlockLimit
  BY <1>1, <1>15 DEF P!StopAtBlockLimit, P!data
<1>16. CASE P!SkipBlock
  BY <1>1, <1>16 DEF P!SkipBlock, P!data
<1>17. CASE P!ReadBlock
  BY <1>1, <1>17 DEF P!ReadBlock, P!data
<1>18. CASE P!EndBlock
  BY <1>1, <1>18 DEF P!EndBlock, P!LeaveBlock, P!data
<1>19. CASE P!InsertItem
  BY <1>1, <1>19 DEF P!InsertItem, P!data
<1>20. CASE P!PoisonItem
  BY <1>1, <1>20 DEF P!PoisonItem, P!HalfInsert, P!data
<1>21. CASE P!DropPoisonedItem
  BY <1>1, <1>21 DEF P!DropPoisonedItem, P!HalfInsert, P!data
<1>22. CASE P!DropItem
  BY <1>1, <1>22 DEF P!DropItem, P!data
<1>23. CASE P!CommitBatch
  BY <1>1, <1>23 DEF P!CommitBatch, P!Commits, P!CommitFails, P!data
<1>24. CASE P!CheckBatch
  BY <1>1, <1>24 DEF P!CheckBatch, P!CheckSizeAt, P!Escape, P!Rollback, P!data
<1>25. CASE P!BeginBatch
  BY <1>1, <1>25 DEF P!BeginBatch, P!Begins, P!BeginFails, P!data
<1>26. CASE P!FailItem
  BY <1>1, <1>26 DEF P!FailItem, P!LeaveBlock, P!data
<1>27. CASE P!AfterItem
  BY <1>1, <1>27 DEF P!AfterItem, P!data
<1>28. CASE P!Done
  BY <1>1, <1>28 DEF P!Done, P!vars, P!data
<1> QED BY <1>2, <1>3, <1>4, <1>5, <1>6, <1>7, <1>8, <1>9, <1>10, <1>11, <1>12, <1>13, <1>14, <1>15, <1>16, <1>17, <1>18, <1>19, <1>20, <1>21, <1>22, <1>23, <1>24, <1>25, <1>26, <1>27, <1>28 DEF P!Next

\* A step adds the record of the item it is at, or none; it takes records back
\* when an exception leaves the parser only.
LEMMA RecordedStep ==
  ASSUME PlaceInv, TxnInv, P!Next
  PROVE  \/ Recorded' = Recorded /\ ~P!InsertItem
         \/ P!InsertItem /\ Recorded' = Recorded \cup {P!at}
         \/ (P!PoisonItem \/ P!DropPoisonedItem) /\ Recorded' = Recorded \cup {P!at}
         \/ pc' = "threw" /\ ~txn' /\ Recorded' \subseteq Recorded /\ ~P!InsertItem
<1> DEFINE Same == Recorded' = Recorded /\ ~P!InsertItem
           Taken == pc' = "threw" /\ ~txn' /\ Recorded' \subseteq Recorded /\ ~P!InsertItem
<1> SUFFICES ASSUME ~P!InsertItem, ~P!PoisonItem, ~P!DropPoisonedItem
             PROVE  Same \/ Taken
  <2>1. CASE P!InsertItem
    <3>1. Recorded' = Recorded \cup {P!at}
      BY <2>1, RowsChange, RecordsOfRows DEF P!InsertItem
    <3> QED BY <2>1, <3>1
  <2>2. CASE (P!PoisonItem \/ P!DropPoisonedItem) /\ ~P!InsertItem
    <3>1. P!HalfInsert
      BY <2>2 DEF P!PoisonItem, P!DropPoisonedItem
    <3>2. Recorded' = Recorded \/ Recorded' = Recorded \cup {P!at}
      BY <3>1, RowsChange, RecordsOfRows DEF P!HalfInsert, P!data
    <3> QED BY <2>2, <3>2
  <2> QED BY <2>1, <2>2
<1>a. ~P!InsertItem
  OBVIOUS
<1>d. \A X : P!Insert(X) /\ P!Records(X) = {} => Same
  BY <1>a, RowsChange
<1>u. UNCHANGED P!data => Same
  BY <1>a, RowsChange
<1>c. P!Commits => Same
  BY <1>a, RowsChange
<1>r. P!Rollback => Recorded' \subseteq Recorded /\ ~txn'
  BY DEF P!Rollback, Recorded, P!Records
<1>n. P!Rollback /\ ~txn => Same
  <2>1. P!Rollback /\ ~txn => UNCHANGED P!data
    BY DEF P!Rollback, TxnInv, P!data
  <2> QED BY <2>1, <1>u
<1> HIDE DEF Same
<1>1. CASE P!Begin
  BY <1>1, <1>u DEF P!Begin, P!Begins, P!BeginFails, P!data
<1>2. CASE P!RefuseStore
  BY <1>2, <1>u, <1>d, RecordsOfRows DEF P!RefuseStore, P!NextStore, P!Go, P!GoOn
<1>3. CASE P!OpenStore
  BY <1>3, <1>u DEF P!OpenStore
<1>4. CASE P!StoreEscapes
  BY <1>4, <1>u, <1>a, <1>r DEF P!StoreEscapes, P!Escape, P!Go, P!GoOn
<1>5. CASE P!StoreThrows
  BY <1>5, <1>u DEF P!StoreThrows
<1>6. CASE P!AllStoresRead
  BY <1>6, <1>u DEF P!AllStoresRead
<1>7. CASE P!FailStore
  BY <1>7, <1>u, <1>d, RecordsOfRows, <1>a, <1>r DEF P!FailStore, P!NextStore, P!Escape, P!Go, P!GoOn
<1>8. CASE P!EndStore
  BY <1>8, <1>u, <1>d, RecordsOfRows DEF P!EndStore, P!Go, P!GoOn
<1>9. CASE P!CommitStore
  BY <1>9, <1>u, <1>c DEF P!CommitStore, P!CommitFails, P!data
<1>10. CASE P!CheckStore
  BY <1>10, <1>u, <1>n DEF P!CheckStore, P!CheckSizeAt, P!Escape, TxnInv, Between, P!Go, P!GoOn
<1>11. CASE P!BeginAfterStore
  BY <1>11, <1>u DEF P!BeginAfterStore, P!BeginFails, P!data, P!data
<1>12. CASE P!FinalCommit
  BY <1>12, <1>u, <1>c, <1>a, <1>r DEF P!FinalCommit, P!Escape, P!Go, P!GoOn
<1>13. CASE P!AllBlocksRead
  BY <1>13, <1>u DEF P!AllBlocksRead
<1>14. CASE P!StopAtBlockLimit
  BY <1>14, <1>u DEF P!StopAtBlockLimit
<1>15. CASE P!SkipBlock
  BY <1>15, <1>u, <1>d, RecordsOfRows DEF P!SkipBlock, P!Go, P!GoOn
<1>16. CASE P!ReadBlock
  BY <1>16, <1>u DEF P!ReadBlock
<1>17. CASE P!EndBlock
  BY <1>17, <1>u DEF P!EndBlock, P!LeaveBlock
<1>18. CASE P!DropItem
  BY <1>18, <1>u DEF P!DropItem
<1>19. CASE P!CommitBatch
  BY <1>19, <1>u, <1>c DEF P!CommitBatch, P!CommitFails, P!data
<1>20. CASE P!CheckBatch
  BY <1>20, <1>u, <1>n DEF P!CheckBatch, P!CheckSizeAt, P!Escape, TxnInv, Between, P!Go, P!GoOn
<1>21. CASE P!BeginBatch
  BY <1>21, <1>u DEF P!BeginBatch, P!Begins, P!BeginFails, P!data
<1>22. CASE P!FailItem
  BY <1>22, <1>u, <1>d, RecordsOfRows DEF P!FailItem, P!LeaveBlock, P!Go, P!GoOn
<1>23. CASE P!AfterItem
  BY <1>23, <1>u DEF P!AfterItem
<1>24. CASE P!Done
  BY <1>24, <1>u DEF P!Done, P!vars, P!data, P!vars
<1> QED BY <1>1, <1>2, <1>3, <1>4, <1>5, <1>6, <1>7, <1>8, <1>9, <1>10, <1>11, <1>12, <1>13, <1>14, <1>15, <1>16, <1>17, <1>18, <1>19, <1>20, <1>21, <1>22, <1>23, <1>24 DEF P!Next

\* Where an item is that can be decoded.
LEMMA GoodPlace ==
  ASSUME task \in P!Task, NEW x \in P!GoodItems
  PROVE  /\ x \in Nat \X Nat \X Nat /\ x[1] \in Nat /\ x[2] \in Nat \ {0} /\ x[3] \in Nat \ {0}
         /\ x[1] \in DOMAIN P!Stores /\ P!Stores[x[1]].kind = "ok"
         /\ x[2] \in P!Reached(x[1]) /\ x[2] \in 1..Len(P!Stores[x[1]].blocks)
         /\ P!Stores[x[1]].blocks[x[2]].read = "ok"
         /\ x[3] \in 1..Len(P!Stores[x[1]].blocks[x[2]].items)
         /\ P!Stores[x[1]].blocks[x[2]].items[x[3]] = "good"
<1>1. PICK st \in DOMAIN P!Stores : \E n \in P!Reached(st) : \E k \in DOMAIN P!Stores[st].blocks[n].items :
        /\ x = <<st, n, k>> /\ P!Stores[st].kind = "ok" /\ P!Stores[st].blocks[n].read = "ok"
        /\ P!Stores[st].blocks[n].items[k] = "good"
  BY GoodMember
<1>2. PICK n \in P!Reached(st) : \E k \in DOMAIN P!Stores[st].blocks[n].items :
        /\ x = <<st, n, k>> /\ P!Stores[st].kind = "ok" /\ P!Stores[st].blocks[n].read = "ok"
        /\ P!Stores[st].blocks[n].items[k] = "good"
  BY <1>1
<1>6. PICK k \in DOMAIN P!Stores[st].blocks[n].items :
        /\ x = <<st, n, k>> /\ P!Stores[st].kind = "ok" /\ P!Stores[st].blocks[n].read = "ok"
        /\ P!Stores[st].blocks[n].items[k] = "good"
  BY <1>2
<1>3. n \in DOMAIN P!Stores[st].blocks
  BY DEF P!Reached
<1>4. x[1] = st /\ x[2] = n /\ x[3] = k
  BY <1>6
<1>5. st \in Nat /\ n \in Nat \ {0} /\ k \in Nat \ {0} /\ n \in 1..Len(P!Stores[st].blocks)
      /\ k \in 1..Len(P!Stores[st].blocks[n].items)
  BY <1>3, TaskTypes
<1> QED BY <1>6, <1>4, <1>5

\* The item the parser inserts is one of these.
LEMMA AtIsGood ==
  ASSUME PlaceInv, pc = "item", item <= Len(P!Items), P!Items[item] = "good"
  PROVE  P!at \in P!GoodItems
<1>1. task \in P!Task /\ store \in DOMAIN P!Stores /\ P!Stores[store].kind = "ok" /\ item \in Nat \ {0}
      /\ block \in P!Reached(store) /\ P!Stores[store].blocks[block].read = "ok"
  BY DEF PlaceInv, Places, P!TypeOK, P!at, P!Reading, InBlock, P!Blocks
<1>2. block \in DOMAIN P!Stores[store].blocks
  BY <1>1 DEF P!Reached
<1>3. item \in DOMAIN P!Stores[store].blocks[block].items
  BY <1>1, <1>2, TaskTypes DEF P!Items, P!Blocks
<1> QED BY <1>1, <1>3, GoodMember DEF P!at, P!Items, P!Blocks

\* What is behind the parser stays behind it.
LEMMA BehindGrows ==
  ASSUME PlaceInv, P!Next, NEW x \in P!GoodItems, pc' \notin Over, Behind(x)
  PROVE  Behind(x)'
<1>1. x[1] \in Nat /\ x[2] \in Nat \ {0} /\ x[3] \in Nat \ {0}
  BY GoodPlace DEF PlaceInv, P!TypeOK
<1>2. /\ store \in Nat \ {0} /\ block \in Nat \ {0} /\ item \in Nat \ {0}
  BY DEF PlaceInv, P!TypeOK, P!at, Places
<1> USE DEF Over, Behind, Inside, InBlock, AtItem, P!Go, P!GoOn, P!at
<1>3. CASE P!Begin
  BY <1>1, <1>2, <1>3 DEF P!Begin, P!Begins, P!BeginFails
<1>4. CASE P!RefuseStore
  BY <1>1, <1>2, <1>4 DEF P!RefuseStore, P!NextStore
<1>5. CASE P!OpenStore
  BY <1>1, <1>2, <1>5 DEF P!OpenStore
<1>6. CASE P!StoreEscapes
  BY <1>1, <1>2, <1>6 DEF P!StoreEscapes, P!Escape, P!Rollback
<1>7. CASE P!StoreThrows
  BY <1>1, <1>2, <1>7 DEF P!StoreThrows
<1>8. CASE P!AllStoresRead
  BY <1>1, <1>2, <1>8 DEF P!AllStoresRead
<1>9. CASE P!FailStore
  BY <1>1, <1>2, <1>9 DEF P!FailStore, P!NextStore, P!Escape, P!Rollback
<1>10. CASE P!EndStore
  BY <1>1, <1>2, <1>10 DEF P!EndStore
<1>11. CASE P!CommitStore
  BY <1>1, <1>2, <1>11 DEF P!CommitStore, P!Commits, P!CommitFails
<1>12. CASE P!CheckStore
  BY <1>1, <1>2, <1>12 DEF P!CheckStore, P!CheckSizeAt, P!Escape, P!Rollback
<1>13. CASE P!BeginAfterStore
  BY <1>1, <1>2, <1>13 DEF P!BeginAfterStore, P!BeginFails
<1>14. CASE P!FinalCommit
  BY <1>1, <1>2, <1>14 DEF P!FinalCommit, P!Commits, P!Escape, P!Rollback
<1>15. CASE P!AllBlocksRead
  BY <1>1, <1>2, <1>15 DEF P!AllBlocksRead
<1>16. CASE P!StopAtBlockLimit
  BY <1>1, <1>2, <1>16 DEF P!StopAtBlockLimit
<1>17. CASE P!SkipBlock
  BY <1>1, <1>2, <1>17 DEF P!SkipBlock
<1>18. CASE P!ReadBlock
  <2>1. store' = store /\ block' = block /\ item' = 1 /\ pc' = "item" /\ pc = "block"
    BY <1>18 DEF P!ReadBlock
  <2> QED BY <1>1, <1>2, <2>1
<1>19. CASE P!EndBlock
  BY <1>1, <1>2, <1>19 DEF P!EndBlock, P!LeaveBlock
<1>20. CASE P!InsertItem
  BY <1>1, <1>2, <1>20 DEF P!InsertItem
<1>21. CASE P!PoisonItem
  BY <1>1, <1>2, <1>21 DEF P!PoisonItem, P!HalfInsert
<1>22. CASE P!DropPoisonedItem
  BY <1>1, <1>2, <1>22 DEF P!DropPoisonedItem, P!HalfInsert
<1>23. CASE P!DropItem
  BY <1>1, <1>2, <1>23 DEF P!DropItem
<1>24. CASE P!CommitBatch
  BY <1>1, <1>2, <1>24 DEF P!CommitBatch, P!Commits, P!CommitFails
<1>25. CASE P!CheckBatch
  BY <1>1, <1>2, <1>25 DEF P!CheckBatch, P!CheckSizeAt, P!Escape, P!Rollback
<1>26. CASE P!BeginBatch
  BY <1>1, <1>2, <1>26 DEF P!BeginBatch, P!Begins, P!BeginFails
<1>27. CASE P!FailItem
  BY <1>1, <1>2, <1>27 DEF P!FailItem, P!LeaveBlock
<1>28. CASE P!AfterItem
  <2>1. store' = store /\ block' = block /\ item' = item + 1 /\ pc' \in {"endStore", "item"} /\ pc = "afterItem"
    BY <1>28 DEF P!AfterItem
  <2> QED BY <1>1, <1>2, <2>1
<1>29. CASE P!Done
  BY <1>1, <1>2, <1>29 DEF P!Done, P!vars, P!Ended
<1> QED BY <1>3, <1>4, <1>5, <1>6, <1>7, <1>8, <1>9, <1>10, <1>11, <1>12, <1>13, <1>14, <1>15, <1>16, <1>17, <1>18, <1>19, <1>20, <1>21, <1>22, <1>23, <1>24, <1>25, <1>26, <1>27, <1>28, <1>29 DEF P!Next

\* Items are counted where they are inserted, and an ended call stays ended.
LEMMA ParsedStep ==
  ASSUME P!Next
  PROVE  /\ ~P!InsertItem => parsed' = parsed
         /\ P!InsertItem => parsed' = parsed + 1 /\ poisoned' = poisoned
         /\ pc \in P!Ended => pc' = pc /\ UNCHANGED P!data
         /\ pc = "finalCommit" => pc' \in P!Ended
BY DEF P!Next, P!Ended, P!Go, P!GoOn, P!data,
         P!Begin, P!Begins, P!BeginFails, P!RefuseStore, P!NextStore, P!OpenStore, P!StoreEscapes, P!Escape,
         P!Rollback, P!StoreThrows, P!AllStoresRead, P!FailStore, P!EndStore, P!CommitStore, P!Commits,
         P!CommitFails, P!CheckStore, P!CheckSizeAt, P!BeginAfterStore, P!FinalCommit, P!AllBlocksRead,
         P!StopAtBlockLimit, P!SkipBlock, P!ReadBlock, P!EndBlock, P!LeaveBlock, P!InsertItem, P!PoisonItem,
         P!HalfInsert, P!DropPoisonedItem, P!DropItem, P!CommitBatch, P!CheckBatch, P!BeginBatch, P!FailItem,
         P!AfterItem, P!Done, P!vars

\* The parser inserts a record where none is.
LEMMA RecordsStep ==
  ASSUME PlaceInv, TxnInv, RecordsInv, P!Next
  PROVE  RecordsInv'
<1>1. task \in P!Task /\ parsed \in Nat /\ store \in Nat /\ block \in Nat /\ item \in Nat
  BY DEF PlaceInv, P!TypeOK, P!at
<1>2. P!GoodItems \subseteq Nat \X Nat \X Nat /\ IsFiniteSet(P!GoodItems)
  BY <1>1, GoodFinite
<1>3. P!GoodItems' = P!GoodItems
  BY PlaceStep, TaskStays DEF P!Next, P!Ended, P!Go, P!GoOn, P!vars,
         P!Begin, P!Begins, P!BeginFails, P!RefuseStore, P!NextStore, P!OpenStore, P!StoreEscapes, P!Escape,
         P!Rollback, P!StoreThrows, P!AllStoresRead, P!FailStore, P!EndStore, P!CommitStore, P!Commits,
         P!CommitFails, P!CheckStore, P!CheckSizeAt, P!BeginAfterStore, P!FinalCommit, P!AllBlocksRead,
         P!StopAtBlockLimit, P!SkipBlock, P!ReadBlock, P!EndBlock, P!LeaveBlock, P!InsertItem, P!PoisonItem,
         P!HalfInsert, P!DropPoisonedItem, P!DropItem, P!CommitBatch, P!CheckBatch, P!BeginBatch, P!FailItem,
         P!AfterItem, P!Done, P!vars
<1>4. Recorded \subseteq P!GoodItems /\ IsFiniteSet(Recorded)
  BY <1>2, FS_Subset DEF RecordsInv
<1>5. P!InsertItem \/ P!PoisonItem \/ P!DropPoisonedItem =>
        /\ pc = "item" /\ P!at \in P!GoodItems
        /\ pc' \in AtItem /\ store' = store /\ block' = block /\ item' = item
  BY AtIsGood DEF P!InsertItem, P!PoisonItem, P!DropPoisonedItem, P!Go, P!GoOn, P!at, AtItem
<1>6. Recorded' \subseteq P!GoodItems'
  BY <1>3, <1>4, <1>5, RecordedStep
<1>7. ASSUME pc' \notin Over, NEW x \in Recorded'
      PROVE  Behind(x)'
  <2>1. pc \notin Over
    BY <1>7, ParsedStep DEF Over, P!Ended
  <2>2. CASE x \in Recorded
    BY <1>4, <1>7, <2>1, <2>2, BehindGrows DEF RecordsInv
  <2>3. CASE x \notin Recorded
    <3>1. x = P!at /\ (P!InsertItem \/ P!PoisonItem \/ P!DropPoisonedItem)
      BY <1>7, <2>3, RecordedStep
    <3>2. x[1] = store /\ x[2] = block /\ x[3] = item
      BY <3>1 DEF P!at
    <3> QED BY <1>5, <3>1, <3>2 DEF Behind, Inside, InBlock, AtItem
  <2> QED BY <2>2, <2>3
<1>8. ASSUME pc' # "threw"
      PROVE  parsed' <= Cardinality(Recorded')
  <2>1. pc # "threw" /\ parsed <= Cardinality(Recorded)
    BY <1>8, ParsedStep DEF RecordsInv, P!Ended
  <2>2. CASE Recorded' = Recorded /\ ~P!InsertItem
    BY <2>1, <2>2, ParsedStep, RecordedStep
  <2>3. CASE P!InsertItem /\ Recorded' = Recorded \cup {P!at}
    <3>1. ~Behind(P!at)
      <4>1. P!at[1] = store /\ P!at[2] = block /\ P!at[3] = item
        BY DEF P!at
      <4> QED BY <1>1, <1>5, <2>3, <4>1 DEF Behind, Inside, InBlock
    <3>2. P!at \notin Recorded
      BY <1>5, <2>3, <3>1 DEF RecordsInv, Over
    <3>3. Cardinality(Recorded') = Cardinality(Recorded) + 1 /\ Cardinality(Recorded) \in Nat
      BY <1>4, <2>3, <3>2, FS_AddElement, FS_CardinalityType
    <3> QED BY <1>1, <2>1, <2>3, <3>3, ParsedStep
  <2>4. CASE ~P!InsertItem /\ Recorded' = Recorded \cup {P!at}
    <3>1. Cardinality(Recorded) <= Cardinality(Recorded') /\ Cardinality(Recorded) \in Nat /\ Cardinality(Recorded') \in Nat
      BY <1>4, <2>4, FS_AddElement, FS_CardinalityType
    <3> QED BY <1>1, <2>1, <2>4, <3>1, ParsedStep
  <2> QED BY <1>8, <2>2, <2>3, <2>4, RecordedStep
<1> QED BY <1>6, <1>7, <1>8 DEF RecordsInv

\* No step begins again a transaction that was lost.
LEMMA SoundStep ==
  ASSUME PlaceInv, TxnInv, P!Next, Sound'
  PROVE  Sound
<1> USE DEF Sound, Between, P!Go, P!GoOn
<1>1. CASE P!Begin
  BY <1>1 DEF P!Begin, P!Begins, P!BeginFails
<1>2. CASE P!RefuseStore
  BY <1>2 DEF P!RefuseStore, P!NextStore
<1>3. CASE P!OpenStore
  BY <1>3 DEF P!OpenStore
<1>4. CASE P!StoreEscapes
  BY <1>4 DEF P!StoreEscapes, P!Escape, P!Rollback
<1>5. CASE P!StoreThrows
  BY <1>5 DEF P!StoreThrows
<1>6. CASE P!AllStoresRead
  BY <1>6 DEF P!AllStoresRead
<1>7. CASE P!FailStore
  BY <1>7 DEF P!FailStore, P!NextStore, P!Escape, P!Rollback
<1>8. CASE P!EndStore
  BY <1>8 DEF P!EndStore
<1>9. CASE P!CommitStore
  BY <1>9 DEF P!CommitStore, P!Commits, P!CommitFails
<1>10. CASE P!CheckStore
  BY <1>10 DEF P!CheckStore, P!CheckSizeAt, P!Escape, P!Rollback
<1>11. CASE P!BeginAfterStore
  BY <1>11 DEF P!BeginAfterStore, P!BeginFails
<1>12. CASE P!FinalCommit
  BY <1>12 DEF P!FinalCommit, P!Commits, P!Escape, P!Rollback
<1>13. CASE P!AllBlocksRead
  BY <1>13 DEF P!AllBlocksRead
<1>14. CASE P!StopAtBlockLimit
  BY <1>14 DEF P!StopAtBlockLimit
<1>15. CASE P!SkipBlock
  BY <1>15 DEF P!SkipBlock
<1>16. CASE P!ReadBlock
  BY <1>16 DEF P!ReadBlock
<1>17. CASE P!EndBlock
  BY <1>17 DEF P!EndBlock, P!LeaveBlock
<1>18. CASE P!InsertItem
  BY <1>18 DEF P!InsertItem
<1>19. CASE P!PoisonItem
  <2>1. txn' = txn /\ pc' = "itemFailed"
    BY <1>19 DEF P!PoisonItem, P!HalfInsert
  <2> QED BY <2>1
<1>20. CASE P!DropPoisonedItem
  <2>1. txn' = txn /\ pc' = "itemFailed"
    BY <1>20 DEF P!DropPoisonedItem, P!HalfInsert
  <2> QED BY <2>1
<1>21. CASE P!DropItem
  BY <1>21 DEF P!DropItem
<1>22. CASE P!CommitBatch
  BY <1>22 DEF P!CommitBatch, P!Commits, P!CommitFails
<1>23. CASE P!CheckBatch
  BY <1>23 DEF P!CheckBatch, P!CheckSizeAt, P!Escape, P!Rollback
<1>24. CASE P!BeginBatch
  BY <1>24 DEF P!BeginBatch, P!Begins, P!BeginFails
<1>25. CASE P!FailItem
  BY <1>25 DEF P!FailItem, P!LeaveBlock
<1>26. CASE P!AfterItem
  BY <1>26 DEF P!AfterItem
<1>27. CASE P!Done
  BY <1>27 DEF P!Done, P!vars
<1> QED BY <1>1, <1>2, <1>3, <1>4, <1>5, <1>6, <1>7, <1>8, <1>9, <1>10, <1>11, <1>12, <1>13, <1>14, <1>15, <1>16, <1>17, <1>18, <1>19, <1>20, <1>21, <1>22, <1>23, <1>24, <1>25, <1>26, <1>27 DEF P!Next

\* What is newly behind the parser is the item it inserts, unless the call is lost
\* or the limit is reached.
LEMMA BehindFrom ==
  ASSUME PlaceInv, TxnInv, CoverInv, P!Next, Sound', ~Full, NEW x \in P!GoodItems,
         pc' \in {"finalCommit", "returned"} \/ Behind(x)'
  PROVE  \/ pc \in {"finalCommit", "returned"} \/ Behind(x)
         \/ P!InsertItem /\ x = P!at
<1>1. x \in Nat \X Nat \X Nat /\ x[1] \in Nat /\ x[2] \in Nat \ {0} /\ x[3] \in Nat \ {0}
  BY GoodPlace DEF PlaceInv, P!TypeOK
<1>2. /\ store \in Nat \ {0} /\ block \in Nat \ {0} /\ item \in Nat \ {0} /\ parsed \in Nat
      /\ task.maxRecords \in Nat /\ task.maxBlocks \in Nat
  BY TaskTypes DEF PlaceInv, P!TypeOK, P!at, Places
<1>3. /\ x[1] \in 1..Len(P!Stores) /\ P!Stores[x[1]].kind = "ok"
      /\ x[2] \in P!Reached(x[1]) /\ x[2] \in 1..Len(P!Stores[x[1]].blocks)
      /\ P!Stores[x[1]].blocks[x[2]].read = "ok"
      /\ x[3] \in 1..Len(P!Stores[x[1]].blocks[x[2]].items)
      /\ P!Stores[x[1]].blocks[x[2]].items[x[3]] = "good"
  BY GoodPlace, TaskTypes DEF PlaceInv, P!TypeOK
<1>4. Sound /\ ~poisoned /\ ~limited
  BY SoundStep DEF CoverInv
<1> USE DEF Behind, Inside, InBlock, AtItem, P!Go, P!GoOn, P!at, P!Blocks, P!Items, P!Reading
<1>5. CASE P!Begin
  BY <1>1, <1>2, <1>3, <1>4, <1>5 DEF P!Begin, P!Begins, P!BeginFails, Sound, Between, TxnInv
<1>6. CASE P!RefuseStore
  BY <1>1, <1>2, <1>3, <1>4, <1>6 DEF P!RefuseStore, P!NextStore, P!Refused
<1>7. CASE P!OpenStore
  <2>1. block = 1 /\ pc = "store"
    BY <1>7 DEF P!OpenStore, PlaceInv, Places
  <2> QED BY <1>1, <1>2, <1>3, <1>4, <1>7, <2>1 DEF P!OpenStore, P!Refused
<1>8. CASE P!StoreEscapes
  BY <1>1, <1>2, <1>3, <1>4, <1>8 DEF P!StoreEscapes, P!Escape, P!Rollback, P!InsertFails, Sound, Between
<1>9. CASE P!StoreThrows
  BY <1>1, <1>2, <1>3, <1>4, <1>9 DEF P!StoreThrows, P!InsertFails, Sound, Between
<1>10. CASE P!AllStoresRead
  BY <1>1, <1>2, <1>3, <1>4, <1>10 DEF P!AllStoresRead
<1>11. CASE P!FailStore
  BY <1>1, <1>2, <1>3, <1>4, <1>11 DEF P!FailStore, P!NextStore, P!Escape, P!Rollback, P!InsertFails, Sound, Between
<1>12. CASE P!EndStore
  BY <1>1, <1>2, <1>3, <1>4, <1>12 DEF P!EndStore, P!InsertFails, Sound, Between
<1>13. CASE P!CommitStore
  BY <1>1, <1>2, <1>3, <1>4, <1>13 DEF P!CommitStore, P!Commits, P!CommitFails
<1>14. CASE P!CheckStore
  BY <1>1, <1>2, <1>3, <1>4, <1>14 DEF P!CheckStore, P!CheckSizeAt, P!Escape, P!Rollback
<1>15. CASE P!BeginAfterStore
  BY <1>1, <1>2, <1>3, <1>4, <1>15 DEF P!BeginAfterStore, P!BeginFails
<1>16. CASE P!FinalCommit
  BY <1>1, <1>2, <1>3, <1>4, <1>16 DEF P!FinalCommit, P!Commits, P!Escape, P!Rollback
<1>17. CASE P!AllBlocksRead
  BY <1>1, <1>2, <1>3, <1>4, <1>17 DEF P!AllBlocksRead
<1>18. CASE P!StopAtBlockLimit
  <2>1. /\ blocks = Cardinality(Counted(store, block - 1)) /\ pc = "block" /\ pc' = "endStore" /\ store' = store
        /\ task.maxBlocks > 0 /\ blocks >= task.maxBlocks
        /\ P!Stores[store].blocks[block].read # "badHeader"
    BY <1>18 DEF P!StopAtBlockLimit, P!BlockLimit, PlaceInv, Places
  <2>2. CASE x[1] = store /\ x[2] >= block
    <3>1. Cardinality(Counted(store, block)) = Cardinality(Counted(store, block - 1)) + 1
      BY <1>2, <2>1, CountedBlocks
    <3>2. /\ Cardinality(Counted(store, block)) <= Cardinality(Counted(store, x[2]))
          /\ Cardinality(Counted(store, block)) \in Nat /\ Cardinality(Counted(store, x[2])) \in Nat
      BY <1>1, <1>2, <2>2, CountedBlocks
    <3>3. x[2] \in P!Reached(store) /\ task.maxBlocks # 0
      BY <1>2, <1>3, <2>1, <2>2
    <3>4. x[2] \in P!Reached(store) =>
            task.maxBlocks = 0 \/ Cardinality(Counted(store, x[2])) <= task.maxBlocks
      BY CountedBlocks
    <3>5. blocks \in Nat
      BY DEF PlaceInv, P!TypeOK
    <3> QED BY <1>2, <2>1, <3>1, <3>2, <3>3, <3>4, <3>5
  <2>3. CASE ~(x[1] = store /\ x[2] >= block)
    BY <1>1, <1>2, <2>1, <2>3
  <2> QED BY <2>2, <2>3
<1>19. CASE P!SkipBlock
  BY <1>1, <1>2, <1>3, <1>4, <1>19 DEF P!SkipBlock, P!InsertFails, Sound, Between
<1>20. CASE P!ReadBlock
  BY <1>1, <1>2, <1>3, <1>4, <1>20 DEF P!ReadBlock
<1>21. CASE P!EndBlock
  BY <1>1, <1>2, <1>3, <1>4, <1>21 DEF P!EndBlock, P!LeaveBlock
<1>22. CASE P!InsertItem
  BY <1>1, <1>2, <1>3, <1>4, <1>22 DEF P!InsertItem
<1>23. CASE P!PoisonItem
  BY <1>1, <1>2, <1>3, <1>4, <1>23 DEF P!PoisonItem, P!HalfInsert, P!InsertFails, Sound, Between
<1>24. CASE P!DropPoisonedItem
  BY <1>1, <1>2, <1>3, <1>4, <1>24 DEF P!DropPoisonedItem, P!HalfInsert
<1>25. CASE P!DropItem
  BY <1>1, <1>2, <1>3, <1>4, <1>25 DEF P!DropItem, P!InsertFails, Sound, Between
<1>26. CASE P!CommitBatch
  BY <1>1, <1>2, <1>3, <1>4, <1>26 DEF P!CommitBatch, P!Commits, P!CommitFails
<1>27. CASE P!CheckBatch
  BY <1>1, <1>2, <1>3, <1>4, <1>27 DEF P!CheckBatch, P!CheckSizeAt, P!Escape, P!Rollback, Sound, Between
<1>28. CASE P!BeginBatch
  BY <1>1, <1>2, <1>3, <1>4, <1>28 DEF P!BeginBatch, P!Begins, P!BeginFails
<1>29. CASE P!FailItem
  BY <1>1, <1>2, <1>3, <1>4, <1>29 DEF P!FailItem, P!LeaveBlock, P!InsertFails, Sound, Between
<1>30. CASE P!AfterItem
  <2>1. /\ store' = store /\ block' = block /\ item' = item + 1 /\ pc = "afterItem"
        /\ limited' = Full /\ pc' = IF limited' THEN "endStore" ELSE "item"
    BY <1>30 DEF P!AfterItem, Full
  <2>2. pc' = "item"
    BY <2>1
  <2> QED BY <1>1, <1>2, <2>1, <2>2
<1>31. CASE P!Done
  BY <1>1, <1>2, <1>3, <1>4, <1>31 DEF P!Done, P!vars
<1> QED BY <1>5, <1>6, <1>7, <1>8, <1>9, <1>10, <1>11, <1>12, <1>13, <1>14, <1>15, <1>16, <1>17, <1>18, <1>19, <1>20, <1>21, <1>22, <1>23, <1>24, <1>25, <1>26, <1>27, <1>28, <1>29, <1>30, <1>31 DEF P!Next

\* Every item behind the parser is recorded, and when the limit is reached, every
\* item it lets through.
LEMMA CoverStep ==
  ASSUME PlaceInv, TxnInv, RecordsInv, CoverInv, P!Next
  PROVE  CoverInv'
<1> SUFFICES ASSUME Sound'
             PROVE  /\ ~poisoned' /\ (limited' => Full')
                    /\ Full' => P!Wanted' \subseteq Recorded'
                    /\ ~Full' => \A x \in P!GoodItems' :
                                   pc' \in {"finalCommit", "returned"} \/ Behind(x)' => x \in Recorded'
  BY DEF CoverInv
<1>1. Sound /\ ~poisoned /\ (limited => Full)
  BY SoundStep DEF CoverInv
<1>2. task \in P!Task /\ parsed \in Nat /\ task.maxRecords \in Nat
  BY TaskTypes DEF PlaceInv, P!TypeOK
<1>3. P!GoodItems \subseteq Nat \X Nat \X Nat /\ IsFiniteSet(P!GoodItems)
  BY <1>2, GoodFinite
<1>4. task' = task /\ P!GoodItems' = P!GoodItems /\ P!Wanted' = P!Wanted
  <2>1. task' = task
    BY DEF P!Next, P!Ended, P!Go, P!GoOn, P!vars,
         P!Begin, P!Begins, P!BeginFails, P!RefuseStore, P!NextStore, P!OpenStore, P!StoreEscapes, P!Escape,
         P!Rollback, P!StoreThrows, P!AllStoresRead, P!FailStore, P!EndStore, P!CommitStore, P!Commits,
         P!CommitFails, P!CheckStore, P!CheckSizeAt, P!BeginAfterStore, P!FinalCommit, P!AllBlocksRead,
         P!StopAtBlockLimit, P!SkipBlock, P!ReadBlock, P!EndBlock, P!LeaveBlock, P!InsertItem, P!PoisonItem,
         P!HalfInsert, P!DropPoisonedItem, P!DropItem, P!CommitBatch, P!CheckBatch, P!BeginBatch, P!FailItem,
         P!AfterItem, P!Done, P!vars
  <2> QED BY <2>1, TaskStays
<1>5. Recorded \subseteq Recorded'
  BY RecordedStep, PlaceStep, TxnStep DEF Sound, Between
<1>6. ~P!PoisonItem /\ ~P!DropPoisonedItem
  <2>1. P!PoisonItem => ~txn' /\ pc' = "itemFailed"
    BY DEF P!PoisonItem, P!HalfInsert, P!InsertFails, P!Go
  <2> QED BY <1>1, <2>1 DEF P!DropPoisonedItem, Sound, Between
<1>7. poisoned' = FALSE
  BY <1>1, <1>6 DEF P!Next, P!GoOn, P!vars,
         P!Begin, P!Begins, P!BeginFails, P!RefuseStore, P!NextStore, P!OpenStore, P!StoreEscapes, P!Escape,
         P!Rollback, P!StoreThrows, P!AllStoresRead, P!FailStore, P!EndStore, P!CommitStore, P!Commits,
         P!CommitFails, P!CheckStore, P!CheckSizeAt, P!BeginAfterStore, P!FinalCommit, P!AllBlocksRead,
         P!StopAtBlockLimit, P!SkipBlock, P!ReadBlock, P!EndBlock, P!LeaveBlock, P!InsertItem, P!PoisonItem,
         P!HalfInsert, P!DropPoisonedItem, P!DropItem, P!CommitBatch, P!CheckBatch, P!BeginBatch, P!FailItem,
         P!AfterItem, P!Done, P!vars
<1>8. Full => Full'
  <2>1. parsed' = parsed \/ parsed' = parsed + 1
    BY ParsedStep
  <2> QED BY <1>2, <1>4, <2>1 DEF Full
<1>9. limited' => Full'
  <2>1. limited' => limited \/ (P!AfterItem /\ Full)
    BY DEF P!Next, P!GoOn, P!vars, Full,
         P!Begin, P!Begins, P!BeginFails, P!RefuseStore, P!NextStore, P!OpenStore, P!StoreEscapes, P!Escape,
         P!Rollback, P!StoreThrows, P!AllStoresRead, P!FailStore, P!EndStore, P!CommitStore, P!Commits,
         P!CommitFails, P!CheckStore, P!CheckSizeAt, P!BeginAfterStore, P!FinalCommit, P!AllBlocksRead,
         P!StopAtBlockLimit, P!SkipBlock, P!ReadBlock, P!EndBlock, P!LeaveBlock, P!InsertItem, P!PoisonItem,
         P!HalfInsert, P!DropPoisonedItem, P!DropItem, P!CommitBatch, P!CheckBatch, P!BeginBatch, P!FailItem,
         P!AfterItem, P!Done, P!vars
  <2> QED BY <1>1, <1>8, <2>1
<1>10. ASSUME Full', ~Full
       PROVE  P!Wanted \subseteq Recorded'
  <2>1. P!InsertItem /\ Recorded' = Recorded \cup {P!at}
    BY <1>4, <1>10, ParsedStep, RecordedStep DEF Full
  <2>2. pc = "item" /\ P!at \in P!GoodItems /\ parsed' = parsed + 1
    BY <2>1, AtIsGood, ParsedStep DEF P!InsertItem
  <2>3. \A y \in P!GoodItems : Behind(y) <=> P!Before(y, P!at)
    <3>1. P!at[1] = store /\ P!at[2] = block /\ P!at[3] = item /\ store \in Nat /\ block \in Nat /\ item \in Nat
      BY DEF P!at, PlaceInv, P!TypeOK
    <3>2. ASSUME NEW y \in P!GoodItems
          PROVE  y[1] \in Nat /\ y[2] \in Nat /\ y[3] \in Nat
      BY <1>2, GoodPlace
    <3> QED BY <2>2, <3>1, <3>2 DEF Behind, Inside, InBlock, P!Before
  <2>4. SUFFICES ASSUME NEW x \in P!Wanted, x \notin Recorded'
                 PROVE  FALSE
    OBVIOUS
  <2>5. x \in P!GoodItems /\ P!Before(P!at, x)
    <3>1. x \in P!GoodItems
      BY DEF P!Wanted
    <3>2. ~Behind(x) /\ x # P!at
      BY <1>1, <1>5, <1>10, <2>1, <2>4, <3>1 DEF CoverInv
    <3> QED BY <1>3, <2>2, <2>3, <3>1, <3>2, PlacesOrdered
  <2> DEFINE Ahead == {y \in P!GoodItems : P!Before(y, x)}
  <2>6. Recorded' \subseteq Ahead
    <3>1. ASSUME NEW y \in Recorded
          PROVE  y \in Ahead
      <4>1. y \in P!GoodItems /\ Behind(y)
        BY <2>2 DEF RecordsInv, Over
      <4>2. P!Before(y, P!at)
        BY <2>3, <4>1
      <4> QED BY <1>3, <2>2, <2>5, <4>1, <4>2, PlacesOrdered
    <3> QED BY <2>1, <2>2, <2>5, <3>1
  <2>7. Cardinality(Recorded') <= Cardinality(Ahead) /\ Cardinality(Ahead) \in Nat /\ Cardinality(Recorded') \in Nat
    <3>1. Ahead \in SUBSET P!GoodItems
      OBVIOUS
    <3>2. IsFiniteSet(Ahead)
      BY <1>3, <3>1, FS_Subset
    <3> HIDE DEF Ahead
    <3> QED BY <2>6, <3>2, FS_Subset, FS_CardinalityType
  <2>8. parsed' <= Cardinality(Recorded')
    <3>1. pc' # "threw"
      BY <2>1 DEF P!InsertItem, P!Go
    <3>2. RecordsInv'
      BY RecordsStep
    <3> QED BY <3>1, <3>2 DEF RecordsInv
  <2>9. task.maxRecords = 0 \/ Cardinality(Ahead) < task.maxRecords
    BY <2>4, SameCardinality DEF P!Wanted
  <2> HIDE DEF Ahead
  <2> QED BY <1>2, <1>4, <1>10, <2>2, <2>7, <2>8, <2>9 DEF Full
<1>11. Full' => P!Wanted \subseteq Recorded'
  BY <1>1, <1>5, <1>10 DEF CoverInv
<1>12. ASSUME ~Full', NEW x \in P!GoodItems, pc' \in {"finalCommit", "returned"} \/ Behind(x)'
       PROVE  x \in Recorded'
  <2>1. ~Full
    BY <1>8, <1>12
  <2>2. \/ pc \in {"finalCommit", "returned"} \/ Behind(x)
        \/ P!InsertItem /\ x = P!at
    BY <1>12, <2>1, BehindFrom
  <2>3. CASE pc \in {"finalCommit", "returned"} \/ Behind(x)
    BY <1>1, <1>5, <2>1, <2>3 DEF CoverInv
  <2>4. CASE P!InsertItem /\ x = P!at
    BY <2>4, RowsChange, RecordsOfRows DEF P!InsertItem
  <2> QED BY <2>2, <2>3, <2>4
<1> QED BY <1>4, <1>7, <1>9, <1>11, <1>12

\* With the database to itself no statement fails.
LEMMA NothingFails ==
  ASSUME P!Alone
  PROVE  ~P!InsertFails /\ ~P!BeginFails /\ (txn => ~P!CommitFails)
BY DEF P!Alone, P!InsertFails, P!BeginFails, P!CommitFails

\* With the database to itself the parser stops at the limit, with the items that
\* are wanted.
LEMMA AloneStep ==
  ASSUME PlaceInv, TxnInv, RecordsInv, CoverInv, AloneInv, P!Next
  PROVE  AloneInv'
<1>1. task \in P!Task /\ parsed \in Nat /\ task.maxRecords \in Nat
  BY TaskTypes DEF PlaceInv, P!TypeOK
<1>2. P!GoodItems \subseteq Nat \X Nat \X Nat /\ IsFiniteSet(P!GoodItems)
  BY <1>1, GoodFinite
<1>3. task' = task /\ P!Wanted' = P!Wanted /\ P!Alone' = P!Alone
  <2>1. task' = task
    BY DEF P!Next, P!Ended, P!Go, P!GoOn, P!vars,
         P!Begin, P!Begins, P!BeginFails, P!RefuseStore, P!NextStore, P!OpenStore, P!StoreEscapes, P!Escape,
         P!Rollback, P!StoreThrows, P!AllStoresRead, P!FailStore, P!EndStore, P!CommitStore, P!Commits,
         P!CommitFails, P!CheckStore, P!CheckSizeAt, P!BeginAfterStore, P!FinalCommit, P!AllBlocksRead,
         P!StopAtBlockLimit, P!SkipBlock, P!ReadBlock, P!EndBlock, P!LeaveBlock, P!InsertItem, P!PoisonItem,
         P!HalfInsert, P!DropPoisonedItem, P!DropItem, P!CommitBatch, P!CheckBatch, P!BeginBatch, P!FailItem,
         P!AfterItem, P!Done, P!vars
  <2> QED BY <2>1, TaskStays
<1> SUFFICES ASSUME P!Alone
             PROVE  /\ txn' \/ pc' \in Between \cup {"begin", "returned", "aborted"}
                    /\ pc' # "threw"
                    /\ Recorded' \subseteq P!Wanted
                    /\ Cardinality(Recorded') <= parsed'
                    /\ Full' /\ pc' \notin {"afterItem", "batchCommit", "batchCheck", "batchBegin",
                                            "finalCommit", "returned", "aborted"} => limited' /\ pc' \in AfterStore
  BY <1>3 DEF AloneInv
<1>4. /\ txn \/ pc \in Between \cup {"begin", "returned", "aborted"}
      /\ pc # "threw" /\ ~P!InsertFails /\ ~P!BeginFails /\ (txn => ~P!CommitFails)
  BY NothingFails DEF AloneInv
<1>5. /\ txn' \/ pc' \in Between \cup {"begin", "returned", "aborted"}
      /\ pc' # "threw"
  <2> USE DEF Between, P!Go, P!GoOn
  <2>1. CASE P!Begin
    BY <1>4, <2>1 DEF P!Begin, P!Begins
  <2>2. CASE P!RefuseStore
    BY <1>4, <2>2 DEF P!RefuseStore, P!NextStore
  <2>3. CASE P!OpenStore
    BY <1>4, <2>3 DEF P!OpenStore
  <2>4. CASE P!StoreEscapes
    BY <1>4, <2>4 DEF P!StoreEscapes, P!Escape, P!Rollback
  <2>5. CASE P!StoreThrows
    BY <1>4, <2>5 DEF P!StoreThrows
  <2>6. CASE P!AllStoresRead
    BY <1>4, <2>6 DEF P!AllStoresRead
  <2>7. CASE P!FailStore
    BY <1>4, <2>7 DEF P!FailStore, P!NextStore, P!Escape, P!Rollback
  <2>8. CASE P!EndStore
    BY <1>4, <2>8 DEF P!EndStore
  <2>9. CASE P!CommitStore
    BY <1>4, <2>9 DEF P!CommitStore, P!Commits
  <2>10. CASE P!CheckStore
    BY <1>4, <2>10 DEF P!CheckStore, P!CheckSizeAt, P!Escape, P!Rollback
  <2>11. CASE P!BeginAfterStore
    BY <1>4, <2>11 DEF P!BeginAfterStore
  <2>12. CASE P!FinalCommit
    BY <1>4, <2>12 DEF P!FinalCommit, P!Commits, P!Escape, P!Rollback, P!Alone
  <2>13. CASE P!AllBlocksRead
    BY <1>4, <2>13 DEF P!AllBlocksRead
  <2>14. CASE P!StopAtBlockLimit
    BY <1>4, <2>14 DEF P!StopAtBlockLimit
  <2>15. CASE P!SkipBlock
    <3>1. txn' = txn /\ pc' = "block" /\ pc = "block"
      BY <1>4, <2>15 DEF P!SkipBlock
    <3> QED BY <1>4, <3>1
  <2>16. CASE P!ReadBlock
    BY <1>4, <2>16 DEF P!ReadBlock
  <2>17. CASE P!EndBlock
    BY <1>4, <2>17 DEF P!EndBlock, P!LeaveBlock
  <2>18. CASE P!InsertItem
    BY <1>4, <2>18 DEF P!InsertItem
  <2>19. CASE P!PoisonItem
    BY <1>4, <2>19 DEF P!PoisonItem, P!HalfInsert
  <2>20. CASE P!DropPoisonedItem
    <3>1. txn' = txn /\ pc' = "itemFailed" /\ pc = "item"
      BY <2>20 DEF P!DropPoisonedItem, P!HalfInsert
    <3> QED BY <1>4, <3>1
  <2>21. CASE P!DropItem
    BY <1>4, <2>21 DEF P!DropItem
  <2>22. CASE P!CommitBatch
    BY <1>4, <2>22 DEF P!CommitBatch, P!Commits
  <2>23. CASE P!CheckBatch
    BY <1>4, <2>23 DEF P!CheckBatch, P!CheckSizeAt, P!Escape, P!Rollback
  <2>24. CASE P!BeginBatch
    BY <1>4, <2>24 DEF P!BeginBatch, P!Begins
  <2>25. CASE P!FailItem
    BY <1>4, <2>25 DEF P!FailItem, P!LeaveBlock
  <2>26. CASE P!AfterItem
    BY <1>4, <2>26 DEF P!AfterItem
  <2>27. CASE P!Done
    BY <1>4, <2>27 DEF P!Done, P!vars
  <2> QED BY <2>1, <2>2, <2>3, <2>4, <2>5, <2>6, <2>7, <2>8, <2>9, <2>10, <2>11, <2>12, <2>13, <2>14, <2>15, <2>16, <2>17, <2>18, <2>19, <2>20, <2>21, <2>22, <2>23, <2>24, <2>25, <2>26, <2>27 DEF P!Next
<1>6. pc \notin {"aborted", "returned", "finalCommit"} => Sound
  BY <1>4 DEF Sound, Between
<1>7. ~P!PoisonItem /\ ~P!DropPoisonedItem
  <2>1. P!DropPoisonedItem => poisoned /\ Sound
    BY <1>6 DEF P!DropPoisonedItem
  <2> QED BY <1>4, <2>1 DEF P!PoisonItem, CoverInv
<1>8. CASE P!InsertItem
  <2>1. pc = "item" /\ P!at \in P!GoodItems /\ parsed' = parsed + 1 /\ Recorded' = Recorded \cup {P!at}
        /\ pc' \in {"batchCommit", "afterItem"}
    <3> QED BY <1>8, AtIsGood, ParsedStep, RowsChange, RecordsOfRows DEF P!InsertItem, P!Go
  <2>2. ~Full
    BY <2>1 DEF AloneInv, AfterStore
  <2> DEFINE Ahead == {y \in P!GoodItems : P!Before(y, P!at)}
  <2>3. Ahead \subseteq Recorded
    <3>1. ASSUME NEW y \in P!GoodItems, P!Before(y, P!at)
          PROVE  Behind(y)
      <4>1. P!at[1] = store /\ P!at[2] = block /\ P!at[3] = item /\ store \in Nat /\ block \in Nat /\ item \in Nat
        BY DEF P!at, PlaceInv, P!TypeOK
      <4>2. y[1] \in Nat /\ y[2] \in Nat /\ y[3] \in Nat
        BY <1>1, GoodPlace
      <4> QED BY <2>1, <3>1, <4>1, <4>2 DEF Behind, Inside, InBlock, P!Before
    <3> QED BY <1>6, <2>1, <2>2, <3>1 DEF CoverInv
  <2>4. IsFiniteSet(Recorded) /\ Cardinality(Recorded) \in Nat /\ Cardinality(Recorded) <= parsed
    BY <1>2, FS_Subset, FS_CardinalityType DEF RecordsInv, AloneInv
  <2>5. Cardinality(Ahead) <= Cardinality(Recorded) /\ Cardinality(Ahead) \in Nat
    <3> HIDE DEF Ahead
    <3> QED BY <2>3, <2>4, FS_Subset, FS_CardinalityType
  <2>6. P!at \in P!Wanted
    <3>1. task.maxRecords = 0 \/ Cardinality(Ahead) < task.maxRecords
      <4> HIDE DEF Ahead
      <4> QED BY <1>1, <2>2, <2>4, <2>5 DEF Full
    <3> QED BY <2>1, <3>1, SameCardinality DEF P!Wanted
  <2>7. Cardinality(Recorded') <= parsed'
    <3>1. Cardinality(Recorded') = IF P!at \in Recorded THEN Cardinality(Recorded) ELSE Cardinality(Recorded) + 1
      BY <2>1, <2>4, FS_AddElement
    <3> QED BY <1>1, <2>1, <2>4, <3>1
  <2> QED BY <1>5, <2>1, <2>6, <2>7 DEF AloneInv, AfterStore
<1>9. CASE ~P!InsertItem
  <2>1. Recorded' = Recorded /\ parsed' = parsed
    BY <1>5, <1>7, <1>9, RecordedStep, ParsedStep
  <2>2. Full' <=> Full
    BY <1>3, <2>1 DEF Full
  <2>3. ASSUME Full, pc' \notin {"afterItem", "batchCommit", "batchCheck", "batchBegin",
                                 "finalCommit", "returned", "aborted"}
        PROVE  limited' /\ pc' \in AfterStore
    <3>1. \/ pc \in {"afterItem", "batchCommit", "batchCheck", "batchBegin", "finalCommit", "returned", "aborted"}
          \/ limited /\ pc \in AfterStore
      BY <2>3 DEF AloneInv
    <3> USE DEF AfterStore, P!Go, P!GoOn, Between
    <3>2. CASE P!Begin
      BY <1>4, <2>3, <3>1, <3>2 DEF P!Begin, P!Begins
    <3>3. CASE P!RefuseStore
      BY <1>4, <2>3, <3>1, <3>3 DEF P!RefuseStore, P!NextStore
    <3>4. CASE P!OpenStore
      BY <1>4, <2>3, <3>1, <3>4 DEF P!OpenStore
    <3>5. CASE P!StoreEscapes
      BY <1>4, <2>3, <3>1, <3>5 DEF P!StoreEscapes, P!Escape, P!Rollback
    <3>6. CASE P!StoreThrows
      BY <1>4, <2>3, <3>1, <3>6 DEF P!StoreThrows
    <3>7. CASE P!AllStoresRead
      BY <1>4, <2>3, <3>1, <3>7 DEF P!AllStoresRead
    <3>8. CASE P!FailStore
      BY <1>4, <2>3, <3>1, <3>8 DEF P!FailStore, P!NextStore, P!Escape, P!Rollback
    <3>9. CASE P!EndStore
      BY <1>4, <2>3, <3>1, <3>9 DEF P!EndStore
    <3>10. CASE P!CommitStore
      BY <1>4, <2>3, <3>1, <3>10 DEF P!CommitStore, P!Commits
    <3>11. CASE P!CheckStore
      BY <1>4, <2>3, <3>1, <3>11 DEF P!CheckStore, P!CheckSizeAt, P!Escape, P!Rollback
    <3>12. CASE P!BeginAfterStore
      BY <1>4, <2>3, <3>1, <3>12 DEF P!BeginAfterStore
    <3>13. CASE P!FinalCommit
      BY <1>4, <2>3, <3>1, <3>13 DEF P!FinalCommit, P!Commits, P!Escape, P!Rollback, P!Alone
    <3>14. CASE P!AllBlocksRead
      BY <1>4, <2>3, <3>1, <3>14 DEF P!AllBlocksRead
    <3>15. CASE P!StopAtBlockLimit
      BY <1>4, <2>3, <3>1, <3>15 DEF P!StopAtBlockLimit
    <3>16. CASE P!SkipBlock
      BY <1>4, <2>3, <3>1, <3>16 DEF P!SkipBlock
    <3>17. CASE P!ReadBlock
      BY <1>4, <2>3, <3>1, <3>17 DEF P!ReadBlock
    <3>18. CASE P!EndBlock
      BY <1>4, <2>3, <3>1, <3>18 DEF P!EndBlock, P!LeaveBlock
    <3>19. CASE P!DropItem
      BY <1>4, <2>3, <3>1, <3>19 DEF P!DropItem
    <3>20. CASE P!CommitBatch
      BY <1>4, <2>3, <3>1, <3>20 DEF P!CommitBatch, P!Commits
    <3>21. CASE P!CheckBatch
      BY <1>4, <2>3, <3>1, <3>21 DEF P!CheckBatch, P!CheckSizeAt, P!Escape, P!Rollback
    <3>22. CASE P!BeginBatch
      BY <1>4, <2>3, <3>1, <3>22 DEF P!BeginBatch, P!Begins
    <3>23. CASE P!FailItem
      BY <1>4, <2>3, <3>1, <3>23 DEF P!FailItem, P!LeaveBlock
    <3>24. CASE P!AfterItem
      BY <1>4, <2>3, <3>1, <3>24 DEF P!AfterItem, Full
    <3>25. CASE P!Done
      BY <1>4, <2>3, <3>1, <3>25 DEF P!Done, P!vars
    <3> QED BY <1>7, <1>9, <3>2, <3>3, <3>4, <3>5, <3>6, <3>7, <3>8, <3>9, <3>10, <3>11, <3>12, <3>13, <3>14, <3>15, <3>16, <3>17, <3>18, <3>19, <3>20, <3>21, <3>22, <3>23, <3>24, <3>25 DEF P!Next
  <2> QED BY <1>5, <2>1, <2>2, <2>3 DEF AloneInv
<1> QED BY <1>8, <1>9

\* A count passes a multiple of the batch one by one.
LEMMA CountOfBatch ==
  ASSUME NEW n \in Nat, NEW m \in Nat \ {0}
  PROVE  /\ n % m \in 0..(m - 1) /\ (n + 1) % m \in 0..(m - 1)
         /\ IF (n + 1) % m = 0 THEN (n % m) + 1 = m ELSE (n + 1) % m = (n % m) + 1
<1>1. ASSUME NEW k \in Nat
      PROVE  k % m \in 0..(m - 1) /\ k \div m \in Int /\ k = m * (k \div m) + (k % m)
  <2>1. k % m \in 0..(m - 1)
    OBVIOUS
  <2>2. k \div m \in Int
    OBVIOUS
  <2>3. k = m * (k \div m) + (k % m)
    OBVIOUS
  <2> QED BY <2>1, <2>2, <2>3
<1>2. PICK q \in Int : n = m * q + (n % m)
  BY <1>1
<1>3. PICK p \in Int : n + 1 = m * p + ((n + 1) % m)
  <2>1. n + 1 \in Nat
    OBVIOUS
  <2>2. (n + 1) \div m \in Int /\ n + 1 = m * ((n + 1) \div m) + ((n + 1) % m)
    BY <1>1, <2>1, Zenon
  <2> QED BY <2>2, Zenon
<1>4. n % m \in 0..(m - 1) /\ (n + 1) % m \in 0..(m - 1)
  BY <1>1
<1>5. ASSUME NEW r \in 0..(m - 1), NEW t \in 0..(m - 1), n = m * q + r, n + 1 = m * p + t
      PROVE  IF t = 0 THEN r + 1 = m ELSE t = r + 1
  <2>1. m * (p - q) = r + 1 - t
    BY <1>5
  <2>2. CASE p - q >= 2
    <3>1. m * (p - q) >= m * 2
      BY <2>2
    <3> QED BY <2>1, <3>1
  <2>3. CASE p - q <= -1
    <3>1. m * (p - q) <= m * (-1)
      BY <2>3
    <3> QED BY <2>1, <3>1
  <2>4. CASE p - q = 0
    BY <2>1, <2>4
  <2>5. CASE p - q = 1
    BY <2>1, <2>5
  <2> QED BY <2>2, <2>3, <2>4, <2>5
<1> QED BY <1>2, <1>3, <1>4, <1>5

\* With the database to itself a step that inserts no record adds none to those
\* that wait for a commit.
LEMMA PendingStep ==
  ASSUME PlaceInv, TxnInv, AloneInv, CoverInv, P!Next, P!Alone
  PROVE  /\ P!InsertItem => P!Records(pending)' = P!Records(pending) \cup {P!at} /\ pc' \in {"batchCommit", "afterItem"}
         /\ ~P!InsertItem => /\ P!Records(pending)' = P!Records(pending) \/ P!Records(pending)' = {}
                             /\ pc' # "batchCommit"
         /\ pc = "batchCommit" => P!Records(pending)' = {}
<1>1. P!Records(pending)' = P!Records(pending')
  BY DEF P!Records
<1>2. /\ txn \/ pc \in Between \cup {"begin", "returned", "aborted"}
      /\ pc # "threw" /\ ~P!InsertFails /\ ~P!BeginFails /\ (txn => ~P!CommitFails)
  BY NothingFails DEF AloneInv
<1>3. ~P!PoisonItem /\ ~P!DropPoisonedItem
  BY <1>2 DEF P!DropPoisonedItem, P!PoisonItem, CoverInv, Sound, Between
<1>e. P!Records({}) = {}
  BY RecordsOfRows
<1>i. ASSUME NEW D, P!Insert(D), P!Records(D) = {}
      PROVE  P!Records(pending') = P!Records(pending)
  BY <1>i, RecordsOfRows, RowsChange
<1>u. UNCHANGED P!data => pending' = pending
  BY DEF P!data
<1>c. P!Commits \/ P!Rollback => pending' = {}
  BY DEF P!Commits, P!Rollback
<1>d. P!Records({P!Row("failure")}) = {} /\ P!Records({P!Row("SUCCESS")}) = {}
      /\ P!Records({P!Row("failure"), P!Row("FAILED")}) = {}
  BY RecordsOfRows
<1> DEFINE Goal == (P!Records(pending') = P!Records(pending) \/ P!Records(pending') = {}) /\ pc' # "batchCommit"
                   /\ (pc = "batchCommit" => P!Records(pending') = {})
<1>4. CASE P!InsertItem
  <2>1. txn /\ pc' \in {"batchCommit", "afterItem"} /\ pc = "item"
    BY <1>2, <1>4 DEF P!InsertItem, P!Go, Between
  <2>2. pending' = pending \cup {P!Row("record")}
    BY <1>4, <2>1, RowsChange DEF P!InsertItem
  <2> QED BY <1>1, <1>4, <2>1, <2>2, RecordsOfRows
<1> USE DEF P!Go, P!GoOn, Between
<1>5. P!Begin => Goal
  BY <1>2, <1>u, <1>e DEF P!Begin, P!Begins
<1>6. P!RefuseStore => Goal
  BY <1>2, <1>u, <1>e, <1>i, <1>d DEF P!RefuseStore, P!NextStore
<1>7. P!OpenStore => Goal
  BY <1>2, <1>u, <1>e DEF P!OpenStore
<1>8. P!StoreEscapes => Goal
  BY <1>2, <1>u, <1>e, <1>c DEF P!StoreEscapes, P!Escape
<1>9. P!StoreThrows => Goal
  BY <1>2, <1>u, <1>e DEF P!StoreThrows
<1>10. P!AllStoresRead => Goal
  BY <1>2, <1>u, <1>e DEF P!AllStoresRead
<1>11. P!FailStore => Goal
  BY <1>2, <1>u, <1>e, <1>i, <1>d, <1>c DEF P!FailStore, P!NextStore, P!Escape
<1>12. P!EndStore => Goal
  BY <1>2, <1>u, <1>e, <1>i, <1>d DEF P!EndStore
<1>13. P!CommitStore => Goal
  BY <1>2, <1>u, <1>e, <1>c DEF P!CommitStore
<1>14. P!CheckStore => Goal
  BY <1>2, <1>u, <1>e, <1>c DEF P!CheckStore, P!CheckSizeAt, P!Escape
<1>15. P!BeginAfterStore => Goal
  BY <1>2, <1>u, <1>e DEF P!BeginAfterStore
<1>16. P!FinalCommit => Goal
  BY <1>2, <1>u, <1>e, <1>c DEF P!FinalCommit, P!Escape
<1>17. P!AllBlocksRead => Goal
  BY <1>2, <1>u, <1>e DEF P!AllBlocksRead
<1>18. P!StopAtBlockLimit => Goal
  BY <1>2, <1>u, <1>e DEF P!StopAtBlockLimit
<1>19. P!SkipBlock => Goal
  BY <1>2, <1>u, <1>e, <1>i, <1>d DEF P!SkipBlock
<1>20. P!ReadBlock => Goal
  BY <1>2, <1>u, <1>e DEF P!ReadBlock
<1>21. P!EndBlock => Goal
  BY <1>2, <1>u, <1>e DEF P!EndBlock, P!LeaveBlock
<1>22. P!DropItem => Goal
  BY <1>2, <1>u, <1>e DEF P!DropItem
<1>23. P!CommitBatch => Goal
  BY <1>2, <1>u, <1>e, <1>c DEF P!CommitBatch
<1>24. P!CheckBatch => Goal
  BY <1>2, <1>u, <1>e, <1>c DEF P!CheckBatch, P!CheckSizeAt, P!Escape
<1>25. P!BeginBatch => Goal
  BY <1>2, <1>u, <1>e DEF P!BeginBatch, P!Begins
<1>26. P!FailItem => Goal
  BY <1>2, <1>u, <1>e, <1>i, <1>d DEF P!FailItem, P!LeaveBlock
<1>27. P!AfterItem => Goal
  BY <1>2, <1>u, <1>e DEF P!AfterItem
<1>28. P!Done => Goal
  BY <1>2, <1>u, <1>e DEF P!Done, P!vars, P!Ended
<1>29. CASE ~P!InsertItem
  <2>1. Goal
    BY <1>3, <1>29, <1>5, <1>6, <1>7, <1>8, <1>9, <1>10, <1>11, <1>12, <1>13, <1>14, <1>15, <1>16, <1>17, <1>18, <1>19, <1>20, <1>21, <1>22, <1>23, <1>24, <1>25, <1>26, <1>27, <1>28 DEF P!Next
  <2> QED BY <1>1, <1>29, <2>1
<1> QED BY <1>4, <1>29

\* With the database to itself at most a batch of records waits for a commit.
LEMMA BatchStep ==
  ASSUME PlaceInv, TxnInv, RecordsInv, CoverInv, AloneInv, BatchInv, P!Next, P!BatchAssumption
  PROVE  BatchInv'
<1>1. P!Alone' = P!Alone
  <2>1. task' = task
    BY DEF P!Next, P!Ended, P!Go, P!GoOn, P!vars,
         P!Begin, P!Begins, P!BeginFails, P!RefuseStore, P!NextStore, P!OpenStore, P!StoreEscapes, P!Escape,
         P!Rollback, P!StoreThrows, P!AllStoresRead, P!FailStore, P!EndStore, P!CommitStore, P!Commits,
         P!CommitFails, P!CheckStore, P!CheckSizeAt, P!BeginAfterStore, P!FinalCommit, P!AllBlocksRead,
         P!StopAtBlockLimit, P!SkipBlock, P!ReadBlock, P!EndBlock, P!LeaveBlock, P!InsertItem, P!PoisonItem,
         P!HalfInsert, P!DropPoisonedItem, P!DropItem, P!CommitBatch, P!CheckBatch, P!BeginBatch, P!FailItem,
         P!AfterItem, P!Done, P!vars
  <2> QED BY <2>1, TaskStays
<1> SUFFICES ASSUME P!Alone
             PROVE  /\ Cardinality(P!Records(pending)') <= IF pc' = "batchCommit" THEN Batch ELSE parsed' % Batch
                    /\ pc' = "batchCommit" => parsed' % Batch = 0
  BY <1>1 DEF BatchInv
<1>2. parsed \in Nat /\ Batch \in Nat \ {0} /\ task \in P!Task
  BY DEF PlaceInv, P!TypeOK, P!BatchAssumption
<1>3. IsFiniteSet(P!Records(pending)) /\ Cardinality(P!Records(pending)) \in Nat
  <2>1. P!Records(pending) \subseteq P!GoodItems
    BY RecordsOfRows DEF RecordsInv, Recorded
  <2>2. IsFiniteSet(P!GoodItems)
    BY <1>2, GoodFinite
  <2> QED BY <2>1, <2>2, FS_Subset, FS_CardinalityType
<1>4. Cardinality({}) = 0
  BY FS_EmptySet
<1>5. parsed % Batch \in Nat /\ (parsed + 1) % Batch \in Nat
      /\ IF (parsed + 1) % Batch = 0 THEN (parsed % Batch) + 1 = Batch ELSE (parsed + 1) % Batch = (parsed % Batch) + 1
  <2>1. /\ parsed % Batch \in 0..(Batch - 1) /\ (parsed + 1) % Batch \in 0..(Batch - 1)
        /\ IF (parsed + 1) % Batch = 0 THEN (parsed % Batch) + 1 = Batch ELSE (parsed + 1) % Batch = (parsed % Batch) + 1
    BY <1>2, CountOfBatch, Zenon
  <2> QED BY <1>2, <2>1
<1>6. CASE P!InsertItem
  <2>1. /\ pc = "item" /\ parsed' = parsed + 1
        /\ pc' = IF (parsed + 1) % Batch = 0 THEN "batchCommit" ELSE "afterItem"
    BY <1>6 DEF P!InsertItem, P!Go
  <2>2. Cardinality(P!Records(pending)) <= parsed % Batch
    BY <2>1 DEF BatchInv
  <2>3. Cardinality(P!Records(pending)') <= Cardinality(P!Records(pending)) + 1
        /\ Cardinality(P!Records(pending)') \in Nat
    <3>1. P!Records(pending)' = P!Records(pending) \cup {P!at}
      BY <1>6, PendingStep
    <3> QED BY <1>3, <3>1, FS_AddElement
  <2> QED BY <1>2, <1>3, <1>5, <2>1, <2>2, <2>3
<1>7. CASE ~P!InsertItem
  <2>1. parsed' = parsed /\ pc' # "batchCommit"
    BY <1>7, ParsedStep, PendingStep
  <2>2. CASE P!Records(pending)' = {}
    BY <1>4, <1>5, <2>1, <2>2
  <2>3. CASE P!Records(pending)' # {}
    <3>1. P!Records(pending)' = P!Records(pending) /\ pc # "batchCommit"
      BY <1>7, <2>3, PendingStep
    <3> QED BY <2>1, <3>1 DEF BatchInv
  <2> QED BY <2>2, <2>3
<1> QED BY <1>6, <1>7

\* With the database to itself a store gets its verdict where the parser leaves it.
LEMMA VerdictStep ==
  ASSUME PlaceInv, TxnInv, CoverInv, AloneInv, VerdictInv, P!Next
  PROVE  VerdictInv'
<1>1. P!Alone' = P!Alone
  <2>1. task' = task
    BY DEF P!Next, P!Ended, P!Go, P!GoOn, P!vars,
         P!Begin, P!Begins, P!BeginFails, P!RefuseStore, P!NextStore, P!OpenStore, P!StoreEscapes, P!Escape,
         P!Rollback, P!StoreThrows, P!AllStoresRead, P!FailStore, P!EndStore, P!CommitStore, P!Commits,
         P!CommitFails, P!CheckStore, P!CheckSizeAt, P!BeginAfterStore, P!FinalCommit, P!AllBlocksRead,
         P!StopAtBlockLimit, P!SkipBlock, P!ReadBlock, P!EndBlock, P!LeaveBlock, P!InsertItem, P!PoisonItem,
         P!HalfInsert, P!DropPoisonedItem, P!DropItem, P!CommitBatch, P!CheckBatch, P!BeginBatch, P!FailItem,
         P!AfterItem, P!Done, P!vars
  <2> QED BY <2>1, TaskStays
<1> DEFINE Told == {"storeCommit", "storeCheck", "storeBegin", "finalCommit", "returned", "aborted"}
           Verdict(w) == w \in {"SUCCESS", "FAILED"}
           Good_ == /\ \A r \in Verdicts : r.at[1] <= store
                    /\ pc \notin Told => \A r \in Verdicts : r.at[1] < store
                    /\ \A r1, r2 \in Verdicts : r1.at[1] = r2.at[1] => r1 = r2
<1> SUFFICES ASSUME P!Alone
             PROVE  Good_'
  BY <1>1 DEF VerdictInv
<1>2. Good_
  BY DEF VerdictInv
<1>3. store \in Nat /\ \A r \in Verdicts : r.at[1] \in Nat
  BY DEF PlaceInv, P!TypeOK, P!at, Verdicts
<1>4. /\ txn \/ pc \in Between \cup {"begin", "returned", "aborted"}
      /\ pc # "threw" /\ ~P!InsertFails /\ ~P!BeginFails /\ (txn => ~P!CommitFails)
  BY NothingFails DEF AloneInv
<1>5. ~P!PoisonItem /\ ~P!DropPoisonedItem
  BY <1>4 DEF P!DropPoisonedItem, P!PoisonItem, CoverInv, Sound, Between
\* Nothing is told, and the parser goes on in the store.
<1>k. ASSUME Verdicts' \subseteq Verdicts, store' \in {store, store + 1}, pc \in Told => (pc' \in Told \/ store' = store + 1)
      PROVE  Good_'
  BY <1>2, <1>3, <1>k
<1>t. ASSUME NEW w, Verdict(w), Verdicts' = Verdicts \cup {P!Row(w)}, pc \notin Told,
             (store' = store + 1) \/ (store' = store /\ pc' \in Told)
      PROVE  Good_'
  <2>1. P!Row(w).at[1] = store
    BY DEF P!Row, P!at
  <2> QED BY <1>2, <1>3, <1>t, <2>1
<1>v. Verdicts = {r \in pending \cup saved : Verdict(r.what)} /\ Verdicts' = {r \in (pending \cup saved)' : Verdict(r.what)}
  BY DEF Verdicts
<1>w. \A w : P!Row(w).what = w
  BY DEF P!Row
<1> HIDE DEF Good_
<1>i. /\ \A D : P!Insert(D) => (pending \cup saved)' = pending \cup saved \cup D
      /\ P!Insert({P!Row("record")}) \/ P!Insert({P!Row("failure")}) => Verdicts' = Verdicts
      /\ P!Insert({P!Row("SUCCESS")}) => Verdicts' = Verdicts \cup {P!Row("SUCCESS")}
      /\ P!Insert({P!Row("failure"), P!Row("FAILED")}) => Verdicts' = Verdicts \cup {P!Row("FAILED")}
  <2>1. \A D : P!Insert(D) => (pending \cup saved)' = pending \cup saved \cup D
    BY RowsChange
  <2> QED BY <1>v, <1>w, <2>1
<1>u. UNCHANGED P!data => Verdicts' = Verdicts
  BY DEF P!data, Verdicts
<1>c. P!Commits => Verdicts' = Verdicts
  BY <1>v, RowsChange
<1>r. P!Rollback => Verdicts' \subseteq Verdicts
  BY DEF P!Rollback, Verdicts
<1> USE DEF P!Go, P!GoOn, P!at
<1> HIDE DEF Verdict
<1>6. CASE P!Begin
  <2>1. /\ Verdicts' \subseteq Verdicts /\ store' \in {store, store + 1}
        /\ pc \in Told => (pc' \in Told \/ store' = store + 1)
    BY <1>4, <1>u, <1>6 DEF P!Begin, P!Begins, Between
  <2> QED BY <1>k, <2>1
<1>7. CASE P!RefuseStore
  <2>1. /\ Verdicts' = Verdicts \cup {P!Row("FAILED")} /\ pc \notin Told
        /\ (store' = store + 1) \/ (store' = store /\ pc' \in Told)
    BY <1>4, <1>i, <1>7 DEF P!RefuseStore, P!NextStore
  <2>2. Verdict("FAILED")
    BY DEF Verdict
  <2> QED BY <1>t, <2>1, <2>2
<1>8. CASE P!OpenStore
  <2>1. /\ Verdicts' \subseteq Verdicts /\ store' \in {store, store + 1}
        /\ pc \in Told => (pc' \in Told \/ store' = store + 1)
    BY <1>4, <1>u, <1>8 DEF P!OpenStore, Between
  <2> QED BY <1>k, <2>1
<1>9. CASE P!StoreEscapes
  <2>1. /\ Verdicts' \subseteq Verdicts /\ store' \in {store, store + 1}
        /\ pc \in Told => (pc' \in Told \/ store' = store + 1)
    BY <1>4, <1>u, <1>r, <1>9 DEF P!StoreEscapes, P!Escape, Between
  <2> QED BY <1>k, <2>1
<1>10. CASE P!StoreThrows
  <2>1. /\ Verdicts' \subseteq Verdicts /\ store' \in {store, store + 1}
        /\ pc \in Told => (pc' \in Told \/ store' = store + 1)
    BY <1>4, <1>u, <1>10 DEF P!StoreThrows, Between
  <2> QED BY <1>k, <2>1
<1>11. CASE P!AllStoresRead
  <2>1. /\ Verdicts' \subseteq Verdicts /\ store' \in {store, store + 1}
        /\ pc \in Told => (pc' \in Told \/ store' = store + 1)
    BY <1>4, <1>u, <1>11 DEF P!AllStoresRead, Between
  <2> QED BY <1>k, <2>1
<1>12. CASE P!FailStore
  <2>1. /\ Verdicts' = Verdicts \cup {P!Row("FAILED")} /\ pc \notin Told
        /\ (store' = store + 1) \/ (store' = store /\ pc' \in Told)
    BY <1>4, <1>i, <1>12 DEF P!FailStore, P!NextStore, P!Escape
  <2>2. Verdict("FAILED")
    BY DEF Verdict
  <2> QED BY <1>t, <2>1, <2>2
<1>13. CASE P!EndStore
  <2>1. /\ Verdicts' = Verdicts \cup {P!Row("SUCCESS")} /\ pc \notin Told
        /\ (store' = store + 1) \/ (store' = store /\ pc' \in Told)
    BY <1>4, <1>i, <1>13 DEF P!EndStore
  <2>2. Verdict("SUCCESS")
    BY DEF Verdict
  <2> QED BY <1>t, <2>1, <2>2
<1>14. CASE P!CommitStore
  <2>1. /\ Verdicts' \subseteq Verdicts /\ store' \in {store, store + 1}
        /\ pc \in Told => (pc' \in Told \/ store' = store + 1)
    BY <1>4, <1>u, <1>c, <1>14 DEF P!CommitStore, Between
  <2> QED BY <1>k, <2>1
<1>15. CASE P!CheckStore
  <2>1. /\ Verdicts' \subseteq Verdicts /\ store' \in {store, store + 1}
        /\ pc \in Told => (pc' \in Told \/ store' = store + 1)
    BY <1>4, <1>u, <1>r, <1>15 DEF P!CheckStore, P!CheckSizeAt, P!Escape, Between
  <2> QED BY <1>k, <2>1
<1>16. CASE P!BeginAfterStore
  <2>1. /\ Verdicts' \subseteq Verdicts /\ store' \in {store, store + 1}
        /\ pc \in Told => (pc' \in Told \/ store' = store + 1)
    BY <1>4, <1>u, <1>16 DEF P!BeginAfterStore, Between
  <2> QED BY <1>k, <2>1
<1>17. CASE P!FinalCommit
  <2>1. /\ Verdicts' \subseteq Verdicts /\ store' \in {store, store + 1}
        /\ pc \in Told => (pc' \in Told \/ store' = store + 1)
    BY <1>4, <1>u, <1>c, <1>r, <1>17 DEF P!FinalCommit, P!Escape, P!Alone, Between
  <2> QED BY <1>k, <2>1
<1>18. CASE P!AllBlocksRead
  <2>1. /\ Verdicts' \subseteq Verdicts /\ store' \in {store, store + 1}
        /\ pc \in Told => (pc' \in Told \/ store' = store + 1)
    BY <1>4, <1>u, <1>18 DEF P!AllBlocksRead, Between
  <2> QED BY <1>k, <2>1
<1>19. CASE P!StopAtBlockLimit
  <2>1. /\ Verdicts' \subseteq Verdicts /\ store' \in {store, store + 1}
        /\ pc \in Told => (pc' \in Told \/ store' = store + 1)
    BY <1>4, <1>u, <1>19 DEF P!StopAtBlockLimit, Between
  <2> QED BY <1>k, <2>1
<1>20. CASE P!SkipBlock
  <2>1. /\ Verdicts' \subseteq Verdicts /\ store' \in {store, store + 1}
        /\ pc \in Told => (pc' \in Told \/ store' = store + 1)
    BY <1>4, <1>u, <1>i, <1>20 DEF P!SkipBlock, Between
  <2> QED BY <1>k, <2>1
<1>21. CASE P!ReadBlock
  <2>1. /\ Verdicts' \subseteq Verdicts /\ store' \in {store, store + 1}
        /\ pc \in Told => (pc' \in Told \/ store' = store + 1)
    BY <1>4, <1>u, <1>21 DEF P!ReadBlock, Between
  <2> QED BY <1>k, <2>1
<1>22. CASE P!EndBlock
  <2>1. /\ Verdicts' \subseteq Verdicts /\ store' \in {store, store + 1}
        /\ pc \in Told => (pc' \in Told \/ store' = store + 1)
    BY <1>4, <1>u, <1>22 DEF P!EndBlock, P!LeaveBlock, Between
  <2> QED BY <1>k, <2>1
<1>23. CASE P!InsertItem
  <2>1. /\ Verdicts' \subseteq Verdicts /\ store' \in {store, store + 1}
        /\ pc \in Told => (pc' \in Told \/ store' = store + 1)
    BY <1>4, <1>u, <1>i, <1>23 DEF P!InsertItem, Between
  <2> QED BY <1>k, <2>1
<1>24. CASE P!DropItem
  <2>1. /\ Verdicts' \subseteq Verdicts /\ store' \in {store, store + 1}
        /\ pc \in Told => (pc' \in Told \/ store' = store + 1)
    BY <1>4, <1>u, <1>24 DEF P!DropItem, Between
  <2> QED BY <1>k, <2>1
<1>25. CASE P!CommitBatch
  <2>1. /\ Verdicts' \subseteq Verdicts /\ store' \in {store, store + 1}
        /\ pc \in Told => (pc' \in Told \/ store' = store + 1)
    BY <1>4, <1>u, <1>c, <1>25 DEF P!CommitBatch, Between
  <2> QED BY <1>k, <2>1
<1>26. CASE P!CheckBatch
  <2>1. /\ Verdicts' \subseteq Verdicts /\ store' \in {store, store + 1}
        /\ pc \in Told => (pc' \in Told \/ store' = store + 1)
    BY <1>4, <1>u, <1>r, <1>26 DEF P!CheckBatch, P!CheckSizeAt, P!Escape, Between
  <2> QED BY <1>k, <2>1
<1>27. CASE P!BeginBatch
  <2>1. /\ Verdicts' \subseteq Verdicts /\ store' \in {store, store + 1}
        /\ pc \in Told => (pc' \in Told \/ store' = store + 1)
    BY <1>4, <1>u, <1>27 DEF P!BeginBatch, P!Begins, Between
  <2> QED BY <1>k, <2>1
<1>28. CASE P!FailItem
  <2>1. /\ Verdicts' \subseteq Verdicts /\ store' \in {store, store + 1}
        /\ pc \in Told => (pc' \in Told \/ store' = store + 1)
    BY <1>4, <1>u, <1>i, <1>28 DEF P!FailItem, P!LeaveBlock, Between
  <2> QED BY <1>k, <2>1
<1>29. CASE P!AfterItem
  <2>1. /\ Verdicts' \subseteq Verdicts /\ store' \in {store, store + 1}
        /\ pc \in Told => (pc' \in Told \/ store' = store + 1)
    BY <1>4, <1>u, <1>29 DEF P!AfterItem, Between
  <2> QED BY <1>k, <2>1
<1>30. CASE P!Done
  <2>1. /\ Verdicts' \subseteq Verdicts /\ store' \in {store, store + 1}
        /\ pc \in Told => (pc' \in Told \/ store' = store + 1)
    BY <1>4, <1>u, <1>30 DEF P!Done, P!vars, P!Ended, Between
  <2> QED BY <1>k, <2>1
<1> QED BY <1>5, <1>6, <1>7, <1>8, <1>9, <1>10, <1>11, <1>12, <1>13, <1>14, <1>15, <1>16, <1>17, <1>18, <1>19, <1>20, <1>21, <1>22, <1>23, <1>24, <1>25, <1>26, <1>27, <1>28, <1>29, <1>30 DEF P!Next

\* Nothing changes where no variable does.
LEMMA ParserStays ==
  ASSUME ParserInv, UNCHANGED <<pc, task, store, block, item, blocks, parsed, limited, txn, poisoned, pending, saved>>
  PROVE  ParserInv'
<1>1. /\ P!Stores' = P!Stores /\ P!Alone' = P!Alone /\ P!GoodItems' = P!GoodItems /\ P!Wanted' = P!Wanted
      /\ \A n : P!Reached(n)' = P!Reached(n)
      /\ \A n, m : Counted(n, m)' = Counted(n, m)
  BY TaskStays
<1>2. P!at' = P!at /\ P!Blocks' = P!Blocks /\ P!Items' = P!Items
  BY <1>1 DEF P!at, P!Blocks, P!Items
<1>3. PlaceInv'
  BY <1>1, <1>2 DEF ParserInv, PlaceInv, Places, P!TypeOK
<1>4. TxnInv'
  BY DEF ParserInv, TxnInv
<1>5. Recorded' = Recorded /\ P!Records(pending)' = P!Records(pending) /\ Verdicts' = Verdicts
  BY DEF Recorded, P!Records, Verdicts
<1>6. \A x : Behind(x)' <=> Behind(x)
  BY DEF Behind, Inside
<1>7. RecordsInv'
  BY <1>1, <1>5, <1>6 DEF ParserInv, RecordsInv
<1>8. Full' <=> Full
  BY DEF Full
<1>9. CoverInv'
  BY <1>1, <1>5, <1>6, <1>8 DEF ParserInv, CoverInv, Sound
<1>10. AloneInv'
  BY <1>1, <1>5, <1>8 DEF ParserInv, AloneInv
<1>11. BatchInv'
  BY <1>1, <1>5 DEF ParserInv, BatchInv
<1>12. VerdictInv'
  BY <1>1, <1>5 DEF ParserInv, VerdictInv
<1> QED BY <1>3, <1>4, <1>7, <1>9, <1>10, <1>11, <1>12 DEF ParserInv

\* A call begins with nothing done.
LEMMA ParserBegins ==
  ASSUME P!Init
  PROVE  ParserInv
<1>1. /\ pc = "begin" /\ task \in P!Task /\ store = 1 /\ block = 1 /\ item = 1 /\ blocks = 0 /\ parsed = 0
      /\ limited = FALSE /\ txn = FALSE /\ poisoned = FALSE /\ pending = {} /\ saved = {}
  BY ParserAssumptions DEF P!Init, P!TaskAssumption
<1>2. task.maxRecords \in Nat
  BY <1>1, TaskTypes
<1>3. PlaceInv
  <2>1. P!at \in Nat \X Nat \X Nat
    BY <1>1 DEF P!at
  <2>2. pc \notin P!Reading \cup InBlock \cup AtItem
    BY <1>1 DEF P!Reading, InBlock, AtItem
  <2>3. P!TypeOK
    BY <1>1, <2>1, <2>2 DEF P!TypeOK
  <2>4. Places
    BY <1>1, <2>2 DEF Places
  <2> QED BY <2>3, <2>4 DEF PlaceInv
<1>4. Recorded = {} /\ P!Records(pending) = {} /\ Verdicts = {} /\ Cardinality({}) = 0
  BY <1>1, FS_EmptySet, RecordsOfRows DEF Recorded, Verdicts
<1>5. TxnInv
  BY <1>1 DEF TxnInv
<1>6. RecordsInv
  BY <1>1, <1>4 DEF RecordsInv
<1>7. ~Full
  BY <1>1, <1>2 DEF Full
<1>8. CoverInv
  <2>1. ASSUME NEW x \in P!GoodItems
        PROVE  ~Behind(x)
    <3>1. x[1] \in DOMAIN P!Stores /\ DOMAIN P!Stores = 1..Len(P!Stores)
      BY <1>1, GoodPlace, TaskTypes
    <3> QED BY <1>1, <3>1 DEF Behind
  <2> QED BY <1>1, <1>7, <2>1 DEF CoverInv
<1>9. AloneInv
  BY <1>1, <1>4, <1>7 DEF AloneInv
<1>10. BatchInv
  <2>1. parsed % Batch \in 0..(Batch - 1)
    BY <1>1, ParserAssumptions, CountOfBatch DEF P!BatchAssumption
  <2>2. Batch \in Nat
    BY ParserAssumptions DEF P!BatchAssumption
  <2>3. Cardinality(P!Records(pending)) <= parsed % Batch
    BY <1>4, <2>1, <2>2
  <2>4. pc # "batchCommit"
    BY <1>1
  <2> QED BY <2>3, <2>4 DEF BatchInv
<1>11. VerdictInv
  BY <1>1, <1>4 DEF VerdictInv
<1> QED BY <1>3, <1>5, <1>6, <1>8, <1>9, <1>10, <1>11 DEF ParserInv

\* What holds of a parser in these places is what it owes.
LEMMA ParserOwes ==
  ASSUME ParserInv
  PROVE  P!ReturnMeansSaved /\ P!OneVerdict /\ P!BatchAtRisk
<1>1. PlaceInv /\ TxnInv /\ RecordsInv /\ CoverInv /\ AloneInv /\ BatchInv /\ VerdictInv
  BY DEF ParserInv
<1>2. ASSUME pc = "returned"
      PROVE  pending = {} /\ P!Wanted \subseteq P!Records(saved) /\ (P!Alone => P!Records(saved) = P!Wanted)
  <2>1. pending = {} /\ Sound
    BY <1>1, <1>2 DEF TxnInv, Sound
  <2>2. Recorded = P!Records(saved)
    BY <2>1, RecordsOfRows DEF Recorded
  <2>3. P!Wanted \subseteq Recorded
    BY <1>1, <1>2, <2>1 DEF CoverInv, P!Wanted
  <2> QED BY <1>1, <2>1, <2>2, <2>3 DEF AloneInv
<1>3. P!ReturnMeansSaved
  BY <1>1, <1>2, SameCardinality DEF P!ReturnMeansSaved, RecordsInv, Recorded
<1>4. P!BatchAtRisk
  <2>1. parsed \in Nat /\ Batch \in Nat \ {0}
    BY <1>1, ParserAssumptions DEF PlaceInv, P!TypeOK, P!BatchAssumption
  <2>2. parsed % Batch \in 0..(Batch - 1)
    BY <2>1, CountOfBatch
  <2>3. P!Records(pending) \subseteq P!GoodItems /\ IsFiniteSet(P!GoodItems)
    BY <1>1, GoodFinite, RecordsOfRows DEF RecordsInv, Recorded, PlaceInv, P!TypeOK
  <2>4. Cardinality(P!Records(pending)) \in Nat
    BY <2>3, FS_Subset, FS_CardinalityType
  <2>5. ASSUME P!Alone
        PROVE  Cardinality(P!Records(pending)) <= Batch
    <3>1. Cardinality(P!Records(pending)) <= IF pc = "batchCommit" THEN Batch ELSE parsed % Batch
      BY <1>1, <2>5 DEF BatchInv
    <3> QED BY <2>1, <2>2, <2>4, <3>1
  <2> QED BY <2>5, SameCardinality DEF P!BatchAtRisk
<1>5. P!OneVerdict
  <2>1. ASSUME P!Alone, NEW st \in DOMAIN P!Stores
        PROVE  Cardinality({r \in pending \cup saved : r.at[1] = st /\ r.what \in {"SUCCESS", "FAILED"}}) <= 1
    <3> DEFINE OfStore == {r \in pending \cup saved : r.at[1] = st /\ r.what \in {"SUCCESS", "FAILED"}}
    <3>1. \A r1, r2 \in OfStore : r1 = r2
      BY <1>1, <2>1 DEF VerdictInv, Verdicts
    <3>2. OfStore = {} \/ \E r : OfStore = {r}
      <4> HIDE DEF OfStore
      <4> QED BY <3>1
    <3> HIDE DEF OfStore
    <3>3. Cardinality(OfStore) <= 1
      <4>1. CASE OfStore = {}
        BY <4>1, FS_EmptySet
      <4>2. CASE \E r : OfStore = {r}
        BY <4>2, FS_Singleton
      <4> QED BY <3>2, <4>1, <4>2
    <3> QED BY <3>3 DEF OfStore
  <2> QED BY <1>1, <2>1, SameCardinality DEF P!OneVerdict, PlaceInv
<1> QED BY <1>3, <1>4, <1>5

\* NativeStoreDbParser::parseStores returns only with every item committed that can
\* be decoded and that the limits let through, counts no item it has not recorded,
\* gives a store one verdict, and risks one batch of records: for any stores, limits
\* and batch, whoever locks the database.
THEOREM ParserSavesAll == DataSpec => []ParserSaves
<1> DEFINE ParserSide == side = "parser" => ParserInv
<1>1. DataInit => ParserSide
  BY ParserBegins DEF DataInit
<1>2. ParserSide /\ [DataNext]_dataVars => ParserSide'
  <2> SUFFICES ASSUME ParserSide, [DataNext]_dataVars, side' = "parser"
               PROVE  ParserInv'
    OBVIOUS
  <2>1. CASE ParserStep
    <3>1. ParserInv /\ P!Next
      BY <2>1 DEF ParserStep
    <3>2. P!BatchAssumption
      BY ParserAssumptions
    <3> QED BY <3>1, <3>2, PlaceStep, TxnStep, RecordsStep, CoverStep, AloneStep, BatchStep, VerdictStep
         DEF ParserInv
  <2>2. CASE ReaderStep \/ GuidedStep \/ EnrichStep \/ AppsStep \/ ZipStep
    BY <2>2 DEF ReaderStep, GuidedStep, EnrichStep, AppsStep, ZipStep
  <2>3. CASE UNCHANGED dataVars
    <3>1. UNCHANGED <<side, pc, task, store, block, item, blocks, parsed, limited, txn, poisoned, pending, saved>>
      BY <2>3 DEF dataVars, parserOnly
    <3> QED BY <3>1, ParserStays
  <2> QED BY <2>1, <2>2, <2>3 DEF DataNext
<1>3. ParserSide => ParserSaves
  BY ParserOwes DEF ParserSaves
<1> QED BY <1>1, <1>2, <1>3, PTL DEF DataSpec

----------------------------------------------------------------------------
(* The ZIPs.  What a run, a case folder and a source are made of.          *)
AllPaths  == UNION {InZip[z] : z \in Zips}
Listing   == [of : Zips \cup {Z!None}, paths : SUBSET AllPaths]
CaseFolder == [listed : BOOLEAN, raw : Listing, files : Listing, databases : SUBSET Databases,
               extracted : [Databases -> Zips \cup {Z!None}]]
ZipRun    == [zip : Zips, folder : Folders, cache : Folders \cup {Z!None}, profile : {"ios", "auto"},
              sevenZip : BOOLEAN, materialize : BOOLEAN, full : BOOLEAN]
AppFile   == [path : Databases, in : Folders, content : Zips \cup {Z!None}]
CaseSource == [zip : Zips, cache : Folders \cup {Z!None}, files : SUBSET AllPaths, lookup : SUBSET AllPaths,
               sentinel : BOOLEAN, apps : SUBSET AppFile, compared : BOOLEAN,
               missing : SUBSET (References \cup InSpotlight)]

ZipTypes ==
  /\ pc \in {"idle", "script", "cache", "listing", "register", "import", "lookup", "compare", "compared"}
  /\ told \in [import : {"none", "cache", "lists", "warning"}, lookup : {"none", "complete", "warning"}]
  /\ pc # "idle" => run \in ZipRun /\ run.cache # run.folder
  /\ disk \in [Folders -> CaseFolder] /\ cases \in [Folders -> Seq(CaseSource)]
  /\ past \in [Folders -> SUBSET Zips]

\* A folder holds listings and databases of the ZIPs staged there, and a database
\* that is listed for import is there.
PathsOf(zs) == UNION {InZip[z] : z \in zs}
Staged(f)   == PathsOf(past[f])
FoldersInv ==
  \A f \in Folders :
    /\ disk[f].raw.paths \subseteq Staged(f) /\ disk[f].files.paths \subseteq Staged(f)
    /\ \A p \in Databases : disk[f].extracted[p] \in past[f] \cup {Z!None}
    /\ \A p \in disk[f].databases : disk[f].extracted[p] # Z!None

\* A source imported without a cache has what its folder holds.
OfFolder(s, f) == /\ s.files \cup s.lookup \subseteq Staged(f)
                  /\ \A a \in s.apps : a.in = f /\ disk[f].extracted[a.path] # Z!None
SourcesInv == \A f \in Folders : \A n \in DOMAIN cases[f] : cases[f][n].cache = Z!None => OfFolder(cases[f][n], f)

\* The last source of the folder is the run's.  What 7-Zip lists in this run is
\* what will be imported.
Blank(s) == s.files = {} /\ s.lookup = {} /\ s.apps = {} /\ ~s.sentinel /\ s.missing = {}
RunInv ==
  /\ pc \in {"script", "listing"} => run.cache = Z!None
  /\ pc = "cache" => run.cache # Z!None
  /\ pc = "listing" /\ run.sevenZip => Z!Here.raw.of = run.zip /\ Z!Here.raw.paths \subseteq InZip[run.zip]
  /\ pc \in {"register", "import"} /\ run.profile = "ios" /\ run.cache = Z!None /\ run.sevenZip =>
       Z!Here.files.paths \subseteq InZip[run.zip]
  /\ pc \in {"import", "lookup", "compare", "compared"} =>
       cases[run.folder] # <<>> /\ Z!Source.zip = run.zip /\ Z!Source.cache = run.cache
  /\ pc \in {"cache", "script", "listing", "register", "import"} => told = Z!Untold
  /\ pc \in {"import", "lookup"} => run.profile = "ios" /\ told.lookup = "none"
  /\ pc = "import" => Blank(Z!Source)
  /\ pc = "compare" /\ run.profile # "ios" => Blank(Z!Source)

\* What the source of the run has been given is in its own ZIP.
OwnListing == \/ run.cache = Z!None /\ (run.sevenZip \/ Z!OnlyZip(run.folder))
              \/ run.cache # Z!None /\ Z!OnlyCase(run.cache) /\ Z!OnlyZip(run.folder)
OwnFiles == \/ run.cache = Z!None /\ Z!OnlyZip(run.folder)
            \/ run.cache # Z!None /\ Z!OnlyCase(run.cache) /\ Z!OnlyZip(run.folder)
BelongInv ==
  pc \in {"lookup", "compare", "compared"} =>
    /\ OwnListing => Z!Source.files \cup Z!Source.lookup \subseteq InZip[run.zip]
    /\ OwnFiles => \A a \in Z!Source.apps : a.content = run.zip

\* What was imported or looked up is known of the source before it is compared.
TellInv ==
  /\ pc \in {"lookup", "compare"} =>
       /\ Z!Source.missing = {}
       /\ told.import = "lists" => disk[Z!listingFolder].files.paths \subseteq Z!known(Z!Source)
       /\ told.lookup = "complete" =>
            run.cache # Z!None /\ References \cap Z!cachedFiles(run.cache) \subseteq Z!Source.lookup
       /\ told.import = "cache" => run.cache # Z!None
       /\ told.import = "cache" /\ run.full => Z!Source.files = Z!cachedFiles(run.cache)
       /\ told.import = "warning" /\ told.lookup # "complete" => Blank(Z!Source)
  /\ Z!AbsentIsAbsent

ZipInv == ZipTypes /\ FoldersInv /\ SourcesInv /\ RunInv /\ BelongInv /\ TellInv

\* Where a run is made, and what lies there.
LEMMA RunPlace ==
  ASSUME ZipTypes, pc # "idle"
  PROVE  /\ run \in ZipRun /\ run.folder \in Folders /\ run.zip \in Zips
         /\ run.cache \in Folders \cup {Z!None} /\ run.cache # run.folder
         /\ Z!Here \in CaseFolder
BY DEF ZipTypes, ZipRun, Z!Here

\* What is put of a source.
LEMMA SourcePut ==
  ASSUME ZipTypes, pc # "idle", cases[run.folder] # <<>>, NEW new \in CaseSource, Z!PutSource(new), UNCHANGED run
  PROVE  /\ cases' \in [Folders -> Seq(CaseSource)] /\ cases'[run.folder] # <<>>
         /\ Z!Source' = new
         /\ \A f \in Folders : f # run.folder => cases'[f] = cases[f]
         /\ DOMAIN cases'[run.folder] = DOMAIN cases[run.folder]
         /\ \A n \in DOMAIN cases[run.folder] : cases'[run.folder][n] = new \/ cases'[run.folder][n] = cases[run.folder][n]
<1>1. run.folder \in Folders /\ cases \in [Folders -> Seq(CaseSource)]
  BY DEF ZipTypes, ZipRun
<1> DEFINE old == cases[run.folder]
<1>2. old \in Seq(CaseSource) /\ old # <<>>
  BY <1>1
<1>3. Len(old) \in Nat \ {0} /\ Len(old) \in DOMAIN old
  BY <1>2
<1>4. cases' = [cases EXCEPT ![run.folder] = [old EXCEPT ![Len(old)] = new]]
  BY DEF Z!PutSource
<1>5. [old EXCEPT ![Len(old)] = new] \in Seq(CaseSource) /\ Len([old EXCEPT ![Len(old)] = new]) = Len(old)
  BY <1>2, <1>3
<1>6. cases'[run.folder] = [old EXCEPT ![Len(old)] = new]
  BY <1>1, <1>4
<1>7. Z!Source' = new
  BY <1>3, <1>5, <1>6 DEF Z!Source
<1>9. cases'[run.folder] # <<>>
  BY <1>2, <1>5, <1>6
<1> QED BY <1>1, <1>3, <1>4, <1>5, <1>6, <1>7, <1>9

\* The last source of a case is one of its sources.
LEMMA SourceThere ==
  ASSUME ZipTypes, pc # "idle", cases[run.folder] # <<>>
  PROVE  /\ Z!Source \in CaseSource
         /\ \E n \in DOMAIN cases[run.folder] : Z!Source = cases[run.folder][n]
<1> DEFINE old == cases[run.folder]
<1>1. old \in Seq(CaseSource) /\ old # <<>>
  BY RunPlace DEF ZipTypes
<1>2. Len(old) \in DOMAIN old /\ old[Len(old)] \in CaseSource
  BY <1>1
<1> QED BY <1>2 DEF Z!Source

\* What is put of a folder.
LEMMA FolderPut ==
  ASSUME ZipTypes, pc # "idle", NEW new, Z!PutDisk(new)
  PROVE  /\ \A f \in Folders : disk'[f] = IF f = run.folder THEN new ELSE disk[f]
         /\ new \in CaseFolder => disk' \in [Folders -> CaseFolder]
BY RunPlace DEF Z!PutDisk, ZipTypes

\* The listings of a ZIP are of its paths, and what is extracted comes from it.
LEMMA ListingsBelong ==
  ASSUME NEW z \in Zips
  PROVE  \A raw \in Z!Listings(z) : raw \in Listing /\ raw.of = z /\ raw.paths \subseteq InZip[z]
BY DEF Z!Listings, Listing, AllPaths

\* See ListingsBelong.
LEMMA ExtractionsBelong ==
  ASSUME NEW z \in Zips, NEW old \in [Databases -> Zips \cup {Z!None}]
  PROVE  \A x \in Z!Extractions(z, old) :
           x \in [Databases -> Zips \cup {Z!None}] /\ \A p \in Databases : x[p] = z \/ x[p] = old[p]
BY DEF Z!Extractions

\* Writing the inventories leaves the databases and the raw listing alone.
LEMMA FilesWritten ==
  ASSUME NEW folder \in CaseFolder, NEW listing \in Listing
  PROVE  /\ Z!WithFiles(folder, listing) \in CaseFolder
         /\ Z!WithFiles(folder, listing).files = listing
         /\ Z!WithFiles(folder, listing).raw = folder.raw
         /\ Z!WithFiles(folder, listing).extracted = folder.extracted
         /\ Z!WithFiles(folder, listing).listed
         /\ \A p \in Z!WithFiles(folder, listing).databases : folder.extracted[p] # Z!None
<1>1. Z!found(listing, folder.extracted) \in SUBSET Databases
  BY DEF Z!found
<1>2. \A p \in Z!found(listing, folder.extracted) : folder.extracted[p] # Z!None
  BY DEF Z!found
<1> HIDE DEF Z!found
<1> QED BY <1>1, <1>2 DEF Z!WithFiles, CaseFolder

\* Parsing the raw listing leaves the databases and the raw listing alone.
LEMMA ListingParsed ==
  ASSUME NEW folder \in CaseFolder
  PROVE  /\ Z!Parsed(folder) \in CaseFolder
         /\ Z!Parsed(folder).files \in {folder.files, folder.raw}
         /\ folder.raw # Z!NoListing => Z!Parsed(folder).files = folder.raw
         /\ Z!Parsed(folder).raw = folder.raw
         /\ Z!Parsed(folder).extracted = folder.extracted
         /\ \A p \in Z!Parsed(folder).databases : p \in folder.databases \/ folder.extracted[p] # Z!None
<1>1. folder.raw \in Listing
  BY DEF CaseFolder
<1> QED BY <1>1, FilesWritten DEF Z!Parsed

\* A listing that is of no ZIP has a type as well.
LEMMA NoListingType == Z!NoListing \in Listing /\ Z!NoListing.paths = {}
BY DEF Z!NoListing, Listing

\* What a stage may do to the folders: none loses a ZIP that was staged there, or a
\* database that was extracted.
FoldersGrow ==
  /\ disk' \in [Folders -> CaseFolder] /\ past' \in [Folders -> SUBSET Zips]
  /\ \A f \in Folders : past[f] \subseteq past'[f]
  /\ \A f \in Folders : \A p \in Databases : disk[f].extracted[p] # Z!None => disk'[f].extracted[p] # Z!None
  /\ FoldersInv'

\* A folder is replaced by one whose contents were staged there.
LEMMA FolderReplaced ==
  ASSUME ZipTypes, FoldersInv, pc # "idle", NEW new \in CaseFolder, Z!PutDisk(new),
         past' \in [Folders -> SUBSET Zips], \A f \in Folders : past[f] \subseteq past'[f],
         new.raw.paths \subseteq PathsOf(past'[run.folder]), new.files.paths \subseteq PathsOf(past'[run.folder]),
         \A p \in Databases : new.extracted[p] \in past'[run.folder] \cup {Z!None},
         \A p \in new.databases : new.extracted[p] # Z!None,
         \A p \in Databases : Z!Here.extracted[p] # Z!None => new.extracted[p] # Z!None
  PROVE  FoldersGrow
<1>1. \A f \in Folders : disk'[f] = IF f = run.folder THEN new ELSE disk[f]
  BY FolderPut
<1>2. disk' \in [Folders -> CaseFolder]
  BY FolderPut
<1>3. \A f \in Folders : PathsOf(past[f]) \subseteq PathsOf(past'[f])
  BY DEF PathsOf
<1>4. \A f \in Folders : \A p \in Databases : disk[f].extracted[p] # Z!None => disk'[f].extracted[p] # Z!None
  BY <1>1, RunPlace DEF Z!Here
<1>5. ASSUME NEW f \in Folders
      PROVE  /\ disk'[f].raw.paths \subseteq PathsOf(past'[f]) /\ disk'[f].files.paths \subseteq PathsOf(past'[f])
             /\ \A p \in Databases : disk'[f].extracted[p] \in past'[f] \cup {Z!None}
             /\ \A p \in disk'[f].databases : disk'[f].extracted[p] # Z!None
  <2>1. CASE f = run.folder
    BY <1>1, <2>1
  <2>2. CASE f # run.folder
    BY <1>1, <1>3, <2>2 DEF FoldersInv, Staged
  <2> QED BY <2>1, <2>2
<1>6. FoldersInv'
  BY <1>5 DEF FoldersInv, Staged
<1> QED BY <1>2, <1>4, <1>6 DEF FoldersGrow

\* What a stage makes of a folder was staged in it.
LEMMA FolderStep ==
  ASSUME ZipTypes, FoldersInv, Z!RunScript \/ Z!ParseListing \/ Z!ScriptFails
  PROVE  FoldersGrow /\ UNCHANGED cases
<1> DEFINE folder == Z!Here
           added  == past[run.folder] \cup {run.zip}
<1>1. pc # "idle"
  BY DEF Z!RunScript, Z!ParseListing, Z!ScriptFails
<1>2. /\ run.folder \in Folders /\ run.zip \in Zips /\ folder \in CaseFolder
      /\ folder.raw \in Listing /\ folder.files \in Listing /\ folder.extracted \in [Databases -> Zips \cup {Z!None}]
      /\ folder.databases \subseteq Databases
  BY <1>1, RunPlace DEF CaseFolder
<1>3. /\ folder.raw.paths \subseteq PathsOf(past[run.folder])
      /\ folder.files.paths \subseteq PathsOf(past[run.folder])
      /\ \A p \in Databases : folder.extracted[p] \in past[run.folder] \cup {Z!None}
      /\ \A p \in folder.databases : folder.extracted[p] # Z!None
  BY <1>2 DEF FoldersInv, Staged, Z!Here
<1>4. past \in [Folders -> SUBSET Zips]
  BY DEF ZipTypes
<1>5. PathsOf(past[run.folder]) \cup InZip[run.zip] \subseteq PathsOf(added)
  BY DEF PathsOf
<1>6. ASSUME past' = [past EXCEPT ![run.folder] = @ \cup {run.zip}]
      PROVE  /\ past' \in [Folders -> SUBSET Zips] /\ past'[run.folder] = added
             /\ \A f \in Folders : past[f] \subseteq past'[f]
  BY <1>2, <1>4, <1>6
<1>7. CASE Z!RunScript
  <2>1. PICK new : /\ Z!PutDisk(new)
                   /\ \/ /\ run.sevenZip
                         /\ \E raw \in Z!rawLeft(run.zip, folder.raw), x \in Z!Extractions(run.zip, folder.extracted) :
                              new = [Z!WithFiles(folder, Z!NoListing) EXCEPT !.raw = raw, !.extracted = x]
                      \/ new = Z!WithFiles(folder, [of |-> run.zip, paths |-> InZip[run.zip]])
    BY <1>7 DEF Z!RunScript
  <2>2. past' = [past EXCEPT ![run.folder] = @ \cup {run.zip}] /\ UNCHANGED cases
    BY <1>7 DEF Z!RunScript
  <2>3. CASE \E raw \in Z!rawLeft(run.zip, folder.raw), x \in Z!Extractions(run.zip, folder.extracted) :
               new = [Z!WithFiles(folder, Z!NoListing) EXCEPT !.raw = raw, !.extracted = x]
    <3>1. PICK raw \in Z!Listings(run.zip), x \in Z!Extractions(run.zip, folder.extracted) :
                 new = [Z!WithFiles(folder, Z!NoListing) EXCEPT !.raw = raw, !.extracted = x]
      BY <2>3 DEF Z!rawLeft
    <3>2. raw \in Listing /\ raw.paths \subseteq InZip[run.zip]
      BY <1>2, ListingsBelong
    <3>3. x \in [Databases -> Zips \cup {Z!None}] /\ \A p \in Databases : x[p] = run.zip \/ x[p] = folder.extracted[p]
      BY <1>2, ExtractionsBelong
    <3> DEFINE written == Z!WithFiles(folder, Z!NoListing)
    <3>4. /\ written \in CaseFolder /\ written.files = Z!NoListing
          /\ \A p \in written.databases : folder.extracted[p] # Z!None
      BY <1>2, NoListingType, FilesWritten
    <3> HIDE DEF folder
    <3>5. /\ new \in CaseFolder /\ new.raw = raw /\ new.extracted = x /\ new.files = written.files
          /\ new.databases = written.databases
      <4> HIDE DEF written
      <4> QED BY <3>1, <3>2, <3>3, <3>4 DEF CaseFolder, written
    <3>6. run.zip # Z!None
      BY <1>2, ZipAssumptions DEF Z!IntakeAssumption
    <3>7. \A p \in new.databases : p \in Databases /\ new.extracted[p] # Z!None
      BY <3>3, <3>4, <3>5, <3>6 DEF CaseFolder
    <3> QED BY <1>1, <1>2, <1>3, <1>5, <1>6, <2>1, <2>2, <3>2, <3>3, <3>4, <3>5, <3>6, <3>7, NoListingType,
                FolderReplaced DEF folder
  <2>4. CASE new = Z!WithFiles(folder, [of |-> run.zip, paths |-> InZip[run.zip]])
    <3> DEFINE listing == [of |-> run.zip, paths |-> InZip[run.zip]]
    <3>1. listing \in Listing /\ listing.paths = InZip[run.zip]
      BY <1>2 DEF Listing, AllPaths
    <3>2. /\ new \in CaseFolder /\ new.files = listing /\ new.raw = folder.raw /\ new.extracted = folder.extracted
          /\ \A p \in new.databases : folder.extracted[p] # Z!None
      BY <1>2, <2>4, <3>1, FilesWritten
    <3> HIDE DEF listing
    <3> QED BY <1>1, <1>2, <1>3, <1>5, <1>6, <2>1, <2>2, <3>1, <3>2, FolderReplaced
  <2> QED BY <2>1, <2>2, <2>3, <2>4
<1>8. CASE Z!ParseListing
  <2> DEFINE new == Z!Parsed(folder)
  <2>1. Z!PutDisk(new) /\ past' = past /\ UNCHANGED cases
    BY <1>8 DEF Z!ParseListing
  <2>2. /\ new \in CaseFolder /\ new.files \in {folder.files, folder.raw} /\ new.raw = folder.raw
        /\ new.extracted = folder.extracted /\ \A p \in new.databases : folder.extracted[p] # Z!None
    BY <1>2, <1>3, ListingParsed
  <2> HIDE DEF new
  <2> QED BY <1>1, <1>2, <1>3, <1>4, <2>1, <2>2, FolderReplaced
<1>9. CASE Z!ScriptFails
  <2>1. PICK half \in {folder, Z!WithFiles(folder, Z!NoListing)} : Z!PutDisk(Z!Parsed(half))
    BY <1>9 DEF Z!ScriptFails
  <2>2. past' = [past EXCEPT ![run.folder] = @ \cup {run.zip}] /\ UNCHANGED cases
    BY <1>9 DEF Z!ScriptFails
  <2>3. /\ half \in CaseFolder /\ half.raw = folder.raw /\ half.files \in {folder.files, Z!NoListing}
        /\ half.extracted = folder.extracted /\ \A p \in half.databases : folder.extracted[p] # Z!None
    BY <1>2, <1>3, <2>1, NoListingType, FilesWritten
  <2> DEFINE new == Z!Parsed(half)
  <2>4. /\ new \in CaseFolder /\ new.files \in {folder.files, folder.raw, Z!NoListing} /\ new.raw = folder.raw
        /\ new.extracted = folder.extracted /\ \A p \in new.databases : folder.extracted[p] # Z!None
    BY <2>3, ListingParsed
  <2> HIDE DEF new
  <2> QED BY <1>1, <1>2, <1>3, <1>5, <1>6, <2>1, <2>2, <2>4, NoListingType, FolderReplaced DEF new
<1> QED BY <1>7, <1>8, <1>9

\* What the case database of a cache has is of its sources, and every database is
\* read anew.
LEMMA CacheGives ==
  ASSUME ZipTypes, NEW c \in Folders
  PROVE  /\ Z!cachedFiles(c) \subseteq AllPaths
         /\ Z!reread(Z!cachedApps(c)) \subseteq AppFile
         /\ \A a \in Z!reread(Z!cachedApps(c)) :
              /\ a.content = disk[a.in].extracted[a.path]
              /\ \E n \in DOMAIN cases[c] : \E b \in cases[c][n].apps : b.in = a.in /\ b.path = a.path
<1>1. \A n \in DOMAIN cases[c] : cases[c][n] \in CaseSource
  BY DEF ZipTypes
<1>2. \A s \in Z!sourcesOf(c) : s \in CaseSource /\ \E n \in DOMAIN cases[c] : s = cases[c][n]
  BY <1>1 DEF Z!sourcesOf
<1>3. Z!cachedFiles(c) \subseteq AllPaths
  BY <1>2 DEF Z!cachedFiles, CaseSource
<1>4. \A b \in Z!cachedApps(c) : b \in AppFile /\ \E n \in DOMAIN cases[c] : b \in cases[c][n].apps
  BY <1>2 DEF Z!cachedApps, CaseSource
<1>5. ASSUME NEW a \in Z!reread(Z!cachedApps(c))
      PROVE  /\ a \in AppFile /\ a.content = disk[a.in].extracted[a.path]
             /\ \E n \in DOMAIN cases[c] : \E b \in cases[c][n].apps : b.in = a.in /\ b.path = a.path
  <2>1. PICK b \in Z!cachedApps(c) : a = Z!appIn(b.path, b.in)
    BY DEF Z!reread
  <2>2. b \in AppFile /\ \E n \in DOMAIN cases[c] : b \in cases[c][n].apps
    BY <1>4, <2>1
  <2>3. a.path = b.path /\ a.in = b.in /\ a.content = disk[b.in].extracted[b.path]
    BY <2>1 DEF Z!appIn
  <2>4. b.path \in Databases /\ b.in \in Folders
    BY <2>2 DEF AppFile
  <2>5. disk[b.in].extracted[b.path] \in Zips \cup {Z!None}
    BY <2>4 DEF ZipTypes, CaseFolder
  <2>6. a \in AppFile
    BY <2>1, <2>4, <2>5 DEF AppFile, Z!appIn
  <2> QED BY <2>2, <2>3, <2>6
<1> QED BY <1>3, <1>5

\* What an import of the inventories makes of a source.
LEMMA ListsGive ==
  ASSUME ZipTypes, FoldersInv, pc # "idle", NEW s \in CaseSource
  PROVE  /\ Z!listingFolder \in Folders /\ (run.cache = Z!None => Z!listingFolder = run.folder)
         /\ Z!listingFolder \in {run.folder, run.cache}
         /\ Z!csvImported(s) \in CaseSource
         /\ Z!csvImported(s).zip = s.zip /\ Z!csvImported(s).cache = s.cache /\ Z!csvImported(s).missing = s.missing
         /\ Z!csvImported(s).files \cup Z!csvImported(s).lookup = disk[Z!listingFolder].files.paths
         /\ Z!csvImported(s).files = {} \/ Z!csvImported(s).files = disk[Z!listingFolder].files.paths
         /\ \A a \in Z!csvImported(s).apps :
              /\ a.in = Z!listingFolder /\ a.path \in Databases /\ disk[a.in].extracted[a.path] # Z!None
              /\ a.content = disk[a.in].extracted[a.path]
<1> DEFINE lf == Z!listingFolder
           from == disk[lf]
           apps == {Z!appIn(p, lf) : p \in from.databases}
<1>1. lf \in Folders /\ (run.cache = Z!None => lf = run.folder) /\ lf \in {run.folder, run.cache}
  BY RunPlace DEF Z!listingFolder
<1> HIDE DEF lf
<1>2. from \in CaseFolder /\ \A p \in from.databases : from.extracted[p] # Z!None
  BY <1>1 DEF ZipTypes, FoldersInv
<1>3. from.files.paths \subseteq AllPaths /\ from.databases \subseteq Databases
      /\ from.extracted \in [Databases -> Zips \cup {Z!None}]
  BY <1>2 DEF CaseFolder, Listing
<1>4. \A a \in apps : /\ a \in AppFile /\ a.in = lf /\ a.path \in Databases /\ from.extracted[a.path] # Z!None
                      /\ a.content = from.extracted[a.path]
  BY <1>1, <1>2, <1>3 DEF Z!appIn, AppFile
<1>5. run.full \in BOOLEAN
  BY RunPlace DEF ZipRun
<1>6. Z!csvImported(s) = [s EXCEPT !.files = IF run.full THEN from.files.paths ELSE {},
                                   !.lookup = IF run.full THEN {} ELSE from.files.paths, !.sentinel = FALSE,
                                   !.apps = apps]
  BY DEF Z!csvImported, lf
<1> DEFINE new == Z!csvImported(s)
<1>7. /\ new.files = (IF run.full THEN from.files.paths ELSE {}) /\ new.lookup = (IF run.full THEN {} ELSE from.files.paths)
      /\ new.apps = apps /\ new.zip = s.zip /\ new.cache = s.cache /\ new.missing = s.missing
      /\ new \in CaseSource
  <2> HIDE DEF from
  <2>1. apps \subseteq AppFile
    BY <1>4
  <2> HIDE DEF apps
  <2> QED BY <1>3, <1>6, <2>1 DEF CaseSource
<1> HIDE DEF new, apps
<1>8. new.files \cup new.lookup = from.files.paths /\ (new.files = {} \/ new.files = from.files.paths)
  BY <1>7
<1>9. \A a \in new.apps : /\ a.in = lf /\ a.path \in Databases /\ disk[a.in].extracted[a.path] # Z!None
                          /\ a.content = disk[a.in].extracted[a.path]
  BY <1>4, <1>7
<1> QED BY <1>1, <1>7, <1>8, <1>9 DEF new, lf

\* A source is replaced by one that has what its folder holds.
LEMMA SourceReplaced ==
  ASSUME ZipTypes, SourcesInv, pc # "idle", cases[run.folder] # <<>>, NEW new \in CaseSource, Z!PutSource(new),
         UNCHANGED <<run, disk, past>>, new.cache = Z!None => OfFolder(new, run.folder)
  PROVE  SourcesInv'
<1>1. /\ \A f \in Folders : f # run.folder => cases'[f] = cases[f]
      /\ DOMAIN cases'[run.folder] = DOMAIN cases[run.folder]
      /\ \A n \in DOMAIN cases[run.folder] : cases'[run.folder][n] = new \/ cases'[run.folder][n] = cases[run.folder][n]
  BY SourcePut
<1>2. \A s, f : OfFolder(s, f)' <=> OfFolder(s, f)
  BY DEF OfFolder, Staged, PathsOf
<1>3. ASSUME NEW f \in Folders, NEW n \in DOMAIN cases'[f], cases'[f][n].cache = Z!None
      PROVE  OfFolder(cases'[f][n], f)
  BY <1>1, <1>3 DEF SourcesInv
<1> QED BY <1>2, <1>3 DEF SourcesInv

\* What the other steps make of a source.
CacheImported(s) == [s EXCEPT !.files = IF run.full THEN Z!cachedFiles(run.cache) ELSE {}, !.lookup = {},
                              !.sentinel = ~run.full, !.apps = Z!reread(Z!cachedApps(run.cache))]
LookedUp(s)      == [s EXCEPT !.lookup = @ \cup (References \cap Z!cachedFiles(run.cache))]
Compared(s)      == IF Z!available(s)
                      THEN [s EXCEPT !.compared = TRUE, !.missing = (References \cup InSpotlight) \ Z!known(s)]
                      ELSE s

\* The import from the cache and the lookup in it.
LEMMA CacheMakes ==
  ASSUME ZipTypes, pc # "idle", run.cache # Z!None, NEW s \in CaseSource
  PROVE  /\ CacheImported(s) \in CaseSource /\ CacheImported(s).zip = s.zip /\ CacheImported(s).cache = s.cache
         /\ CacheImported(s).files = (IF run.full THEN Z!cachedFiles(run.cache) ELSE {})
         /\ CacheImported(s).lookup = {} /\ CacheImported(s).apps = Z!reread(Z!cachedApps(run.cache))
         /\ CacheImported(s).missing = s.missing
         /\ LookedUp(s) \in CaseSource /\ LookedUp(s).zip = s.zip /\ LookedUp(s).cache = s.cache
         /\ LookedUp(s).files = s.files /\ LookedUp(s).apps = s.apps /\ LookedUp(s).missing = s.missing
         /\ LookedUp(s).lookup = s.lookup \cup (References \cap Z!cachedFiles(run.cache))
<1>1. run.cache \in Folders /\ run.full \in BOOLEAN
  BY RunPlace DEF ZipRun
<1> DEFINE files == Z!cachedFiles(run.cache)
           apps  == Z!reread(Z!cachedApps(run.cache))
<1>2. files \subseteq AllPaths /\ apps \subseteq AppFile
  BY <1>1, CacheGives
<1> HIDE DEF files, apps
<1>3. CacheImported(s) = [s EXCEPT !.files = IF run.full THEN files ELSE {}, !.lookup = {},
                                   !.sentinel = ~run.full, !.apps = apps]
  BY DEF CacheImported, files, apps
<1>4. LookedUp(s) = [s EXCEPT !.lookup = s.lookup \cup (References \cap files)]
  BY DEF LookedUp, files, CaseSource
<1>5. /\ CacheImported(s) \in CaseSource /\ CacheImported(s).zip = s.zip /\ CacheImported(s).cache = s.cache
      /\ CacheImported(s).files = (IF run.full THEN files ELSE {})
      /\ CacheImported(s).lookup = {} /\ CacheImported(s).apps = apps /\ CacheImported(s).missing = s.missing
  BY <1>1, <1>2, <1>3 DEF CaseSource
<1>6. /\ LookedUp(s) \in CaseSource /\ LookedUp(s).zip = s.zip /\ LookedUp(s).cache = s.cache
      /\ LookedUp(s).files = s.files /\ LookedUp(s).apps = s.apps /\ LookedUp(s).missing = s.missing
      /\ LookedUp(s).lookup = s.lookup \cup (References \cap files)
  BY <1>2, <1>4 DEF CaseSource
<1> QED BY <1>5, <1>6 DEF files, apps

\* The comparison.
LEMMA CompareMakes ==
  ASSUME NEW s \in CaseSource
  PROVE  /\ Compared(s) \in CaseSource /\ Compared(s).zip = s.zip /\ Compared(s).cache = s.cache
         /\ Compared(s).files = s.files /\ Compared(s).lookup = s.lookup /\ Compared(s).apps = s.apps
         /\ Compared(s).missing = (IF Z!available(s) THEN (References \cup InSpotlight) \ Z!known(s) ELSE s.missing)
<1> DEFINE rest == (References \cup InSpotlight) \ Z!known(s)
<1>1. rest \subseteq References \cup InSpotlight
  OBVIOUS
<1>2. Compared(s) = IF Z!available(s) THEN [s EXCEPT !.compared = TRUE, !.missing = rest] ELSE s
  BY DEF Compared
<1> HIDE DEF rest
<1>3. CASE Z!available(s)
  BY <1>1, <1>2, <1>3 DEF CaseSource, rest
<1>4. CASE ~Z!available(s)
  BY <1>2, <1>4
<1> QED BY <1>3, <1>4

\* The steps that put a source, and which one they put.
SourceStep ==
  \/ Z!ImportFromCache \/ Z!ImportFromLists \/ Z!ImportFails
  \/ Z!LookUp /\ Z!LooksUp /\ cases[run.cache] # <<>>
  \/ Z!Compare
Given(new) ==
  \/ Z!ImportFromCache /\ run.cache # Z!None /\ new = CacheImported(Z!Source)
  \/ Z!ImportFromLists /\ new = Z!csvImported(Z!Source)
  \/ Z!ImportFails /\ new = Z!Source
  \/ Z!LookUp /\ run.cache # Z!None /\ new = LookedUp(Z!Source)
  \/ Z!Compare /\ new = Compared(Z!Source)

\* See SourceStep.
LEMMA SourceStepped ==
  ASSUME ZipTypes, FoldersInv, SourcesInv, RunInv, SourceStep
  PROVE  \E new \in CaseSource :
           /\ Given(new) /\ Z!PutSource(new) /\ UNCHANGED <<run, disk, past>>
           /\ new.zip = Z!Source.zip /\ new.cache = Z!Source.cache
           /\ new.cache = Z!None => OfFolder(new, run.folder)
<1>1. pc \in {"import", "lookup", "compare"}
  BY DEF SourceStep, Z!ImportFromCache, Z!ImportFromLists, Z!ImportFails, Z!LookUp, Z!Compare
<1>2. cases[run.folder] # <<>> /\ Z!Source.cache = run.cache
  BY <1>1 DEF RunInv
<1> DEFINE src == Z!Source
<1>3. src \in CaseSource /\ \E n \in DOMAIN cases[run.folder] : src = cases[run.folder][n]
  BY <1>1, <1>2, SourceThere
<1>4. src.cache = Z!None => OfFolder(src, run.folder)
  BY <1>1, <1>3, RunPlace DEF SourcesInv
<1> HIDE DEF src
<1>5. src.cache = run.cache
  BY <1>2 DEF src
<1>6. CASE Z!ImportFromCache
  <2>1. run.cache # Z!None /\ Z!PutSource(CacheImported(src)) /\ UNCHANGED <<run, disk, past>>
    BY <1>6 DEF Z!ImportFromCache, CacheImported, src
  <2>2. CacheImported(src) \in CaseSource /\ CacheImported(src).zip = src.zip /\ CacheImported(src).cache = src.cache
    BY <1>1, <1>3, <2>1, CacheMakes
  <2>3. Given(CacheImported(src))
    BY <1>6, <2>1 DEF Given, src
  <2>4. CacheImported(src).cache # Z!None
    BY <1>5, <2>1, <2>2
  <2> QED BY <2>1, <2>2, <2>3, <2>4 DEF src
<1>7. CASE Z!ImportFromLists
  <2>1. Z!PutSource(Z!csvImported(src)) /\ UNCHANGED <<run, disk, past>>
    BY <1>7 DEF Z!ImportFromLists, src
  <2>2. Given(Z!csvImported(src))
    BY <1>7 DEF Given, src
  <2>3. /\ Z!csvImported(src) \in CaseSource
        /\ Z!csvImported(src).zip = src.zip /\ Z!csvImported(src).cache = src.cache
    BY <1>1, <1>3, ListsGive
  <2>4. ASSUME Z!csvImported(src).cache = Z!None
        PROVE  OfFolder(Z!csvImported(src), run.folder)
    <3>1. Z!listingFolder = run.folder
      BY <1>1, <1>3, <1>5, <2>3, <2>4, ListsGive
    <3>2. disk[run.folder].files.paths \subseteq Staged(run.folder)
      BY <1>1, RunPlace DEF FoldersInv
    <3>3. Z!csvImported(src).files \cup Z!csvImported(src).lookup \subseteq Staged(run.folder)
      BY <1>1, <1>3, <3>1, <3>2, ListsGive
    <3>4. \A a \in Z!csvImported(src).apps : a.in = run.folder /\ disk[run.folder].extracted[a.path] # Z!None
      BY <1>1, <1>3, <3>1, ListsGive
    <3> QED BY <3>3, <3>4 DEF OfFolder
  <2> QED BY <2>1, <2>2, <2>3, <2>4 DEF src
<1>8. CASE Z!ImportFails
  <2>1. Z!PutSource(src) /\ UNCHANGED <<run, disk, past>>
    BY <1>8 DEF Z!ImportFails, Z!rolledBack, src
  <2>2. Given(src)
    BY <1>8 DEF Given, src
  <2> QED BY <1>3, <1>4, <2>1, <2>2 DEF src
<1>9. CASE Z!LookUp /\ Z!LooksUp /\ cases[run.cache] # <<>>
  <2>1. run.cache # Z!None /\ Z!PutSource(LookedUp(src)) /\ UNCHANGED <<run, disk, past>>
    BY <1>9 DEF Z!LookUp, Z!LooksUp, LookedUp, src
  <2>2. LookedUp(src) \in CaseSource /\ LookedUp(src).zip = src.zip /\ LookedUp(src).cache = src.cache
    BY <1>1, <1>3, <2>1, CacheMakes
  <2>3. Given(LookedUp(src))
    BY <1>9, <2>1 DEF Given, src
  <2>4. LookedUp(src).cache # Z!None
    BY <1>5, <2>1, <2>2
  <2> QED BY <2>1, <2>2, <2>3, <2>4 DEF src
<1>10. CASE Z!Compare
  <2>1. Z!PutSource(Compared(src)) /\ UNCHANGED <<run, disk, past>>
    BY <1>10 DEF Z!Compare, Compared, src
  <2>2. /\ Compared(src) \in CaseSource /\ Compared(src).zip = src.zip /\ Compared(src).cache = src.cache
        /\ Compared(src).files = src.files /\ Compared(src).lookup = src.lookup /\ Compared(src).apps = src.apps
    BY <1>3, CompareMakes
  <2>3. Given(Compared(src))
    BY <1>10 DEF Given, src
  <2>4. Compared(src).cache = Z!None => OfFolder(Compared(src), run.folder)
    BY <1>4, <2>2 DEF OfFolder
  <2> QED BY <2>1, <2>2, <2>3, <2>4 DEF src
<1> QED BY <1>6, <1>7, <1>8, <1>9, <1>10 DEF SourceStep

\* The steps, by what they change.
FolderAction == Z!RunScript \/ Z!ParseListing \/ Z!ScriptFails
OtherAction  == \/ Z!StartRun \/ Z!StageFromCache \/ Z!Register \/ Z!LookupFails \/ Z!Stop
                \/ Z!LookUp /\ ~(Z!LooksUp /\ cases[run.cache] # <<>>)

\* See FolderAction.
LEMMA ZipActions == Z!Next => FolderAction \/ SourceStep \/ OtherAction
BY DEF Z!Next, FolderAction, SourceStep, OtherAction

\* A source is appended by Register.
LEMMA SourceAppended ==
  ASSUME ZipTypes, Z!Register
  PROVE  \E new \in CaseSource :
           /\ new.zip = run.zip /\ new.cache = run.cache /\ Blank(new)
           /\ cases' \in [Folders -> Seq(CaseSource)] /\ cases'[run.folder] # <<>> /\ Z!Source' = new
           /\ cases'[run.folder] = Append(cases[run.folder], new)
           /\ \A f \in Folders : f # run.folder => cases'[f] = cases[f]
           /\ UNCHANGED <<run, disk, told, past>>
<1> DEFINE new == [zip |-> run.zip, cache |-> run.cache, files |-> {}, lookup |-> {}, sentinel |-> FALSE,
                   apps |-> {}, compared |-> FALSE, missing |-> {}]
           old == cases[run.folder]
<1>1. pc = "register" /\ UNCHANGED <<run, disk, told, past>> /\ cases' = [cases EXCEPT ![run.folder] = Append(old, new)]
  BY DEF Z!Register
<1>2. run.folder \in Folders /\ old \in Seq(CaseSource) /\ cases \in [Folders -> Seq(CaseSource)]
  BY <1>1, RunPlace DEF ZipTypes
<1>3. new \in CaseSource /\ new.zip = run.zip /\ new.cache = run.cache /\ Blank(new)
  BY <1>1, RunPlace DEF CaseSource, Blank
<1> HIDE DEF new
<1>4. Append(old, new) \in Seq(CaseSource) /\ Append(old, new) # <<>> /\ Append(old, new)[Len(Append(old, new))] = new
  BY <1>2, <1>3
<1>5. cases'[run.folder] = Append(old, new) /\ cases' \in [Folders -> Seq(CaseSource)]
      /\ \A f \in Folders : f # run.folder => cases'[f] = cases[f]
  BY <1>1, <1>2, <1>4
<1>6. Z!Source' = new
  BY <1>1, <1>4, <1>5 DEF Z!Source
<1> QED BY <1>1, <1>3, <1>4, <1>5, <1>6

\* Every step keeps the types.
LEMMA ZipTypesStep ==
  ASSUME ZipTypes, FoldersInv, SourcesInv, RunInv, Z!Next
  PROVE  ZipTypes'
<1> DEFINE RunTyped  == run' \in ZipRun /\ run'.cache # run'.folder
           ToldTyped == told' \in [import : {"none", "cache", "lists", "warning"}, lookup : {"none", "complete", "warning"}]
           Stages    == {"script", "cache", "listing", "register", "import", "lookup", "compare", "compared"}
<1>1. pc # "idle" => run \in ZipRun /\ run.cache # run.folder
  BY DEF ZipTypes
<1>2. told \in [import : {"none", "cache", "lists", "warning"}, lookup : {"none", "complete", "warning"}]
  BY DEF ZipTypes
<1>3. CASE FolderAction
  <2>1. FoldersGrow /\ UNCHANGED cases
    BY <1>3, FolderStep DEF FolderAction
  <2>2. ToldTyped
    BY <1>2, <1>3 DEF FolderAction, Z!RunScript, Z!ParseListing, Z!ScriptFails
  <2>3. pc' = "idle" \/ (pc' \in Stages /\ RunTyped)
    <3>1. CASE Z!RunScript
      BY <1>1, <3>1 DEF Z!RunScript
    <3>2. CASE Z!ParseListing
      <4>1. pc # "idle" /\ pc' \in Stages
            /\ run' = [run EXCEPT !.profile = IF run.profile = "auto" /\ run.zip \in Indexed THEN "ios" ELSE run.profile]
        BY <3>2 DEF Z!ParseListing
      <4> QED BY <1>1, <4>1 DEF ZipRun
    <3>3. CASE Z!ScriptFails
      <4>1. pc = "script" /\ ((pc' = "register" /\ run' = run) \/ pc' = "idle")
        BY <3>3 DEF Z!ScriptFails
      <4>2. CASE pc' = "register" /\ run' = run
        BY <1>1, <4>1, <4>2
      <4> QED BY <4>1, <4>2
    <3> QED BY <1>3, <3>1, <3>2, <3>3 DEF FolderAction
  <2> QED BY <2>1, <2>2, <2>3 DEF ZipTypes, FoldersGrow
<1>4. CASE SourceStep
  <2>1. pc # "idle" /\ cases[run.folder] # <<>>
    BY <1>4 DEF RunInv, SourceStep, Z!ImportFromCache, Z!ImportFromLists, Z!ImportFails, Z!LookUp, Z!Compare
  <2>2. PICK new \in CaseSource : Z!PutSource(new) /\ UNCHANGED <<run, disk, past>>
    BY <1>4, SourceStepped
  <2>3. cases' \in [Folders -> Seq(CaseSource)]
    BY <2>1, <2>2, SourcePut
  <2>4. pc' \in Stages /\ ToldTyped
    BY <1>2, <1>4 DEF SourceStep, Z!ImportFromCache, Z!ImportFromLists, Z!ImportFails, Z!LookUp, Z!Compare
  <2> QED BY <1>1, <2>1, <2>2, <2>3, <2>4 DEF ZipTypes
<1>5. CASE OtherAction
  <2>1. UNCHANGED <<disk, past>>
    BY <1>5 DEF OtherAction, Z!StartRun, Z!StageFromCache, Z!Register, Z!LookupFails, Z!Stop, Z!LookUp
  <2>2. cases' \in [Folders -> Seq(CaseSource)]
    <3>1. CASE Z!Register
      BY <3>1, SourceAppended
    <3>2. CASE ~Z!Register
      <4>1. UNCHANGED cases
        BY <1>5, <3>2 DEF OtherAction, Z!StartRun, Z!StageFromCache, Z!LookupFails, Z!Stop, Z!LookUp
      <4> QED BY <4>1 DEF ZipTypes
    <3> QED BY <3>1, <3>2
  <2>3. ToldTyped
    BY <1>2, <1>5 DEF OtherAction, Z!StartRun, Z!StageFromCache, Z!Register, Z!LookupFails, Z!Stop, Z!LookUp, Z!Untold, Z!None
  <2>4. pc' = "idle" \/ (pc' \in Stages /\ RunTyped)
    <3>1. CASE Z!StartRun
      <4>1. PICK z \in Zips, f \in Folders, c \in Folders \cup {Z!None}, w \in Wishes :
               /\ c # f
               /\ run' = [zip |-> z, folder |-> f, cache |-> c, profile |-> w.profile, sevenZip |-> w.sevenZip,
                          materialize |-> w.materialize, full |-> w.materialize \/ w.support]
               /\ pc' = IF c = Z!None THEN "script" ELSE "cache"
        BY <3>1 DEF Z!StartRun
      <4>2. w \in [profile : {"ios", "auto"}, materialize : BOOLEAN, support : BOOLEAN,
                   sevenZip : BOOLEAN, cached : BOOLEAN]
        BY ZipAssumptions DEF Z!IntakeAssumption
      <4> QED BY <4>1, <4>2 DEF ZipRun
    <3>2. CASE Z!StageFromCache
      <4>1. CASE Z!usableCache(run.cache)
        <5>1. pc = "cache" /\ pc' = "register" /\ run' = [run EXCEPT !.profile = "ios"]
          BY <3>2, <4>1 DEF Z!StageFromCache
        <5> QED BY <1>1, <5>1 DEF ZipRun
      <4>2. CASE ~Z!usableCache(run.cache)
        <5>1. pc' = "idle"
          BY <3>2, <4>2 DEF Z!StageFromCache
        <5> QED BY <5>1
      <4> QED BY <4>1, <4>2
    <3>3. CASE Z!Register
      BY <1>1, <3>3 DEF Z!Register
    <3>4. CASE Z!LookupFails \/ Z!LookUp
      BY <1>1, <3>4 DEF Z!LookupFails, Z!LookUp
    <3>5. CASE Z!Stop
      <4>1. pc' = "idle"
        BY <3>5 DEF Z!Stop
      <4> QED BY <4>1
    <3> QED BY <1>5, <3>1, <3>2, <3>3, <3>4, <3>5 DEF OtherAction
  <2> QED BY <2>1, <2>2, <2>3, <2>4 DEF ZipTypes
<1> QED BY <1>3, <1>4, <1>5, ZipActions

\* What a folder holds was staged in it.
LEMMA FoldersStep ==
  ASSUME ZipTypes, FoldersInv, SourcesInv, RunInv, Z!Next
  PROVE  FoldersInv'
<1>1. CASE FolderAction
  BY <1>1, FolderStep DEF FolderAction, FoldersGrow
<1>2. CASE SourceStep \/ OtherAction
  <2>1. UNCHANGED <<disk, past>>
    BY <1>2 DEF SourceStep, OtherAction, Z!StartRun, Z!StageFromCache, Z!Register, Z!LookupFails, Z!Stop,
                Z!ImportFromCache, Z!ImportFromLists, Z!ImportFails, Z!LookUp, Z!Compare
  <2> QED BY <2>1 DEF FoldersInv, Staged
<1> QED BY <1>1, <1>2, ZipActions

\* A source that was imported without a cache has what its folder holds.
LEMMA SourcesStep ==
  ASSUME ZipTypes, FoldersInv, SourcesInv, RunInv, Z!Next
  PROVE  SourcesInv'
<1>1. CASE FolderAction
  <2>1. FoldersGrow /\ UNCHANGED cases
    BY <1>1, FolderStep DEF FolderAction
  <2>2. ASSUME NEW f \in Folders, NEW n \in DOMAIN cases[f], cases[f][n].cache = Z!None
        PROVE  OfFolder(cases[f][n], f)'
    <3>1. OfFolder(cases[f][n], f) /\ cases[f][n] \in CaseSource
      BY <2>2 DEF SourcesInv, ZipTypes
    <3>2. PathsOf(past[f]) \subseteq PathsOf(past'[f])
      BY <2>1 DEF FoldersGrow, PathsOf
    <3>3. \A a \in cases[f][n].apps : a.path \in Databases
      BY <3>1 DEF CaseSource, AppFile
    <3> DEFINE s == cases[f][n]
    <3>4. s' = s
      BY <2>1
    <3> HIDE DEF s
    <3>5. /\ s.files \cup s.lookup \subseteq PathsOf(past'[f])
          /\ \A a \in s.apps : a.in = f /\ disk'[f].extracted[a.path] # Z!None
      BY <2>1, <3>1, <3>2, <3>3 DEF OfFolder, Staged, FoldersGrow, s
    <3> QED BY <3>4, <3>5 DEF OfFolder, Staged, s
  <2> QED BY <2>1, <2>2 DEF SourcesInv
<1>2. CASE SourceStep
  <2>1. pc # "idle" /\ cases[run.folder] # <<>>
    BY <1>2 DEF RunInv, SourceStep, Z!ImportFromCache, Z!ImportFromLists, Z!ImportFails, Z!LookUp, Z!Compare
  <2>2. PICK new \in CaseSource : /\ Z!PutSource(new) /\ UNCHANGED <<run, disk, past>>
                                  /\ new.cache = Z!None => OfFolder(new, run.folder)
    BY <1>2, SourceStepped
  <2> QED BY <2>1, <2>2, SourceReplaced
<1>3. CASE Z!Register
  <2>1. PICK new \in CaseSource :
          /\ Blank(new) /\ cases'[run.folder] = Append(cases[run.folder], new)
          /\ \A f \in Folders : f # run.folder => cases'[f] = cases[f]
          /\ UNCHANGED <<run, disk, told, past>>
    BY <1>3, SourceAppended
  <2>2. \A f : OfFolder(new, f)
    BY <2>1 DEF Blank, OfFolder
  <2>3. ASSUME NEW f \in Folders, NEW n \in DOMAIN cases'[f], cases'[f][n].cache = Z!None
        PROVE  OfFolder(cases'[f][n], f)
    <3>1. cases[f] \in Seq(CaseSource)
      BY DEF ZipTypes
    <3>2. CASE f = run.folder
      <4>1. cases'[f] = Append(cases[f], new)
        BY <2>1, <3>2
      <4>2. n \in 1..Len(cases[f]) + 1
        BY <2>3, <3>1, <4>1
      <4>3. CASE n = Len(cases[f]) + 1
        BY <2>2, <3>1, <4>1, <4>3
      <4>4. CASE n # Len(cases[f]) + 1
        <5>1. n \in DOMAIN cases[f] /\ cases'[f][n] = cases[f][n]
          BY <3>1, <4>1, <4>2, <4>4
        <5> QED BY <2>3, <5>1 DEF SourcesInv
      <4> QED BY <4>3, <4>4
    <3>3. CASE f # run.folder
      BY <2>1, <2>3, <3>3 DEF SourcesInv
    <3> QED BY <3>2, <3>3
  <2>4. \A s, f : OfFolder(s, f)' <=> OfFolder(s, f)
    BY <2>1 DEF OfFolder, Staged
  <2> QED BY <2>3, <2>4 DEF SourcesInv
<1>4. CASE OtherAction /\ ~Z!Register
  <2>1. UNCHANGED <<disk, cases, past>>
    BY <1>4 DEF OtherAction, Z!StartRun, Z!StageFromCache, Z!LookupFails, Z!Stop, Z!LookUp
  <2> QED BY <2>1 DEF SourcesInv, OfFolder, Staged
<1> QED BY <1>1, <1>2, <1>3, <1>4, ZipActions

\* What a run knows of its stages.
LEMMA RunStep ==
  ASSUME ZipTypes, FoldersInv, SourcesInv, RunInv, Z!Next
  PROVE  RunInv'
<1>1. CASE Z!StartRun
  <2>1. PICK z \in Zips, f \in Folders, c \in Folders \cup {Z!None}, w \in Wishes :
           /\ run' = [zip |-> z, folder |-> f, cache |-> c, profile |-> w.profile, sevenZip |-> w.sevenZip,
                      materialize |-> w.materialize, full |-> w.materialize \/ w.support]
           /\ pc' = IF c = Z!None THEN "script" ELSE "cache"
    BY <1>1 DEF Z!StartRun
  <2>2. run'.cache = c
    BY <2>1
  <2>3. told' = Z!Untold
    BY <1>1 DEF Z!StartRun
  <2> QED BY <2>1, <2>2, <2>3 DEF RunInv, Z!Untold
<1>2. CASE Z!RunScript
  <2>1. pc = "script" /\ pc' = "listing" /\ UNCHANGED <<run, told>>
    BY <1>2 DEF Z!RunScript
  <2>2. ASSUME run.sevenZip
        PROVE  Z!Here'.raw.of = run.zip /\ Z!Here'.raw.paths \subseteq InZip[run.zip]
    <3> DEFINE folder == Z!Here
    <3>1. PICK raw \in Z!Listings(run.zip), x \in Z!Extractions(run.zip, folder.extracted) :
            Z!PutDisk([Z!WithFiles(folder, Z!NoListing) EXCEPT !.raw = raw, !.extracted = x])
      BY <1>2, <2>2 DEF Z!RunScript, Z!rawLeft
    <3>2. raw.of = run.zip /\ raw.paths \subseteq InZip[run.zip]
      BY <2>1, RunPlace, ListingsBelong
    <3> DEFINE new == [Z!WithFiles(folder, Z!NoListing) EXCEPT !.raw = raw, !.extracted = x]
    <3>3. folder \in CaseFolder /\ run.folder \in Folders
      BY <2>1, RunPlace
    <3>4. Z!WithFiles(folder, Z!NoListing) \in CaseFolder
      BY <3>3, NoListingType, FilesWritten
    <3>5. new.raw = raw
      BY <3>4 DEF CaseFolder
    <3> HIDE DEF new
    <3>6. disk'[run.folder] = new
      BY <2>1, <3>1, <3>3, FolderPut DEF new
    <3> QED BY <2>1, <3>2, <3>5, <3>6 DEF Z!Here
  <2> QED BY <2>1, <2>2 DEF RunInv, Z!Untold
<1>3. CASE Z!ParseListing
  <2>1. /\ pc = "listing" /\ pc' = "register" /\ UNCHANGED told /\ Z!PutDisk(Z!Parsed(Z!Here))
        /\ run' = [run EXCEPT !.profile = IF run.profile = "auto" /\ run.zip \in Indexed THEN "ios" ELSE run.profile]
    BY <1>3 DEF Z!ParseListing
  <2>2. run'.folder = run.folder /\ run'.zip = run.zip /\ run'.cache = run.cache /\ run'.sevenZip = run.sevenZip
    BY <2>1, RunPlace DEF ZipRun
  <2>3. ASSUME run.sevenZip
        PROVE  Z!Here'.files.paths \subseteq InZip[run.zip]
    <3>1. Z!Here.raw.of = run.zip /\ Z!Here.raw.paths \subseteq InZip[run.zip]
      BY <2>1, <2>3 DEF RunInv
    <3>2. Z!Here.raw # Z!NoListing
      BY <2>1, <3>1, RunPlace, ZipAssumptions DEF Z!NoListing, Z!IntakeAssumption
    <3>3. Z!Parsed(Z!Here).files = Z!Here.raw
      BY <2>1, <3>2, RunPlace, ListingParsed
    <3>4. disk'[run.folder] = Z!Parsed(Z!Here)
      BY <2>1, RunPlace, FolderPut
    <3>5. Z!Here' = Z!Parsed(Z!Here)
      BY <2>2, <3>4 DEF Z!Here
    <3> QED BY <3>1, <3>3, <3>5
  <2> QED BY <2>1, <2>2, <2>3 DEF RunInv, Z!Untold
<1>4. CASE Z!ScriptFails
  <2>1. \/ pc = "script" /\ pc' = "register" /\ run' = run /\ run.profile = "auto" /\ told' = told
        \/ pc' = "idle"
    BY <1>4 DEF Z!ScriptFails
  <2> QED BY <2>1 DEF RunInv, Z!Untold
<1>5. CASE Z!StageFromCache
  <2>1. \/ pc = "cache" /\ pc' = "register" /\ run' = [run EXCEPT !.profile = "ios"] /\ UNCHANGED <<disk, told>>
        \/ pc' = "idle"
    BY <1>5 DEF Z!StageFromCache
  <2>2. CASE pc = "cache" /\ pc' = "register" /\ run' = [run EXCEPT !.profile = "ios"] /\ UNCHANGED <<disk, told>>
    <3>1. run'.cache # Z!None
      BY <2>2, RunPlace DEF RunInv, ZipRun
    <3> QED BY <2>2, <3>1 DEF RunInv, Z!Untold
  <2>3. CASE pc' = "idle"
    BY <2>3 DEF RunInv
  <2> QED BY <2>1, <2>2, <2>3
<1>6. CASE Z!Register
  <2>1. pc = "register" /\ pc' = IF run.profile = "ios" THEN "import" ELSE "compare"
    BY <1>6 DEF Z!Register
  <2>2. PICK new \in CaseSource : /\ new.zip = run.zip /\ new.cache = run.cache /\ Blank(new)
                                  /\ cases'[run.folder] # <<>> /\ Z!Source' = new
                                  /\ UNCHANGED <<run, disk, told, past>>
    BY <1>6, SourceAppended
  <2>3. Z!Here' = Z!Here
    BY <2>2 DEF Z!Here
  <2> QED BY <2>1, <2>2, <2>3 DEF RunInv, Z!Untold, Z!None
<1>7. CASE SourceStep
  <2>1. /\ pc \in {"import", "lookup", "compare"} /\ pc' \in {"lookup", "compare", "compared"}
        /\ pc' = "lookup" => pc = "import" /\ told'.lookup = "none"
        /\ pc' = "compare" => pc = "lookup"
    <3>1. pc = "import" => told.lookup = "none"
      BY DEF RunInv, Z!Untold, Z!None
    <3>2. Z!ImportFromCache \/ Z!ImportFromLists \/ Z!ImportFails => told'.lookup = told.lookup
      BY DEF Z!ImportFromCache, Z!ImportFromLists, Z!ImportFails, ZipTypes
    <3> QED BY <1>7, <3>1, <3>2 DEF SourceStep, Z!ImportFromCache, Z!ImportFromLists, Z!ImportFails, Z!LookUp, Z!Compare
  <2>2. cases[run.folder] # <<>> /\ Z!Source.zip = run.zip /\ Z!Source.cache = run.cache
    BY <2>1 DEF RunInv
  <2>3. PICK new \in CaseSource : /\ Z!PutSource(new) /\ UNCHANGED <<run, disk, past>>
                                  /\ new.zip = Z!Source.zip /\ new.cache = Z!Source.cache
    BY <1>7, SourceStepped
  <2>4. Z!Source' = new /\ cases'[run.folder] # <<>>
    BY <2>1, <2>2, <2>3, SourcePut
  <2>5. pc \in {"import", "lookup"} => run.profile = "ios"
    BY DEF RunInv
  <2> QED BY <2>1, <2>2, <2>3, <2>4, <2>5 DEF RunInv
<1>8. CASE Z!LookupFails \/ (Z!LookUp /\ ~(Z!LooksUp /\ cases[run.cache] # <<>>))
  <2>1. pc = "lookup" /\ pc' = "compare" /\ UNCHANGED <<run, cases>>
    BY <1>8 DEF Z!LookupFails, Z!LookUp
  <2>2. Z!Source' = Z!Source
    BY <2>1 DEF Z!Source
  <2> QED BY <2>1, <2>2 DEF RunInv
<1>9. CASE Z!Stop
  <2>1. pc' = "idle"
    BY <1>9 DEF Z!Stop
  <2> QED BY <2>1 DEF RunInv
<1> QED BY <1>1, <1>2, <1>3, <1>4, <1>5, <1>6, <1>7, <1>8, <1>9, ZipActions DEF FolderAction, OtherAction

\* What a folder, and a case, of one ZIP only have to give.
LEMMA OnlyOwn ==
  ASSUME ZipTypes, FoldersInv, SourcesInv, pc # "idle", NEW c \in Folders, Z!OnlyZip(c)
  PROVE  /\ disk[c].files.paths \subseteq InZip[run.zip]
         /\ \A p \in Databases : disk[c].extracted[p] # Z!None => disk[c].extracted[p] = run.zip
         /\ Z!OnlyCase(c) => /\ Z!cachedFiles(c) \subseteq InZip[run.zip]
                             /\ \A a \in Z!reread(Z!cachedApps(c)) : a.content = run.zip
<1>1. Staged(c) \subseteq InZip[run.zip]
  BY DEF Staged, PathsOf, Z!OnlyZip
<1>2. disk[c].files.paths \subseteq InZip[run.zip]
  BY <1>1 DEF FoldersInv
<1>3. \A p \in Databases : disk[c].extracted[p] # Z!None => disk[c].extracted[p] = run.zip
  BY DEF FoldersInv, Z!OnlyZip
<1>4. ASSUME Z!OnlyCase(c)
      PROVE  /\ Z!cachedFiles(c) \subseteq InZip[run.zip]
             /\ \A a \in Z!reread(Z!cachedApps(c)) : a.content = run.zip
  <2>1. \A n \in DOMAIN cases[c] : cases[c][n] \in CaseSource /\ OfFolder(cases[c][n], c)
    BY <1>4 DEF Z!OnlyCase, Z!sourcesOf, SourcesInv, ZipTypes
  <2>2. Z!cachedFiles(c) \subseteq InZip[run.zip]
    BY <1>1, <2>1 DEF Z!cachedFiles, Z!sourcesOf, OfFolder
  <2>3. ASSUME NEW a \in Z!reread(Z!cachedApps(c))
        PROVE  a.content = run.zip
    <3>1. PICK n \in DOMAIN cases[c] : \E b \in cases[c][n].apps : b.in = a.in /\ b.path = a.path
      BY CacheGives
    <3>2. PICK b \in cases[c][n].apps : b.in = a.in /\ b.path = a.path
      BY <3>1
    <3>3. a.content = disk[a.in].extracted[a.path]
      BY CacheGives
    <3>4. b.in = c /\ disk[c].extracted[b.path] # Z!None
      BY <2>1, <3>2 DEF OfFolder
    <3>5. b.path \in Databases
      BY <2>1, <3>2 DEF CaseSource, AppFile
    <3> QED BY <1>3, <3>2, <3>3, <3>4, <3>5
  <2> QED BY <2>2, <2>3
<1> QED BY <1>2, <1>3, <1>4

\* Only the run's own case changes under a run, so what its cache has stays.
LEMMA CacheStays ==
  ASSUME ZipTypes, pc # "idle", UNCHANGED <<run, disk, past>>,
         \A f \in Folders : f # run.folder => cases'[f] = cases[f]
  PROVE  /\ run.cache # Z!None => Z!cachedFiles(run.cache)' = Z!cachedFiles(run.cache)
         /\ OwnListing' = OwnListing /\ OwnFiles' = OwnFiles
         /\ Z!listingFolder' = Z!listingFolder
<1>1. ASSUME run.cache # Z!None
      PROVE  cases'[run.cache] = cases[run.cache] /\ run'.cache = run.cache
  BY <1>1, RunPlace
<1>2. ASSUME run.cache # Z!None
      PROVE  Z!cachedFiles(run.cache)' = Z!cachedFiles(run.cache)
  BY <1>1, <1>2 DEF Z!cachedFiles, Z!sourcesOf
<1>3. ASSUME run.cache # Z!None
      PROVE  Z!OnlyCase(run.cache)' = Z!OnlyCase(run.cache)
  BY <1>1, <1>3 DEF Z!OnlyCase, Z!OnlyZip, Z!sourcesOf
<1>4. Z!OnlyZip(run.folder)' = Z!OnlyZip(run.folder)
  BY DEF Z!OnlyZip
<1>5. OwnListing' = OwnListing /\ OwnFiles' = OwnFiles
  BY <1>3, <1>4 DEF OwnListing, OwnFiles
<1>6. Z!listingFolder' = Z!listingFolder
  BY DEF Z!listingFolder, Z!Here
<1> QED BY <1>2, <1>5, <1>6

\* A step that puts a source keeps to the ZIP of the run.
LEMMA GivenBelongs ==
  ASSUME ZipTypes, FoldersInv, SourcesInv, RunInv, BelongInv, NEW new, Given(new)
  PROVE  /\ OwnListing => new.files \cup new.lookup \subseteq InZip[run.zip]
         /\ OwnFiles => \A a \in new.apps : a.content = run.zip
<1> DEFINE src == Z!Source
<1>1. pc \in {"import", "lookup", "compare"}
  BY DEF Given, Z!ImportFromCache, Z!ImportFromLists, Z!ImportFails, Z!LookUp, Z!Compare
<1>2. src \in CaseSource /\ src.cache = run.cache
  BY <1>1, SourceThere DEF RunInv
<1>3. pc # "import" => /\ OwnListing => src.files \cup src.lookup \subseteq InZip[run.zip]
                       /\ OwnFiles => \A a \in src.apps : a.content = run.zip
  BY <1>1 DEF BelongInv
<1>4. pc = "import" => Blank(src) /\ run.profile = "ios"
  BY DEF RunInv
<1>5. run.cache \in Folders \cup {Z!None} /\ run.folder \in Folders
  BY <1>1, RunPlace
<1>6. OwnListing \/ OwnFiles => run.cache = Z!None \/ Z!OnlyCase(run.cache)
  BY DEF OwnListing, OwnFiles
<1> HIDE DEF src
<1>7. CASE run.cache # Z!None /\ new = CacheImported(src)
  <2>1. /\ new.files \subseteq Z!cachedFiles(run.cache) /\ new.lookup = {}
        /\ new.apps = Z!reread(Z!cachedApps(run.cache))
    BY <1>1, <1>2, <1>7, CacheMakes
  <2>2. OwnListing \/ OwnFiles => Z!OnlyCase(run.cache) /\ Z!OnlyZip(run.cache)
    BY <1>6, <1>7 DEF Z!OnlyCase
  <2> QED BY <1>1, <1>5, <1>7, <2>1, <2>2, OnlyOwn
<1>8. CASE Z!ImportFromLists /\ new = Z!csvImported(src)
  <2> DEFINE lf == Z!listingFolder
  <2>1. /\ lf \in Folders /\ (run.cache = Z!None => lf = run.folder) /\ lf \in {run.folder, run.cache}
        /\ new.files \cup new.lookup = disk[lf].files.paths
        /\ \A a \in new.apps : /\ a.path \in Databases /\ a.in = lf /\ disk[a.in].extracted[a.path] # Z!None
                               /\ a.content = disk[a.in].extracted[a.path]
    BY <1>1, <1>2, <1>8, ListsGive
  <2>2. pc = "import"
    BY <1>8 DEF Z!ImportFromLists
  <2> HIDE DEF lf
  <2>3. OwnFiles => Z!OnlyZip(lf)
    BY <2>1 DEF OwnFiles, Z!OnlyCase
  <2>4. OwnListing => Z!OnlyZip(lf) \/ (run.cache = Z!None /\ run.sevenZip)
    BY <2>1 DEF OwnListing, Z!OnlyCase
  <2>5. run.cache = Z!None /\ run.sevenZip => disk[lf].files.paths \subseteq InZip[run.zip]
    BY <1>4, <2>1, <2>2 DEF RunInv, Z!Here
  <2> QED BY <1>1, <2>1, <2>3, <2>4, <2>5, OnlyOwn
<1>9. CASE Z!ImportFails /\ new = src
  <2>1. pc = "import"
    BY <1>9 DEF Z!ImportFails
  <2> QED BY <1>4, <1>9, <2>1 DEF Blank
<1>10. CASE Z!LookUp /\ run.cache # Z!None /\ new = LookedUp(src)
  <2>1. /\ new.files = src.files /\ new.apps = src.apps
        /\ new.lookup \subseteq src.lookup \cup Z!cachedFiles(run.cache)
    BY <1>1, <1>2, <1>10, CacheMakes
  <2>2. OwnListing \/ OwnFiles => Z!OnlyCase(run.cache) /\ Z!OnlyZip(run.cache)
    BY <1>6, <1>10 DEF Z!OnlyCase
  <2>3. pc # "import"
    BY <1>10 DEF Z!LookUp
  <2>4. OwnListing => Z!cachedFiles(run.cache) \subseteq InZip[run.zip]
    BY <1>1, <1>5, <1>10, <2>2, OnlyOwn
  <2> QED BY <1>3, <2>1, <2>3, <2>4
<1>11. CASE Z!Compare /\ new = Compared(src)
  <2>1. new.files = src.files /\ new.lookup = src.lookup /\ new.apps = src.apps
    BY <1>2, <1>11, CompareMakes
  <2>2. pc # "import"
    BY <1>11 DEF Z!Compare
  <2> QED BY <1>3, <2>1, <2>2
<1> QED BY <1>7, <1>8, <1>9, <1>10, <1>11 DEF Given, src

\* What the source of the run has been given stays in its own ZIP.
LEMMA BelongStep ==
  ASSUME ZipTypes, FoldersInv, SourcesInv, RunInv, BelongInv, Z!Next
  PROVE  BelongInv'
<1>1. CASE SourceStep
  <2>1. pc \in {"import", "lookup", "compare"}
    BY <1>1 DEF SourceStep, Z!ImportFromCache, Z!ImportFromLists, Z!ImportFails, Z!LookUp, Z!Compare
  <2>2. cases[run.folder] # <<>>
    BY <2>1 DEF RunInv
  <2>3. PICK new \in CaseSource : Given(new) /\ Z!PutSource(new) /\ UNCHANGED <<run, disk, past>>
    BY <1>1, SourceStepped
  <2>4. Z!Source' = new /\ \A f \in Folders : f # run.folder => cases'[f] = cases[f]
    BY <2>1, <2>2, <2>3, SourcePut
  <2>5. OwnListing' = OwnListing /\ OwnFiles' = OwnFiles
    BY <2>1, <2>3, <2>4, CacheStays
  <2>6. /\ OwnListing => new.files \cup new.lookup \subseteq InZip[run.zip]
        /\ OwnFiles => \A a \in new.apps : a.content = run.zip
    BY <2>3, GivenBelongs
  <2> QED BY <2>3, <2>4, <2>5, <2>6 DEF BelongInv
<1>2. CASE Z!Register
  <2>1. PICK new \in CaseSource : Blank(new) /\ Z!Source' = new
    BY <1>2, SourceAppended
  <2> QED BY <2>1 DEF BelongInv, Blank
<1>3. CASE Z!LookupFails \/ (Z!LookUp /\ ~(Z!LooksUp /\ cases[run.cache] # <<>>))
  <2>1. pc = "lookup" /\ UNCHANGED <<run, disk, cases, past>>
    BY <1>3 DEF Z!LookupFails, Z!LookUp
  <2>2. Z!Source' = Z!Source /\ OwnListing' = OwnListing /\ OwnFiles' = OwnFiles
    BY <2>1, CacheStays DEF Z!Source
  <2> QED BY <2>1, <2>2 DEF BelongInv
<1>4. CASE FolderAction \/ Z!StartRun \/ Z!StageFromCache \/ Z!Stop
  <2>1. pc' \notin {"lookup", "compare", "compared"}
    BY <1>4 DEF FolderAction, Z!RunScript, Z!ParseListing, Z!ScriptFails, Z!StartRun, Z!StageFromCache, Z!Stop
  <2> QED BY <2>1 DEF BelongInv
<1> QED BY <1>1, <1>2, <1>3, <1>4, ZipActions DEF OtherAction

\* What is known of the source a step puts, before it is compared.
LEMMA GivenTells ==
  ASSUME ZipTypes, FoldersInv, SourcesInv, RunInv, TellInv, NEW new, Given(new), Z!PutSource(new), pc # "compare"
  PROVE  /\ new.missing = {}
         /\ told'.import = "lists" => disk[Z!listingFolder].files.paths \subseteq Z!known(new)
         /\ told'.lookup = "complete" =>
              run.cache # Z!None /\ References \cap Z!cachedFiles(run.cache) \subseteq new.lookup
         /\ told'.import = "cache" => run.cache # Z!None
         /\ told'.import = "cache" /\ run.full => new.files = Z!cachedFiles(run.cache)
         /\ told'.import = "warning" /\ told'.lookup # "complete" => Blank(new)
<1> DEFINE src == Z!Source
<1>1. pc \in {"import", "lookup"}
  BY DEF Given, Z!ImportFromCache, Z!ImportFromLists, Z!ImportFails, Z!LookUp, Z!Compare
<1>2. src \in CaseSource
  BY <1>1, SourceThere DEF RunInv
<1>3. pc = "import" => Blank(src) /\ told.lookup = "none" /\ told.import = "none"
  BY DEF RunInv, Z!Untold, Z!None
<1>4. told \in [import : {"none", "cache", "lists", "warning"}, lookup : {"none", "complete", "warning"}]
  BY DEF ZipTypes
<1>5. /\ pc = "lookup" => /\ src.missing = {}
                          /\ told.import = "lists" => disk[Z!listingFolder].files.paths \subseteq Z!known(src)
                          /\ told.import = "cache" /\ run.full => src.files = Z!cachedFiles(run.cache)
  BY DEF TellInv
<1> HIDE DEF src
<1>6. CASE Z!ImportFromCache /\ run.cache # Z!None /\ new = CacheImported(src)
  <2>1. pc = "import" /\ told'.import = "cache" /\ told'.lookup = "none"
    BY <1>3, <1>4, <1>6 DEF Z!ImportFromCache
  <2>2. new.missing = src.missing /\ new.files = (IF run.full THEN Z!cachedFiles(run.cache) ELSE {})
    BY <1>1, <1>2, <1>6, CacheMakes
  <2> QED BY <1>3, <1>6, <2>1, <2>2 DEF Blank
<1>7. CASE Z!ImportFromLists /\ new = Z!csvImported(src)
  <2>1. pc = "import" /\ told'.import = "lists" /\ told'.lookup = "none"
    BY <1>3, <1>4, <1>7 DEF Z!ImportFromLists
  <2>2. /\ new.missing = src.missing /\ new.files \cup new.lookup = disk[Z!listingFolder].files.paths
        /\ new.files = {} \/ new.files = disk[Z!listingFolder].files.paths
    BY <1>1, <1>2, <1>7, ListsGive
  <2>3. disk[Z!listingFolder].files.paths \subseteq Z!known(new)
    BY <2>2 DEF Z!known
  <2> QED BY <1>3, <2>1, <2>2, <2>3 DEF Blank
<1>8. CASE Z!ImportFails /\ new = src
  <2>1. pc = "import" /\ told'.import = "warning" /\ told'.lookup = "none"
    BY <1>3, <1>4, <1>8 DEF Z!ImportFails
  <2> QED BY <1>3, <1>8, <2>1 DEF Blank
<1>9. CASE Z!LookUp /\ run.cache # Z!None /\ new = LookedUp(src)
  <2>1. /\ new.files = src.files /\ new.missing = src.missing
        /\ new.lookup = src.lookup \cup (References \cap Z!cachedFiles(run.cache))
    BY <1>1, <1>2, <1>9, CacheMakes
  <2>2. pc = "lookup"
    BY <1>9 DEF Z!LookUp
  <2>3. Z!known(src) \subseteq Z!known(new)
    BY <2>1 DEF Z!known
  <2>4. CASE Z!LooksUp /\ cases[run.cache] # <<>>
    <3>1. told'.lookup = "complete" /\ told'.import = told.import
      BY <1>4, <1>9, <2>4 DEF Z!LookUp
    <3> QED BY <1>5, <1>9, <2>1, <2>2, <2>3, <3>1
  <2>5. CASE ~(Z!LooksUp /\ cases[run.cache] # <<>>)
    <3>1. told' = told /\ Z!Source' = src
      BY <1>9, <2>5 DEF Z!LookUp, Z!Source, src
    <3>2. cases[run.folder] # <<>> /\ run' = run
      BY <1>9, <2>2 DEF RunInv, Z!LookUp
    <3>3. new \in CaseSource
      BY <1>1, <1>2, <1>9, CacheMakes
    <3>4. Z!Source' = new
      BY <1>1, <3>2, <3>3, SourcePut
    <3>5. new = src
      BY <3>1, <3>4
    <3>6. TellInv /\ told.lookup = "none"
      BY <2>2 DEF RunInv
    <3> QED BY <2>2, <3>1, <3>5, <3>6 DEF TellInv, src
  <2> QED BY <2>4, <2>5
<1> QED BY <1>1, <1>6, <1>7, <1>8, <1>9 DEF Given, Z!Compare, src

\* What is told of a comparison follows from what was known before it.
LEMMA ComparisonTells ==
  ASSUME ZipTypes, FoldersInv, SourcesInv, RunInv, TellInv, Z!Compare
  PROVE  Z!AbsentIsAbsent'
<1> DEFINE src == Z!Source
           new == Compared(src)
           listed == disk[Z!listingFolder].files.paths
           cached == Z!cachedFiles(run.cache)
<1>1. pc = "compare" /\ Z!PutSource(new) /\ UNCHANGED <<run, disk, told, past>>
  BY DEF Z!Compare, Compared
<1>2. cases[run.folder] # <<>> /\ src \in CaseSource
  BY <1>1, SourceThere DEF RunInv
<1>3. /\ new \in CaseSource /\ new.files = src.files /\ new.apps = src.apps
      /\ new.missing = (IF Z!available(src) THEN (References \cup InSpotlight) \ Z!known(src) ELSE src.missing)
  BY <1>2, CompareMakes
<1>4. Z!Source' = new /\ \A f \in Folders : f # run.folder => cases'[f] = cases[f]
  <2> HIDE DEF new
  <2> QED BY <1>1, <1>2, <1>3, SourcePut
<1>5. /\ run.cache # Z!None => Z!cachedFiles(run.cache)' = cached
      /\ (disk[Z!listingFolder].files.paths)' = listed
  BY <1>1, <1>4, CacheStays
<1>6. /\ src.missing = {}
      /\ told.import = "lists" => listed \subseteq Z!known(src)
      /\ told.lookup = "complete" => run.cache # Z!None /\ References \cap cached \subseteq src.lookup
      /\ told.import = "cache" => run.cache # Z!None
      /\ told.import = "cache" /\ run.full => src.files = cached
      /\ told.import = "warning" /\ told.lookup # "complete" => Blank(src)
  BY <1>1 DEF TellInv
<1> HIDE DEF src, new, listed, cached
<1>7. told.import = "lists" => new.missing \cap listed = {}
  BY <1>3, <1>6
<1>8. told.lookup = "complete" /\ src.files = {} => new.missing \cap References \cap cached = {}
  BY <1>3, <1>6 DEF Z!known
<1>9. told.import = "cache" /\ run.full => new.missing \cap References \cap cached = {}
  BY <1>3, <1>6 DEF Z!known
<1>10. told.import = "warning" /\ told.lookup # "complete" => new.missing = {} /\ new.apps = {}
  BY <1>3, <1>6 DEF Z!available, Blank
<1>11. /\ told'.import = "lists" => Z!Source'.missing \cap (disk[Z!listingFolder].files.paths)' = {}
       /\ told'.import = "warning" /\ told'.lookup # "complete" => Z!Source'.missing = {} /\ Z!Source'.apps = {}
  BY <1>1, <1>4, <1>5, <1>7, <1>10
<1>12. (told'.lookup = "complete" /\ Z!Source'.files = {}) \/ (told'.import = "cache" /\ run'.full) =>
         Z!Source'.missing \cap References \cap Z!cachedFiles(run.cache)' = {}
  BY <1>1, <1>3, <1>4, <1>5, <1>6, <1>8, <1>9
<1> QED BY <1>11, <1>12 DEF Z!AbsentIsAbsent

\* Nothing is told missing that was imported or looked up.
LEMMA TellStep ==
  ASSUME ZipTypes, FoldersInv, SourcesInv, RunInv, TellInv, Z!Next
  PROVE  TellInv'
<1>1. CASE SourceStep /\ ~Z!Compare
  <2>1. pc \in {"import", "lookup"} /\ pc' # "compared"
    BY <1>1 DEF SourceStep, Z!ImportFromCache, Z!ImportFromLists, Z!ImportFails, Z!LookUp
  <2>2. cases[run.folder] # <<>>
    BY <2>1 DEF RunInv
  <2>3. PICK new \in CaseSource : Given(new) /\ Z!PutSource(new) /\ UNCHANGED <<run, disk, past>>
    BY <1>1, SourceStepped
  <2>4. Z!Source' = new /\ \A f \in Folders : f # run.folder => cases'[f] = cases[f]
    BY <2>1, <2>2, <2>3, SourcePut
  <2>5. /\ run.cache # Z!None => Z!cachedFiles(run.cache)' = Z!cachedFiles(run.cache)
        /\ Z!listingFolder' = Z!listingFolder
    BY <2>1, <2>3, <2>4, CacheStays
  <2>6. /\ new.missing = {}
        /\ told'.import = "lists" => disk[Z!listingFolder].files.paths \subseteq Z!known(new)
        /\ told'.lookup = "complete" =>
             run.cache # Z!None /\ References \cap Z!cachedFiles(run.cache) \subseteq new.lookup
        /\ told'.import = "cache" => run.cache # Z!None
        /\ told'.import = "cache" /\ run.full => new.files = Z!cachedFiles(run.cache)
        /\ told'.import = "warning" /\ told'.lookup # "complete" => Blank(new)
    BY <2>1, <2>3, GivenTells
  <2>7. Z!known(Z!Source)' = Z!known(new) /\ (Blank(Z!Source)' <=> Blank(new))
    BY <2>4 DEF Z!known, Blank
  <2>8. Z!AbsentIsAbsent'
    BY <2>1 DEF Z!AbsentIsAbsent
  <2> QED BY <2>3, <2>4, <2>5, <2>6, <2>7, <2>8 DEF TellInv
<1>2. CASE Z!Compare
  <2>1. pc' = "compared" /\ Z!AbsentIsAbsent'
    BY <1>2, ComparisonTells DEF Z!Compare
  <2> QED BY <2>1 DEF TellInv
<1>3. CASE Z!Register
  <2>1. PICK new \in CaseSource : Blank(new) /\ Z!Source' = new /\ UNCHANGED told
    BY <1>3, SourceAppended
  <2>2. told'.import = "none" /\ told'.lookup = "none"
    BY <1>3, <2>1 DEF Z!Register, RunInv, Z!Untold, Z!None
  <2>3. pc' # "compared"
    BY <1>3 DEF Z!Register
  <2> QED BY <2>1, <2>2, <2>3 DEF TellInv, Blank, Z!AbsentIsAbsent
<1>4. CASE Z!LookupFails \/ (Z!LookUp /\ ~(Z!LooksUp /\ cases[run.cache] # <<>>))
  <2>1. pc = "lookup" /\ pc' = "compare" /\ UNCHANGED <<run, disk, cases, past>>
    BY <1>4 DEF Z!LookupFails, Z!LookUp
  <2>2. told.lookup = "none"
    BY <2>1 DEF RunInv
  <2>3. told'.import = told.import /\ told'.lookup # "complete"
    <3>1. told \in [import : {"none", "cache", "lists", "warning"}, lookup : {"none", "complete", "warning"}]
      BY DEF ZipTypes
    <3> QED BY <1>4, <2>2, <3>1 DEF Z!LookupFails, Z!LookUp
  <2>4. /\ Z!Source' = Z!Source /\ Z!cachedFiles(run.cache)' = Z!cachedFiles(run.cache)
        /\ Z!listingFolder' = Z!listingFolder
    BY <2>1 DEF Z!Source, Z!cachedFiles, Z!sourcesOf, Z!listingFolder, Z!Here
  <2>5. Z!known(Z!Source)' = Z!known(Z!Source) /\ (Blank(Z!Source)' <=> Blank(Z!Source))
    BY <2>4 DEF Z!known, Blank
  <2>6. Z!AbsentIsAbsent'
    BY <2>1 DEF Z!AbsentIsAbsent
  <2> QED BY <2>1, <2>2, <2>3, <2>4, <2>5, <2>6 DEF TellInv
<1>5. CASE FolderAction \/ Z!StartRun \/ Z!StageFromCache \/ Z!Stop
  <2>1. pc' \notin {"lookup", "compare", "compared"}
    BY <1>5 DEF FolderAction, Z!RunScript, Z!ParseListing, Z!ScriptFails, Z!StartRun, Z!StageFromCache, Z!Stop
  <2> QED BY <2>1 DEF TellInv, Z!AbsentIsAbsent
<1> QED BY <1>1, <1>2, <1>3, <1>4, <1>5, ZipActions DEF OtherAction

\* The case folders are empty at first.
LEMMA ZipBegins == ASSUME Z!Init PROVE ZipInv
<1>1. pc = "idle" /\ told = Z!Untold
  BY DEF Z!Init
<1>2. \A f \in Folders : disk[f] = Z!EmptyFolder /\ cases[f] = <<>> /\ past[f] = {}
  BY DEF Z!Init
<1>3. Z!EmptyFolder \in CaseFolder
  BY DEF Z!EmptyFolder, CaseFolder, Listing, Z!NoListing
<1>4. ZipTypes
  <2>1. disk \in [Folders -> CaseFolder] /\ cases \in [Folders -> Seq(CaseSource)] /\ past \in [Folders -> SUBSET Zips]
    BY <1>3 DEF Z!Init
  <2> QED BY <1>1, <2>1 DEF ZipTypes, Z!Untold, Z!None
<1>5. FoldersInv
  <2>1. /\ Z!EmptyFolder.raw.paths = {} /\ Z!EmptyFolder.files.paths = {} /\ Z!EmptyFolder.databases = {}
        /\ \A p \in Databases : Z!EmptyFolder.extracted[p] = Z!None
    BY DEF Z!EmptyFolder, Z!NoListing
  <2> QED BY <1>2, <2>1 DEF FoldersInv
<1>6. SourcesInv
  BY <1>2 DEF SourcesInv
<1> QED BY <1>1, <1>4, <1>5, <1>6 DEF ZipInv, RunInv, BelongInv, TellInv, Z!AbsentIsAbsent

\* Nothing of the ZIPs changes in the steps of the other sides.
LEMMA ZipStays ==
  ASSUME ZipInv, UNCHANGED <<pc, told, zipOnly>>
  PROVE  ZipInv'
<1>1. UNCHANGED <<pc, told, run, disk, cases, past>>
  BY DEF zipOnly
<1>2. ZipTypes' /\ FoldersInv' /\ SourcesInv'
  BY <1>1 DEF ZipInv, ZipTypes, FoldersInv, SourcesInv, OfFolder, Staged
<1>3. Z!Source' = Z!Source /\ Z!Here' = Z!Here
  BY <1>1 DEF Z!Source, Z!Here
<1>4. RunInv'
  BY <1>1, <1>3 DEF ZipInv, RunInv, Blank
<1>5. OwnListing' = OwnListing /\ OwnFiles' = OwnFiles /\ Z!listingFolder' = Z!listingFolder
      /\ Z!cachedFiles(run.cache)' = Z!cachedFiles(run.cache)
  BY <1>1, <1>3 DEF OwnListing, OwnFiles, Z!OnlyZip, Z!OnlyCase, Z!sourcesOf, Z!listingFolder, Z!cachedFiles
<1>6. BelongInv'
  BY <1>1, <1>3, <1>5 DEF ZipInv, BelongInv
<1>7. Z!AbsentIsAbsent'
  BY <1>1, <1>3, <1>5 DEF ZipInv, TellInv, Z!AbsentIsAbsent
<1>8. TellInv'
  BY <1>1, <1>3, <1>5, <1>7 DEF ZipInv, TellInv, Z!known, Blank
<1> QED BY <1>2, <1>4, <1>6, <1>8 DEF ZipInv

\* The files a source is given, and the databases read for it, are those of its own
\* ZIP when no other was staged where they are taken from, and nothing is told
\* missing that the inventories, or the case database of the cache, list: for any
\* ZIPs, folders, options and faults, and any number of runs into the same folders.
THEOREM ListingsAllBelong == DataSpec => []ListingBelongs
<1> DEFINE ZipSide == side = "zip" => ZipInv
<1>1. DataInit => ZipSide
  BY ZipBegins DEF DataInit
<1>2. ZipSide /\ [DataNext]_dataVars => ZipSide'
  <2> SUFFICES ASSUME ZipSide, [DataNext]_dataVars, side' = "zip"
               PROVE  ZipInv'
    OBVIOUS
  <2>1. CASE ZipStep
    <3>1. ZipInv /\ Z!Next
      BY <2>1 DEF ZipStep
    <3> QED BY <3>1, ZipTypesStep, FoldersStep, SourcesStep, RunStep, BelongStep, TellStep DEF ZipInv
  <2>2. CASE ReaderStep \/ GuidedStep \/ ParserStep \/ EnrichStep \/ AppsStep
    BY <2>2 DEF ReaderStep, GuidedStep, ParserStep, EnrichStep, AppsStep
  <2>3. CASE UNCHANGED dataVars
    <3>1. UNCHANGED <<side, pc, told, zipOnly>>
      BY <2>3 DEF dataVars
    <3> QED BY <3>1, ZipStays
  <2> QED BY <2>1, <2>2, <2>3 DEF DataNext
<1>3. ZipSide => ListingBelongs
  <2> SUFFICES ASSUME side = "zip", ZipInv
               PROVE  Z!ListingBelongs /\ Z!AbsentIsAbsent
    BY DEF ListingBelongs
  <2>1. BelongInv /\ Z!AbsentIsAbsent
    BY DEF ZipInv, TellInv
  <2> QED BY <2>1 DEF BelongInv, OwnListing, OwnFiles, Z!ListingBelongs
<1> QED BY <1>1, <1>2, <1>3, PTL DEF DataSpec

----------------------------------------------------------------------------
(* The enrichment.  What its tables are made of.                           *)
TableNames == {"inventory", "artifacts", "links", "dates", "timeline",
               "volumes", "leads", "texts", "hits", "tally"}
ShapedArtifact(a) == DOMAIN a = {"parent", "name", "path", "status", "existence", "flagged"}
ShapedEvent(e)    == DOMAIN e = {"name", "path", "existence", "flagged"}
Shaped(t) == /\ DOMAIN t = TableNames
             /\ DOMAIN t.hits = {"path", "cache"}
             /\ \A i \in DOMAIN t.artifacts : ShapedArtifact(t.artifacts[i]) /\ t.artifacts[i].flagged \in BOOLEAN
             /\ \A i \in DOMAIN t.timeline : ShapedEvent(t.timeline[i])

\* TablesAgree, of any tables.
Built == {N!Items[k].inode : k \in DOMAIN N!Items}
Later(a) == a.status \in {"imagePath", "imageName", "cachePath"}
Dates(t) ==
  DOMAIN t.dates # {} =>
    /\ DOMAIN t.dates = Built /\ Built \subseteq DOMAIN t.artifacts
    /\ DOMAIN t.timeline = {i \in Built : N!Dated(i)}
    /\ \A i \in Built : \/ Later(t.artifacts[i])
                        \/ t.dates[i] = [name |-> t.artifacts[i].name, path |-> t.artifacts[i].path]
    /\ \A i \in Built : N!UnderVolumes(t.dates[i].path) => <<i, t.dates[i].path>> \in t.volumes
NoDates(t) == DOMAIN t.dates = {} => DOMAIN t.timeline = {} /\ t.volumes = {} /\ t.hits.path = {}
Leads(t) == /\ \A i \in DOMAIN t.artifacts : t.artifacts[i].flagged <=> i \in DOMAIN t.leads
            /\ DOMAIN t.leads \subseteq DOMAIN t.artifacts
Events(t) == \A i \in DOMAIN t.timeline : /\ t.timeline[i].flagged = t.artifacts[i].flagged
                                          /\ t.timeline[i].existence = t.artifacts[i].existence
Tally(t) == t.tally \in {{}, {t.hits}}
Agree(t) == Dates(t) /\ NoDates(t) /\ Leads(t) /\ Events(t) /\ Tally(t)

\* The tables before a run, and those of an open transaction that has artifacts only.
Derivable(t) == /\ DOMAIN t.dates = {} /\ DOMAIN t.timeline = {} /\ DOMAIN t.leads = {}
                /\ t.volumes = {} /\ t.hits.path = {} /\ t.tally = {}
Undone(t) == /\ Derivable(t) /\ DOMAIN t.artifacts = {}
Begun(t)  == /\ Derivable(t) /\ DOMAIN t.artifacts = Built
             /\ \A i \in Built : ~t.artifacts[i].flagged /\ t.artifacts[i].existence = ""

\* What is committed agrees; what is open is on its way to agree when it is committed.
Early == {"materialize", "build"}
Underway  == {"probe", "link", "chain", "apply", "derive"}
EnrichInv ==
  /\ Shaped(kept) /\ Agree(kept) /\ Shaped(db)
  /\ pc \in Early => Undone(kept)
  /\ pc \in Underway => Begun(db)
  /\ pc = "commit" => Agree(db)
  /\ pc \notin Underway \cup {"commit"} => db = kept
  /\ pc = "renewHits" => kept.tally = {}

\* One table put in place of another leaves the others.
LEMMA ArtifactsPut ==
  ASSUME NEW t, NEW f, Shaped(t), NEW u, u = [t EXCEPT !.artifacts = f]
  PROVE  /\ DOMAIN u = TableNames /\ u.artifacts = f /\ u.dates = t.dates /\ u.timeline = t.timeline
         /\ u.volumes = t.volumes /\ u.leads = t.leads /\ u.hits = t.hits /\ u.tally = t.tally
BY DEF Shaped, TableNames

\* A pass over the artifacts of an open transaction that flags nothing leaves it begun.
LEMMA BegunStays ==
  ASSUME NEW t, NEW f, Shaped(t), Begun(t), DOMAIN f = DOMAIN t.artifacts,
         \A i \in DOMAIN t.artifacts : /\ ShapedArtifact(f[i])
                                       /\ f[i].flagged = t.artifacts[i].flagged
                                       /\ f[i].existence = t.artifacts[i].existence,
         NEW u, u = [t EXCEPT !.artifacts = f]
  PROVE  Shaped(u) /\ Begun(u)
<1>1. /\ DOMAIN u = TableNames /\ u.artifacts = f
      /\ u.dates = t.dates /\ u.timeline = t.timeline /\ u.volumes = t.volumes
      /\ u.leads = t.leads /\ u.hits = t.hits /\ u.tally = t.tally
  BY ArtifactsPut
<1>2. Shaped(u)
  BY <1>1 DEF Shaped
<1>3. Begun(u)
  BY <1>1 DEF Begun, Derivable
<1> QED BY <1>2, <1>3

\* What the passes before the commit do to one artifact.
LEMMA PassesKeep ==
  ASSUME NEW i \in DOMAIN db.artifacts, ShapedArtifact(db.artifacts[i])
  PROVE  /\ ShapedArtifact(N!Probed(i)) /\ ShapedArtifact(N!Applied(i))
         /\ N!Probed(i).flagged = db.artifacts[i].flagged
         /\ N!Probed(i).existence = db.artifacts[i].existence
         /\ N!Applied(i).flagged = db.artifacts[i].flagged
         /\ N!Applied(i).existence = db.artifacts[i].existence
<1>1. /\ ShapedArtifact(N!Probed(i)) /\ N!Probed(i).flagged = db.artifacts[i].flagged
      /\ N!Probed(i).existence = db.artifacts[i].existence
  BY DEF N!Probed, N!Artifacts, ShapedArtifact
<1>2. /\ ShapedArtifact(N!Applied(i)) /\ N!Applied(i).flagged = db.artifacts[i].flagged
      /\ N!Applied(i).existence = db.artifacts[i].existence
  BY DEF N!Applied, N!Artifacts, ShapedArtifact
<1> QED BY <1>1, <1>2

\* What the resolving of names and the cached text do to one artifact.
LEMMA ResolvedTells ==
  ASSUME NEW i \in DOMAIN db.artifacts, ShapedArtifact(db.artifacts[i]),
         NEW a, a = N!Resolved(i) \/ a = N!WithText(i)
  PROVE  /\ ShapedArtifact(a)
         /\ a.flagged = db.artifacts[i].flagged /\ a.existence = db.artifacts[i].existence
         /\ Later(a) \/ a = db.artifacts[i]
<1>1. CASE a = N!Resolved(i)
  BY <1>1 DEF N!Resolved, N!Artifacts, ShapedArtifact, Later
<1>2. CASE a = N!WithText(i)
  BY <1>2 DEF N!WithText, N!Artifacts, ShapedArtifact, Later
<1> QED BY <1>1, <1>2

\* More artifacts, of which some were told of later and the new ones are not flagged,
\* agree with the other tables as before.
LEMMA LaterAgree ==
  ASSUME NEW t, NEW f, Shaped(t), Agree(t), DOMAIN t.artifacts \subseteq DOMAIN f,
         \A i \in DOMAIN t.artifacts : /\ ShapedArtifact(f[i])
                                       /\ f[i].flagged = t.artifacts[i].flagged
                                       /\ f[i].existence = t.artifacts[i].existence
                                       /\ Later(f[i]) \/ f[i] = t.artifacts[i],
         \A i \in DOMAIN f \ DOMAIN t.artifacts : ShapedArtifact(f[i]) /\ f[i].flagged = FALSE,
         NEW u, u = [t EXCEPT !.artifacts = f]
  PROVE  Shaped(u) /\ Agree(u)
<1>1. /\ DOMAIN u = TableNames /\ u.artifacts = f
      /\ u.dates = t.dates /\ u.timeline = t.timeline /\ u.volumes = t.volumes
      /\ u.leads = t.leads /\ u.hits = t.hits /\ u.tally = t.tally
  BY ArtifactsPut
<1>2. Shaped(u)
  <2>1. \A i \in DOMAIN f : ShapedArtifact(f[i]) /\ f[i].flagged \in BOOLEAN
    BY DEF Shaped
  <2> QED BY <1>1, <2>1 DEF Shaped
<1>3. Dates(u)
  <2> SUFFICES ASSUME DOMAIN t.dates # {}
               PROVE  /\ DOMAIN u.dates = Built /\ Built \subseteq DOMAIN u.artifacts
                      /\ DOMAIN u.timeline = {i \in Built : N!Dated(i)}
                      /\ \A i \in Built : \/ Later(u.artifacts[i])
                                          \/ u.dates[i] = [name |-> u.artifacts[i].name, path |-> u.artifacts[i].path]
                      /\ \A i \in Built : N!UnderVolumes(u.dates[i].path) => <<i, u.dates[i].path>> \in u.volumes
    BY <1>1 DEF Dates
  <2>1. /\ DOMAIN t.dates = Built /\ Built \subseteq DOMAIN t.artifacts
        /\ DOMAIN t.timeline = {i \in Built : N!Dated(i)}
        /\ \A i \in Built : N!UnderVolumes(t.dates[i].path) => <<i, t.dates[i].path>> \in t.volumes
    BY DEF Agree, Dates
  <2>2. ASSUME NEW i \in Built
        PROVE  \/ Later(u.artifacts[i])
               \/ u.dates[i] = [name |-> u.artifacts[i].name, path |-> u.artifacts[i].path]
    <3>1. i \in DOMAIN t.artifacts /\ u.artifacts[i] = f[i]
      BY <1>1, <2>1
    <3>2. Later(t.artifacts[i]) \/ t.dates[i] = [name |-> t.artifacts[i].name, path |-> t.artifacts[i].path]
      BY DEF Agree, Dates
    <3> QED BY <1>1, <3>1, <3>2
  <2>3. Built \subseteq DOMAIN u.artifacts
    BY <1>1, <2>1
  <2> QED BY <1>1, <2>1, <2>2, <2>3
<1>4. NoDates(u) /\ Tally(u)
  BY <1>1 DEF Agree, NoDates, Tally
<1>5. Leads(u)
  <2>1. /\ \A i \in DOMAIN t.artifacts : t.artifacts[i].flagged <=> i \in DOMAIN t.leads
        /\ DOMAIN t.leads \subseteq DOMAIN t.artifacts
    BY DEF Agree, Leads
  <2>2. ASSUME NEW i \in DOMAIN f PROVE u.artifacts[i].flagged <=> i \in DOMAIN u.leads
    <3>1. u.artifacts[i] = f[i] /\ u.leads = t.leads
      BY <1>1
    <3>2. CASE i \in DOMAIN t.artifacts
      BY <2>1, <3>1, <3>2
    <3>3. CASE i \notin DOMAIN t.artifacts
      BY <2>1, <3>1, <3>3
    <3> QED BY <3>2, <3>3
  <2> QED BY <1>1, <2>1, <2>2 DEF Leads
<1>6. Events(u)
  <2>1. DOMAIN t.timeline \subseteq DOMAIN t.artifacts
    BY DEF Agree, Dates, NoDates
  <2> QED BY <1>1, <2>1 DEF Agree, Events
<1> QED BY <1>2, <1>3, <1>4, <1>5, <1>6 DEF Agree

\* The tables of a run agree when all of them are derived from the artifacts.
LEMMA DerivedAgree ==
  ASSUME Shaped(db), Begun(db), N!Derive
  PROVE  Shaped(db') /\ Agree(db')
<1>1. PICK paths, shown, where, events :
         /\ paths = {i \in DOMAIN db.artifacts : N!NamesVolumes(db.artifacts[i].path)}
         /\ shown = [i \in DOMAIN db.artifacts |-> [name |-> db.artifacts[i].name, path |-> db.artifacts[i].path]]
         /\ where = UNION {{<<i, p>> : p \in {p \in {db.artifacts[i].path} \cup N!ProbesOf(i) : N!UnderVolumes(p)}} :
                             i \in DOMAIN db.artifacts}
         /\ events = [i \in {i \in DOMAIN db.artifacts : N!Dated(i)} |->
                        [name |-> db.artifacts[i].name, path |-> db.artifacts[i].path,
                         existence |-> "", flagged |-> FALSE]]
  OBVIOUS
<1>2. PICK hits : hits = [path |-> paths, cache |-> {c \in db.texts : c.mounted}]
  OBVIOUS
<1>3. db' = [db EXCEPT !.dates = shown, !.volumes = where, !.hits = hits, !.tally = {hits}, !.timeline = events]
  BY <1>1, <1>2 DEF N!Derive, N!Shown, N!Artifacts, N!Hits
<1>4. /\ DOMAIN db' = TableNames /\ db'.artifacts = db.artifacts /\ db'.leads = db.leads
      /\ db'.dates = shown /\ db'.volumes = where /\ db'.hits = hits /\ db'.tally = {hits}
      /\ db'.timeline = events
  BY <1>3 DEF Shaped, TableNames
<1>5. DOMAIN events = {i \in DOMAIN db.artifacts : N!Dated(i)} /\ DOMAIN shown = DOMAIN db.artifacts
  BY <1>1
<1>6. Shaped(db')
  <2>1. \A i \in DOMAIN events : ShapedEvent(events[i])
    BY <1>1 DEF ShapedEvent
  <2>2. DOMAIN hits = {"path", "cache"}
    BY <1>2
  <2> QED BY <1>4, <2>1, <2>2 DEF Shaped
<1>7. DOMAIN db.artifacts = Built /\ DOMAIN db.leads = {}
  BY DEF Begun, Derivable
<1>8. Dates(db')
  <2>1. ASSUME NEW i \in Built
        PROVE  shown[i] = [name |-> db.artifacts[i].name, path |-> db.artifacts[i].path]
    BY <1>1, <1>7
  <2>2. \A i \in Built : shown[i].path = db.artifacts[i].path
    <3>1. ASSUME NEW i \in Built, NEW r, NEW n, NEW p, r = [name |-> n, path |-> p] PROVE r.path = p
      BY <3>1
    <3> QED BY <2>1, <3>1
  <2>3. ASSUME NEW i \in Built, N!UnderVolumes(shown[i].path)
        PROVE  <<i, shown[i].path>> \in where
    <3>1. PICK p : p = db.artifacts[i].path
      OBVIOUS
    <3>2. shown[i].path = p
      BY <2>2, <3>1
    <3>3. p \in {q \in {db.artifacts[i].path} \cup N!ProbesOf(i) : N!UnderVolumes(q)}
      BY <2>3, <3>1, <3>2
    <3>4. i \in DOMAIN db.artifacts
      BY <1>7
    <3>5. PICK own : own = {<<i, q>> : q \in {q \in {db.artifacts[i].path} \cup N!ProbesOf(i) : N!UnderVolumes(q)}}
      OBVIOUS
    <3>6. <<i, p>> \in own
      BY <3>3, <3>5
    <3>7. where = UNION {{<<j, q>> : q \in {q \in {db.artifacts[j].path} \cup N!ProbesOf(j) : N!UnderVolumes(q)}} :
                           j \in DOMAIN db.artifacts}
      BY <1>1
    <3>8. own \subseteq where
      BY <3>4, <3>5, <3>7
    <3> QED BY <3>2, <3>6, <3>8
  <2> QED BY <1>4, <1>5, <1>7, <2>1, <2>3 DEF Dates
<1>9. NoDates(db')
  <2> SUFFICES ASSUME Built = {} PROVE DOMAIN events = {} /\ where = {} /\ paths = {}
    BY <1>2, <1>4, <1>5, <1>7 DEF NoDates
  <2> QED BY <1>1, <1>5, <1>7
<1>10. Leads(db')
  BY <1>4, <1>7 DEF Begun, Leads
<1>11. Events(db')
  <2>1. ASSUME NEW i \in DOMAIN events
        PROVE  events[i].flagged = db.artifacts[i].flagged /\ events[i].existence = db.artifacts[i].existence
    <3>1. i \in Built /\ events[i].flagged = FALSE /\ events[i].existence = ""
      BY <1>1, <1>5, <1>7
    <3>2. db.artifacts[i].flagged = FALSE /\ db.artifacts[i].existence = ""
      BY <1>7, <3>1 DEF Begun, Shaped
    <3> QED BY <3>1, <3>2
  <2> QED BY <1>4, <2>1 DEF Events
<1>12. Tally(db')
  BY <1>4 DEF Tally
<1> QED BY <1>6, <1>8, <1>9, <1>10, <1>11, <1>12 DEF Agree

\* The tables agree after the existence of the artifacts is told: the leads are those
\* flagged, and the timeline is told the same.
LEMMA ClassifiedAgree ==
  ASSUME Shaped(db), Agree(db), N!Classify
  PROVE  Shaped(db') /\ Agree(db')
<1>1. PICK classified, leads, events :
         /\ classified = N!Classified
         /\ leads = [i \in {i \in DOMAIN db.artifacts : N!Classified[i].flagged} |-> N!Shown(i)]
         /\ events = [i \in DOMAIN db.timeline |->
                        [db.timeline[i] EXCEPT !.existence = classified[i].existence,
                                               !.flagged = classified[i].flagged]]
  OBVIOUS
<1>2. db' = [db EXCEPT !.artifacts = classified, !.leads = leads, !.timeline = events]
  BY <1>1 DEF N!Classify, N!TimelineOf, N!Artifacts
<1>3. /\ DOMAIN db' = TableNames /\ db'.artifacts = classified /\ db'.leads = leads
      /\ db'.timeline = events /\ db'.dates = db.dates /\ db'.volumes = db.volumes
      /\ db'.hits = db.hits /\ db'.tally = db.tally
  BY <1>2 DEF Shaped, TableNames
<1>4. DOMAIN classified = DOMAIN db.artifacts
  BY <1>1 DEF N!Classified, N!Artifacts
<1>5. ASSUME NEW i \in DOMAIN db.artifacts
      PROVE  /\ ShapedArtifact(classified[i]) /\ classified[i].flagged \in BOOLEAN
             /\ classified[i].name = db.artifacts[i].name /\ classified[i].path = db.artifacts[i].path
             /\ classified[i].status = db.artifacts[i].status
  <2>1. classified[i] = [db.artifacts[i] EXCEPT !.existence = N!Existence(i),
                                                !.flagged = N!Existence(i) = "missing"]
    BY <1>1 DEF N!Classified, N!Artifacts
  <2> QED BY <2>1 DEF Shaped, ShapedArtifact
<1>6. DOMAIN events = DOMAIN db.timeline
  BY <1>1
<1>7. ASSUME NEW i \in DOMAIN db.timeline
      PROVE  /\ ShapedEvent(events[i]) /\ events[i].existence = classified[i].existence
             /\ events[i].flagged = classified[i].flagged
  BY <1>1 DEF Shaped, ShapedEvent
<1>8. Shaped(db')
  BY <1>3, <1>4, <1>5, <1>6, <1>7 DEF Shaped
<1>9. Dates(db')
  <2> SUFFICES ASSUME DOMAIN db.dates # {}
               PROVE  /\ DOMAIN db.dates = Built /\ Built \subseteq DOMAIN classified
                      /\ DOMAIN events = {i \in Built : N!Dated(i)}
                      /\ \A i \in Built : \/ Later(classified[i])
                                          \/ db.dates[i] = [name |-> classified[i].name, path |-> classified[i].path]
                      /\ \A i \in Built : N!UnderVolumes(db.dates[i].path) => <<i, db.dates[i].path>> \in db.volumes
    BY <1>3 DEF Dates
  <2>1. /\ DOMAIN db.dates = Built /\ Built \subseteq DOMAIN db.artifacts
        /\ DOMAIN db.timeline = {i \in Built : N!Dated(i)}
        /\ \A i \in Built : N!UnderVolumes(db.dates[i].path) => <<i, db.dates[i].path>> \in db.volumes
    BY DEF Agree, Dates
  <2>2. ASSUME NEW i \in Built
        PROVE  Later(classified[i]) \/ db.dates[i] = [name |-> classified[i].name, path |-> classified[i].path]
    <3>1. Later(db.artifacts[i]) \/ db.dates[i] = [name |-> db.artifacts[i].name, path |-> db.artifacts[i].path]
      BY DEF Agree, Dates
    <3> QED BY <1>5, <2>1, <3>1 DEF Later
  <2> QED BY <1>4, <1>6, <2>1, <2>2
<1>10. NoDates(db') /\ Tally(db')
  BY <1>3, <1>6 DEF Agree, NoDates, Tally
<1>11. Leads(db')
  <2>1. DOMAIN leads = {i \in DOMAIN classified : classified[i].flagged}
    BY <1>1, <1>4
  <2> QED BY <1>3, <2>1 DEF Leads
<1>12. Events(db')
  BY <1>3, <1>6, <1>7 DEF Events
<1> QED BY <1>8, <1>9, <1>10, <1>11, <1>12 DEF Agree

\* Hits that are counted again leave the rest as it was.
LEMMA HitsAgree ==
  ASSUME NEW t, NEW u, Shaped(t), Agree(t), DOMAIN u = TableNames,
         u.artifacts = t.artifacts, u.dates = t.dates, u.timeline = t.timeline,
         u.volumes = t.volumes, u.leads = t.leads,
         DOMAIN u.hits = {"path", "cache"}, u.hits.path = t.hits.path, u.tally \in {{}, {u.hits}}
  PROVE  Shaped(u) /\ Agree(u)
BY DEF Shaped, Agree, Dates, NoDates, Leads, Events, Tally

\* The first run begins with no tables.
LEMMA EnrichBegins == ASSUME N!Init PROVE EnrichInv
<1>1. db = N!Empty /\ kept = db /\ pc \in Early
  BY DEF N!Init, Early
<1>2. Shaped(db) /\ Undone(db)
  BY <1>1 DEF N!Empty, Shaped, TableNames, Undone, Derivable
<1>3. Agree(db)
  BY <1>1 DEF N!Empty, Agree, Dates, NoDates, Leads, Events, Tally
<1> QED BY <1>1, <1>2, <1>3 DEF EnrichInv, Early, Underway

\* The evidence does not change, and tables that agree for it still do.
LEMMA EvidenceStays ==
  ASSUME UNCHANGED source
  PROVE  /\ Built' = Built /\ \A i : N!Dated(i)' = N!Dated(i)
         /\ Agree(kept)' <=> Agree(kept')
         /\ Agree(db)' <=> Agree(db')
         /\ Begun(db)' <=> Begun(db')
         /\ Shaped(kept)' <=> Shaped(kept')
         /\ Shaped(db)' <=> Shaped(db')
         /\ Undone(kept)' <=> Undone(kept')
<1>1. Built' = Built /\ \A i : N!Dated(i)' = N!Dated(i)
  BY DEF Built, N!Dated, N!Rows, N!Items
<1>2. PICK B : B = Built
  OBVIOUS
<1>3. /\ Agree(kept)' <=> Agree(kept')
      /\ Agree(db)' <=> Agree(db')
  BY <1>1 DEF Agree, Dates, NoDates, Leads, Events, Tally, Later, N!UnderVolumes, N!IsAbs
<1>4. Begun(db)' <=> Begun(db')
  BY <1>1 DEF Begun, Derivable
<1>5. /\ Shaped(kept)' <=> Shaped(kept')
      /\ Shaped(db)' <=> Shaped(db')
  BY DEF Shaped, TableNames, ShapedArtifact, ShapedEvent
<1>6. Undone(kept)' <=> Undone(kept')
  BY DEF Undone, Derivable
<1> QED BY <1>1, <1>3, <1>4, <1>5, <1>6

\* The invariant is kept by a step that ends in tables that agree.
LEMMA EnrichFrom ==
  ASSUME EnrichInv, UNCHANGED source,
         Shaped(kept') /\ Agree(kept') /\ Shaped(db'),
         pc' \in Early => Undone(kept'),
         pc' \in Underway => Begun(db'),
         pc' = "commit" => Agree(db'),
         pc' \notin Underway \cup {"commit"} => db' = kept',
         pc' = "renewHits" => kept'.tally = {}
  PROVE  EnrichInv'
BY EvidenceStays DEF EnrichInv, Early, Underway

\* The stages of the open transaction.
LEMMA OpenStep ==
  ASSUME EnrichInv, N!Build \/ N!Probe \/ N!Link \/ N!Chain \/ N!Apply \/ N!Derive \/ N!Commit
  PROVE  EnrichInv'
<1>1. Shaped(kept) /\ Agree(kept) /\ Shaped(db)
  BY DEF EnrichInv
<1>2. UNCHANGED source
  BY DEF N!Build, N!Probe, N!Link, N!Chain, N!Apply, N!Derive, N!Commit, N!Go
<1>3. CASE N!Build
  <2>1. Undone(db) /\ pc' = "probe" /\ kept' = kept
    BY <1>3 DEF N!Build, N!Go, EnrichInv, Early, Underway
  <2>2. db' = [db EXCEPT !.artifacts = [i \in Built |-> N!ArtifactOf(i)]]
    BY <1>3 DEF N!Build, Built
  <2>3. /\ DOMAIN db' = TableNames /\ db'.artifacts = [i \in Built |-> N!ArtifactOf(i)]
        /\ db'.dates = db.dates /\ db'.timeline = db.timeline /\ db'.volumes = db.volumes
        /\ db'.leads = db.leads /\ db'.hits = db.hits /\ db'.tally = db.tally
    BY <1>1, <2>2, ArtifactsPut
  <2>4. ASSUME NEW i \in Built
        PROVE  /\ ShapedArtifact(db'.artifacts[i]) /\ db'.artifacts[i].flagged = FALSE
               /\ db'.artifacts[i].existence = ""
    <3>1. /\ ShapedArtifact(N!ArtifactOf(i)) /\ N!ArtifactOf(i).flagged = FALSE
          /\ N!ArtifactOf(i).existence = ""
      BY DEF N!ArtifactOf, ShapedArtifact
    <3> QED BY <2>3, <3>1
  <2>5. Shaped(db')
    BY <1>1, <2>1, <2>3, <2>4 DEF Shaped
  <2>6. Begun(db')
    BY <2>1, <2>3, <2>4 DEF Begun, Undone, Derivable
  <2> QED BY <1>1, <1>2, <2>1, <2>5, <2>6, EnrichFrom DEF Early, Underway
<1>4. CASE N!Probe
  <2>1. Begun(db) /\ pc' = "link" /\ kept' = kept
    BY <1>4 DEF N!Probe, N!Go, EnrichInv, Underway
  <2>2. PICK f : f = [i \in DOMAIN db.artifacts |-> N!Probed(i)]
    OBVIOUS
  <2>3. db' = [db EXCEPT !.artifacts = f]
    BY <2>2, <1>4 DEF N!Probe, N!Change, N!Artifacts
  <2>4. \A i \in DOMAIN db.artifacts : /\ ShapedArtifact(N!Probed(i))
                                       /\ N!Probed(i).flagged = db.artifacts[i].flagged
                                       /\ N!Probed(i).existence = db.artifacts[i].existence
    BY <1>1, PassesKeep DEF Shaped
  <2>5. /\ DOMAIN f = DOMAIN db.artifacts
        /\ \A i \in DOMAIN db.artifacts : /\ ShapedArtifact(f[i])
                                          /\ f[i].flagged = db.artifacts[i].flagged
                                          /\ f[i].existence = db.artifacts[i].existence
    BY <2>4, <2>2
  <2>6. Shaped(db') /\ Begun(db')
    BY <1>1, <2>1, <2>3, <2>5, BegunStays
  <2> QED BY <1>1, <1>2, <2>1, <2>6, EnrichFrom DEF Early, Underway
<1>5. CASE N!Link \/ N!Chain
  <2>1. Begun(db) /\ pc' \in {"chain", "apply"} /\ kept' = kept
    BY <1>5 DEF N!Link, N!Chain, N!Go, EnrichInv, Underway
  <2>2. PICK f : db' = db \/ db' = [db EXCEPT !.links = f]
    BY <1>5 DEF N!Link, N!Chain
  <2>3. Shaped(db') /\ \A n \in TableNames \ {"links"} : db'[n] = db[n]
    BY <1>1, <2>2 DEF Shaped, TableNames
  <2>4. /\ db'.artifacts = db.artifacts /\ db'.dates = db.dates /\ db'.timeline = db.timeline
        /\ db'.volumes = db.volumes /\ db'.leads = db.leads /\ db'.hits = db.hits /\ db'.tally = db.tally
    BY <1>1, <2>2 DEF Shaped, TableNames
  <2>5. Begun(db')
    BY <2>1, <2>4 DEF Begun, Derivable
  <2> QED BY <1>1, <1>2, <2>1, <2>3, <2>5, EnrichFrom DEF Early, Underway
<1>6. CASE N!Apply
  <2>1. Begun(db) /\ pc' = "derive" /\ kept' = kept
    BY <1>6 DEF N!Apply, N!Go, EnrichInv, Underway
  <2>2. PICK f : f = [i \in DOMAIN db.artifacts |-> N!Applied(i)]
    OBVIOUS
  <2>3. db' = [db EXCEPT !.artifacts = f]
    BY <2>2, <1>6 DEF N!Apply, N!Change, N!Artifacts
  <2>4. \A i \in DOMAIN db.artifacts : /\ ShapedArtifact(N!Applied(i))
                                       /\ N!Applied(i).flagged = db.artifacts[i].flagged
                                       /\ N!Applied(i).existence = db.artifacts[i].existence
    BY <1>1, PassesKeep DEF Shaped
  <2>5. /\ DOMAIN f = DOMAIN db.artifacts
        /\ \A i \in DOMAIN db.artifacts : /\ ShapedArtifact(f[i])
                                          /\ f[i].flagged = db.artifacts[i].flagged
                                          /\ f[i].existence = db.artifacts[i].existence
    BY <2>4, <2>2
  <2>6. Shaped(db') /\ Begun(db')
    BY <1>1, <2>1, <2>3, <2>5, BegunStays
  <2> QED BY <1>1, <1>2, <2>1, <2>6, EnrichFrom DEF Early, Underway
<1>7. CASE N!Derive
  <2>1. Begun(db) /\ pc' = "commit" /\ kept' = kept
    BY <1>7 DEF N!Derive, N!Go, EnrichInv, Underway
  <2>2. Shaped(db') /\ Agree(db')
    BY <1>1, <1>7, <2>1, DerivedAgree
  <2> QED BY <1>1, <1>2, <2>1, <2>2, EnrichFrom DEF Early, Underway
<1>8. CASE N!Commit
  <2>1. Agree(db) /\ pc' = "classify" /\ kept' = db /\ db' = db
    BY <1>8 DEF N!Commit, N!Go, EnrichInv, Underway
  <2> QED BY <1>1, <1>2, <2>1, EnrichFrom DEF Early, Underway
<1> QED BY <1>3, <1>4, <1>5, <1>6, <1>7, <1>8

\* The steps that commit what they do.
LEMMA CommittedStep ==
  ASSUME EnrichInv, N!Materialize \/ N!Classify \/ N!Resolve \/ N!CacheText
  PROVE  EnrichInv'
<1>1. /\ Shaped(kept) /\ Agree(kept) /\ db = kept /\ kept' = db' /\ UNCHANGED source
      /\ Shaped(db) /\ Agree(db)
  BY DEF EnrichInv, Underway, N!Materialize, N!Classify, N!Resolve, N!CacheText, N!Go
<1>2. CASE N!Materialize
  <2>1. Undone(kept) /\ pc' = "build" /\ db' = [db EXCEPT !.inventory = N!Inventory]
    BY <1>2 DEF N!Materialize, N!Go, EnrichInv, Early
  <2>2. /\ DOMAIN db' = TableNames /\ db'.artifacts = db.artifacts /\ db'.dates = db.dates
        /\ db'.timeline = db.timeline /\ db'.volumes = db.volumes /\ db'.leads = db.leads
        /\ db'.hits = db.hits /\ db'.tally = db.tally
    BY <1>1, <2>1 DEF Shaped, TableNames
  <2>3. Shaped(db') /\ Agree(db')
    BY <1>1, <2>2 DEF Shaped, Agree, Dates, NoDates, Leads, Events, Tally
  <2>4. Undone(db')
    BY <1>1, <2>1, <2>2 DEF Undone, Derivable
  <2> QED BY <1>1, <2>1, <2>3, <2>4, EnrichFrom DEF Early, Underway
<1>3. CASE N!Classify
  <2>1. pc' \in {"resolve", "done"}
    BY <1>3 DEF N!Classify, N!Go
  <2>2. Shaped(db') /\ Agree(db')
    BY <1>1, <1>3, ClassifiedAgree
  <2> QED BY <1>1, <2>1, <2>2, EnrichFrom DEF Early, Underway
<1>4. CASE N!Resolve
  <2>1. PICK f : f = [i \in DOMAIN db.artifacts |-> N!Resolved(i)]
    OBVIOUS
  <2>2. pc' = "cache" /\ db' = [db EXCEPT !.artifacts = f]
    BY <1>4, <2>1 DEF N!Resolve, N!Change, N!Artifacts, N!Go
  <2>3. \A i \in DOMAIN db.artifacts : /\ ShapedArtifact(N!Resolved(i))
                                       /\ N!Resolved(i).flagged = db.artifacts[i].flagged
                                       /\ N!Resolved(i).existence = db.artifacts[i].existence
                                       /\ Later(N!Resolved(i)) \/ N!Resolved(i) = db.artifacts[i]
    BY <1>1, ResolvedTells DEF Shaped
  <2>4. /\ DOMAIN f = DOMAIN db.artifacts
        /\ \A i \in DOMAIN db.artifacts : /\ ShapedArtifact(f[i])
                                          /\ f[i].flagged = db.artifacts[i].flagged
                                          /\ f[i].existence = db.artifacts[i].existence
                                          /\ Later(f[i]) \/ f[i] = db.artifacts[i]
    BY <2>3, <2>1
  <2>5. Shaped(db') /\ Agree(db')
    BY <1>1, <2>2, <2>4, LaterAgree
  <2> QED BY <1>1, <2>2, <2>5, EnrichFrom DEF Early, Underway
<1>5. CASE N!CacheText
  <2>1. PICK D, f : /\ D = DOMAIN db.artifacts \cup {i \in {c.id : c \in source.cache} : N!TextsOf(i) # {}}
                    /\ f = [i \in D |-> N!WithText(i)]
    OBVIOUS
  <2>2. PICK u : u = [db EXCEPT !.artifacts = f]
    OBVIOUS
  <2>3. \A i \in DOMAIN db.artifacts : /\ ShapedArtifact(N!WithText(i))
                                       /\ N!WithText(i).flagged = db.artifacts[i].flagged
                                       /\ N!WithText(i).existence = db.artifacts[i].existence
                                       /\ Later(N!WithText(i)) \/ N!WithText(i) = db.artifacts[i]
    BY <1>1, ResolvedTells DEF Shaped
  <2>4. \A i \in D \ DOMAIN db.artifacts : ShapedArtifact(N!WithText(i)) /\ N!WithText(i).flagged = FALSE
    BY DEF N!WithText, N!Artifacts, ShapedArtifact
  <2>5. DOMAIN db.artifacts \subseteq D
    BY <2>1
  <2>6. /\ DOMAIN f = D
        /\ \A i \in DOMAIN db.artifacts : /\ ShapedArtifact(f[i])
                                          /\ f[i].flagged = db.artifacts[i].flagged
                                          /\ f[i].existence = db.artifacts[i].existence
                                          /\ Later(f[i]) \/ f[i] = db.artifacts[i]
        /\ \A i \in D \ DOMAIN db.artifacts : ShapedArtifact(f[i]) /\ f[i].flagged = FALSE
    BY <2>1, <2>3, <2>4, <2>5
  <2>7. Shaped(u) /\ Agree(u)
    BY <1>1, <2>5, <2>2, <2>6, LaterAgree
  <2>8. pc' = "clearHits" /\ db' = [u EXCEPT !.texts = source.cache]
    BY <1>1, <1>5, <2>1, <2>2 DEF N!CacheText, N!Go, N!Artifacts, Shaped, TableNames
  <2>9. /\ DOMAIN db' = TableNames /\ db'.artifacts = u.artifacts /\ db'.dates = u.dates
        /\ db'.timeline = u.timeline /\ db'.volumes = u.volumes /\ db'.leads = u.leads
        /\ db'.hits = u.hits /\ db'.tally = u.tally
    BY <2>7, <2>8 DEF Shaped, TableNames
  <2>10. Shaped(db') /\ Agree(db')
    BY <2>7, <2>9 DEF Shaped, Agree, Dates, NoDates, Leads, Events, Tally
  <2> QED BY <1>1, <2>8, <2>10, EnrichFrom DEF Early, Underway
<1> QED BY <1>2, <1>3, <1>4, <1>5

\* The steps that count the hits again, each committed on its own.
LEMMA HitsStep ==
  ASSUME EnrichInv, N!ClearHits \/ N!RenewHits \/ N!SumHits
  PROVE  EnrichInv'
<1>1. /\ Shaped(db) /\ Agree(db) /\ db = kept /\ kept' = db' /\ UNCHANGED source
  BY DEF EnrichInv, Underway, N!ClearHits, N!RenewHits, N!SumHits, N!Go
<1>2. CASE N!ClearHits
  <2>1. pc' = "renewHits" /\ db' = [db EXCEPT !.hits = [db.hits EXCEPT !.cache = {}], !.tally = {}]
    BY <1>2 DEF N!ClearHits, N!Go
  <2>2. /\ DOMAIN db' = TableNames /\ db'.artifacts = db.artifacts /\ db'.dates = db.dates
        /\ db'.timeline = db.timeline /\ db'.volumes = db.volumes /\ db'.leads = db.leads
        /\ db'.hits = [db.hits EXCEPT !.cache = {}] /\ db'.tally = {}
    BY <1>1, <2>1 DEF Shaped, TableNames
  <2>3. DOMAIN db'.hits = {"path", "cache"} /\ db'.hits.path = db.hits.path
    BY <1>1, <2>2 DEF Shaped
  <2>4. Shaped(db') /\ Agree(db')
    BY <1>1, <2>2, <2>3, HitsAgree
  <2> QED BY <1>1, <2>1, <2>2, <2>4, EnrichFrom DEF Early, Underway
<1>3. CASE N!RenewHits
  <2>1. /\ pc' = "sumHits" /\ db.tally = {}
        /\ db' = [db EXCEPT !.hits = [path |-> db.hits.path, cache |-> {c \in db.texts : c.mounted}]]
    BY <1>1, <1>3 DEF N!RenewHits, N!Go, N!Hits, EnrichInv
  <2>2. /\ DOMAIN db' = TableNames /\ db'.artifacts = db.artifacts /\ db'.dates = db.dates
        /\ db'.timeline = db.timeline /\ db'.volumes = db.volumes /\ db'.leads = db.leads
        /\ db'.hits = [path |-> db.hits.path, cache |-> {c \in db.texts : c.mounted}] /\ db'.tally = {}
    BY <1>1, <2>1 DEF Shaped, TableNames
  <2>3. DOMAIN db'.hits = {"path", "cache"} /\ db'.hits.path = db.hits.path
    BY <2>2
  <2>4. Shaped(db') /\ Agree(db')
    BY <1>1, <2>2, <2>3, HitsAgree
  <2> QED BY <1>1, <2>1, <2>4, EnrichFrom DEF Early, Underway
<1>4. CASE N!SumHits
  <2>1. pc' = "done" /\ db' = [db EXCEPT !.tally = {db.hits}]
    BY <1>4 DEF N!SumHits, N!Go
  <2>2. /\ DOMAIN db' = TableNames /\ db'.artifacts = db.artifacts /\ db'.dates = db.dates
        /\ db'.timeline = db.timeline /\ db'.volumes = db.volumes /\ db'.leads = db.leads
        /\ db'.hits = db.hits /\ db'.tally = {db.hits}
    BY <1>1, <2>1 DEF Shaped, TableNames
  <2>3. DOMAIN db'.hits = {"path", "cache"} /\ db'.hits.path = db.hits.path
    BY <1>1, <2>2 DEF Shaped
  <2>4. Shaped(db') /\ Agree(db')
    BY <1>1, <2>2, <2>3, HitsAgree
  <2> QED BY <1>1, <2>1, <2>4, EnrichFrom DEF Early, Underway
<1> QED BY <1>2, <1>3, <1>4

\* What fails is rolled back to tables that agree; the run begins with none only when it
\* has none.
LEMMA FailStep == ASSUME EnrichInv, N!Fail PROVE EnrichInv'
<1>1. db' = kept /\ kept' = kept /\ UNCHANGED source
  BY DEF N!Fail, N!Go
<1>2. /\ pc' \in {"build", "failed", "cache", "clearHits", "done"}
      /\ pc' = "build" => pc = "materialize"
  BY DEF N!Fail, N!Go, N!InRun
<1>3. pc' \in Early => Undone(kept')
  BY <1>1, <1>2 DEF EnrichInv, Early
<1> QED BY <1>1, <1>2, <1>3, EnrichFrom DEF EnrichInv, Early, Underway

\* Nothing of the enrichment changes in a step that leaves it alone.
LEMMA EnrichStays ==
  ASSUME EnrichInv, UNCHANGED <<pc, kept, enrichOnly>>
  PROVE  EnrichInv'
<1>1. UNCHANGED <<pc, kept, db, source>>
  BY DEF enrichOnly
<1> QED BY <1>1, EnrichFrom DEF EnrichInv, Early, Underway

\* After any failure the tables of a case agree: a run's are all there or none, the leads
\* are the artifacts flagged as missing, timeline and dates tell what the artifacts tell
\* but for what was resolved later, and a summary of hits is of the hits there are: for
\* any evidence, at any step that fails.
THEOREM TablesAllAgree == DataSpec => []CaseTablesAgree
<1> DEFINE EnrichSide == side = "enrichment" => EnrichInv
<1>1. DataInit => EnrichSide
  BY EnrichBegins DEF DataInit
<1>2. EnrichSide /\ [DataNext]_dataVars => EnrichSide'
  <2> SUFFICES ASSUME EnrichSide, [DataNext]_dataVars, side' = "enrichment"
               PROVE  EnrichInv'
    OBVIOUS
  <2>1. CASE EnrichStep
    <3>1. EnrichInv /\ N!Next
      BY <2>1 DEF EnrichStep
    <3> QED BY <3>1, OpenStep, CommittedStep, HitsStep, FailStep DEF N!Next
  <2>2. CASE ReaderStep \/ GuidedStep \/ ParserStep \/ AppsStep \/ ZipStep
    BY <2>2 DEF ReaderStep, GuidedStep, ParserStep, AppsStep, ZipStep
  <2>3. CASE UNCHANGED dataVars
    <3>1. UNCHANGED <<side, pc, kept, enrichOnly>>
      BY <2>3 DEF dataVars
    <3> QED BY <3>1, EnrichStays
  <2> QED BY <2>1, <2>2, <2>3 DEF DataNext
<1>3. EnrichSide => CaseTablesAgree
  <2> SUFFICES ASSUME Shaped(kept), Agree(kept) PROVE N!TablesAgree
    BY DEF CaseTablesAgree, EnrichInv
  <2>1. \A i : N!ChangedLater(i) <=> Later(kept.artifacts[i])
    BY DEF N!ChangedLater, Later
  <2> QED BY <2>1 DEF N!TablesAgree, Agree, Dates, NoDates, Leads, Events, Tally, Built
<1> QED BY <1>1, <1>2, <1>3, PTL DEF DataSpec
===============================================================================
