----------------------------- MODULE NativeParse -----------------------------
(***************************************************************************)
(* NativeStoreDbParser::parseStores in                                     *)
(* src/src/parsers/native_storedb_parser.cpp: the stores of a run are      *)
(* decoded item by item into one connection, in transactions of a batch of *)
(* items or a store, under a record limit, a block limit and a guardrail   *)
(* on the size of the database.  Other connections may lock the database,  *)
(* whose journal is not a WAL at this time: a reader makes COMMIT fail and *)
(* a writer BEGIN, and outside a transaction either makes any INSERT fail. *)
(* How an item is decoded is left out: it is good or it is bad.            *)
(***************************************************************************)
EXTENDS Integers, FiniteSets, Sequences

CONSTANTS Tasks, \* what parseStores may be called with, and the faults around it
          Batch  \* items in a transaction, 10000 in the code

\* What other connections and the guardrail may do.
AllFaults == {"reader", "writer", "guardrail"}

\* A block is skipped for its header or its compression, or holds items; a
\* store is skipped by discovery, for its header, or cannot be opened.
Item == {"good", "bad"}
Block == [read : {"badHeader", "badPacking", "ok"}, items : Seq(Item)]
StoreInfo == [kind : {"invalid", "badHeader", "unopened", "ok"}, blocks : Seq(Block)]

Task == [stores : Seq(StoreInfo), maxRecords : Nat, maxBlocks : Nat, faults : SUBSET AllFaults]

TaskAssumption == Tasks \subseteq Task
BatchAssumption == Batch \in Nat \ {0}

VARIABLES pc, task,
          s, b, i,  \* the store, block and item next to be read
          blocks,   \* metadata blocks read of this store
          parsed,   \* counts.parsedItems
          limited,  \* this store reached the record limit
          txn,      \* the connection is in a transaction
          poisoned, \* recStmt failed and was not reset: nothing binds to it
          pending,  \* rows inserted in the open transaction
          saved     \* rows committed

at   == <<s, b, i>>
data == <<pending, saved>>
vars == <<pc, task, at, blocks, parsed, limited, txn, poisoned, data>>

\* Rows of raw_records, raw_failures and native_decode_attempts.
Row(what) == [what |-> what, at |-> at]
RowKinds == {"record", "failure", "SUCCESS", "FAILED"}

Faults == task.faults
Stores == task.stores
Blocks == Stores[s].blocks
Items  == Blocks[b].items
Ended == {"returned", "aborted", "threw"}
Reading == {"block", "item", "itemFailed", "afterItem", "batchCommit", "batchCheck", "batchBegin",
            "endStore", "storeCommit", "storeCheck", "storeBegin"}

TypeOK == /\ pc \in Ended \cup Reading \cup {"begin", "store", "storeFailed", "finalCommit"}
          /\ pc \in Reading => s \in DOMAIN Stores /\ Stores[s].kind = "ok"
          /\ task \in Task /\ at \in Nat \X Nat \X Nat
          /\ blocks \in Nat /\ parsed \in Nat
          /\ limited \in BOOLEAN /\ txn \in BOOLEAN /\ poisoned \in BOOLEAN
          /\ pending \subseteq [what : RowKinds, at : Nat \X Nat \X Nat]
          /\ saved \subseteq [what : RowKinds, at : Nat \X Nat \X Nat]

Init == /\ pc = "begin" /\ task \in Tasks
        /\ s = 1 /\ b = 1 /\ i = 1 /\ blocks = 0
        /\ parsed = 0 /\ limited = FALSE
        /\ txn = FALSE /\ poisoned = FALSE
        /\ pending = {} /\ saved = {}

----------------------------------------------------------------------------
(* The connection                                                          *)

Insert(rows) == IF txn THEN pending' = pending \cup rows /\ UNCHANGED saved
                       ELSE saved' = saved \cup rows /\ UNCHANGED pending
InsertFails == ~txn /\ Faults \cap {"reader", "writer"} # {}

Commits == txn /\ txn' = FALSE /\ saved' = saved \cup pending /\ pending' = {}
\* Busy, and the transaction stays; or there is none.
CommitFails == (txn => "reader" \in Faults) /\ UNCHANGED <<txn, data>>

Begins == txn' = TRUE /\ UNCHANGED data
BeginFails == "writer" \in Faults /\ UNCHANGED <<txn, data>>

Rollback == txn' = FALSE /\ pending' = {} /\ UNCHANGED saved

Go(p) == pc' = p /\ UNCHANGED task
GoOn(p) == Go(p) /\ UNCHANGED <<at, blocks, parsed, limited, poisoned>>

\* An exception nobody in parseStores handles.
Escape(p) == GoOn(p) /\ Rollback

----------------------------------------------------------------------------
(* Stores                                                                  *)

Begin == /\ pc = "begin"
         /\ \/ Begins /\ GoOn("store")
            \/ BeginFails /\ GoOn("threw")

NextStore(p) == /\ s' = s + 1 /\ b' = 1 /\ i' = 1 /\ blocks' = 0 /\ limited' = FALSE
                /\ Go(p) /\ UNCHANGED <<parsed, poisoned, txn>>

Refused == {"invalid", "badHeader"}

\* Variant: an invalid store is parsed like any other.
RefuseStoreAndGoOn == /\ pc = "store" /\ s <= Len(Stores) /\ Stores[s].kind \in Refused
                      /\ Insert({Row("failure"), Row("FAILED")})
                      /\ GoOn("block") /\ UNCHANGED txn
RefuseStore == /\ pc = "store" /\ s <= Len(Stores) /\ Stores[s].kind \in Refused
               /\ Insert({Row("failure"), Row("FAILED")})
               /\ NextStore("store")

OpenStore == /\ pc = "store" /\ s <= Len(Stores) /\ Stores[s].kind \notin Refused
             /\ GoOn(IF Stores[s].kind = "unopened" THEN "storeFailed" ELSE "block")
             /\ UNCHANGED <<txn, data>>

\* insertStoreGroup, or what is inserted about a store refused by discovery.
StoreEscapes == pc = "store" /\ s <= Len(Stores) /\ InsertFails /\ Escape("threw")

\* What is inserted before the blocks are read, or about a bad header.
StoreThrows == /\ pc = "store" /\ s <= Len(Stores) /\ Stores[s].kind # "invalid" /\ InsertFails
               /\ GoOn("storeFailed") /\ UNCHANGED <<txn, data>>

AllStoresRead == /\ pc = "store" /\ s > Len(Stores)
                 /\ GoOn("finalCommit") /\ UNCHANGED <<txn, data>>

FailStore == /\ pc = "storeFailed"
             /\ \/ Insert({Row("failure"), Row("FAILED")}) /\ NextStore("store")
                \/ InsertFails /\ Escape("threw")

EndStore == /\ pc = "endStore"
            /\ \/ Insert({Row("SUCCESS")}) /\ GoOn("storeCommit") /\ UNCHANGED txn
               \/ InsertFails /\ GoOn("storeFailed") /\ UNCHANGED <<txn, data>>

CommitStore == /\ pc = "storeCommit"
               /\ \/ Commits /\ GoOn("storeCheck")
                  \/ CommitFails /\ GoOn("storeFailed")

CheckSizeAt(p, next) == /\ pc = p
                        /\ \/ GoOn(next) /\ UNCHANGED <<txn, data>>
                           \/ "guardrail" \in Faults /\ Escape("aborted")
CheckStore == CheckSizeAt("storeCheck", "storeBegin")

\* With the record limit reached the other stores are left alone.
BeginAfterStore == /\ pc = "storeBegin"
                   /\ \/ /\ txn' = TRUE /\ UNCHANGED <<data, parsed, poisoned>>
                         /\ Go(IF limited THEN "finalCommit" ELSE "store")
                         /\ s' = s + 1 /\ b' = 1 /\ i' = 1 /\ blocks' = 0 /\ limited' = FALSE
                      \/ BeginFails /\ GoOn("storeFailed")

FinalCommit == /\ pc = "finalCommit"
               /\ \/ Commits /\ GoOn("returned")
                  \/ (txn => "reader" \in Faults) /\ Escape("threw")

----------------------------------------------------------------------------
(* Blocks                                                                  *)

BlockLimit == task.maxBlocks > 0 /\ blocks >= task.maxBlocks

AllBlocksRead == /\ pc = "block" /\ b > Len(Blocks)
                 /\ GoOn("endStore") /\ UNCHANGED <<txn, data>>

StopAtBlockLimit == /\ pc = "block" /\ b <= Len(Blocks) /\ Blocks[b].read # "badHeader" /\ BlockLimit
                    /\ GoOn("endStore") /\ UNCHANGED <<txn, data>>

SkipBlock == /\ pc = "block" /\ b <= Len(Blocks)
             /\ Blocks[b].read = "badHeader" \/ (Blocks[b].read = "badPacking" /\ ~BlockLimit)
             /\ \/ /\ Insert({Row("failure")})
                   /\ Go("block") /\ b' = b + 1
                   /\ blocks' = IF Blocks[b].read = "badPacking" THEN blocks + 1 ELSE blocks
                   /\ UNCHANGED <<s, i, parsed, limited, poisoned, txn>>
                \/ InsertFails /\ GoOn("storeFailed") /\ UNCHANGED <<txn, data>>

ReadBlock == /\ pc = "block" /\ b <= Len(Blocks) /\ Blocks[b].read = "ok" /\ ~BlockLimit
             /\ Go("item") /\ i' = 1 /\ blocks' = blocks + 1
             /\ UNCHANGED <<s, b, parsed, limited, poisoned, txn, data>>

LeaveBlock == /\ Go("block") /\ b' = b + 1 /\ i' = 1
              /\ UNCHANGED <<s, blocks, parsed, limited, poisoned, txn>>

EndBlock == pc = "item" /\ i > Len(Items) /\ LeaveBlock /\ UNCHANGED data

----------------------------------------------------------------------------
(* Items                                                                   *)

\* Variant: batches are counted with the item before.
InsertItemLate == /\ pc = "item" /\ i <= Len(Items) /\ Items[i] = "good" /\ ~poisoned
                  /\ Insert({Row("record")}) /\ parsed' = parsed + 1
                  /\ Go(IF parsed > 0 /\ parsed % (2 * Batch) = 0 THEN "batchCommit" ELSE "afterItem")
                  /\ UNCHANGED <<at, blocks, limited, txn, poisoned>>
InsertItem == /\ pc = "item" /\ i <= Len(Items) /\ Items[i] = "good" /\ ~poisoned
              /\ Insert({Row("record")}) /\ parsed' = parsed + 1
              /\ Go(IF parsed' % Batch = 0 THEN "batchCommit" ELSE "afterItem")
              /\ UNCHANGED <<at, blocks, limited, txn, poisoned>>

\* An INSERT of the item fails, perhaps when its record is in, and leaves its
\* statement unreset; what is bound to it after that fails too.
HalfInsert == \/ UNCHANGED <<txn, data>>
              \/ Insert({Row("record")}) /\ UNCHANGED txn

PoisonItem == /\ pc = "item" /\ i <= Len(Items) /\ Items[i] = "good" /\ ~poisoned /\ InsertFails
              /\ HalfInsert /\ poisoned' = TRUE
              /\ Go("itemFailed") /\ UNCHANGED <<at, blocks, parsed, limited>>

DropPoisonedItem == /\ pc = "item" /\ i <= Len(Items) /\ Items[i] = "good" /\ poisoned
                    /\ HalfInsert /\ GoOn("itemFailed")

DropItem == /\ pc = "item" /\ i <= Len(Items) /\ (Items[i] = "bad" \/ InsertFails)
            /\ GoOn("itemFailed") /\ UNCHANGED <<txn, data>>

CommitBatch == /\ pc = "batchCommit"
               /\ \/ Commits /\ GoOn("batchCheck")
                  \/ CommitFails /\ GoOn("itemFailed")

CheckBatch == CheckSizeAt("batchCheck", "batchBegin")

BeginBatch == /\ pc = "batchBegin"
              /\ \/ Begins /\ GoOn("afterItem")
                 \/ BeginFails /\ GoOn("itemFailed")

\* The failure is recorded, or recorded of the block, which is given up, or of
\* the store.
FailItem == /\ pc = "itemFailed"
            /\ \/ Insert({Row("failure")}) /\ GoOn("afterItem") /\ UNCHANGED txn
               \/ InsertFails /\ Insert({Row("failure")}) /\ LeaveBlock
               \/ InsertFails /\ GoOn("storeFailed") /\ UNCHANGED <<txn, data>>

\* Variant: one more than the limit.
AfterItemOneMore == /\ pc = "afterItem"
                    /\ limited' = (task.maxRecords > 0 /\ parsed > task.maxRecords)
                    /\ Go(IF limited' THEN "endStore" ELSE "item")
                    /\ i' = i + 1 /\ UNCHANGED <<s, b, blocks, parsed, txn, poisoned, data>>
AfterItem == /\ pc = "afterItem"
             /\ limited' = (task.maxRecords > 0 /\ parsed >= task.maxRecords)
             /\ Go(IF limited' THEN "endStore" ELSE "item")
             /\ i' = i + 1 /\ UNCHANGED <<s, b, blocks, parsed, txn, poisoned, data>>

Done == pc \in Ended /\ UNCHANGED vars

Next == \/ Begin \/ RefuseStore \/ OpenStore \/ StoreEscapes \/ StoreThrows \/ AllStoresRead
        \/ FailStore \/ EndStore \/ CommitStore \/ CheckStore \/ BeginAfterStore \/ FinalCommit
        \/ AllBlocksRead \/ StopAtBlockLimit \/ SkipBlock \/ ReadBlock \/ EndBlock
        \/ InsertItem \/ PoisonItem \/ DropPoisonedItem \/ DropItem \/ CommitBatch \/ CheckBatch \/ BeginBatch
        \/ FailItem \/ AfterItem \/ Done

Spec == Init /\ [][Next]_vars

----------------------------------------------------------------------------
(* What the parser owes its caller                                         *)

Records(rows) == {r.at : r \in {x \in rows : x.what = "record"}}

\* The blocks of a store the block limit lets through, and the good items in them.
Reached(st) == {n \in DOMAIN Stores[st].blocks :
                  LET read == {m \in 1..n : Stores[st].blocks[m].read # "badHeader"}
                  IN  task.maxBlocks = 0 \/ Cardinality(read) <= task.maxBlocks}
GoodItems == UNION {UNION {{<<st, n, k>> : k \in {k \in DOMAIN Stores[st].blocks[n].items :
                                                 Stores[st].blocks[n].items[k] = "good"}}
                           : n \in {n \in Reached(st) : Stores[st].blocks[n].read = "ok"}}
                    : st \in {st \in DOMAIN Stores : Stores[st].kind = "ok"}}
Before(x, y) == \/ x[1] < y[1]
                \/ x[1] = y[1] /\ x[2] < y[2]
                \/ x[1] = y[1] /\ x[2] = y[2] /\ x[3] < y[3]
Wanted == {x \in GoodItems : \/ task.maxRecords = 0
                             \/ Cardinality({y \in GoodItems : Before(y, x)}) < task.maxRecords}

\* Whether other connections lock the database.
Alone == Faults \cap {"reader", "writer"} = {}

\* When parseStores returns, every item that can be decoded and that the limits
\* let through is committed, and no row waits for a commit.  Whoever locked the
\* database meanwhile: a lock that costs an item also fails the call.  With the
\* database to itself the call saves these items and no other.  And every item
\* counted as parsed has its record, until an exception rolls the last
\* transaction back; the guardrail's abort rolls back nothing.
ReturnMeansSaved ==
  /\ pc = "returned" => /\ pending = {}
                        /\ Wanted \subseteq Records(saved)
                        /\ Alone => Records(saved) = Wanted
  /\ pc # "threw" => parsed <= Cardinality(Records(pending \cup saved))

\* With the database to itself, a crash costs the records of one batch at most.
BatchAtRisk == Alone => Cardinality(Records(pending)) <= Batch

\* With the database to itself, a store gets one verdict.  (A reader that makes the commit of a store fail
\* gives it both SUCCESS and FAILED.)
OneVerdict == TypeOK /\ (Alone => \A st \in DOMAIN Stores :
                Cardinality({r \in pending \cup saved : r.at[1] = st /\ r.what \in {"SUCCESS", "FAILED"}}) <= 1)
=============================================================================
