----------------------------- MODULE TableExport -----------------------------
(***************************************************************************)
(* Export SQLite DB CSV (exportCaseDatabaseTablesChunked in                *)
(* src/src/gui/gui_export_worker.cpp): every table of the case database is *)
(* counted and then read with one LIMIT/OFFSET query per part, each query  *)
(* in a read transaction of its own, while the investigator goes on adding *)
(* and deleting rows (tags, notes, checks) through another connection.     *)
(* The manifest is the last file written.                                  *)
(***************************************************************************)
EXTENDS Integers, Sequences, SequencesExt, Ascending

CONSTANTS Tables,     \* the tables in name order, as exportableSqliteTables lists them
          Keyed,      \* those whose rowid is the artifact_id (gui_checked_artifacts);
                      \* the others number their rows (AUTOINCREMENT)
          Loaded,     \* the rowids of each table when the case is opened
          ChunkSizes, \* the values of "rows per part"
          NoManifest, \* the folder holds no manifest
          MaxRow,     \* bound: the largest rowid
          MaxWrites,  \* bound: rows added and deleted
          MaxExports  \* bound: exports into the folder

ChunkAssumption == ChunkSizes \subseteq Nat \ {0}
BoundAssumption == {MaxRow, MaxWrites, MaxExports} \subseteq Nat
TablesAssumption == Tables \in Seq(ToSet(Tables)) /\ IsInjective(Tables)

Table == ToSet(Tables)
Row   == 1..MaxRow
Part  == 0..MaxRow               \* part 0 is <table>_empty.csv
File  == Table \X Part

LoadedAssumption   == Loaded \in [Table -> SUBSET Row] /\ Keyed \subseteq Table
ManifestAssumption == NoManifest \notin Seq(File \X Nat)

VARIABLES rows,     \* the rowids of each table
          last,     \* the largest rowid each table ever gave
          writes,   \* rows added and deleted so far
          folder,   \* the CSV files of the folder, [File -> Seq(Row)] in part
          manifest, \* CASE_SQLITE_TABLE_EXPORT_MANIFEST.csv: <<file, row count>>s
          exports,  \* exports started
          outcome,  \* of the newest export
          stop,     \* gShuttingDown
          pc,       \* where the export thread is
          chunk,    \* chunkRows
          table,    \* position of the table in Tables
          counted,  \* what each table held when it was counted
          offset, part, \* of the current SELECT
          pending,  \* rows of the current SELECT still to be stepped over
          listed    \* manifestRows

data   == <<rows, last, writes>>
query  == <<offset, part>>
vars   == <<data, folder, manifest, exports, outcome, stop, pc, chunk, table,
            counted, query, pending, listed>>

TypeOK == /\ rows \in [Table -> SUBSET Row] /\ last \in [Table -> 0..MaxRow]
          /\ writes \in 0..MaxWrites
          /\ DOMAIN folder \subseteq File
          /\ \A f \in DOMAIN folder : folder[f] \in Seq(Row)
          /\ manifest = NoManifest \/ manifest \in Seq(File \X Nat)
          /\ exports \in 0..MaxExports
          /\ outcome \in {"none", "running", "ok", "failed"}
          /\ stop \in BOOLEAN
          /\ pc \in {"idle", "count", "part", "scan", "manifest"}
          /\ chunk \in ChunkSizes \cup {0}
          /\ table \in 1..Len(Tables) + 1
          /\ counted \in [Table -> Seq(Row)]
          /\ offset \in 0..MaxRow + chunk /\ part \in Part
          /\ pc \in {"part", "scan"} => part <= Len(counted[Tables[table]])
          /\ pending \in Seq(Row)
          /\ listed \in Seq(File \X Nat)

Init == /\ rows = Loaded
        /\ last = [t \in Table |-> Max(Loaded[t] \cup {0})]
        /\ writes = 0
        /\ folder = <<>> /\ manifest = NoManifest
        /\ exports = 0 /\ outcome = "none" /\ stop = FALSE
        /\ pc = "idle" /\ chunk = 0
        /\ table = 1
        /\ counted = [t \in Table |-> <<>>]
        /\ offset = 0 /\ part = 0
        /\ pending = <<>> /\ listed = <<>>

Current == Tables[table]
Out     == <<Current, part>>

\* SELECT * FROM t scans the table in rowid order.
InOrder(t) == Ascending(rows[t])

----------------------------------------------------------------------------
(* The investigator.                                                       *)

exporting == <<folder, manifest, exports, outcome, pc, chunk, table, counted,
               query, pending, listed>>

\* A tag or a note gets a new number, a checked artifact has its own.
Insert(t, r) == /\ writes < MaxWrites /\ writes' = writes + 1
                /\ r \notin rows[t]
                /\ t \in Keyed \/ r = last[t] + 1
                /\ rows' = [rows EXCEPT ![t] = @ \cup {r}]
                /\ last' = [last EXCEPT ![t] = IF r > @ THEN r ELSE @]
                /\ UNCHANGED <<stop, exporting>>

Delete(t, r) == /\ writes < MaxWrites /\ writes' = writes + 1
                /\ r \in rows[t]
                /\ rows' = [rows EXCEPT ![t] = @ \ {r}]
                /\ UNCHANGED <<last, stop, exporting>>

\* The window is closed: shouldCancel answers TRUE from now on.
Close == /\ ~stop
         /\ stop' = TRUE
         /\ UNCHANGED <<data, exporting>>

----------------------------------------------------------------------------
(* The export thread.  Faulty variants, each next to what it varies, show  *)
(* what the properties are able to notice.                                 *)

\* exportCaseDatabaseCsv asks for a folder; the same one may be chosen again.
StartExport(c) == /\ pc = "idle" /\ ~stop
                  /\ exports < MaxExports
                  /\ exports' = exports + 1
                  /\ outcome' = "running"
                  /\ pc' = "count" /\ chunk' = c
                  /\ table' = 1 /\ listed' = <<>>
                  /\ UNCHANGED <<data, folder, manifest, stop, counted, query, pending>>

\* shouldCancel is asked before a table, a part and a row.
Cancel == /\ stop
          /\ \/ pc = "count" /\ table <= Len(Tables)
             \/ pc \in {"part", "scan"}
          /\ pc' = "idle" /\ outcome' = "failed"
          /\ UNCHANGED <<data, folder, manifest, exports, stop, chunk, table,
                         counted, query, pending, listed>>

\* countRowsInTable
CountTable == /\ pc = "count" /\ table <= Len(Tables) /\ ~stop
              /\ counted' = [counted EXCEPT ![Current] = InOrder(Current)]
              /\ offset' = 0
              /\ part' = IF rows[Current] = {} THEN 0 ELSE 1
              /\ pc' = "part"
              /\ UNCHANGED <<data, folder, manifest, exports, outcome, stop,
                             chunk, table, pending, listed>>

\* writeTableChunkCsv creates the file and evaluates its SELECT; the query for
\* <table>_empty.csv, with LIMIT 1, may find a row inserted since the count.
Limit == IF part = 0 THEN 1 ELSE chunk

OpenPart == /\ pc = "part" /\ (part = 0 \/ ~stop)
            /\ folder' = [f \in DOMAIN folder \cup {Out} |->
                            IF f = Out THEN <<>> ELSE folder[f]]
            /\ pending' = LET all == InOrder(Current)
                          IN SubSeq(all, offset + 1, Min({offset + Limit, Len(all)}))
            /\ pc' = "scan"
            /\ UNCHANGED <<data, manifest, exports, outcome, stop, chunk,
                           table, counted, query, listed>>

WriteRow == /\ pc = "scan" /\ ~stop /\ pending # <<>>
            /\ folder' = [folder EXCEPT ![Out] = Append(@, Head(pending))]
            /\ pending' = Tail(pending)
            /\ UNCHANGED <<data, manifest, exports, outcome, stop, pc, chunk,
                           table, counted, query, listed>>

Listed == Append(listed, <<Out, Len(folder[Out])>>)

\* Faulty: a row is left out between two parts.
SkippingOffset == offset + chunk + 1

NextOffset == offset + chunk

NextPart == part + 1

\* The end of the SELECT: on to the next part, or to the next table.
EndPart == /\ pc = "scan" /\ ~stop /\ pending = <<>>
           /\ listed' = Listed
           /\ IF part # 0 /\ NextOffset < Len(counted[Current])
              THEN /\ offset' = NextOffset /\ part' = NextPart
                   /\ pc' = "part"
                   /\ UNCHANGED table
              ELSE /\ table' = table + 1
                   /\ pc' = "count"
                   /\ UNCHANGED query
           /\ UNCHANGED <<data, folder, manifest, exports, outcome, stop,
                          chunk, counted, pending>>

\* writeSupportManifest, after the last table; nothing asks shouldCancel here.
WriteManifest == /\ pc = "count" /\ table > Len(Tables)
                 /\ manifest' = listed
                 /\ pc' = "idle" /\ outcome' = "ok"
                 /\ UNCHANGED <<data, folder, exports, stop, chunk, table,
                                counted, query, pending, listed>>

Export == \/ \E c \in ChunkSizes : StartExport(c)
          \/ Cancel \/ CountTable \/ OpenPart \/ WriteRow \/ EndPart
          \/ WriteManifest

Next == \/ \E t \in Table, r \in Row : Insert(t, r) \/ Delete(t, r)
        \/ Close
        \/ Export

Spec == Init /\ [][Next]_vars

----------------------------------------------------------------------------
(* Properties.                                                             *)

\* Of a list of files: those of table t, and what a reader of them finds of it.
OfTable(entries, t)  == {i \in DOMAIN entries : entries[i][1][1] = t}
RowsOf(entries, t)   == UNION {ToSet(folder[entries[i][1]]) : i \in OfTable(entries, t)}

\* From line to line and from file to file the rows of t ascend, so that none is twice.
Increasing(lines) == \A k, l \in DOMAIN lines : k < l => lines[k] < lines[l]
Precedes(one, two) == \A k \in DOMAIN one, l \in DOMAIN two : one[k] < two[l]
RowsAscend(entries, t) ==
  \A i \in OfTable(entries, t) :
    /\ Increasing(folder[entries[i][1]])
    /\ \A j \in OfTable(entries, t) :
         i < j => Precedes(folder[entries[i][1]], folder[entries[j][1]])

\* What t held when it was counted is there, and other rows come behind it.
CountedFirst(entries, t) ==
  LET held == ToSet(counted[t])
  IN /\ held \subseteq rows[t] => held \subseteq RowsOf(entries, t)
     /\ \A r \in RowsOf(entries, t) \ held, h \in held : h < r

\* After an export that reports success the manifest names existing files and
\* says how many rows each holds, whatever an earlier export left in the folder;
\* and a folder whose only export was cut short has no manifest that would make
\* it look complete.
ManifestMatches ==
  /\ outcome = "ok" =>
       /\ manifest # NoManifest
       /\ \A i \in DOMAIN manifest :
            manifest[i][1] \in DOMAIN folder /\ Len(folder[manifest[i][1]]) = manifest[i][2]
  /\ exports = 1 /\ outcome # "ok" => manifest = NoManifest

\* Whatever is added and deleted meanwhile, the rows of a table that numbers its
\* rows are exported in order across its parts, none of them twice; and as long as
\* none of its rows is deleted, everything such a table held when it was counted is
\* exported, before any row that was added.  (A row deleted between two parts
\* shifts those behind it, and one of them is left out.)
CompleteUnlessDeleted ==
  outcome = "ok" =>
    \A t \in Table \ Keyed : RowsAscend(manifest, t) /\ CountedFirst(manifest, t)
=============================================================================
