---------------------------- MODULE MCGuiWorkers ----------------------------
(***************************************************************************)
(* What the window does besides loading pages, side by side: the pooled    *)
(* connections, the export threads, the export of the tables and that of   *)
(* the views, each in a small instance.  The four share no state of the    *)
(* program but the shutdown flag, so each is checked on its own: "worker"  *)
(* says whose behaviour it is, and the variables of the others are Unused. *)
(***************************************************************************)
EXTENDS ReviewConnection, Sequences, TLC

CONSTANTS a, b, Unused,
          Kind, Gated, NoKind, MaxTask,
          Tables, Keyed, Loaded, ChunkSizes, NoManifest, MaxRow, MaxWrites, MaxExports,
          View, Columns, HasText, Page, PageSize,
          page, database, artifact_tags, gui_checked_artifacts, artifacts, summary

VARIABLES worker,
          active, button, loading, dialog, tasks, kindOf, registry, joining, result, ui,
          rows, last, writes, folder, exports, outcome, chunk, table, counted,
          offset, part, listed,
          request, todo, files, counts,
          manifest, stop, pending

X == INSTANCE ExportTasks
T == INSTANCE TableExport
V == INSTANCE ViewExport

ASSUME TaskAssumptions == X!KindAssumption /\ X!TaskAssumption
ASSUME TableAssumptions ==
  /\ T!ChunkAssumption /\ T!BoundAssumption /\ T!TablesAssumption
  /\ T!LoadedAssumption /\ T!ManifestAssumption
ASSUME ViewAssumptions == V!ViewAssumption /\ V!PageAssumption

----------------------------------------------------------------------------
(* A table that numbers its rows, and that of the checked artifacts; a     *)
(* view with two search columns, every combination of matches among its    *)
(* rows, and one with none.                                                *)
TwoTables == <<artifact_tags, gui_checked_artifacts>>
TwoLoaded == (artifact_tags :> {1, 2}) @@ (gui_checked_artifacts :> {2, 3})

Match(filter, one, two) == (0 :> filter) @@ (1 :> one) @@ (2 :> two)
TwoColumns == (artifacts :> 2) @@ (summary :> 0)
TwoTexts ==
  (artifacts :> <<Match(TRUE, TRUE, FALSE), Match(FALSE, TRUE, TRUE),
                  Match(TRUE, FALSE, FALSE), Match(TRUE, FALSE, TRUE),
                  Match(FALSE, FALSE, FALSE)>>)
    @@ (summary :> <<0 :> TRUE, 0 :> FALSE>>)

----------------------------------------------------------------------------
poolOnly  == <<opened, seq, countSeq, pool, state, handler, path, own, db, expired>>
taskOnly  == <<active, button, loading, dialog, tasks, kindOf, registry, joining,
               result, ui>>
tableOnly == <<rows, last, writes, folder, exports, outcome, chunk, table, counted,
               offset, part, listed>>
viewOnly  == <<request, todo, files, counts>>
fileVars  == <<manifest, stop, pending>>

NoPool   == /\ opened = Unused /\ seq = Unused /\ countSeq = Unused /\ pool = Unused
            /\ state = Unused /\ handler = Unused /\ path = Unused /\ own = Unused
            /\ db = Unused /\ expired = Unused
NoTasks  == /\ active = Unused /\ button = Unused /\ loading = Unused
            /\ dialog = Unused /\ tasks = Unused /\ kindOf = Unused
            /\ registry = Unused /\ joining = Unused /\ result = Unused /\ ui = Unused
NoTables == /\ rows = Unused /\ last = Unused /\ writes = Unused /\ folder = Unused
            /\ exports = Unused /\ outcome = Unused /\ chunk = Unused
            /\ table = Unused /\ counted = Unused /\ offset = Unused
            /\ part = Unused /\ listed = Unused
NoViews  == request = Unused /\ todo = Unused /\ files = Unused /\ counts = Unused
NoFiles  == manifest = Unused /\ stop = Unused /\ pending = Unused

WorkersInit ==
  \/ worker = "pool" /\ Init /\ NoTasks /\ NoTables /\ NoViews /\ NoFiles
  \/ worker = "tasks" /\ X!Init /\ NoPool /\ NoTables /\ NoViews /\ NoFiles
  \/ worker = "tables" /\ T!Init /\ NoPool /\ NoTasks /\ NoViews /\ shuttingDown = Unused
  \/ worker = "views" /\ V!Init /\ NoPool /\ NoTasks /\ NoTables /\ shuttingDown = Unused

Threads == /\ worker = "pool" /\ Next
           /\ UNCHANGED <<worker, taskOnly, tableOnly, viewOnly, fileVars>>
Tasks   == /\ worker = "tasks" /\ X!Next
           /\ UNCHANGED <<worker, poolOnly, tableOnly, viewOnly, fileVars>>
TableStep == /\ worker = "tables" /\ T!Next
             /\ UNCHANGED <<worker, poolOnly, taskOnly, viewOnly, shuttingDown>>
ViewStep  == /\ worker = "views" /\ V!Next
             /\ UNCHANGED <<worker, poolOnly, taskOnly, tableOnly, shuttingDown>>

WorkersNext == Threads \/ Tasks \/ TableStep \/ ViewStep

workerVars == <<worker, poolOnly, taskOnly, tableOnly, viewOnly, fileVars, shuttingDown, pc>>

\* X!Fairness, where there are export threads.
ThreadsRun ==
  /\ \A t \in 1..MaxTask : /\ WF_workerVars(worker = "tasks" /\ X!Worker(t) /\ Tasks)
                           /\ WF_workerVars(worker = "tasks" /\ X!ExportResult(t) /\ Tasks)
                           /\ WF_workerVars(worker = "tasks" /\ X!JoinTask(t) /\ Tasks)
  /\ WF_workerVars(worker = "tasks" /\ X!CancelDialog /\ Tasks)
  /\ WF_workerVars(worker = "tasks" /\ X!SetLoading(FALSE) /\ Tasks)
  /\ WF_workerVars(worker = "tasks" /\ X!FinishClose /\ Tasks)

WorkersSpec == WorkersInit /\ [][WorkersNext]_workerVars /\ ThreadsRun

----------------------------------------------------------------------------
(* The properties, each about its own worker.                              *)

(* However the threads race for a connection, none is leaked, and none is  *)
(* closed while the pool still hands it out.                               *)
ConnectionsSound == worker = "pool" => TypeOK /\ PoolSound

(* The flag of a kind of export tells exactly whether one is being set up, *)
(* runs or waits to be reported, a button is disabled only for a reason    *)
(* that is going to end, and the window is never gone while a thread that  *)
(* may still touch the program's state runs.                               *)
ExportThreadsSound == worker = "tasks" => X!TypeOK /\ X!FlagHonest /\ X!NoThreadEscapes

(* An export that was started is reported, unless the window is closed,    *)
(* and closing completes.                                                  *)
ExportsSettle ==
  /\ \A k \in Kind : (worker = "tasks" /\ active[k])
                        ~> (worker = "tasks" /\ (~active[k] \/ shuttingDown))
  /\ (worker = "tasks" /\ shuttingDown) ~> (ui = "gone")

(* After an export that reports success the manifest names existing files  *)
(* and says how many rows each holds, and a folder whose only export was   *)
(* cut short has no manifest; the rows of a table that numbers its rows    *)
(* are exported in order and none twice, and as long as none is deleted    *)
(* meanwhile, none of those counted is left out.                           *)
TablesExported ==
  worker = "tables" => T!TypeOK /\ T!ManifestMatches /\ T!CompleteUnlessDeleted

(* The current page, a filtered view, and the visible views when nothing   *)
(* is searched for, are exported as the panel shows them, and the manifest *)
(* of the visible views tells the truth.                                   *)
ExportsWhatIsShown == worker = "views" => V!TypeOK /\ V!ExportsWhatIsShown
=============================================================================
