----------------------------- MODULE RunPipeline -----------------------------
(***************************************************************************)
(* A run of the application (runApplication in src/src/app/app_runner.cpp) *)
(* into a case folder that earlier runs may have used: its stages, the     *)
(* points where it looks at the cancel token, its error paths, and what it *)
(* leaves in the folder: the case database, its convenience copy, the      *)
(* summary, the Upload bundle and the run status.  The GUI may hold a      *)
(* pooled read connection to the same database meanwhile.                  *)
(***************************************************************************)
EXTENDS Integers

CONSTANTS Store,   \* store groups in the evidence, one parsed database each
          Options, \* the options a run may be started with
          Surroundings, \* each a set of faults: see AllFaults
          MaxRuns  \* bound: runs into the case folder

\* What may happen around a run.
AllFaults == {"throw",  \* any step may throw
              "copy",   \* preserving a store may fail
              "crash",  \* the process may end at any step
              "viewer"} \* the GUI may have the case open

\* kind of input, mode ("discover" stands for the source probe too),
\* and opt.preserveEvidence, set by default or explicitly.
AllOptions == [kind : {"folder", "zip", "aff4", "raw"}, mode : {"run", "diagnostics", "discover"},
               preserve : {"no", "default", "explicit"}]

ASSUME OptionAssumption == Options \subseteq AllOptions
ASSUME FaultAssumption == Surroundings \subseteq SUBSET AllFaults
ASSUME RunAssumption == MaxRuns \in Nat

None == 0
Running == -1

VARIABLES pc, run, opt,
          cancel, \* the token: "no", or set "early" (a check is still ahead) or "late"
          exit,   \* result.exitCode, or Running
          found,  \* stores discovered
          todo,   \* stores still to parse
          failed, \* stores this run could not parse, each with its raw_failures row
          kept,   \* <<run, store>>: copies in EvidencePreservation
          source, \* evidence_sources: the runs registered in the database
          raw,    \* <<run, store>>: committed raw_records
          art,    \* runs whose artifacts are committed
          bulk,   \* the connection has synchronous = OFF, journal_mode = MEMORY
          whole,  \* the database file holds every committed row, no WAL needed
          intact, \* the database file is not corrupt
          stage,  \* last_stage.txt
          summary,\* the run that wrote case_summary
          bundle, \* Upload: the run that made it, the summary and stage it shows
          copy,   \* spotlight_case.db: the run that wrote it, and if it was whole
          viewer, \* the GUI's pooled connection: "none", "idle" or "reading"
          faults  \* what may happen

place == <<pc, run, opt, exit>>
work  == <<found, todo, failed, kept>>
db    == <<source, raw, art, whole, intact>>
files == <<summary, bundle, copy>>
vars  == <<place, cancel, work, db, bulk, stage, files, viewer, faults>>

\* Where the cancel token is looked at, and the step that follows.
Checks == [startup |-> "intake", beforeScan |-> "scan", afterScan |-> "partition",
           afterPartition |-> "beforeStaging", beforeStaging |-> "staging", afterZip |-> "register",
           beforeSelection |-> "selection", beforeCall |-> "call", afterCall |-> "referenced",
           beforeEnrichment |-> "enrich", duringExport |-> "summary"]
\* The steps between them that only move on.
Moves == [intake |-> "beforeScan", scan |-> "afterScan", partition |-> "afterPartition",
          selection |-> "beforeCall", referenced |-> "beforeEnrichment", export |-> "duringExport"]
Steps == DOMAIN Checks \cup DOMAIN Moves \cup
         {"staging", "register", "image", "discover", "preserve", "call", "parse",
          "enrich", "summary", "close", "copy", "bundle", "finish"}
Stops == {"idle", "refused", "ended", "crashed"}

TypeOK == /\ pc \in Steps \cup Stops /\ run \in 0..MaxRuns
          /\ opt \in Options /\ cancel \in {"no", "early", "late"}
          /\ exit \in Running..4
          /\ found \subseteq Store /\ todo \subseteq Store /\ failed \subseteq Store
          /\ kept \subseteq (1..MaxRuns) \X Store /\ raw \subseteq (1..MaxRuns) \X Store
          /\ source \subseteq 1..MaxRuns /\ art \subseteq 1..MaxRuns
          /\ bulk \in BOOLEAN /\ whole \in BOOLEAN /\ intact \in BOOLEAN
          /\ stage \in {"none", "busy", "complete", "cancelled", "failed"}
          /\ summary \in 0..MaxRuns
          /\ bundle \in [run : 0..MaxRuns, summary : 0..MaxRuns,
                         stage : {"none", "busy", "complete", "failed"}]
          /\ copy \in [run : 0..MaxRuns, whole : BOOLEAN]
          /\ viewer \in {"none", "idle", "reading"} /\ faults \in SUBSET AllFaults

Init == /\ pc = "idle" /\ run = 0 /\ opt \in Options /\ exit = Running
        /\ cancel = "no"
        /\ found = {} /\ todo = {} /\ failed = {} /\ kept = {}
        /\ source = {} /\ raw = {} /\ art = {} /\ whole = TRUE /\ intact = TRUE
        /\ bulk = FALSE
        /\ stage = "none" /\ summary = None
        /\ bundle = [run |-> None, summary |-> None, stage |-> "none"]
        /\ copy = [run |-> None, whole |-> TRUE]
        /\ viewer = "none" /\ faults \in Surroundings

Image == opt.kind \in {"aff4", "raw"}
DiscoverOnly == opt.mode = "discover"
\* Parse and enrich: the checks after staging are on this run's way.
Full == ~Image /\ ~DiscoverOnly

----------------------------------------------------------------------------
(* Starting and ending                                                     *)

\* A corrupt case database is not run into again.
Start == /\ pc \in Stops /\ run < MaxRuns /\ intact
         /\ run' = run + 1 /\ opt' \in Options
         /\ pc' = "startup" /\ exit' = Running /\ stage' = "busy"
         /\ cancel' = "no"
         /\ found' = {} /\ todo' = {} /\ failed' = {}
         /\ UNCHANGED <<kept, db, bulk, files, viewer>>

\* The case folder cannot be created or written: no status is left.
Refuse == /\ pc \in Stops /\ run < MaxRuns
          /\ run' = run + 1 /\ opt' \in Options
          /\ pc' = "refused" /\ exit' = 1 /\ cancel' = "no"
          /\ UNCHANGED <<work, db, bulk, stage, files, viewer>>

\* However the run ends, its connection is closed, which checkpoints the WAL
\* as far as a reader lets it.
Checkpoint == whole' = (whole \/ viewer # "reading")

End(code, s) == /\ pc' = "ended" /\ exit' = code /\ stage' = s
                /\ bulk' = FALSE /\ Checkpoint
                /\ UNCHANGED <<run, opt, cancel, work, source, raw, art, intact, copy, viewer>>

\* createUploadBundle, then the closing status, then refreshUploadRunDiagnostics.
BundleAs(s) == bundle' = [run |-> run, summary |-> summary, stage |-> s]

Cancelled == /\ pc \in DOMAIN Checks /\ cancel # "no"
             /\ End(4, "cancelled")
             /\ UNCHANGED <<summary, bundle>>

\* The catch clauses of runApplication.
Caught == /\ End(1, "failed") /\ BundleAs("failed") /\ UNCHANGED summary

Throw == /\ "throw" \in faults /\ pc \in Steps \ {"startup"}
         /\ Caught

\* The process dies; in the middle of a parse the journal dies with it.
Crash == /\ "crash" \in faults /\ pc \in Steps
         /\ pc' = "crashed" /\ exit' = Running /\ bulk' = FALSE
         /\ intact' \in {intact, intact /\ ~bulk}
         /\ UNCHANGED <<run, opt, cancel, work, source, raw, art, whole, stage, files, viewer>>

----------------------------------------------------------------------------
(* The stages                                                              *)

\* Variant: the check after the export is missing.
PassCheckTooOften == /\ pc \in DOMAIN Checks /\ (cancel = "no" \/ pc = "duringExport")
                     /\ pc' = Checks[pc]
                     /\ UNCHANGED <<run, opt, exit, cancel, work, db, bulk, stage, files, viewer>>
\* A run that is asked to stop passes no further check.
PassCheck == /\ pc \in DOMAIN Checks /\ cancel = "no" /\ pc' = Checks[pc]
             /\ UNCHANGED <<run, opt, exit, cancel, work, db, bulk, stage, files, viewer>>

MoveOn == /\ pc \in DOMAIN Moves /\ pc' = Moves[pc]
          /\ UNCHANGED <<run, opt, exit, cancel, work, db, bulk, stage, files, viewer>>

Stage == /\ pc = "staging"
         /\ pc' = IF opt.kind = "zip" THEN "afterZip" ELSE "register"
         /\ UNCHANGED <<run, opt, exit, cancel, work, db, bulk, stage, files, viewer>>

Register == /\ pc = "register"
            /\ source' = source \cup {run} /\ whole' = FALSE
            /\ pc' = IF Image THEN "image" ELSE "discover"
            /\ UNCHANGED <<run, opt, exit, cancel, work, raw, art, intact, bulk, stage, files, viewer>>

\* AFF4: what APFS extraction staged is parsed and enriched at once.
ReadImage == /\ pc = "image" /\ pc' = "summary"
             /\ \E got \in IF opt.kind = "aff4" THEN SUBSET Store ELSE {{}} :
                  /\ raw' = raw \cup {run} \X got
                  /\ art' = IF got = {} THEN art ELSE art \cup {run}
             /\ whole' = FALSE
             /\ UNCHANGED <<run, opt, exit, cancel, work, source, intact, bulk, stage, files, viewer>>

DiscoverStores == /\ pc = "discover"
                  /\ found' \in SUBSET Store /\ todo' = found'
                  /\ pc' = IF DiscoverOnly THEN "summary" ELSE "preserve"
                  /\ UNCHANGED <<run, opt, exit, cancel, failed, kept, db, bulk, stage, files, viewer>>

ShouldPreserve == /\ opt.kind = "folder" /\ opt.preserve # "no"
                  /\ opt.mode = "diagnostics" => opt.preserve = "explicit"

\* What preservation copies, which rediscovery then finds: the stores found,
\* less those whose copy failed; with none found, a broad scan may find some.
Copies == IF found = {} THEN SUBSET Store
          ELSE IF "copy" \in faults THEN SUBSET found ELSE {found}

SkipPreservation == /\ pc = "preserve" /\ ~ShouldPreserve
                    /\ pc' = "beforeSelection"
                    /\ UNCHANGED <<run, opt, exit, cancel, work, db, bulk, stage, files, viewer>>

\* Variant: falls back to the original evidence.
PreserveOrOriginal == /\ pc = "preserve" /\ ShouldPreserve
                      /\ \E copies \in Copies :
                           /\ kept' = kept \cup {run} \X copies
                           /\ todo' = IF copies = {} THEN found ELSE copies
                      /\ whole' = FALSE /\ pc' = "beforeSelection"
                      /\ UNCHANGED <<run, opt, exit, cancel, found, failed, source, raw, art, intact,
                                     bulk, stage, files, viewer>>
Preserve == /\ pc = "preserve" /\ ShouldPreserve
            /\ \E copies \in Copies :
                 /\ found # {} => copies # {}
                 /\ kept' = kept \cup {run} \X copies /\ todo' = copies
            /\ whole' = FALSE /\ pc' = "beforeSelection"
            /\ UNCHANGED <<run, opt, exit, cancel, found, failed, source, raw, art, intact, bulk,
                           stage, files, viewer>>

\* Variant: exitCode is not set.
NothingPreservedIsFine == /\ pc = "preserve" /\ ShouldPreserve
                          /\ found # {} /\ {} \in Copies
                          /\ End(0, "failed") /\ summary' = run
                          /\ UNCHANGED bundle
\* No store found in the preserved copy: the summary is written, no bundle.
NothingPreserved == /\ pc = "preserve" /\ ShouldPreserve
                    /\ found # {} /\ {} \in Copies
                    /\ End(2, "failed") /\ summary' = run
                    /\ UNCHANGED bundle

\* Leaving WAL mode needs every other connection gone.
StartParse == /\ pc = "call" /\ viewer = "none"
              /\ bulk' = TRUE /\ pc' = "parse"
              /\ UNCHANGED <<run, opt, exit, cancel, work, db, stage, files, viewer>>

CannotStartParse == pc = "call" /\ viewer # "none" /\ Caught

\* Each store is committed by itself, or leaves a failure.
ParseStore(s) == /\ pc = "parse" /\ s \in todo /\ todo' = todo \ {s}
                 /\ \/ raw' = raw \cup {<<run, s>>} /\ UNCHANGED failed
                    \/ failed' = failed \cup {s} /\ UNCHANGED raw
                 /\ UNCHANGED <<place, cancel, found, kept, source, art, whole, intact, bulk,
                                stage, files, viewer>>

\* Variants: the settings are not restored; not every store is visited.
EndParseStaysBulk == /\ pc = "parse" /\ todo = {} /\ pc' = "afterCall"
                     /\ UNCHANGED <<run, opt, exit, cancel, work, db, bulk, stage, files, viewer>>
EndParseEarly == /\ pc = "parse" /\ todo # found
                 /\ bulk' = FALSE /\ pc' = "afterCall"
                 /\ UNCHANGED <<run, opt, exit, cancel, work, db, stage, files, viewer>>
\* Going back to WAL needs the database unlocked.
EndParse == /\ pc = "parse" /\ todo = {} /\ viewer # "reading"
            /\ bulk' = FALSE /\ pc' = "afterCall"
            /\ UNCHANGED <<run, opt, exit, cancel, work, db, stage, files, viewer>>

CannotEndParse == pc = "parse" /\ todo = {} /\ viewer = "reading" /\ Caught

\* Enrichment, and the purge of rows whose source is not registered.
Enrich == /\ pc = "enrich" /\ pc' = "export"
          /\ raw' = {r \in raw : r[1] \in source}
          /\ art' = (art \cup {run}) \cap source
          /\ whole' = FALSE
          /\ UNCHANGED <<run, opt, exit, cancel, work, source, intact, bulk, stage, files, viewer>>

WriteSummary == /\ pc = "summary" /\ summary' = run
                /\ pc' = IF Full THEN "close" ELSE "bundle"
                /\ UNCHANGED <<run, opt, exit, cancel, work, db, bulk, stage, bundle, copy, viewer>>

\* Variant: the copy is made while the connection is open.
CloseDbLater == /\ pc = "close" /\ pc' = "copy"
                /\ UNCHANGED <<run, opt, exit, cancel, work, db, bulk, stage, files, viewer>>
CloseDb == /\ pc = "close" /\ pc' = "copy" /\ Checkpoint
           /\ UNCHANGED <<run, opt, exit, cancel, work, source, raw, art, intact, bulk,
                          stage, files, viewer>>

\* A copy that fails is only logged.
CopyDb == /\ pc = "copy" /\ pc' = "bundle"
          /\ copy' \in {copy, [run |-> run, whole |-> whole]}
          /\ UNCHANGED <<run, opt, exit, cancel, work, db, bulk, stage, summary, bundle, viewer>>

MakeBundle == /\ pc = "bundle" /\ pc' = "finish" /\ BundleAs(stage)
              /\ UNCHANGED <<run, opt, exit, cancel, work, db, bulk, stage, summary, copy, viewer>>

\* Variant: without refreshUploadRunDiagnostics.
FinishUnrefreshed == /\ pc = "finish"
                     /\ IF Image /\ ~DiscoverOnly THEN End(3, "failed") ELSE End(0, "complete")
                     /\ UNCHANGED <<summary, bundle>>
Finish == /\ pc = "finish"
          /\ IF Image /\ ~DiscoverOnly THEN End(3, "failed") ELSE End(0, "complete")
          /\ bundle' = [bundle EXCEPT !.stage = stage']
          /\ UNCHANGED summary

----------------------------------------------------------------------------
(* The investigator and the GUI                                            *)

CheckAhead == \/ pc \in {"startup", "intake", "beforeScan", "scan", "afterScan", "partition",
                         "afterPartition", "beforeStaging", "afterZip"}
              \/ pc = "staging" /\ opt.kind = "zip"
              \/ Full /\ pc \in Steps \ {"summary", "close", "copy", "bundle", "finish"}

RequestCancel == /\ pc \in Steps /\ cancel = "no"
                 /\ cancel' = IF CheckAhead THEN "early" ELSE "late"
                 /\ UNCHANGED <<place, work, db, bulk, stage, files, viewer>>

\* A page of the open case is read over the pooled connection, which stays
\* until another case is opened.
View == /\ "viewer" \in faults
        /\ viewer' = CASE viewer = "reading" -> "idle" [] OTHER -> "reading"
        /\ UNCHANGED <<place, cancel, work, db, bulk, stage, files>>
CloseView == /\ viewer = "idle" /\ viewer' = "none"
             /\ UNCHANGED <<place, cancel, work, db, bulk, stage, files>>

Step == \/ Start \/ Refuse \/ Cancelled \/ Throw \/ Crash
        \/ PassCheck \/ MoveOn \/ Stage \/ Register \/ ReadImage
        \/ DiscoverStores \/ SkipPreservation \/ Preserve \/ NothingPreserved
        \/ StartParse \/ CannotStartParse \/ EndParse \/ CannotEndParse
        \/ \E s \in Store : ParseStore(s)
        \/ Enrich \/ WriteSummary \/ CloseDb \/ CopyDb \/ MakeBundle \/ Finish
        \/ RequestCancel \/ View \/ CloseView

\* Every action leaves the surroundings as they are.
Next == Step /\ UNCHANGED faults

Spec == Init /\ [][Next]_vars

----------------------------------------------------------------------------
(* What holds of every run                                                 *)

Ended == pc = "ended"

\* The status a run leaves in last_stage.txt and the exit code it returns agree:
\* the GUI and the scripts look at one, people at the other.
StageTellsExit == Ended => stage = CASE exit = 0 -> "complete"
                                     [] exit = 4 -> "cancelled"
                                     [] OTHER -> "failed"

\* The Upload folder is this run's when it succeeded, found the container
\* unsupported or threw, and shows the status the run ended with; unless it
\* threw, the summary in it is this run's too.  A cancelled run, and one with
\* nothing preserved, leave the bundle of an earlier run.
BundleTellsRun == Ended => /\ bundle.run = run <=> exit \in {0, 1, 3}
                           /\ bundle.run = run => bundle.stage = stage
                           /\ exit \in {0, 3} => bundle.summary = run

\* No run completes that was asked to stop while a check was still ahead of it.
CancelHeeded == Ended /\ exit \in {0, 3} => cancel # "early"

\* Evidence that was to be preserved is parsed from its preserved copy only,
\* never from the original.
ParsesPreserved == ShouldPreserve => \A s \in Store : <<run, s>> \in raw => <<run, s>> \in kept

\* A crash harms the case database only in the middle of a parse: everywhere
\* else the journal is back on disk.
OnlyParsingRisksDb == [][pc # "parse" => intact' = intact]_vars

\* With nobody reading the case, spotlight_case.db holds all that the case database
\* held when it was written.  (A reader keeps the checkpoint from completing, and
\* the copy is made without what is still in the WAL.)
CopyIsWhole == "viewer" \notin faults => copy.whole

\* Every store found in the evidence of a completed run was parsed, or has a
\* failure that says it was not, if it could be copied.  (One that could not is
\* left out, as long as another one is there to be parsed.)
NoStoreDropped == Ended /\ exit = 0 /\ Full /\ "copy" \notin faults =>
                    \A s \in found : <<run, s>> \in raw \/ s \in failed
=============================================================================
