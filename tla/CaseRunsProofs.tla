---------------------------- MODULE CaseRunsProofs ----------------------------
(***************************************************************************)
(* Proofs about the pipeline of MCCaseRuns and the scripts of its views:   *)
(* for every set of stores, of options and of faults, every schema, and    *)
(* any number of runs and scripts.                                         *)
(***************************************************************************)
EXTENDS MCCaseRuns, TLAPS

-----------------------------------------------------------------------------
(* Each property has a strengthening that is inductive, first checked with *)
(* TLC as an invariant.                                                    *)

\* The type invariant in parts, each for the variables some actions change.
\* While a run is on its way it has a number, no exit code and a busy stage,
\* which is why the stage it puts into its bundle is never "cancelled".
PlaceTypes == /\ pc \in Steps \cup Stops /\ run \in 0..MaxRuns
              /\ pc \in Steps => run # 0 /\ exit = Running /\ stage = "busy"
              /\ opt \in Options /\ cancel \in {"no", "early", "late"}
              /\ exit \in Running..4
              /\ stage \in {"none", "busy", "complete", "cancelled", "failed"}
              /\ viewer \in {"none", "idle", "reading"}
FlagTypes == /\ bulk \in BOOLEAN /\ whole \in BOOLEAN /\ intact \in BOOLEAN
DataTypes == /\ found \subseteq Store /\ todo \subseteq Store /\ failed \subseteq Store
             /\ kept \subseteq (1..MaxRuns) \X Store /\ raw \subseteq (1..MaxRuns) \X Store
             /\ source \subseteq 1..MaxRuns /\ art \subseteq 1..MaxRuns
FileTypes == /\ summary \in 0..MaxRuns
             /\ bundle \in [run : 0..MaxRuns, summary : 0..MaxRuns,
                            stage : {"none", "busy", "complete", "failed"}]
             /\ copy \in [run : 0..MaxRuns, whole : BOOLEAN]
Types == PlaceTypes /\ FlagTypes /\ DataTypes /\ FileTypes

\* The places of a run, enumerated.
LEMMA StepsAre ==
  /\ Steps = {"startup", "beforeScan", "afterScan", "afterPartition", "beforeStaging", "afterZip",
              "beforeSelection", "beforeCall", "afterCall", "beforeEnrichment", "duringExport",
              "intake", "scan", "partition", "selection", "referenced", "export",
              "staging", "register", "image", "discover", "preserve", "call", "parse",
              "enrich", "summary", "close", "copy", "bundle", "finish"}
  /\ Stops = {"idle", "refused", "ended", "crashed"}
  BY DEF Checks, Steps, Moves, Stops

\* Checks lead from a step to a step.
LEMMA CheckSteps == \A p \in DOMAIN Checks : p \in Steps /\ Checks[p] \in Steps
  BY DEF Checks, Steps, Moves
\* Moves lead from a step to a step.
LEMMA MoveSteps == \A p \in DOMAIN Moves : p \in Steps /\ Moves[p] \in Steps
  BY DEF Checks, Steps, Moves

\* A fresh case folder is well typed.
LEMMA TypesInit == Init => Types
<1> SUFFICES ASSUME Init PROVE Types
  OBVIOUS
<1>1. 0 \in 0..MaxRuns
  BY RunAssumption
<1>2. PlaceTypes
  BY <1>1, StepsAre DEF Init, PlaceTypes, Running
<1>3. FlagTypes
  BY DEF Init, FlagTypes
<1>4. DataTypes
  BY DEF Init, DataTypes
<1>5. FileTypes
  BY <1>1 DEF Init, FileTypes, None
<1> QED BY <1>2, <1>3, <1>4, <1>5 DEF Types

\* No action leaves the types: one step per action, split where its parts differ.
LEMMA TypesStep == Types /\ [Next]_vars => Types'
<1> SUFFICES ASSUME Types, [Next]_vars PROVE Types'
  OBVIOUS
<1>1. CASE Start
  <2>1. PlaceTypes'
    BY <1>1, StepsAre, RunAssumption DEF Start, Types, PlaceTypes, Running, place
  <2>2. FlagTypes'
    BY <1>1 DEF Start, Types, FlagTypes, Checkpoint, db
  <2>3. DataTypes'
    BY <1>1 DEF Start, Types, DataTypes, work, db
  <2>4. FileTypes'
    BY <1>1 DEF Start, Types, FileTypes, files, place
  <2> QED BY <2>1, <2>2, <2>3, <2>4 DEF Types
<1>2. CASE Refuse
  BY <1>2, StepsAre, RunAssumption
  DEF Refuse, Types, PlaceTypes, FlagTypes, DataTypes, FileTypes, Running, Checkpoint, place,
      work, db, files
<1>3. CASE Cancelled
  <2>1. PlaceTypes'
    BY <1>3, StepsAre DEF Cancelled, End, Types, PlaceTypes, Running, place
  <2>2. FlagTypes'
    BY <1>3 DEF Cancelled, End, Types, FlagTypes, Checkpoint, db
  <2>3. DataTypes'
    BY <1>3 DEF Cancelled, End, Types, DataTypes, work, db
  <2>4. FileTypes'
    BY <1>3 DEF Cancelled, End, Types, FileTypes, files, place
  <2> QED BY <2>1, <2>2, <2>3, <2>4 DEF Types
<1>4. CASE Throw
  <2>1. PlaceTypes'
    BY <1>4, StepsAre DEF Throw, Caught, End, Types, PlaceTypes, Running, place
  <2>2. FlagTypes'
    BY <1>4 DEF Throw, Caught, End, Types, FlagTypes, Checkpoint, db
  <2>3. DataTypes'
    BY <1>4 DEF Throw, Caught, End, Types, DataTypes, work, db
  <2>4. FileTypes'
    BY <1>4 DEF Throw, Caught, End, BundleAs, Types, PlaceTypes, FileTypes, files, place
  <2> QED BY <2>1, <2>2, <2>3, <2>4 DEF Types
<1>5. CASE Crash
  BY <1>5, StepsAre
  DEF Crash, Types, PlaceTypes, FlagTypes, DataTypes, FileTypes, Running, Checkpoint, place, work,
      db, files
<1>6. CASE PassCheck
  BY <1>6, CheckSteps
  DEF PassCheck, Types, PlaceTypes, FlagTypes, DataTypes, FileTypes, Checkpoint, place, work, db,
      files
<1>7. CASE MoveOn
  BY <1>7, MoveSteps
  DEF MoveOn, Types, PlaceTypes, FlagTypes, DataTypes, FileTypes, Checkpoint, place, work, db,
      files
<1>8. CASE Stage
  BY <1>8, StepsAre
  DEF Stage, Types, PlaceTypes, FlagTypes, DataTypes, FileTypes, Checkpoint, place, work, db,
      files
<1>9. CASE Register
  <2>1. PlaceTypes'
    BY <1>9, StepsAre DEF Register, Types, PlaceTypes, place
  <2>2. FlagTypes'
    BY <1>9 DEF Register, Types, FlagTypes, Checkpoint, db
  <2>3. DataTypes'
    BY <1>9, StepsAre DEF Register, Types, PlaceTypes, DataTypes, work, db
  <2>4. FileTypes'
    BY <1>9 DEF Register, Types, FileTypes, files, place
  <2> QED BY <2>1, <2>2, <2>3, <2>4 DEF Types
<1>10. CASE ReadImage
  <2>1. PlaceTypes'
    BY <1>10, StepsAre DEF ReadImage, Types, PlaceTypes, place
  <2>2. FlagTypes'
    BY <1>10 DEF ReadImage, Types, FlagTypes, Checkpoint, db
  <2>3. DataTypes'
    BY <1>10, StepsAre DEF ReadImage, Types, PlaceTypes, DataTypes, work, db
  <2>4. FileTypes'
    BY <1>10 DEF ReadImage, Types, FileTypes, files, place
  <2> QED BY <2>1, <2>2, <2>3, <2>4 DEF Types
<1>11. CASE DiscoverStores
  BY <1>11, StepsAre
  DEF DiscoverStores, Types, PlaceTypes, FlagTypes, DataTypes, FileTypes, Checkpoint, place, work,
      db, files
<1>12. CASE SkipPreservation
  BY <1>12, StepsAre
  DEF SkipPreservation, Types, PlaceTypes, FlagTypes, DataTypes, FileTypes, Checkpoint, place,
      work, db, files
<1>13. CASE Preserve
  <2>1. PICK copies \in SUBSET Store : /\ kept' = kept \cup {run} \X copies
                                     /\ todo' = copies
    BY <1>13 DEF Preserve, Copies, Types, DataTypes
  <2>2. run \in 1..MaxRuns
    BY <1>13, StepsAre DEF Preserve, Types, PlaceTypes
  <2>3. DataTypes'
    BY <1>13, <2>1, <2>2 DEF Preserve, Types, DataTypes
  <2>4. PlaceTypes' /\ FlagTypes' /\ FileTypes'
    BY <1>13, StepsAre DEF Preserve, Types, PlaceTypes, FlagTypes, FileTypes, place, files
  <2> QED BY <2>3, <2>4 DEF Types
<1>14. CASE NothingPreserved
  <2>1. PlaceTypes'
    BY <1>14, StepsAre DEF NothingPreserved, End, Types, PlaceTypes, Running, place
  <2>2. FlagTypes'
    BY <1>14 DEF NothingPreserved, End, Types, FlagTypes, Checkpoint, db
  <2>3. DataTypes'
    BY <1>14 DEF NothingPreserved, End, Types, DataTypes, work, db
  <2>4. FileTypes'
    BY <1>14 DEF NothingPreserved, End, Types, PlaceTypes, FileTypes, files, place
  <2> QED BY <2>1, <2>2, <2>3, <2>4 DEF Types
<1>15. CASE StartParse
  BY <1>15, StepsAre
  DEF StartParse, Types, PlaceTypes, FlagTypes, DataTypes, FileTypes, Checkpoint, place, work, db,
      files
<1>16. CASE CannotStartParse
  <2>1. PlaceTypes'
    BY <1>16, StepsAre DEF CannotStartParse, Caught, End, Types, PlaceTypes, Running, place
  <2>2. FlagTypes'
    BY <1>16 DEF CannotStartParse, Caught, End, Types, FlagTypes, Checkpoint, db
  <2>3. DataTypes'
    BY <1>16 DEF CannotStartParse, Caught, End, Types, DataTypes, work, db
  <2>4. FileTypes'
    BY <1>16 DEF CannotStartParse, Caught, End, BundleAs, Types, PlaceTypes, FileTypes, files, place
  <2> QED BY <2>1, <2>2, <2>3, <2>4 DEF Types
<1>17. CASE EndParse
  BY <1>17, StepsAre
  DEF EndParse, Types, PlaceTypes, FlagTypes, DataTypes, FileTypes, Checkpoint, place, work, db,
      files
<1>18. CASE CannotEndParse
  <2>1. PlaceTypes'
    BY <1>18, StepsAre DEF CannotEndParse, Caught, End, Types, PlaceTypes, Running, place
  <2>2. FlagTypes'
    BY <1>18 DEF CannotEndParse, Caught, End, Types, FlagTypes, Checkpoint, db
  <2>3. DataTypes'
    BY <1>18 DEF CannotEndParse, Caught, End, Types, DataTypes, work, db
  <2>4. FileTypes'
    BY <1>18 DEF CannotEndParse, Caught, End, BundleAs, Types, PlaceTypes, FileTypes, files, place
  <2> QED BY <2>1, <2>2, <2>3, <2>4 DEF Types
<1>19. CASE Enrich
  BY <1>19, StepsAre
  DEF Enrich, Types, PlaceTypes, FlagTypes, DataTypes, FileTypes, Running, Checkpoint, place,
      work, db, files
<1>20. CASE WriteSummary
  BY <1>20, StepsAre
  DEF WriteSummary, Types, PlaceTypes, FlagTypes, DataTypes, FileTypes, Checkpoint, place, work,
      db, files
<1>21. CASE CloseDb
  BY <1>21, StepsAre
  DEF CloseDb, Types, PlaceTypes, FlagTypes, DataTypes, FileTypes, Checkpoint, place, work, db,
      files
<1>22. CASE CopyDb
  BY <1>22, StepsAre
  DEF CopyDb, Types, PlaceTypes, FlagTypes, DataTypes, FileTypes, Checkpoint, place, work, db,
      files
<1>23. CASE MakeBundle
  BY <1>23, StepsAre
  DEF MakeBundle, BundleAs, Types, PlaceTypes, FlagTypes, DataTypes, FileTypes, Checkpoint, place,
      work, db, files
<1>24. CASE Finish
  <2>1. PlaceTypes'
    BY <1>24, StepsAre DEF Finish, End, Types, PlaceTypes, Running, place
  <2>2. FlagTypes'
    BY <1>24 DEF Finish, End, Types, FlagTypes, Checkpoint, db
  <2>3. DataTypes'
    BY <1>24 DEF Finish, End, Types, DataTypes, work, db
  <2>4. FileTypes'
    BY <1>24 DEF Finish, End, Types, FileTypes, files, place
  <2> QED BY <2>1, <2>2, <2>3, <2>4 DEF Types
<1>25. CASE RequestCancel
  BY <1>25
  DEF RequestCancel, Types, PlaceTypes, FlagTypes, DataTypes, FileTypes, Checkpoint, place, work,
      db, files
<1>26. CASE View
  BY <1>26
  DEF View, Types, PlaceTypes, FlagTypes, DataTypes, FileTypes, Checkpoint, place, work, db, files
<1>27. CASE CloseView
  BY <1>27
  DEF CloseView, Types, PlaceTypes, FlagTypes, DataTypes, FileTypes, Checkpoint, place, work, db,
      files
<1>28. CASE \E s \in Store : ParseStore(s)
  BY <1>28, StepsAre
  DEF ParseStore, Types, PlaceTypes, FlagTypes, DataTypes, FileTypes, Checkpoint, place, work, db,
      files
<1>29. CASE UNCHANGED vars
  BY <1>29
  DEF vars, Types, PlaceTypes, FlagTypes, DataTypes, FileTypes, Checkpoint, place, work, db, files
<1> QED BY <1>1, <1>2, <1>3, <1>4, <1>5, <1>6, <1>7, <1>8, <1>9, <1>10, <1>11, <1>12, <1>13,
         <1>14, <1>15, <1>16, <1>17, <1>18, <1>19, <1>20, <1>21, <1>22, <1>23, <1>24, <1>25,
         <1>26, <1>27, <1>28, <1>29 DEF Next, Step

\* The surroundings are fixed from the start.
Surrounded == faults \in SUBSET AllFaults

\* Every reachable state is well typed.
THEOREM TypeCorrect == Spec => []TypeOK
<1>1. Types /\ Surrounded => TypeOK
  BY DEF Types, PlaceTypes, FlagTypes, DataTypes, FileTypes, Surrounded, TypeOK
<1>2. Init => Surrounded
  BY FaultAssumption DEF Init, Surrounded
<1>3. Surrounded /\ [Next]_vars => Surrounded'
  BY DEF Surrounded, Next, vars
<1> QED BY TypesInit, TypesStep, <1>1, <1>2, <1>3, PTL DEF Spec

\* The status left behind and the exit code agree, whatever ended the run: only
\* End sets either, and it sets both.
LEMMA StageStep == Types /\ StageTellsExit /\ [Next]_vars => StageTellsExit'
<1> SUFFICES ASSUME Types, StageTellsExit, [Next]_vars PROVE StageTellsExit'
  OBVIOUS
<1>1. CASE Start
  BY <1>1 DEF Start, StageTellsExit, Ended, place
<1>2. CASE Refuse
  BY <1>2 DEF Refuse, StageTellsExit, Ended, place
<1>3. CASE Cancelled
  BY <1>3 DEF Cancelled, End, StageTellsExit, place
<1>4. CASE Throw
  BY <1>4 DEF Throw, Caught, End, StageTellsExit, place
<1>5. CASE Crash
  BY <1>5 DEF Crash, StageTellsExit, Ended, place
<1>6. CASE PassCheck
  BY <1>6, StepsAre, CheckSteps DEF PassCheck, StageTellsExit, Ended, place
<1>7. CASE MoveOn
  BY <1>7, StepsAre, MoveSteps DEF MoveOn, StageTellsExit, Ended, place
<1>8. CASE Stage
  BY <1>8 DEF Stage, StageTellsExit, Ended, place
<1>9. CASE Register
  BY <1>9 DEF Register, StageTellsExit, Ended, place
<1>10. CASE ReadImage
  BY <1>10 DEF ReadImage, StageTellsExit, Ended, place
<1>11. CASE DiscoverStores
  BY <1>11 DEF DiscoverStores, StageTellsExit, Ended, place
<1>12. CASE SkipPreservation
  BY <1>12 DEF SkipPreservation, StageTellsExit, Ended, place
<1>13. CASE Preserve
  BY <1>13 DEF Preserve, StageTellsExit, Ended, place
<1>14. CASE NothingPreserved
  BY <1>14 DEF NothingPreserved, End, StageTellsExit, place
<1>15. CASE StartParse
  BY <1>15 DEF StartParse, StageTellsExit, Ended, place
<1>16. CASE CannotStartParse
  BY <1>16 DEF CannotStartParse, Caught, End, StageTellsExit, place
<1>17. CASE EndParse
  BY <1>17 DEF EndParse, StageTellsExit, Ended, place
<1>18. CASE CannotEndParse
  BY <1>18 DEF CannotEndParse, Caught, End, StageTellsExit, place
<1>19. CASE Enrich
  BY <1>19 DEF Enrich, StageTellsExit, Ended, place
<1>20. CASE WriteSummary
  BY <1>20 DEF WriteSummary, StageTellsExit, Ended, place
<1>21. CASE CloseDb
  BY <1>21 DEF CloseDb, StageTellsExit, Ended, place
<1>22. CASE CopyDb
  BY <1>22 DEF CopyDb, StageTellsExit, Ended, place
<1>23. CASE MakeBundle
  BY <1>23 DEF MakeBundle, StageTellsExit, Ended, place
<1>24. CASE Finish
  BY <1>24 DEF Finish, End, StageTellsExit, place
<1>25. CASE RequestCancel
  BY <1>25 DEF RequestCancel, StageTellsExit, Ended, place
<1>26. CASE View
  BY <1>26 DEF View, StageTellsExit, Ended, place
<1>27. CASE CloseView
  BY <1>27 DEF CloseView, StageTellsExit, Ended, place
<1>28. CASE \E s \in Store : ParseStore(s)
  BY <1>28 DEF ParseStore, StageTellsExit, Ended, place
<1>29. CASE UNCHANGED vars
  BY <1>29 DEF vars, StageTellsExit, Ended, place
<1> QED BY <1>1, <1>2, <1>3, <1>4, <1>5, <1>6, <1>7, <1>8, <1>9, <1>10, <1>11, <1>12, <1>13,
         <1>14, <1>15, <1>16, <1>17, <1>18, <1>19, <1>20, <1>21, <1>22, <1>23, <1>24, <1>25,
         <1>26, <1>27, <1>28, <1>29 DEF Next, Step

\* Every run that ended left the status its exit code stands for.
THEOREM StageAgrees == Spec => []StageTellsExit
<1>1. Init => StageTellsExit
  BY DEF Init, StageTellsExit, Ended
<1> QED BY <1>1, TypesInit, TypesStep, StageStep, PTL DEF Spec

\* Only a parse runs with the journal in memory.
Bulk == bulk => pc = "parse"

\* No action leaves the parse with the journal in memory.
LEMMA BulkStep == Types /\ Bulk /\ [Next]_vars => Bulk'
<1> SUFFICES ASSUME Types, Bulk, [Next]_vars PROVE Bulk'
  OBVIOUS
<1>1. CASE Start
  BY <1>1, StepsAre DEF Start, Bulk, FlagTypes
<1>2. CASE Refuse
  BY <1>2, StepsAre DEF Refuse, Bulk, FlagTypes
<1>3. CASE Cancelled
  BY <1>3 DEF Cancelled, End, Bulk, Moves
<1>4. CASE Throw
  BY <1>4 DEF Throw, Caught, End, Bulk, Checks, Moves
<1>5. CASE Crash
  BY <1>5 DEF Crash, Bulk, FlagTypes
<1>6. CASE PassCheck
  BY <1>6 DEF PassCheck, Bulk, Checks, Moves
<1>7. CASE MoveOn
  BY <1>7 DEF MoveOn, Bulk, Checks, Moves
<1>8. CASE Stage
  BY <1>8 DEF Stage, Bulk, FlagTypes
<1>9. CASE Register
  BY <1>9 DEF Register, Bulk, FlagTypes
<1>10. CASE ReadImage
  BY <1>10 DEF ReadImage, Bulk, FlagTypes
<1>11. CASE DiscoverStores
  BY <1>11 DEF DiscoverStores, Bulk, FlagTypes
<1>12. CASE SkipPreservation
  BY <1>12 DEF SkipPreservation, Bulk, FlagTypes
<1>13. CASE Preserve
  BY <1>13 DEF Preserve, Bulk, FlagTypes
<1>14. CASE NothingPreserved
  BY <1>14 DEF NothingPreserved, End, Bulk, Checks, Moves
<1>15. CASE StartParse
  BY <1>15 DEF StartParse, Bulk, Checks, Moves
<1>16. CASE CannotStartParse
  BY <1>16 DEF CannotStartParse, Caught, End, Bulk, Checks, Moves
<1>17. CASE EndParse
  BY <1>17 DEF EndParse, Bulk, FlagTypes
<1>18. CASE CannotEndParse
  BY <1>18 DEF CannotEndParse, Caught, End, Bulk, FlagTypes
<1>19. CASE Enrich
  BY <1>19 DEF Enrich, Bulk, FlagTypes
<1>20. CASE WriteSummary
  BY <1>20 DEF WriteSummary, Bulk, FlagTypes
<1>21. CASE CloseDb
  BY <1>21 DEF CloseDb, Bulk, FlagTypes
<1>22. CASE CopyDb
  BY <1>22 DEF CopyDb, Bulk, FlagTypes
<1>23. CASE MakeBundle
  BY <1>23 DEF MakeBundle, Bulk, FlagTypes
<1>24. CASE Finish
  BY <1>24 DEF Finish, End, Bulk, FlagTypes
<1>25. CASE RequestCancel
  BY <1>25 DEF RequestCancel, Bulk, place, FlagTypes
<1>26. CASE View
  BY <1>26 DEF View, Bulk, place, FlagTypes
<1>27. CASE CloseView
  BY <1>27 DEF CloseView, Bulk, place, FlagTypes
<1>28. CASE \E s \in Store : ParseStore(s)
  BY <1>28 DEF ParseStore, Bulk, place, FlagTypes
<1>29. CASE UNCHANGED vars
  BY <1>29 DEF vars, Bulk, place, Checks, Moves
<1> QED BY <1>1, <1>2, <1>3, <1>4, <1>5, <1>6, <1>7, <1>8, <1>9, <1>10, <1>11, <1>12, <1>13,
         <1>14, <1>15, <1>16, <1>17, <1>18, <1>19, <1>20, <1>21, <1>22, <1>23, <1>24, <1>25,
         <1>26, <1>27, <1>28, <1>29 DEF Next, Step

\* A crash harms the case database only in the middle of a parse, for whichever
\* way the run got there and left.
THEOREM ParsingRisksDb == Spec => OnlyParsingRisksDb
<1>1. Init => Bulk
  BY DEF Init, Bulk
<1>2. Types /\ Bulk /\ [Next]_vars => [pc # "parse" => intact' = intact]_vars
  <2> SUFFICES ASSUME Types, Bulk, Next, pc # "parse" PROVE intact' = intact
    OBVIOUS
  <2>1. CASE Crash
    BY <2>1 DEF Crash, Bulk, Types, FlagTypes
  <2>2. CASE Start \/ Refuse \/ Cancelled \/ Throw \/ PassCheck \/ MoveOn \/ Stage \/ Register
    BY <2>2 DEF Start, Refuse, Cancelled, Throw, PassCheck, MoveOn, Stage, Register, Caught, End, db
  <2>3. CASE ReadImage \/ DiscoverStores \/ SkipPreservation \/ Preserve \/ NothingPreserved
    BY <2>3 DEF ReadImage, DiscoverStores, SkipPreservation, Preserve, NothingPreserved, End, db
  <2>4. CASE StartParse \/ CannotStartParse \/ EndParse \/ CannotEndParse
             \/ \E s \in Store : ParseStore(s)
    BY <2>4 DEF StartParse, CannotStartParse, EndParse, CannotEndParse, ParseStore, Caught, End, db
  <2>5. CASE Enrich \/ WriteSummary \/ CloseDb \/ CopyDb \/ MakeBundle \/ Finish
             \/ RequestCancel \/ View \/ CloseView
    BY <2>5
    DEF Enrich, WriteSummary, CloseDb, CopyDb, MakeBundle, Finish, RequestCancel, View, CloseView,
        End, db
  <2> QED BY <2>1, <2>2, <2>3, <2>4, <2>5 DEF Next, Step
<1> QED BY <1>1, <1>2, TypesInit, TypesStep, BulkStep, PTL DEF Spec, OnlyParsingRisksDb

\* Until a run makes its bundle the Upload folder is an earlier run's; when it
\* does, the summary on disk is its own.
BundleInv == /\ bundle.run <= run
             /\ pc \in Steps \ {"finish"} => bundle.run # run
             /\ pc \in {"close", "copy", "bundle", "finish"} => summary = run
             /\ pc = "finish" => bundle.run = run /\ bundle.summary = run
             /\ BundleTellsRun

\* No action but the making of the bundle, or an exception, touches Upload.
LEMMA BundleStep == Types /\ BundleInv /\ [Next]_vars => BundleInv'
<1> SUFFICES ASSUME Types, BundleInv, [Next]_vars PROVE BundleInv'
  OBVIOUS
<1>1. CASE Start
  BY <1>1 DEF Start, BundleInv, BundleTellsRun, place, files, Types, PlaceTypes, FileTypes, Running
<1>2. CASE Refuse
  BY <1>2
  DEF Refuse, BundleInv, BundleTellsRun, Ended, place, files, Types, PlaceTypes, FileTypes,
      Running
<1>3. CASE Cancelled
  BY <1>3, StepsAre DEF Cancelled, End, BundleInv, BundleTellsRun, Checks, Moves
<1>4. CASE Throw
  BY <1>4, StepsAre
  DEF Throw, Caught, End, BundleAs, BundleInv, BundleTellsRun, Types, PlaceTypes, Checks, Moves
<1>5. CASE Crash
  BY <1>5, StepsAre DEF Crash, BundleInv, BundleTellsRun, Ended, files, Running
<1>6. CASE PassCheck
  BY <1>6, StepsAre DEF PassCheck, BundleInv, BundleTellsRun, Ended, files, Checks, Moves
<1>7. CASE MoveOn
  BY <1>7, StepsAre DEF MoveOn, BundleInv, BundleTellsRun, Ended, files, Checks, Moves
<1>8. CASE Stage
  BY <1>8, StepsAre DEF Stage, BundleInv, BundleTellsRun, Ended, files, Running
<1>9. CASE Register
  BY <1>9, StepsAre DEF Register, BundleInv, BundleTellsRun, Ended, files, Running
<1>10. CASE ReadImage
  BY <1>10, StepsAre DEF ReadImage, BundleInv, BundleTellsRun, Ended, files, Running
<1>11. CASE DiscoverStores
  BY <1>11, StepsAre DEF DiscoverStores, BundleInv, BundleTellsRun, Ended, files, Running
<1>12. CASE SkipPreservation
  BY <1>12, StepsAre DEF SkipPreservation, BundleInv, BundleTellsRun, Ended, files, Running
<1>13. CASE Preserve
  BY <1>13, StepsAre DEF Preserve, BundleInv, BundleTellsRun, Ended, files, Running
<1>14. CASE NothingPreserved
  BY <1>14, StepsAre DEF NothingPreserved, End, BundleInv, BundleTellsRun, Checks, Moves
<1>15. CASE StartParse
  BY <1>15, StepsAre DEF StartParse, BundleInv, BundleTellsRun, Ended, files, Checks, Moves
<1>16. CASE CannotStartParse
  BY <1>16, StepsAre
  DEF CannotStartParse, Caught, End, BundleAs, BundleInv, BundleTellsRun, Types, PlaceTypes,
      Checks, Moves
<1>17. CASE EndParse
  BY <1>17, StepsAre DEF EndParse, BundleInv, BundleTellsRun, Ended, files, Running
<1>18. CASE CannotEndParse
  BY <1>18, StepsAre
  DEF CannotEndParse, Caught, End, BundleAs, BundleInv, BundleTellsRun, Types, PlaceTypes, Running
<1>19. CASE Enrich
  BY <1>19, StepsAre DEF Enrich, BundleInv, BundleTellsRun, Ended, files, Running
<1>20. CASE WriteSummary
  BY <1>20, StepsAre DEF WriteSummary, BundleInv, BundleTellsRun, Ended, Running
<1>21. CASE CloseDb
  BY <1>21, StepsAre DEF CloseDb, BundleInv, BundleTellsRun, Ended, files, Running
<1>22. CASE CopyDb
  BY <1>22, StepsAre DEF CopyDb, BundleInv, BundleTellsRun, Ended, Running
<1>23. CASE MakeBundle
  BY <1>23 DEF MakeBundle, BundleAs, BundleInv, BundleTellsRun, Ended, Types, PlaceTypes, Running
<1>24. CASE Finish
  BY <1>24, StepsAre DEF Finish, End, BundleInv, BundleTellsRun, Running
<1>25. CASE RequestCancel
  BY <1>25 DEF RequestCancel, BundleInv, BundleTellsRun, Ended, place, files, Running
<1>26. CASE View
  BY <1>26 DEF View, BundleInv, BundleTellsRun, Ended, place, files, Running
<1>27. CASE CloseView
  BY <1>27 DEF CloseView, BundleInv, BundleTellsRun, Ended, place, files, Running
<1>28. CASE \E s \in Store : ParseStore(s)
  BY <1>28 DEF ParseStore, BundleInv, BundleTellsRun, Ended, place, files, Running
<1>29. CASE UNCHANGED vars
  BY <1>29 DEF vars, BundleInv, BundleTellsRun, Ended, place, files, Checks, Moves
<1> QED BY <1>1, <1>2, <1>3, <1>4, <1>5, <1>6, <1>7, <1>8, <1>9, <1>10, <1>11, <1>12, <1>13,
         <1>14, <1>15, <1>16, <1>17, <1>18, <1>19, <1>20, <1>21, <1>22, <1>23, <1>24, <1>25,
         <1>26, <1>27, <1>28, <1>29 DEF Next, Step

\* The Upload folder tells which run made it and how that run ended.
THEOREM BundleTells == Spec => []BundleTellsRun
<1>1. Init => BundleInv
  BY StepsAre DEF Init, BundleInv, BundleTellsRun, Ended, None
<1>2. BundleInv => BundleTellsRun
  BY DEF BundleInv
<1> QED BY <1>1, <1>2, TypesInit, TypesStep, BundleStep, PTL DEF Spec

\* A request made while a check was ahead still has one ahead of it, for as long
\* as the run goes on: the check is not passed, and every way around it ends.
CancelInv == /\ pc = "image" => Image
             /\ cancel = "early" /\ pc \in Steps => CheckAhead
             /\ CancelHeeded

\* No action takes a run past its last check with an early request.
LEMMA HeededStep == Types /\ CancelInv /\ [Next]_vars => CancelInv'
<1> SUFFICES ASSUME Types, CancelInv, [Next]_vars PROVE CancelInv'
  OBVIOUS
<1>1. CASE Start
  BY <1>1 DEF Start, CancelInv, CancelHeeded, place
<1>2. CASE Refuse
  BY <1>2 DEF Refuse, CancelInv, CancelHeeded, place
<1>3. CASE Cancelled
  BY <1>3, StepsAre DEF Cancelled, End, CancelInv, CancelHeeded, Moves
<1>4. CASE Throw
  BY <1>4, StepsAre DEF Throw, Caught, End, CancelInv, CancelHeeded, place, Checks, Moves
<1>5. CASE Crash
  BY <1>5, StepsAre DEF Crash, CancelInv, CancelHeeded, Ended, place
<1>6. CASE PassCheck
  BY <1>6 DEF PassCheck, CancelInv, CancelHeeded, place, Checks, Moves
<1>7. CASE MoveOn
  BY <1>7, StepsAre
  DEF MoveOn, CancelInv, CancelHeeded, CheckAhead, Full, Image, DiscoverOnly, Ended, place,
      Checks, Moves
<1>8. CASE Stage
  BY <1>8, StepsAre
  DEF Stage, CancelInv, CancelHeeded, CheckAhead, Full, Image, DiscoverOnly, Ended, place
<1>9. CASE Register
  BY <1>9, StepsAre
  DEF Register, CancelInv, CancelHeeded, CheckAhead, Full, Image, DiscoverOnly, Ended, place
<1>10. CASE ReadImage
  BY <1>10, StepsAre DEF ReadImage, CancelInv, CancelHeeded, CheckAhead, Full, place
<1>11. CASE DiscoverStores
  BY <1>11, StepsAre
  DEF DiscoverStores, CancelInv, CancelHeeded, CheckAhead, Full, Image, DiscoverOnly, Ended, place
<1>12. CASE SkipPreservation
  BY <1>12, StepsAre
  DEF SkipPreservation, CancelInv, CancelHeeded, CheckAhead, Full, Image, DiscoverOnly, Ended,
      place
<1>13. CASE Preserve
  BY <1>13, StepsAre
  DEF Preserve, CancelInv, CancelHeeded, CheckAhead, Full, Image, DiscoverOnly, Ended, place
<1>14. CASE NothingPreserved
  BY <1>14, StepsAre DEF NothingPreserved, End, CancelInv, CancelHeeded, place, Checks, Moves
<1>15. CASE StartParse
  BY <1>15, StepsAre
  DEF StartParse, CancelInv, CancelHeeded, CheckAhead, Full, Image, DiscoverOnly, Ended, place,
      Checks, Moves
<1>16. CASE CannotStartParse
  BY <1>16, StepsAre
  DEF CannotStartParse, Caught, End, CancelInv, CancelHeeded, place, Checks, Moves
<1>17. CASE EndParse
  BY <1>17, StepsAre
  DEF EndParse, CancelInv, CancelHeeded, CheckAhead, Full, Image, DiscoverOnly, Ended, place
<1>18. CASE CannotEndParse
  BY <1>18, StepsAre DEF CannotEndParse, Caught, End, CancelInv, CancelHeeded, place
<1>19. CASE Enrich
  BY <1>19, StepsAre
  DEF Enrich, CancelInv, CancelHeeded, CheckAhead, Full, Image, DiscoverOnly, Ended, place
<1>20. CASE WriteSummary
  BY <1>20, StepsAre DEF WriteSummary, CancelInv, CancelHeeded, CheckAhead, place
<1>21. CASE CloseDb
  BY <1>21, StepsAre DEF CloseDb, CancelInv, CancelHeeded, CheckAhead, place
<1>22. CASE CopyDb
  BY <1>22, StepsAre DEF CopyDb, CancelInv, CancelHeeded, CheckAhead, place
<1>23. CASE MakeBundle
  BY <1>23, StepsAre DEF MakeBundle, CancelInv, CancelHeeded, CheckAhead, place
<1>24. CASE Finish
  BY <1>24, StepsAre DEF Finish, End, CancelInv, CancelHeeded, CheckAhead, place
<1>25. CASE RequestCancel
  BY <1>25, StepsAre
  DEF RequestCancel, CancelInv, CancelHeeded, CheckAhead, Full, Image, DiscoverOnly, Ended, place
<1>26. CASE View
  BY <1>26 DEF View, CancelInv, CancelHeeded, CheckAhead, Full, Image, DiscoverOnly, Ended, place
<1>27. CASE CloseView
  BY <1>27
  DEF CloseView, CancelInv, CancelHeeded, CheckAhead, Full, Image, DiscoverOnly, Ended, place
<1>28. CASE \E s \in Store : ParseStore(s)
  BY <1>28
  DEF ParseStore, CancelInv, CancelHeeded, CheckAhead, Full, Image, DiscoverOnly, Ended, place
<1>29. CASE UNCHANGED vars
  BY <1>29
  DEF vars, CancelInv, CancelHeeded, CheckAhead, Full, Image, DiscoverOnly, Ended, place, Checks,
      Moves
<1> QED BY <1>1, <1>2, <1>3, <1>4, <1>5, <1>6, <1>7, <1>8, <1>9, <1>10, <1>11, <1>12, <1>13,
         <1>14, <1>15, <1>16, <1>17, <1>18, <1>19, <1>20, <1>21, <1>22, <1>23, <1>24, <1>25,
         <1>26, <1>27, <1>28, <1>29 DEF Next, Step

\* A run asked to stop in time never completes.
THEOREM CancelIsHeeded == Spec => []CancelHeeded
<1>1. Init => CancelInv
  BY DEF Init, CancelInv, CancelHeeded, Ended
<1>2. CancelInv => CancelHeeded
  BY DEF CancelInv
<1> QED BY <1>1, <1>2, TypesInit, TypesStep, HeededStep, PTL DEF Spec

\* From preservation to the parse, what is left to parse was preserved by this
\* run; rows of other runs are of earlier ones.
KeptInv == /\ pc = "image" => Image
           /\ \A r \in raw : r[1] <= run
           /\ ShouldPreserve /\ pc \in {"beforeSelection", "selection", "beforeCall", "call", "parse"}
                => \A s \in todo : <<run, s>> \in kept
           /\ ParsesPreserved

\* No action adds to the stores left to parse after preservation.
LEMMA KeptStep == Types /\ KeptInv /\ [Next]_vars => KeptInv'
<1> SUFFICES ASSUME Types, KeptInv, [Next]_vars PROVE KeptInv'
  OBVIOUS
<1>1. CASE Start
  BY <1>1 DEF Start, KeptInv, ParsesPreserved, place, work, db, Types, PlaceTypes, DataTypes
<1>2. CASE Refuse
  BY <1>2 DEF Refuse, KeptInv, ParsesPreserved, db, Types, PlaceTypes, DataTypes
<1>3. CASE Cancelled
  BY <1>3 DEF Cancelled, End, KeptInv, ParsesPreserved, ShouldPreserve, work, DataTypes
<1>4. CASE Throw
  BY <1>4 DEF Throw, Caught, End, KeptInv, ParsesPreserved, ShouldPreserve, work, DataTypes
<1>5. CASE Crash
  BY <1>5 DEF Crash, KeptInv, ParsesPreserved, ShouldPreserve, work, DataTypes
<1>6. CASE PassCheck
  BY <1>6 DEF PassCheck, KeptInv, ParsesPreserved, ShouldPreserve, work, db, Checks, DataTypes
<1>7. CASE MoveOn
  BY <1>7 DEF MoveOn, KeptInv, ParsesPreserved, ShouldPreserve, work, db, Moves, DataTypes
<1>8. CASE Stage
  BY <1>8 DEF Stage, KeptInv, ParsesPreserved, ShouldPreserve, work, db, DataTypes
<1>9. CASE Register
  BY <1>9 DEF Register, KeptInv, ParsesPreserved, ShouldPreserve, Image, work, DataTypes
<1>10. CASE ReadImage
  BY <1>10
  DEF ReadImage, KeptInv, ParsesPreserved, ShouldPreserve, Image, db, Types, PlaceTypes, DataTypes
<1>11. CASE DiscoverStores
  BY <1>11 DEF DiscoverStores, KeptInv, ParsesPreserved, ShouldPreserve, db, DataTypes
<1>12. CASE SkipPreservation
  BY <1>12 DEF SkipPreservation, KeptInv, ParsesPreserved, ShouldPreserve, db, DataTypes
<1>13. CASE Preserve
  BY <1>13 DEF Preserve, KeptInv, ParsesPreserved, DataTypes
<1>14. CASE NothingPreserved
  BY <1>14 DEF NothingPreserved, End, KeptInv, ParsesPreserved, work, DataTypes
<1>15. CASE StartParse
  BY <1>15 DEF StartParse, KeptInv, ParsesPreserved, ShouldPreserve, work, db, DataTypes
<1>16. CASE CannotStartParse
  BY <1>16
  DEF CannotStartParse, Caught, End, KeptInv, ParsesPreserved, ShouldPreserve, work, DataTypes
<1>17. CASE EndParse
  BY <1>17 DEF EndParse, KeptInv, ParsesPreserved, ShouldPreserve, work, db, DataTypes
<1>18. CASE CannotEndParse
  BY <1>18
  DEF CannotEndParse, Caught, End, KeptInv, ParsesPreserved, ShouldPreserve, work, DataTypes
<1>19. CASE Enrich
  BY <1>19 DEF Enrich, KeptInv, ParsesPreserved, ShouldPreserve, work, DataTypes
<1>20. CASE WriteSummary
  BY <1>20 DEF WriteSummary, KeptInv, ParsesPreserved, ShouldPreserve, work, db, DataTypes
<1>21. CASE CloseDb
  BY <1>21 DEF CloseDb, KeptInv, ParsesPreserved, ShouldPreserve, work, DataTypes
<1>22. CASE CopyDb
  BY <1>22 DEF CopyDb, KeptInv, ParsesPreserved, ShouldPreserve, work, db, DataTypes
<1>23. CASE MakeBundle
  BY <1>23 DEF MakeBundle, KeptInv, ParsesPreserved, ShouldPreserve, work, db, DataTypes
<1>24. CASE Finish
  BY <1>24 DEF Finish, End, KeptInv, ParsesPreserved, ShouldPreserve, work, DataTypes
<1>25. CASE RequestCancel
  BY <1>25
  DEF RequestCancel, KeptInv, ParsesPreserved, ShouldPreserve, Image, place, work, db, DataTypes
<1>26. CASE View
  BY <1>26 DEF View, KeptInv, ParsesPreserved, ShouldPreserve, Image, place, work, db, DataTypes
<1>27. CASE CloseView
  BY <1>27
  DEF CloseView, KeptInv, ParsesPreserved, ShouldPreserve, Image, place, work, db, DataTypes
<1>28. CASE \E s \in Store : ParseStore(s)
  BY <1>28
  DEF ParseStore, KeptInv, ParsesPreserved, ShouldPreserve, place, work, db, Types, PlaceTypes,
      DataTypes
<1>29. CASE UNCHANGED vars
  BY <1>29 DEF vars, KeptInv, ParsesPreserved, ShouldPreserve, Image, place, work, db, DataTypes
<1> QED BY <1>1, <1>2, <1>3, <1>4, <1>5, <1>6, <1>7, <1>8, <1>9, <1>10, <1>11, <1>12, <1>13,
         <1>14, <1>15, <1>16, <1>17, <1>18, <1>19, <1>20, <1>21, <1>22, <1>23, <1>24, <1>25,
         <1>26, <1>27, <1>28, <1>29 DEF Next, Step

\* No record of the original evidence gets into a database whose evidence was to
\* be preserved first.
THEOREM PreservedIsParsed == Spec => []ParsesPreserved
<1>1. Init => KeptInv
  BY DEF Init, KeptInv, ParsesPreserved
<1>2. KeptInv => ParsesPreserved
  BY DEF KeptInv
<1> QED BY <1>1, <1>2, TypesInit, TypesStep, KeptStep, PTL DEF Spec

\* With nobody looking at the case there is no reader, so closing the database
\* writes all of it back before it is copied.
WholeInv == /\ "viewer" \notin faults => viewer = "none" /\ (pc = "copy" => whole)
            /\ CopyIsWhole

\* Between the closing and the copying, no action changes the database.
LEMMA WholeStep == Types /\ WholeInv /\ [Next]_vars => WholeInv'
<1> SUFFICES ASSUME Types, WholeInv, [Next]_vars PROVE WholeInv'
  OBVIOUS
<1>0. UNCHANGED faults
  BY DEF Next, vars
<1>1. CASE Start
  BY <1>0, <1>1 DEF Start, WholeInv, CopyIsWhole, files, Checks, Moves
<1>2. CASE Refuse
  BY <1>0, <1>2 DEF Refuse, WholeInv, CopyIsWhole, files, Checks, Moves
<1>3. CASE Cancelled
  BY <1>0, <1>3 DEF Cancelled, End, WholeInv, CopyIsWhole, Moves
<1>4. CASE Throw
  BY <1>0, <1>4 DEF Throw, Caught, End, WholeInv, CopyIsWhole, place, db, files, Checks, Moves
<1>5. CASE Crash
  BY <1>0, <1>5 DEF Crash, WholeInv, CopyIsWhole, Checkpoint, place, db, files, Checks, Moves
<1>6. CASE PassCheck
  BY <1>0, <1>6 DEF PassCheck, WholeInv, CopyIsWhole, files, Checks, Moves
<1>7. CASE MoveOn
  BY <1>0, <1>7 DEF MoveOn, WholeInv, CopyIsWhole, files, Checks, Moves
<1>8. CASE Stage
  BY <1>0, <1>8 DEF Stage, WholeInv, CopyIsWhole, files, Checks, Moves
<1>9. CASE Register
  BY <1>0, <1>9 DEF Register, WholeInv, CopyIsWhole, Checkpoint, place, db, files, Checks, Moves
<1>10. CASE ReadImage
  BY <1>0, <1>10 DEF ReadImage, WholeInv, CopyIsWhole, Checkpoint, place, db, files, Checks, Moves
<1>11. CASE DiscoverStores
  BY <1>0, <1>11 DEF DiscoverStores, WholeInv, CopyIsWhole, files, Checks, Moves
<1>12. CASE SkipPreservation
  BY <1>0, <1>12 DEF SkipPreservation, WholeInv, CopyIsWhole, files, Checks, Moves
<1>13. CASE Preserve
  BY <1>0, <1>13 DEF Preserve, WholeInv, CopyIsWhole, Checkpoint, place, db, files, Checks, Moves
<1>14. CASE NothingPreserved
  BY <1>0, <1>14 DEF NothingPreserved, End, WholeInv, CopyIsWhole, place, db, files, Checks, Moves
<1>15. CASE StartParse
  BY <1>0, <1>15 DEF StartParse, WholeInv, CopyIsWhole, files, Checks, Moves
<1>16. CASE CannotStartParse
  BY <1>0, <1>16 DEF CannotStartParse, WholeInv, CopyIsWhole, place, db, files, Checks, Moves
<1>17. CASE EndParse
  BY <1>0, <1>17 DEF EndParse, WholeInv, CopyIsWhole, files, Checks, Moves
<1>18. CASE CannotEndParse
  BY <1>0, <1>18 DEF CannotEndParse, WholeInv, CopyIsWhole, place, db, files, Checks, Moves
<1>19. CASE Enrich
  BY <1>0, <1>19 DEF Enrich, WholeInv, CopyIsWhole, Checkpoint, place, db, files, Checks, Moves
<1>20. CASE WriteSummary
  BY <1>0, <1>20 DEF WriteSummary, WholeInv, CopyIsWhole, files, Checks, Moves
<1>21. CASE CloseDb
  BY <1>0, <1>21 DEF CloseDb, WholeInv, CopyIsWhole, Checkpoint, place, db, files, Checks, Moves
<1>22. CASE CopyDb
  BY <1>0, <1>22 DEF CopyDb, WholeInv, CopyIsWhole, files, Checks, Moves
<1>23. CASE MakeBundle
  BY <1>0, <1>23 DEF MakeBundle, WholeInv, CopyIsWhole, files, Checks, Moves
<1>24. CASE Finish
  BY <1>0, <1>24 DEF Finish, End, WholeInv, CopyIsWhole, place, db, files, Checks, Moves
<1>25. CASE RequestCancel
  BY <1>0, <1>25
  DEF RequestCancel, WholeInv, CopyIsWhole, Checkpoint, place, db, files, Checks, Moves
<1>26. CASE View
  BY <1>0, <1>26 DEF View, WholeInv, CopyIsWhole, Checks, Moves
<1>27. CASE CloseView
  BY <1>0, <1>27 DEF CloseView, WholeInv, CopyIsWhole, Checks, Moves
<1>28. CASE \E s \in Store : ParseStore(s)
  BY <1>0, <1>28 DEF ParseStore, WholeInv, CopyIsWhole, Checkpoint, place, db, files, Checks, Moves
<1>29. CASE UNCHANGED vars
  BY <1>0, <1>29 DEF vars, WholeInv, CopyIsWhole, Checkpoint, place, db, files, Checks, Moves
<1> QED BY <1>1, <1>2, <1>3, <1>4, <1>5, <1>6, <1>7, <1>8, <1>9, <1>10, <1>11, <1>12, <1>13,
         <1>14, <1>15, <1>16, <1>17, <1>18, <1>19, <1>20, <1>21, <1>22, <1>23, <1>24, <1>25,
         <1>26, <1>27, <1>28, <1>29 DEF Next, Step

\* The convenience copy of a case nobody is looking at is whole.
THEOREM CopyWhole == Spec => []CopyIsWhole
<1>1. Init => WholeInv
  BY DEF Init, WholeInv, CopyIsWhole
<1>2. WholeInv => CopyIsWhole
  BY DEF WholeInv
<1> QED BY <1>1, <1>2, TypesInit, TypesStep, WholeStep, PTL DEF Spec

\* The places of a full run from its registration to the purge, and those after
\* the parse.
Registered == {"discover", "preserve", "beforeSelection", "selection", "beforeCall", "call", "parse",
               "afterCall", "referenced", "beforeEnrichment", "enrich"}
Parsed == {"afterCall", "referenced", "beforeEnrichment", "enrich", "export", "duringExport",
           "summary", "close", "copy", "bundle", "finish"}
Accounted == \A s \in found : s \in todo \/ s \in failed \/ <<run, s>> \in raw

\* A store that was found is to be parsed, or has been, or failed, as long as the
\* run is on its way; the purge spares its rows, because the run is registered.
DropInv == /\ pc = "image" => Image
           /\ Full /\ "copy" \notin faults =>
                /\ pc \in Registered => run \in source
                /\ pc \in Steps => Accounted
                /\ pc \in Parsed => todo = {}
           /\ NoStoreDropped

\* No action loses a store.
LEMMA DropStep == Types /\ DropInv /\ [Next]_vars => DropInv'
<1> SUFFICES ASSUME Types, DropInv, [Next]_vars PROVE DropInv'
  OBVIOUS
<1>0. UNCHANGED faults
  BY DEF Next, vars
<1>1. CASE Start
  BY <1>0, <1>1 DEF Start, DropInv, NoStoreDropped, Accounted, Registered, Checks, Moves
<1>2. CASE Refuse
  BY <1>0, <1>2, StepsAre DEF Refuse, DropInv, NoStoreDropped, Registered, Parsed, Checks, Moves
<1>3. CASE Cancelled
  BY <1>0, <1>3, StepsAre DEF Cancelled, End, DropInv, NoStoreDropped, Registered, Parsed, Moves
<1>4. CASE Throw
  BY <1>0, <1>4, StepsAre
  DEF Throw, Caught, End, DropInv, NoStoreDropped, Registered, Parsed, db, Checks, Moves
<1>5. CASE Crash
  BY <1>0, <1>5, StepsAre
  DEF Crash, DropInv, NoStoreDropped, Registered, Parsed, Ended, db, Checks, Moves
<1>6. CASE PassCheck
  BY <1>0, <1>6, StepsAre
  DEF PassCheck, DropInv, NoStoreDropped, Accounted, Registered, Parsed, Full, Image,
      DiscoverOnly, Ended, place, work, db, Checks, Moves
<1>7. CASE MoveOn
  BY <1>0, <1>7, StepsAre
  DEF MoveOn, DropInv, NoStoreDropped, Accounted, Registered, Parsed, Full, Image, DiscoverOnly,
      Ended, place, work, db, Checks, Moves
<1>8. CASE Stage
  BY <1>0, <1>8, StepsAre
  DEF Stage, DropInv, NoStoreDropped, Accounted, Registered, Parsed, Full, Image, DiscoverOnly,
      Ended, place, work, db, Checks, Moves
<1>9. CASE Register
  BY <1>0, <1>9, StepsAre
  DEF Register, DropInv, NoStoreDropped, Accounted, Parsed, Full, Image, DiscoverOnly, Ended,
      place, work, db, Checks, Moves
<1>10. CASE ReadImage
  BY <1>0, <1>10 DEF ReadImage, DropInv, NoStoreDropped, Full, Image, db, Checks, Moves
<1>11. CASE DiscoverStores
  BY <1>0, <1>11
  DEF DiscoverStores, DropInv, NoStoreDropped, Accounted, Registered, Parsed, Full, Image,
      DiscoverOnly, Ended, place, work, db, Checks, Moves
<1>12. CASE SkipPreservation
  BY <1>0, <1>12, StepsAre
  DEF SkipPreservation, DropInv, NoStoreDropped, Accounted, Registered, Parsed, Full, Image,
      DiscoverOnly, Ended, place, work, db, Checks, Moves
<1>13. CASE Preserve
  <2> USE DEF Preserve
  <2>1. PICK copies \in Copies : todo' = copies
    BY <1>13
  <2>2. "copy" \notin faults => found \subseteq todo'
    BY <2>1 DEF Copies
  <2>3. /\ found' = found /\ pc' = "beforeSelection" /\ pc = "preserve"
        /\ UNCHANGED <<run, opt, source>>
    BY <1>13
  <2>4. (Full /\ "copy" \notin faults => Accounted)'
    BY <1>0, <2>2, <2>3 DEF Accounted
  <2>5. (Full /\ "copy" \notin faults => run \in source)'
    BY <1>0, <2>3 DEF DropInv, Registered, Full, Image, DiscoverOnly
  <2> QED BY <2>3, <2>4, <2>5 DEF DropInv, NoStoreDropped, Parsed, Ended
<1>14. CASE NothingPreserved
  BY <1>0, <1>14, StepsAre
  DEF NothingPreserved, End, DropInv, NoStoreDropped, Registered, Parsed, db, Checks, Moves
<1>15. CASE StartParse
  BY <1>0, <1>15, StepsAre
  DEF StartParse, DropInv, NoStoreDropped, Accounted, Registered, Parsed, Full, Image,
      DiscoverOnly, Ended, place, work, db, Checks, Moves
<1>16. CASE CannotStartParse
  BY <1>0, <1>16, StepsAre
  DEF CannotStartParse, Caught, End, DropInv, NoStoreDropped, Registered, Parsed, db, Checks,
      Moves
<1>17. CASE EndParse
  BY <1>0, <1>17, StepsAre
  DEF EndParse, DropInv, NoStoreDropped, Accounted, Registered, Full, Image, DiscoverOnly, place,
      work, db, Checks, Moves
<1>18. CASE CannotEndParse
  BY <1>0, <1>18, StepsAre
  DEF CannotEndParse, Caught, End, DropInv, NoStoreDropped, Registered, Parsed, db, Checks, Moves
<1>19. CASE Enrich
  BY <1>0, <1>19, StepsAre
  DEF Enrich, DropInv, NoStoreDropped, Accounted, Registered, Parsed, Full, Image, DiscoverOnly,
      place, work, db, Checks, Moves
<1>20. CASE WriteSummary
  BY <1>0, <1>20, StepsAre
  DEF WriteSummary, DropInv, NoStoreDropped, Accounted, Registered, Parsed, Full, Image,
      DiscoverOnly, place, work, db, Checks, Moves
<1>21. CASE CloseDb
  BY <1>0, <1>21, StepsAre
  DEF CloseDb, DropInv, NoStoreDropped, Accounted, Registered, Parsed, Full, Image, DiscoverOnly,
      place, work, db, Checks, Moves
<1>22. CASE CopyDb
  BY <1>0, <1>22, StepsAre
  DEF CopyDb, DropInv, NoStoreDropped, Accounted, Registered, Parsed, Full, Image, DiscoverOnly,
      place, work, db, Checks, Moves
<1>23. CASE MakeBundle
  BY <1>0, <1>23, StepsAre
  DEF MakeBundle, DropInv, NoStoreDropped, Accounted, Registered, Parsed, Full, Image,
      DiscoverOnly, place, work, db, Checks, Moves
<1>24. CASE Finish
  BY <1>0, <1>24, StepsAre
  DEF Finish, End, DropInv, NoStoreDropped, Accounted, Registered, Parsed, Full, DiscoverOnly,
      place, work, db, Checks, Moves
<1>25. CASE RequestCancel
  BY <1>0, <1>25
  DEF RequestCancel, DropInv, NoStoreDropped, Accounted, Full, Image, DiscoverOnly, Ended, place,
      work, db, Checks, Moves
<1>26. CASE View
  BY <1>0, <1>26
  DEF View, DropInv, NoStoreDropped, Accounted, Full, Image, DiscoverOnly, Ended, place, work, db,
      Checks, Moves
<1>27. CASE CloseView
  BY <1>0, <1>27
  DEF CloseView, DropInv, NoStoreDropped, Accounted, Full, Image, DiscoverOnly, Ended, place,
      work, db, Checks, Moves
<1>28. CASE \E s \in Store : ParseStore(s)
  BY <1>0, <1>28
  DEF ParseStore, DropInv, NoStoreDropped, Accounted, Full, Image, DiscoverOnly, Ended, place,
      work, db, Checks, Moves
<1>29. CASE UNCHANGED vars
  BY <1>0, <1>29
  DEF vars, DropInv, NoStoreDropped, Accounted, Full, Image, DiscoverOnly, Ended, place, work, db,
      Checks, Moves
<1> QED BY <1>1, <1>2, <1>3, <1>4, <1>5, <1>6, <1>7, <1>8, <1>9, <1>10, <1>11, <1>12, <1>13,
         <1>14, <1>15, <1>16, <1>17, <1>18, <1>19, <1>20, <1>21, <1>22, <1>23, <1>24, <1>25,
         <1>26, <1>27, <1>28, <1>29 DEF Next, Step

\* A completed run parsed every store it found, or says that it could not.
THEOREM NothingDropped == Spec => []NoStoreDropped
<1>1. Init => DropInv
  BY StepsAre DEF Init, DropInv, NoStoreDropped, Registered
<1>2. DropInv => NoStoreDropped
  BY DEF DropInv
<1> QED BY <1>1, <1>2, TypesInit, TypesStep, DropStep, PTL DEF Spec

-----------------------------------------------------------------------------
\* The scripts of tables and views.  Where each installer is, and what an installer knows that
\* nothing else disturbs: the object of the statement it is half through is not there.
Current(i) == Statements(i)[at[i]]

PlacesInv ==
  /\ scope \in {Everything, Slice}
  /\ at \in [Installer -> Nat] /\ \A i \in Installer : at[i] <= Len(Statements(i))
  /\ half \in [Installer -> BOOLEAN] /\ alone \in [Installer -> BOOLEAN]
  /\ ended \in [Installer -> {"none", "done", "failed", "stopped"}]
  /\ settled \in BOOLEAN
  /\ \A i \in Installer : Idle(i) => ~half[i]

AloneInv ==
  \A i \in Installer : alone[i] /\ ~Idle(i) =>
    /\ \A j \in Installer : j # i => Idle(j)
    /\ half[i] => Current(i).name \notin DOMAIN objects

\* Every text that is to be replaced has its replacement ahead, in a script that nothing
\* disturbs, and there is none when one has ended.
FormerInv ==
  /\ \A n \in DOMAIN objects : objects[n] = "former" => n \in Schema.formers \cap scope
  /\ settled => /\ \A i \in Installer \ {"touch"} : Idle(i)
                /\ \A n \in DOMAIN objects : objects[n] # "former"
  /\ \A i \in Installer \ {"touch"} : alone[i] /\ ~Idle(i) =>
       \A n \in DOMAIN objects : objects[n] = "former" =>
         \E k \in at[i]..Len(Statements(i)) : Replaces(Statements(i)[k], n)

ViewsInv == PlacesInv /\ AloneInv /\ FormerInv

\* What the scripts are like.
LEMMA ScriptIs ==
  ASSUME PlacesInv, NEW i \in Installer
  PROVE  /\ Len(Statements(i)) \in Nat \ {0} /\ DOMAIN Statements(i) = 1..Len(Statements(i))
         /\ \A k \in DOMAIN Statements(i) : Statements(i)[k].name \in scope
         /\ \A k \in DOMAIN Statements(i) : Statements(i)[k].op = "index" =>
              Statements(i)[k].reads \subseteq Schema.columns \cap scope
         /\ \A k \in DOMAIN Statements(i) : Statements(i)[k].text = "former" =>
              /\ i # "touch" /\ Statements(i)[k].name \in Schema.formers
              /\ \E m \in k + 1..Len(Statements(i)) : Replaces(Statements(i)[m], Statements(i)[k].name)
         /\ i # "touch" => \A n \in Schema.formers \cap scope :
              \E k \in DOMAIN Statements(i) : Replaces(Statements(i)[k], n)
<1>1. PICK script : script = Script(scope, i)
  OBVIOUS
<1>2. Statements(i) = script
  BY <1>1 DEF Statements
<1>3. /\ Ordered(script) /\ \A k \in DOMAIN script : script[k].name \in scope
      /\ \A k \in DOMAIN script : script[k].op = "index" => script[k].reads \subseteq Schema.columns \cap scope
      /\ IF i = "touch" THEN \A k \in DOMAIN script : script[k].text # "former"
         ELSE \A n \in Schema.formers \cap scope : \E k \in DOMAIN script : Replaces(script[k], n)
  BY <1>1, ScriptsAssumption DEF PlacesInv
<1> QED BY <1>2, <1>3 DEF Ordered

\* An installer that begins is alone if no other is at work, and has its script ahead.
LEMMA BeginStep == ASSUME ViewsInv, NEW i \in Installer, Begin(i) PROVE ViewsInv'
<1>1. /\ Idle(i) /\ at' = [at EXCEPT ![i] = 1] /\ ended' = [ended EXCEPT ![i] = "none"]
      /\ alone' = [j \in Installer |-> j = i /\ AllIdle /\ ~ingesting]
      /\ settled' = (settled /\ i = "touch")
      /\ UNCHANGED <<scope, objects, half>>
  BY DEF Begin
<1>2. PlacesInv /\ AloneInv /\ FormerInv
  BY DEF ViewsInv
<1>3. \A j \in Installer : Statements(j)' = Statements(j) /\ Len(Statements(j)) \in Nat \ {0}
  BY <1>1, <1>2, ScriptIs DEF Statements
<1>4. /\ at'[i] = 1 /\ ~half[i] /\ \A j \in Installer : j # i => at'[j] = at[j]
      /\ at' \in [Installer -> Nat]
  BY <1>1, <1>2 DEF PlacesInv
<1>5. PlacesInv'
  <2>1. ASSUME NEW j \in Installer PROVE at'[j] <= Len(Statements(j)')
    <3>1. PICK n \in Nat \ {0}, a \in Nat, b \in Nat :
            n = Len(Statements(j)) /\ a = at[j] /\ b = at'[j]
      BY <1>2, <1>3, <1>4 DEF PlacesInv
    <3>2. a <= n /\ (b = 1 \/ b = a)
      BY <1>2, <1>4, <3>1 DEF PlacesInv
    <3>3. b <= n
      BY <3>2
    <3> QED BY <1>3, <3>1, <3>3
  <2>2. alone' \in [Installer -> BOOLEAN] /\ settled' \in BOOLEAN
        /\ ended' \in [Installer -> {"none", "done", "failed", "stopped"}]
    BY <1>1, <1>2 DEF PlacesInv
  <2>3. \A j \in Installer : at'[j] = 0 => ~half[j]
    BY <1>2, <1>4 DEF PlacesInv, Idle
  <2> QED BY <1>1, <1>2, <1>4, <2>1, <2>2, <2>3 DEF PlacesInv, Idle
<1>6. AloneInv'
  <2> SUFFICES ASSUME NEW j \in Installer, alone'[j]
               PROVE  /\ \A m \in Installer : m # j => at'[m] = 0
                      /\ ~half'[j]
    BY DEF AloneInv, Idle
  <2>1. j = i /\ AllIdle
    BY <1>1
  <2> QED BY <1>1, <1>4, <2>1 DEF AllIdle, Idle
<1>7. FormerInv'
  <2>1. \A n \in DOMAIN objects' : objects'[n] = "former" => n \in Schema.formers \cap scope'
    BY <1>1, <1>2 DEF FormerInv
  <2>2. settled' => /\ \A j \in Installer \ {"touch"} : at'[j] = 0
                    /\ \A n \in DOMAIN objects' : objects'[n] # "former"
    BY <1>1, <1>2, <1>4 DEF FormerInv, Idle
  <2>3. ASSUME NEW j \in Installer \ {"touch"}, alone'[j], NEW n \in DOMAIN objects', objects'[n] = "former"
        PROVE  \E k \in at'[j]..Len(Statements(j)') : Replaces(Statements(j)'[k], n)
    <3>1. j = i
      BY <1>1, <2>3
    <3>2. n \in Schema.formers \cap scope
      BY <1>1, <1>2, <2>3 DEF FormerInv
    <3>3. PICK k \in DOMAIN Statements(j) : Replaces(Statements(j)[k], n)
      BY <1>2, <3>2, <2>3, ScriptIs
    <3>4. DOMAIN Statements(j) = 1..Len(Statements(j))
      BY <1>2, ScriptIs
    <3> QED BY <1>3, <1>4, <3>1, <3>3, <3>4
  <2> QED BY <2>1, <2>2, <2>3 DEF FormerInv, Idle
<1> QED BY <1>5, <1>6, <1>7 DEF ViewsInv

\* What installers leave when they stop, or nothing of the objects changes otherwise.
LEMMA StopStep ==
  ASSUME ViewsInv, UNCHANGED <<scope, objects, alone, settled>>,
         at' \in [Installer -> Nat], half' \in [Installer -> BOOLEAN],
         ended' \in [Installer -> {"none", "done", "failed", "stopped"}],
         \A i \in Installer : \/ at'[i] = at[i] /\ half'[i] = half[i]
                              \/ at'[i] = 0 /\ ~half'[i]
  PROVE  ViewsInv'
<1>1. PlacesInv /\ AloneInv /\ FormerInv
  BY DEF ViewsInv
<1>2. \A j \in Installer : Statements(j)' = Statements(j) /\ Len(Statements(j)) \in Nat \ {0}
  BY <1>1, ScriptIs DEF Statements
<1>3. PlacesInv'
  BY <1>1, <1>2 DEF PlacesInv, Idle
<1>4. AloneInv'
  <2> SUFFICES ASSUME NEW j \in Installer, alone[j], at'[j] # 0
               PROVE  /\ \A m \in Installer : m # j => at'[m] = 0
                      /\ half'[j] => Statements(j)'[at'[j]].name \notin DOMAIN objects'
    BY DEF AloneInv, Idle, Current
  <2>1. at'[j] = at[j] /\ half'[j] = half[j] /\ at[j] # 0
    OBVIOUS
  <2> QED BY <1>1, <1>2, <2>1 DEF AloneInv, Idle, Current
<1>5. FormerInv'
  <2>1. settled' => /\ \A j \in Installer \ {"touch"} : at'[j] = 0
                    /\ \A n \in DOMAIN objects' : objects'[n] # "former"
    BY <1>1 DEF FormerInv, Idle
  <2>2. ASSUME NEW j \in Installer \ {"touch"}, alone[j], at'[j] # 0,
               NEW n \in DOMAIN objects', objects'[n] = "former"
        PROVE  \E k \in at'[j]..Len(Statements(j)') : Replaces(Statements(j)'[k], n)
    <3>1. at'[j] = at[j] /\ at[j] # 0
      BY <2>2
    <3>2. \E k \in at[j]..Len(Statements(j)) : Replaces(Statements(j)[k], n)
      BY <1>1, <2>2, <3>1 DEF FormerInv, Idle
    <3> QED BY <1>2, <3>1, <3>2
  <2> QED BY <1>1, <2>1, <2>2 DEF FormerInv, Idle
<1> QED BY <1>3, <1>4, <1>5 DEF ViewsInv

\* What executing a statement does to the objects.
LEMMA ObjectsStep ==
  ASSUME NEW i \in Installer, NEW s,
         \/ CreateTable(i, s) \/ CreateIndex(i, s) \/ EnsureColumn(i, s)
         \/ DropView(i, s) \/ CreateView(i, s)
  PROVE  \A n \in DOMAIN objects' :
           \/ n \in DOMAIN objects /\ objects'[n] = objects[n]
           \/ objects'[n] # "former"
           \/ s.op \in {"view", "absent view"} /\ half[i] /\ n = s.name /\ s.text = "former" /\ Advance(i)
<1>1. CASE CreateTable(i, s)
  BY <1>1 DEF CreateTable
<1>2. CASE CreateIndex(i, s)
  BY <1>2 DEF CreateIndex, Refused, With
<1>3. CASE EnsureColumn(i, s)
  BY <1>3 DEF EnsureColumn, Refused, With
<1>4. CASE DropView(i, s)
  BY <1>4 DEF DropView, Without
<1>5. CASE CreateView(i, s)
  BY <1>5 DEF CreateView, Refused, With
<1> QED BY <1>1, <1>2, <1>3, <1>4, <1>5

\* A statement is refused, done, or half done: an alone installer that is half through
\* one has its object out of the way.
LEMMA WhereNext ==
  ASSUME NEW i \in Installer, NEW s, PlacesInv,
         \/ CreateTable(i, s) \/ CreateIndex(i, s) \/ EnsureColumn(i, s)
         \/ DropView(i, s) \/ CreateView(i, s)
  PROVE  \/ /\ Refused(i)
            /\ \/ s.op = "index" /\ ~(s.reads \subseteq DOMAIN objects)
               \/ half[i] /\ s.name \in DOMAIN objects
         \/ /\ Advance(i)
            /\ s.op = "view" => half[i]
         \/ /\ half' = [half EXCEPT ![i] = TRUE] /\ s.name \notin DOMAIN objects'
            /\ UNCHANGED <<at, ended, settled>>
            /\ \A n \in DOMAIN objects' : n \in DOMAIN objects /\ objects'[n] = objects[n]
<1>1. CASE CreateTable(i, s)
  BY <1>1 DEF CreateTable
<1>2. CASE CreateIndex(i, s)
  BY <1>2 DEF CreateIndex
<1>3. CASE EnsureColumn(i, s)
  BY <1>3 DEF EnsureColumn
<1>4. CASE DropView(i, s)
  BY <1>4 DEF DropView, Without
<1>5. CASE CreateView(i, s)
  BY <1>5 DEF CreateView
<1> QED BY <1>1, <1>2, <1>3, <1>4, <1>5

\* A text that is to be replaced is of a known name, and when a statement is done that no
\* other disturbs, its replacement is further ahead.
LEMMA FormersAhead ==
  ASSUME ViewsInv, NEW i \in Installer, ~Idle(i), NEW s, s = Current(i),
         \/ CreateTable(i, s) \/ CreateIndex(i, s) \/ EnsureColumn(i, s)
         \/ DropView(i, s) \/ CreateView(i, s),
         NEW n \in DOMAIN objects', objects'[n] = "former"
  PROVE  /\ n \in Schema.formers \cap scope
         /\ i = "touch" => n \in DOMAIN objects /\ objects[n] = "former"
         /\ alone[i] /\ i # "touch" /\ Advance(i) =>
              \E k \in at[i] + 1..Len(Statements(i)) : Replaces(Statements(i)[k], n)
<1>1. PlacesInv /\ AloneInv /\ FormerInv
  BY DEF ViewsInv
<1>2. PICK len \in Nat \ {0}, a \in Nat : len = Len(Statements(i)) /\ a = at[i]
  BY <1>1, ScriptIs DEF PlacesInv
<1>3. a \in 1..len /\ a \in DOMAIN Statements(i) /\ s = Statements(i)[a]
  BY <1>1, <1>2, ScriptIs DEF PlacesInv, Idle, Current
<1>4. CASE n \in DOMAIN objects /\ objects'[n] = objects[n]
  <2>1. n \in Schema.formers \cap scope /\ objects[n] = "former"
    BY <1>1, <1>4 DEF FormerInv
  <2>2. ASSUME alone[i], i # "touch", Advance(i)
        PROVE  \E k \in a + 1..len : Replaces(Statements(i)[k], n)
    <3>1. PICK k \in a..len : Replaces(Statements(i)[k], n)
      BY <1>1, <1>2, <1>4, <2>1, <2>2 DEF FormerInv
    <3>2. k # a
      <4>1. SUFFICES ASSUME k = a PROVE FALSE
        OBVIOUS
      <4>2. s.op = "view" /\ s.name = n
        BY <1>3, <3>1, <4>1 DEF Replaces
      <4>3. half[i] /\ ~Refused(i)
        <5>1. CASE Refused(i)
          <6>1. at' = [at EXCEPT ![i] = 0] /\ ended' = [ended EXCEPT ![i] = "failed"]
            BY <5>1 DEF Refused, Stop
          <6>2. CASE a < len
            <7>1. at' = [at EXCEPT ![i] = a + 1]
              BY <1>2, <2>2, <6>2 DEF Advance
            <7>2. at'[i] = a + 1 /\ at'[i] = 0
              BY <1>1, <6>1, <7>1 DEF PlacesInv
            <7> QED BY <7>2
          <6>3. CASE ~(a < len)
            <7>1. ended' = [ended EXCEPT ![i] = "done"]
              BY <1>2, <2>2, <6>3 DEF Advance, Stop
            <7> QED BY <1>1, <6>1, <7>1 DEF PlacesInv
          <6> QED BY <6>2, <6>3
        <5>2. CASE ~Refused(i)
          <6>1. half[i] \/ half' = [half EXCEPT ![i] = TRUE]
            BY <1>1, <4>2, <5>2, WhereNext
          <6>2. half' = [half EXCEPT ![i] = FALSE]
            BY <2>2 DEF Advance, Stop
          <6> QED BY <1>1, <5>2, <6>1, <6>2 DEF PlacesInv
        <5> QED BY <5>1, <5>2
      <4> QED BY <1>1, <1>4, <2>2, <4>2, <4>3 DEF AloneInv
    <3>3. k \in a + 1..len
      BY <3>2
    <3> QED BY <3>1, <3>3
  <2> QED BY <1>2, <1>4, <2>1, <2>2
<1>5. CASE n = s.name /\ s.text = "former"
  <2>1. /\ i # "touch" /\ s.name \in Schema.formers /\ s.name \in scope
        /\ \E m \in a + 1..len : Replaces(Statements(i)[m], s.name)
    BY <1>1, <1>2, <1>3, <1>5, ScriptIs
  <2> QED BY <1>2, <1>5, <2>1
<1> QED BY <1>4, <1>5, ObjectsStep

\* A statement executed.
LEMMA ExecuteStep ==
  ASSUME ViewsInv, NEW i \in Installer, Execute(i)
  PROVE  ViewsInv'
<1>1. PlacesInv /\ AloneInv /\ FormerInv
  BY DEF ViewsInv
<1>2. PICK s : s = Current(i)
  OBVIOUS
<1>3. /\ ~Idle(i) /\ UNCHANGED <<scope, alone>>
      /\ \/ CreateTable(i, s) \/ CreateIndex(i, s) \/ EnsureColumn(i, s)
         \/ DropView(i, s) \/ CreateView(i, s)
  BY <1>2 DEF Execute, Current
<1>4. PICK len \in Nat \ {0}, a \in Nat : len = Len(Statements(i)) /\ a = at[i]
  BY <1>1, ScriptIs DEF PlacesInv
<1>5. a \in 1..len /\ \A j \in Installer : Statements(j)' = Statements(j)
  BY <1>1, <1>3, <1>4 DEF PlacesInv, Idle, Statements
<1>6. \A j \in Installer : alone[j] /\ ~Idle(j) => j = i
  BY <1>1, <1>3 DEF AloneInv
<1>7. settled => i = "touch"
  BY <1>1, <1>3 DEF FormerInv
<1>8. \A n \in DOMAIN objects' : objects'[n] = "former" =>
         /\ n \in Schema.formers \cap scope
         /\ i = "touch" => n \in DOMAIN objects /\ objects[n] = "former"
         /\ alone[i] /\ i # "touch" /\ Advance(i) =>
              \E k \in at[i] + 1..Len(Statements(i)) : Replaces(Statements(i)[k], n)
  BY <1>2, <1>3, FormersAhead
<1>9. CASE Refused(i)
  <2>1. /\ at' = [at EXCEPT ![i] = 0] /\ half' = [half EXCEPT ![i] = FALSE]
        /\ ended' = [ended EXCEPT ![i] = "failed"] /\ UNCHANGED <<objects, settled>>
    BY <1>9 DEF Refused, Stop
  <2> QED BY <1>1, <1>3, <2>1, StopStep DEF PlacesInv
<1>10. CASE /\ half' = [half EXCEPT ![i] = TRUE] /\ s.name \notin DOMAIN objects'
            /\ UNCHANGED <<at, ended, settled>>
            /\ \A n \in DOMAIN objects' : n \in DOMAIN objects /\ objects'[n] = objects[n]
  <2>1. PlacesInv'
    BY <1>1, <1>3, <1>5, <1>10 DEF PlacesInv, Idle
  <2>2. AloneInv'
    BY <1>1, <1>2, <1>3, <1>5, <1>6, <1>10 DEF AloneInv, Idle, Current
  <2>3. FormerInv'
    BY <1>1, <1>3, <1>5, <1>10 DEF FormerInv, Idle
  <2> QED BY <2>1, <2>2, <2>3 DEF ViewsInv
<1>11. CASE Advance(i) /\ a < len
  <2>1. /\ at' = [at EXCEPT ![i] = a + 1] /\ half' = [half EXCEPT ![i] = FALSE]
        /\ UNCHANGED <<ended, settled>>
    BY <1>4, <1>11 DEF Advance
  <2>2. at'[i] = a + 1 /\ ~half'[i] /\ \A j \in Installer : j # i => at'[j] = at[j] /\ half'[j] = half[j]
    BY <1>1, <2>1 DEF PlacesInv
  <2>3. PlacesInv'
    <3>1. \A j \in Installer : at'[j] <= Len(Statements(j)')
      BY <1>1, <1>4, <1>5, <1>11, <2>2 DEF PlacesInv
    <3> QED BY <1>1, <1>3, <2>1, <2>2, <3>1 DEF PlacesInv, Idle
  <2>4. AloneInv'
    <3>1. \A j \in Installer : alone'[j] /\ at'[j] # 0 => j = i
      BY <1>3, <1>6, <2>2 DEF Idle
    <3>2. alone[i] => \A j \in Installer : j # i => at'[j] = 0
      BY <1>1, <1>3, <2>2 DEF AloneInv, Idle
    <3> QED BY <1>3, <2>2, <3>1, <3>2 DEF AloneInv, Idle
  <2>5. FormerInv'
    <3>1. ASSUME NEW j \in Installer \ {"touch"}, alone[j], at'[j] # 0,
                 NEW n \in DOMAIN objects', objects'[n] = "former"
          PROVE  \E k \in at'[j]..Len(Statements(j)') : Replaces(Statements(j)'[k], n)
      <4>1. j = i
        BY <1>6, <2>2, <3>1 DEF Idle
      <4>2. \E k \in a + 1..len : Replaces(Statements(i)[k], n)
        BY <1>4, <1>8, <1>11, <3>1, <4>1
      <4> QED BY <1>4, <1>5, <2>2, <4>1, <4>2
    <3>2. settled' => /\ \A j \in Installer \ {"touch"} : at'[j] = 0
                      /\ \A n \in DOMAIN objects' : objects'[n] # "former"
      BY <1>1, <1>7, <1>8, <2>1, <2>2 DEF FormerInv, Idle
    <3> QED BY <1>3, <1>8, <3>1, <3>2 DEF FormerInv, Idle
  <2> QED BY <2>3, <2>4, <2>5 DEF ViewsInv
<1>12. CASE Advance(i) /\ a = len
  <2>1. /\ at' = [at EXCEPT ![i] = 0] /\ half' = [half EXCEPT ![i] = FALSE]
        /\ ended' = [ended EXCEPT ![i] = "done"]
        /\ settled' = IF i = "touch" THEN settled ELSE alone[i]
    BY <1>4, <1>12 DEF Advance, Stop
  <2>2. at'[i] = 0 /\ ~half'[i] /\ \A j \in Installer : j # i => at'[j] = at[j] /\ half'[j] = half[j]
    BY <1>1, <2>1 DEF PlacesInv
  <2>3. PlacesInv'
    <3>1. \A j \in Installer : at'[j] <= Len(Statements(j)')
      BY <1>1, <1>4, <1>5, <2>2 DEF PlacesInv
    <3> QED BY <1>1, <1>3, <2>1, <2>2, <3>1 DEF PlacesInv, Idle
  <2>4. AloneInv'
    BY <1>3, <1>6, <2>2 DEF AloneInv, Idle
  <2>5. FormerInv'
    <3>1. \A j \in Installer \ {"touch"} : ~(alone'[j] /\ at'[j] # 0)
      BY <1>3, <1>6, <2>2 DEF Idle
    <3>2. ASSUME settled'
          PROVE  /\ \A j \in Installer \ {"touch"} : at'[j] = 0
                 /\ \A n \in DOMAIN objects' : objects'[n] # "former"
      <4>1. CASE i = "touch"
        BY <1>1, <1>8, <2>1, <2>2, <3>2, <4>1 DEF FormerInv, Idle
      <4>2. CASE i # "touch"
        <5>1. alone[i]
          BY <2>1, <3>2, <4>2
        <5>2. \A j \in Installer : at'[j] = 0
          BY <1>1, <1>3, <2>2, <5>1 DEF AloneInv, Idle
        <5>3. ASSUME NEW n \in DOMAIN objects', objects'[n] = "former" PROVE FALSE
          <6>1. \E k \in a + 1..len : Replaces(Statements(i)[k], n)
            BY <1>4, <1>8, <1>12, <4>2, <5>1, <5>3
          <6> QED BY <1>12, <6>1
        <5> QED BY <5>2, <5>3
      <4> QED BY <4>1, <4>2
    <3> QED BY <1>3, <1>8, <3>1, <3>2 DEF FormerInv, Idle
  <2> QED BY <2>3, <2>4, <2>5 DEF ViewsInv
<1> QED BY <1>1, <1>3, <1>5, <1>9, <1>10, <1>11, <1>12, WhereNext

\* What an installer that nothing disturbs is refused is an index, over columns that the
\* tables of the case lack.
LEMMA RefusedAlone ==
  ASSUME ViewsInv, NEW i \in Installer, Execute(i), alone[i], ended'[i] = "failed", ended[i] # "failed"
  PROVE  \E c \in Schema.columns \cap scope : c \notin DOMAIN objects
<1>1. PlacesInv /\ AloneInv
  BY DEF ViewsInv
<1>2. PICK s : s = Current(i)
  OBVIOUS
<1>3. /\ ~Idle(i)
      /\ \/ CreateTable(i, s) \/ CreateIndex(i, s) \/ EnsureColumn(i, s)
         \/ DropView(i, s) \/ CreateView(i, s)
  BY <1>2 DEF Execute, Current
<1>4. ~Advance(i)
  BY <1>1 DEF Advance, Stop, PlacesInv
<1>5. \/ s.op = "index" /\ ~(s.reads \subseteq DOMAIN objects)
      \/ half[i] /\ s.name \in DOMAIN objects
  BY <1>1, <1>3, <1>4, WhereNext
<1>6. ~(half[i] /\ s.name \in DOMAIN objects)
  BY <1>1, <1>2, <1>3 DEF AloneInv
<1>7. s.op = "index" => s.reads \subseteq Schema.columns \cap scope
  <2>1. at[i] \in DOMAIN Statements(i)
    BY <1>1, <1>3, ScriptIs DEF PlacesInv, Idle
  <2> QED BY <1>1, <1>2, <2>1, ScriptIs DEF Current
<1> QED BY <1>5, <1>6, <1>7

\* A case begins with nothing at work, and with earlier texts of some views at most.
LEMMA ViewsBegins == ASSUME ViewsInit PROVE ViewsInv
<1>1. /\ at = [i \in Installer |-> 0] /\ half = [i \in Installer |-> FALSE]
      /\ alone = [i \in Installer |-> FALSE] /\ ended = [i \in Installer |-> "none"]
      /\ settled = FALSE /\ scope \in {Everything, Slice}
  BY DEF ViewsInit
<1>2. PlacesInv
  <2>1. ASSUME NEW i \in Installer PROVE 0 <= Len(Statements(i))
    <3>1. PICK script : script = Script(scope, i)
      OBVIOUS
    <3>2. Len(script) \in Nat \ {0}
      BY <1>1, <3>1, ScriptsAssumption DEF Ordered
    <3> QED BY <3>1, <3>2 DEF Statements
  <2> QED BY <1>1, <2>1 DEF PlacesInv, Idle
<1>3. AloneInv
  BY <1>1 DEF AloneInv
<1>4. \A n \in DOMAIN objects : objects[n] = "former" => n \in Schema.formers \cap scope
  <2>1. CASE objects = <<>>
    BY <2>1
  <2>2. CASE \E cols \in Missing : objects = OldCase(cols)
    <3>1. PICK cols \in Missing : objects = OldCase(cols)
      BY <2>2
    <3>2. PICK has : has = Schema.columns \ cols
      OBVIOUS
    <3>3. objects = [n \in scope \cap (Schema.tables \cup Schema.formers \cup has) |->
                       CASE n \in Schema.tables -> "table" [] n \in has -> "columns"
                         [] n \in Schema.formers -> "former"]
      BY <3>1, <3>2 DEF OldCase
    <3> SUFFICES ASSUME NEW n \in DOMAIN objects, objects[n] = "former", n \notin Schema.formers
                 PROVE  FALSE
      BY <3>3
    <3> QED BY <3>3
  <2> QED BY <2>1, <2>2 DEF ViewsInit
<1> QED BY <1>1, <1>2, <1>3, <1>4 DEF ViewsInv, FormerInv

\* Every step of an installer keeps what is known of them.
LEMMA ViewsKept == ASSUME ViewsInv, ViewsNext PROVE ViewsInv'
<1>1. PlacesInv
  BY DEF ViewsInv
<1>2. CASE BeginRun \/ BeginOpen \/ BeginTouch
  BY <1>2, BeginStep DEF BeginRun, BeginOpen, BeginTouch, Installer
<1>3. ASSUME NEW i \in Installer, Execute(i) PROVE ViewsInv'
  BY <1>3, ExecuteStep
<1>4. ASSUME NEW i \in Installer, GiveUp(i) PROVE ViewsInv'
  <2>1. /\ at' = [at EXCEPT ![i] = 0] /\ half' = [half EXCEPT ![i] = FALSE]
        /\ ended' = [ended EXCEPT ![i] = "stopped"] /\ UNCHANGED <<scope, objects, alone, settled>>
    BY <1>4 DEF GiveUp, Stop
  <2> QED BY <1>1, <2>1, StopStep DEF PlacesInv
<1>5. CASE BeginWrite \/ EndWrite \/ EndRun
  <2>1. UNCHANGED <<scope, objects, at, half, alone, ended, settled>>
    BY <1>5 DEF BeginWrite, EndWrite, EndRun
  <2> QED BY <1>1, <2>1, StopStep DEF PlacesInv
<1>6. CASE EndProcess
  <2>1. PICK gone :
          /\ at' = [i \in Installer |-> IF i \in gone THEN 0 ELSE at[i]]
          /\ half' = [i \in Installer |-> half[i] /\ i \notin gone]
          /\ ended' = [i \in Installer |-> IF i \in gone /\ ~Idle(i) THEN "stopped" ELSE ended[i]]
          /\ UNCHANGED <<scope, objects, alone, settled>>
    BY <1>6 DEF EndProcess
  <2>2. half' \in [Installer -> BOOLEAN]
        /\ \A i \in Installer : half'[i] = (half[i] /\ i \notin gone)
    BY <2>1
  <2>3. \A i \in Installer : i \in gone => ~half'[i]
    BY <2>2
  <2>4. \A i \in Installer : i \notin gone => half'[i] = half[i]
    BY <1>1, <2>2 DEF PlacesInv
  <2>5. at' \in [Installer -> Nat]
        /\ \A i \in Installer : at'[i] = IF i \in gone THEN 0 ELSE at[i]
    BY <1>1, <2>1 DEF PlacesInv
  <2>6. ended' \in [Installer -> {"none", "done", "failed", "stopped"}]
    BY <1>1, <2>1 DEF PlacesInv
  <2> QED BY <2>1, <2>2, <2>3, <2>4, <2>5, <2>6, StopStep
<1> QED BY <1>2, <1>3, <1>4, <1>5, <1>6 DEF ViewsNext

\* A step in which a script that is alone comes to fail executes a statement of it.
LEMMA FailsForColumns == ASSUME ViewsInv, ViewsNext PROVE NoNeedlessFailure
<1> SUFFICES ASSUME NEW i \in Installer, ended'[i] = "failed", ended[i] # "failed", alone[i]
             PROVE  \E c \in Schema.columns \cap scope : c \notin DOMAIN objects
  BY DEF NoNeedlessFailure
<1>1. PlacesInv
  BY DEF ViewsInv
<1>2. ASSUME NEW j \in Installer, Begin(j) PROVE FALSE
  BY <1>1, <1>2 DEF Begin, PlacesInv
<1>3. ASSUME NEW j \in Installer, Execute(j) PROVE j = i
  <2>1. ended' = ended \/ \E how : ended' = [ended EXCEPT ![j] = how]
    BY <1>3 DEF Execute, CreateTable, CreateIndex, EnsureColumn, DropView, CreateView, Advance, Refused, Stop
  <2> QED BY <1>1, <2>1 DEF PlacesInv
<1>4. ASSUME NEW j \in Installer, GiveUp(j) PROVE FALSE
  BY <1>1, <1>4 DEF GiveUp, Stop, PlacesInv
<1>5. ~(BeginWrite \/ EndWrite \/ EndRun)
  BY DEF BeginWrite, EndWrite, EndRun
<1>6. ~EndProcess
  BY DEF EndProcess
<1>7. ~(BeginRun \/ BeginOpen \/ BeginTouch)
  BY <1>2 DEF BeginRun, BeginOpen, BeginTouch, Installer
<1>8. Execute(i)
  BY <1>3, <1>4, <1>5, <1>6, <1>7 DEF ViewsNext
<1> QED BY <1>8, RefusedAlone

\* What is known of the installers, in the behaviours of a case folder.
LEMMA ViewsAlways == RunsSpec => [](side = "views" => ViewsInv)
<1>1. RunsInit => (side = "views" => ViewsInv)
  BY ViewsBegins DEF RunsInit
<1>2. (side = "views" => ViewsInv) /\ [RunsNext]_runsVars => (side = "views" => ViewsInv)'
  <2> SUFFICES ASSUME side = "views" => ViewsInv, [RunsNext]_runsVars, side' = "views" PROVE ViewsInv'
    OBVIOUS
  <2>1. CASE ViewsStep
    BY <2>1, ViewsKept DEF ViewsStep
  <2>2. CASE PipelineStep \/ ReportStep
    BY <2>2 DEF PipelineStep, ReportStep
  <2>3. CASE UNCHANGED runsVars
    <3>1. side = "views" /\ UNCHANGED <<scope, objects, at, half, alone, ended, settled>>
      BY <2>3 DEF runsVars, viewsVars
    <3>2. ViewsInv /\ PlacesInv
      BY <3>1 DEF ViewsInv
    <3> QED BY <3>1, <3>2, StopStep DEF PlacesInv
  <2> QED BY <2>1, <2>2, <2>3 DEF RunsNext
<1> QED BY <1>1, <1>2, PTL DEF RunsSpec

\* A script that nothing disturbs comes to its end (exec of CaseSchema's statements),
\* whatever earlier scripts left where they were cut off, unless a table lacks columns.
THEOREM ScriptsAllComplete == RunsSpec => ScriptsComplete
<1>1. (side = "views" => ViewsInv) /\ [RunsNext]_runsVars
        => [side = "views" => NoNeedlessFailure]_runsVars
  <2> SUFFICES ASSUME side = "views" => ViewsInv, RunsNext, side = "views" PROVE NoNeedlessFailure
    OBVIOUS
  <2>1. ViewsStep
    BY DEF RunsNext, PipelineStep, ReportStep
  <2> QED BY <2>1, FailsForColumns DEF ViewsStep
<1> QED BY <1>1, ViewsAlways, PTL DEF RunsSpec, ScriptsComplete

\* When a run or an opening that was alone has installed its script, no view has a text
\* the script replaces further down, nor one an earlier version left.
THEOREM FormersReplaced == RunsSpec => [](side = "views" => NoFormerText)
<1>1. ViewsInv => NoFormerText
  BY DEF ViewsInv, FormerInv, NoFormerText
<1> QED BY <1>1, ViewsAlways, PTL
=============================================================================
