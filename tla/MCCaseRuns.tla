------------------------------ MODULE MCCaseRuns ------------------------------
(***************************************************************************)
(* What runs do to a case folder, side by side: the stages of runs, the    *)
(* scripts that install its views, and the review package exported from    *)
(* them.  The three share a folder but no variable, so each is checked on  *)
(* its own: "side" says whose behaviour it is; the variables of the other  *)
(* two are Unused, and the pipeline is at rest.                            *)
(***************************************************************************)
EXTENDS RunPipeline, CaseViews, CaseSchema, TLC

CONSTANTS s1, s2, Unused,
          detail, chat, Name, ThinSheets, FullSheets, SupportOnly, Ios, Samples, Reused,
          ChunkRows, Packages, MaxRows, MaxTimeouts

VARIABLES side,
          sheetRun, profile, platform, size, sheetCancel, locked, handler, sheetStep, step,
          split, part, inPart, total, listed, timeouts, queries, sheets, manifests,
          notices, index, caseIndex, outcome

R == INSTANCE ReportExport WITH run <- sheetRun, source <- platform, cancel <- sheetCancel,
                                pc <- sheetStep, ended <- queries, files <- sheets,
                                Thin <- ThinSheets, Full <- FullSheets

ASSUME ReportAssumptions == /\ R!NameAssumption /\ R!ListAssumption
                            /\ R!ReusedAssumption /\ R!SizeAssumption

----------------------------------------------------------------------------
(* Runs of every kind; options that make no difference are not repeated.   *)
Of(kind, mode, preserve) == [kind |-> kind, mode |-> mode, preserve |-> preserve]
MCOptions == {Of("folder", "run", "no"), Of("folder", "run", "default"),
              Of("folder", "diagnostics", "default"), Of("folder", "diagnostics", "explicit"),
              Of("folder", "discover", "no"), Of("zip", "run", "default"),
              Of("aff4", "run", "no"), Of("aff4", "discover", "no"), Of("raw", "run", "no")}
Symmetric == Permutations({s1, s2})

(* An export for support, one of iOS sources, and a sample that is copied  *)
(* from it if it is there.                                                 *)
ThinList   == <<detail, chat>>
FullList   == <<detail>>
SampleList == <<chat>>
ThePackages == {<<"thin", "ios", 3>>, <<"support", "ios", 1>>, <<"support", "ios", 3>>,
                <<"support", "macos", 3>>, <<"full", "ios", 1>>, <<"full", "macos", 3>>}

TheSchema  == CaseDbSchema

----------------------------------------------------------------------------
reportOnly == <<sheetRun, profile, platform, size, sheetCancel, locked, handler, sheetStep, step,
                split, part, inPart, total, listed, timeouts, queries, sheets, manifests,
                notices, index, caseIndex, outcome>>

NoReport == /\ sheetRun = Unused /\ profile = Unused /\ platform = Unused /\ size = Unused
            /\ sheetCancel = Unused /\ locked = Unused /\ handler = Unused /\ sheetStep = Unused
            /\ step = Unused /\ split = Unused /\ part = Unused /\ inPart = Unused
            /\ total = Unused /\ listed = Unused /\ timeouts = Unused /\ queries = Unused
            /\ sheets = Unused /\ manifests = Unused /\ notices = Unused /\ index = Unused
            /\ caseIndex = Unused /\ outcome = Unused
NoViews  == /\ scope = Unused /\ objects = Unused /\ at = Unused /\ half = Unused
            /\ alone = Unused /\ ended = Unused /\ installed = Unused /\ settled = Unused
            /\ ingesting = Unused /\ writing = Unused /\ apart = Unused
            /\ reviewed = Unused /\ cut = Unused /\ installs = Unused
AtRest   == Init /\ opt = Of("folder", "run", "no") /\ faults = {"throw", "crash"}

RunsInit == \/ side = "pipeline" /\ Init /\ NoReport /\ NoViews
            \/ side = "report" /\ R!Init /\ AtRest /\ NoViews
            \/ side = "views" /\ ViewsInit /\ AtRest /\ NoReport

PipelineStep == side = "pipeline" /\ Next /\ UNCHANGED <<side, reportOnly, viewsVars>>
ReportStep   == side = "report" /\ R!Next /\ UNCHANGED <<side, vars, viewsVars>>
ViewsStep    == side = "views" /\ ViewsNext /\ UNCHANGED <<side, vars, reportOnly>>

RunsNext == PipelineStep \/ ReportStep \/ ViewsStep

runsVars == <<side, vars, reportOnly, viewsVars>>

RunsSpec == RunsInit /\ [][RunsNext]_runsVars

----------------------------------------------------------------------------
(* The properties of RunPipeline hold where it is at rest; the others are  *)
(* each about its own side.                                                *)

(* The sheets, manifests, notices and indexes of the folder tell of the    *)
(* newest run, whatever earlier runs have left there.                      *)
ManifestTells == side = "report" => R!ManifestTells

(* An upload sample copied from an export is this run's.                   *)
SamplesAreCurrent == side = "report" => R!SamplesAreCurrent

(* SQL runs under the handler of a call that has returned in one case only.*)
NoCallOnDeadFrame == side = "report" => R!NoCallOnDeadFrame

(* Whenever a run or an opening has installed its script and nothing is    *)
(* being installed, the views offered can be queried, and none has a text  *)
(* the scripts replace.                                                    *)
ViewsAnswer == side = "views" => ViewsTypeOK /\ SettledViews

(* A script that nothing else disturbs comes to its end, whatever earlier  *)
(* ones have left, unless a table of the case lacks columns.               *)
ScriptsComplete == [][side = "views" => NoNeedlessFailure]_runsVars
=============================================================================
