--------------------------- MODULE MCCaseWorkspace ---------------------------
(***************************************************************************)
(* The open case as the case workspace and as the list of views see it,    *)
(* and the control of the run that fills it, side by side: "side" says     *)
(* which of them a behaviour is of.  The variables of the other two are    *)
(* Unused, and the controls of a run at rest.                              *)
(***************************************************************************)
EXTENDS IngestControl, TLC

CONSTANTS caseA, caseB, locked, none, default, m1, m2, i1, s, Unused,
          Case, NoCase, Default, Artifact, MaxIngests,
          Unreadable, View, InOrder, PlatformOf, Recommended, HasView, MaxRefresh

VARIABLES side,
          path, field, info, dirty, timer, checked, saved, ingest, target, queued, ingests, closed, loaded,
          tab, platform, mode, list, label, sel, custom, seq, workers, posted

C == INSTANCE CaseWorkspace
L == INSTANCE ViewList WITH Case <- Case \cup Unreadable

ASSUME WorkspaceAssumptions == C!CaseAssumption /\ C!IngestAssumption
ASSUME ListAssumptions == L!ViewAssumption /\ L!CaseAssumption

----------------------------------------------------------------------------
(* Views of either platform and of both; a case that lacks some of them.   *)
TheOrder    == <<m1, s, m2, i1>>
ThePlatform == (m1 :> "macos") @@ (m2 :> "macos") @@ (i1 :> "ios") @@ (s :> "shared")
TheViews    == (caseA :> {m1, s, i1}) @@ (caseB :> {m1, s}) @@ (locked :> {})

caseOnly == <<path, field, info, dirty, timer, checked, saved, ingest, target, queued, ingests, closed, loaded>>
listOnly == <<tab, platform, mode, list, label, sel, custom, seq, workers, posted>>
runOnly  == <<threadVars, controls, cancel, shuttingDown, queue, ui>>

NoWorkspace == /\ path = Unused /\ loaded = Unused /\ field = Unused /\ info = Unused
               /\ dirty = Unused /\ timer = Unused /\ checked = Unused /\ saved = Unused
               /\ ingest = Unused /\ target = Unused /\ queued = Unused
               /\ ingests = Unused /\ closed = Unused
NoList      == /\ tab = Unused /\ platform = Unused /\ mode = Unused /\ list = Unused
               /\ label = Unused /\ sel = Unused /\ custom = Unused /\ seq = Unused
               /\ workers = Unused /\ posted = Unused
AtRest      == /\ active = FALSE /\ cancel = FALSE /\ handle = FALSE /\ shuttingDown = FALSE
               /\ runButton = FALSE /\ cancelButton = FALSE /\ mutation = FALSE
               /\ queue = <<>> /\ ui = "ready" /\ pc = "none" /\ runs = 0 /\ reported = 0

SidesInit == \/ side = "case" /\ C!Init /\ NoList /\ AtRest
             \/ side = "list" /\ L!Init /\ NoWorkspace /\ AtRest
             \/ side = "run" /\ Init /\ NoWorkspace /\ NoList

\* A step of one side.
OfCase(A) == side = "case" /\ A /\ UNCHANGED <<side, listOnly, runOnly>>
OfList(A) == side = "list" /\ A /\ UNCHANGED <<side, caseOnly, runOnly>>
OfRun(A)  == side = "run" /\ A /\ UNCHANGED <<side, caseOnly, listOnly>>

CaseStep == OfCase(C!Next)
ListStep == OfList(L!Next)
RunStep  == OfRun(Next)

SidesNext == CaseStep \/ ListStep \/ RunStep

sidesVars == <<side, opened, caseOnly, listOnly, runOnly>>

\* Fairness of CaseWorkspace, of ViewList and of IngestControl.  A behaviour stays
\* on its side, so that fairness of a disjunction of steps of different sides is
\* fairness of each of them.
SidesFair ==
  /\ WF_sidesVars(\/ OfCase(C!Autosave) \/ OfList(L!Working)
                  \/ OfRun(SetIngestStatus \/ IngestCaseReady \/ IngestWorkerDone))
  /\ WF_sidesVars(OfCase(C!CaseReady) \/ OfRun(StartRun))
  /\ WF_sidesVars(OfCase(C!WorkerDone) \/ OfRun(FinishClose))
  /\ WF_sidesVars(OfCase(C!EndIngest) \/ OfRun(FinishPipeline))
  /\ WF_sidesVars(OfRun(JoinMonitor \/ PostDone \/ Exit))
  /\ SF_sidesVars(OfRun(ReadOptions)) /\ SF_sidesVars(OfRun(Report))

SidesSpec == SidesInit /\ [][SidesNext]_sidesVars /\ SidesFair

----------------------------------------------------------------------------
(* The properties, each about its own side; those of the run are the       *)
(* properties of IngestControl, true where it is at rest.                  *)

(* As long as the open case is the one whose checks were read, memory and  *)
(* database agree about every artifact.                                    *)
CheckedAgree == side = "case" => C!TypeOK /\ C!ChecksAgree

(* While a run is active, nothing but the run itself, when it reports its  *)
(* case, writes case information.                                          *)
RunAloneWritesInfo ==
  [][side = "case" /\ ingest = "running" /\ info' # info => ~queued /\ queued']_sidesVars

(* A change for which an autosave is pending gets saved while its case     *)
(* stays open, or when the window is closed, unless an ingest is started.  *)
EditsAreSaved ==
  (side = "case" /\ dirty /\ timer /\ opened # NoCase)
    ~> (side = "case" /\ (~dirty \/ closed \/ opened = NoCase \/ ingest = "running"))

(* Any number seen beside a view is the row count of that view in the case *)
(* that is open, and the list has no view of the other platform and none   *)
(* the case lacks.                                                         *)
ListTellsCase ==
  side = "list" => L!TypeOK /\ L!SeenCountsAreTrue /\ L!ListFitsCase

(* A list that is seen and being counted is labelled by its own counting,  *)
(* unless another is begun or the investigator leaves the tab.             *)
CountsArrive ==
  \A r \in 1..MaxRefresh :
    (side = "list" /\ L!Investigating /\ seq = r /\ opened # NoCase /\ list # <<>>)
      ~> (side = "list" /\ (seq # r \/ ~L!Investigating
                             \/ \A i \in DOMAIN label : label[i].round = r))
=============================================================================
