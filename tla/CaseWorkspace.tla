---------------------------- MODULE CaseWorkspace ----------------------------
(***************************************************************************)
(* The case the Windows GUI works on (src/src/gui/win32_gui.cpp): which    *)
(* database is open, the case information in its edit boxes with their     *)
(* autosave timer, and the checked artifacts, kept both in memory and in   *)
(* the database.  A case is opened with the button, by an ingest that      *)
(* reports its case, or by a save that finds none open.  Every change of   *)
(* an edit box, by hand or by setText, sends EN_CHANGE.                    *)
(***************************************************************************)
EXTENDS Integers

CONSTANTS Case,      \* case databases
          NoCase,    \* an empty path or name
          Default,   \* the name the box starts with, "Spotlight Case"
          Artifact,  \* artifact ids, which every case numbers anew
          MaxIngests \* bound: runs started

CaseAssumption   == NoCase \notin Case /\ Default \notin Case \cup {NoCase}
IngestAssumption == MaxIngests \in Nat

\* The text of the case name box; the name a case c was created with is c itself.
Text == Case \cup {NoCase, Default}

VARIABLES opened,  \* gOpenedCaseDb
          path,    \* the text of gCaseDbPath
          field,   \* the text of gCaseName and the boxes next to it
          info,    \* case_info of each case
          dirty,   \* gCaseInfoDirty
          timer,   \* ID_AUTOSAVE_TIMER is set
          checked, \* gCheckedArtifactIds
          saved,   \* gui_checked_artifacts of each case
          ingest,  \* "off", "running" (gIngestActive), or "ended" (not yet reported)
          target,  \* the case of the newest run
          queued,  \* WM_INGEST_CASE_READY is in the message queue
          ingests, \* runs started
          closed,  \* the window was destroyed
          loaded   \* history: the open case, if its checks were read when it was opened

case == <<opened, path, loaded>>
text == <<field, info, dirty, timer>>
checks == <<checked, saved>>
run  == <<ingest, target, queued, ingests>>
vars == <<case, text, checks, run, closed>>

TypeOK == /\ opened \in Case \cup {NoCase} /\ path \in Case \cup {NoCase}
          /\ field \in Text /\ info \in [Case -> Text]
          /\ dirty \in BOOLEAN /\ timer \in BOOLEAN
          /\ checked \in SUBSET Artifact /\ saved \in [Case -> SUBSET Artifact]
          /\ ingest \in {"off", "running", "ended"}
          /\ target \in Case \cup {NoCase}
          /\ queued \in BOOLEAN /\ ingests \in 0..MaxIngests
          /\ queued => target \in Case
          /\ closed \in BOOLEAN
          /\ loaded \in {opened, NoCase}

\* Cases from earlier sessions, each with its own name, or none, and its checks.
Init == /\ opened = NoCase /\ path = NoCase
        /\ field = Default
        /\ info \in {f \in [Case -> Text] : \A c \in Case : f[c] \in {c, NoCase}}
        /\ dirty = FALSE /\ timer = FALSE
        /\ checked = {} /\ saved \in [Case -> SUBSET Artifact]
        /\ ingest = "off" /\ target = NoCase /\ queued = FALSE /\ ingests = 0
        /\ closed = FALSE
        /\ loaded = NoCase

----------------------------------------------------------------------------
(* Editing.  Faulty variants, each next to what it varies, show what the   *)
(* properties are able to notice.                                          *)

\* scheduleCaseInfoAutosave
Schedule == dirty' = TRUE /\ timer' = TRUE

\* The edit boxes are disabled until the end of a run has been handled.
Editable == ~closed /\ ingest = "off"

\* Typing a name.
EditName(t) == /\ Editable /\ field # t
               /\ field' = t
               /\ Schedule
               /\ UNCHANGED <<info, case, checks, run, closed>>

\* ID_BROWSE_CASE, or typing a path.
EditPath(c) == /\ Editable /\ path # c
               /\ path' = c
               /\ Schedule
               /\ UNCHANGED <<field, info, opened, loaded, checks, run, closed>>

\* loadCaseSummary shows what the case says of itself; what it does not say
\* stays as it was.
ShowInfo(c) ==
  IF c # NoCase /\ info[c] # NoCase THEN field' = info[c] /\ Schedule
  ELSE UNCHANGED <<field, dirty, timer>>

\* Faulty: the checks of the case are not read.
OpenWithoutChecks ==
  /\ Editable
  /\ opened' = path
  /\ loaded' = path
  /\ ShowInfo(path)
  /\ UNCHANGED <<path, info, checks, run, closed>>

\* openCaseFromPath.  An empty path opens no database: the checks in memory stay.
OpenCase == /\ Editable
            /\ opened' = path
            /\ loaded' = path
            /\ checked' = IF path = NoCase THEN checked ELSE saved[path]
            /\ ShowInfo(path)
            /\ UNCHANGED <<path, info, saved, run, closed>>

----------------------------------------------------------------------------
(* Saving.                                                                 *)

\* The database a save is for: the open one, or else the one the path names,
\* which thereby becomes the open one.
SaveTarget == IF opened = NoCase THEN path ELSE opened

\* Faulty: a save does not look whether a run is active.
SaveAnyway ==
  IF SaveTarget = NoCase THEN UNCHANGED <<opened, loaded, info, dirty>>
  ELSE /\ opened' = SaveTarget
       /\ loaded' = IF opened = NoCase THEN NoCase ELSE loaded
       /\ info' = [info EXCEPT ![SaveTarget] = field]
       /\ dirty' = FALSE

\* saveCaseInformationCore
Save ==
  IF ingest = "running" \/ SaveTarget = NoCase
  THEN UNCHANGED <<opened, loaded, info, dirty>>
  ELSE /\ opened' = SaveTarget
       /\ loaded' = IF opened = NoCase THEN NoCase ELSE loaded
       /\ info' = [info EXCEPT ![SaveTarget] = field]
       /\ dirty' = FALSE

SaveCaseInfo == /\ Editable
                /\ Save
                /\ UNCHANGED <<path, field, timer, checks, run, closed>>

\* Faulty: empty boxes are not saved.
AutosaveUnlessEmpty ==
  /\ ~closed /\ timer /\ dirty
  /\ timer' = FALSE
  /\ IF field = NoCase THEN UNCHANGED <<opened, loaded, info, dirty>> ELSE Save
  /\ UNCHANGED <<path, field, checks, run, closed>>

\* autosaveCaseInformation, 1.5 s after the last change.
Autosave == /\ ~closed /\ timer /\ dirty
            /\ timer' = FALSE
            /\ Save
            /\ UNCHANGED <<path, field, checks, run, closed>>

\* WM_DESTROY joins the ingest thread, removes the timer and saves.
Close == /\ ~closed /\ ingest # "running"
         /\ closed' = TRUE
         /\ timer' = FALSE
         /\ Save
         /\ UNCHANGED <<path, field, checks, run>>

----------------------------------------------------------------------------
(* Checking artifacts: the memory first, then the open database.           *)

\* setReviewRowsChecked: some rows of the list; whatever is in the list may
\* still be of the case that was open before.
CheckRows(S) ==
  /\ ~closed /\ S # {}
  /\ checked' = checked \cup S
  /\ saved' = IF opened = NoCase THEN saved ELSE [saved EXCEPT ![opened] = @ \cup S]
  /\ UNCHANGED <<case, text, run, closed>>

UncheckRows(S) ==
  /\ ~closed /\ S # {}
  /\ checked' = checked \ S
  /\ saved' = IF opened = NoCase THEN saved ELSE [saved EXCEPT ![opened] = @ \ S]
  /\ UNCHANGED <<case, text, run, closed>>

\* ID_CLEAR_CHECKED
ClearChecked ==
  /\ ~closed
  /\ checked' = {}
  /\ saved' = IF opened = NoCase THEN saved ELSE [saved EXCEPT ![opened] = {}]
  /\ UNCHANGED <<case, text, run, closed>>

----------------------------------------------------------------------------
(* Ingest.                                                                 *)

\* ID_RUN, for the case in the folder gOut names.
Run(c) == /\ Editable /\ ingests < MaxIngests
          /\ ingests' = ingests + 1
          /\ ingest' = "running" /\ target' = c
          /\ UNCHANGED <<queued, opened, path, loaded, text, checks, closed>>

\* The pipeline wrote the case information it was started with, and worker()
\* announces the case.
Report == /\ ~closed /\ ingest = "running" /\ ~queued
          /\ info' = [info EXCEPT ![target] = field]
          /\ queued' = TRUE
          /\ UNCHANGED <<field, dirty, timer, case, checks, ingest, target, ingests, closed>>

\* The thread ends, after its report or because of an exception.
EndIngest == /\ ~closed /\ ingest = "running"
             /\ ingest' = "ended"
             /\ UNCHANGED <<target, queued, ingests, case, text, checks, closed>>

\* WM_INGEST_CASE_READY opens the case, but does not read its checks.
CaseReady == /\ ~closed /\ queued
             /\ queued' = FALSE
             /\ opened' = target /\ path' = target
             /\ loaded' = NoCase
             /\ field' = IF info[target] # NoCase THEN info[target] ELSE field
             /\ Schedule
             /\ UNCHANGED <<ingest, target, ingests, info, checks, closed>>

\* WM_INGEST_WORKER_DONE_UI
WorkerDone == /\ ~closed /\ ingest = "ended" /\ ~queued
              /\ ingest' = "off"
              /\ UNCHANGED <<target, queued, ingests, case, text, checks, closed>>

----------------------------------------------------------------------------
Next == \/ \E t \in Text : EditName(t)
        \/ \E c \in Case \cup {NoCase} : EditPath(c)
        \/ OpenCase \/ SaveCaseInfo \/ Autosave \/ Close
        \/ \E S \in SUBSET Artifact : CheckRows(S) \/ UncheckRows(S)
        \/ ClearChecked
        \/ \E c \in Case : Run(c)
        \/ Report \/ EndIngest \/ CaseReady \/ WorkerDone

\* Timers and posted messages are delivered, and a run ends.
Fairness == /\ WF_vars(Autosave) /\ WF_vars(CaseReady) /\ WF_vars(WorkerDone)
            /\ WF_vars(EndIngest)

Spec == Init /\ [][Next]_vars
FairSpec == Spec /\ Fairness

----------------------------------------------------------------------------
(* Properties.                                                             *)

\* As long as the open case is the one whose checks were read, memory and
\* database agree about every artifact, however checks, batches, clearing,
\* saving and opening other cases follow each other.
ChecksAgree == loaded # NoCase => checked = saved[loaded]

\* While a run is active, nothing but the run itself, when it reports its case,
\* writes case information.
RunOwnsInfo == [][ingest = "running" /\ info' # info => ~queued /\ queued']_vars

\* A change for which an autosave is pending gets saved while its case stays
\* open, or when the window is closed, unless an ingest is started meanwhile
\* (which defers the autosave, and nothing takes it up again).
ChangesAreSaved ==
  (dirty /\ timer /\ opened # NoCase)
    ~> (~dirty \/ closed \/ opened = NoCase \/ ingest = "running")
=============================================================================
