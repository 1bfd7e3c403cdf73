----------------------------- MODULE ExportTasks -----------------------------
(***************************************************************************)
(* The background exports of the Windows GUI (src/src/gui/win32_gui.cpp).  *)
(* A click takes the flag of its kind of export, asks for a file in a      *)
(* modal dialog (whose message loop keeps delivering posted messages) and  *)
(* only then captures what to export and starts a thread.  The thread      *)
(* posts its result, whose handler gives the flag back, and sets the done  *)
(* flag by which a later registration reaps it.  Destroying the window     *)
(* joins every registered thread.                                          *)
(***************************************************************************)
EXTENDS Integers

CONSTANTS Kind,     \* the kinds of export, one g...Active flag each
          Gated,    \* the kinds whose button a page load disables
          NoKind,   \* no dialog is open
          MaxTask   \* bound: export threads started in one session

KindAssumption == Gated \subseteq Kind /\ NoKind \notin Kind
TaskAssumption == MaxTask \in Nat

VARIABLES active,       \* gExportPageActive and its siblings
          button,       \* the button of each kind is enabled
          loading,      \* gReviewLoadInProgress
          dialog,       \* the kind whose modal dialogs are open
          tasks,        \* number of export threads started
          kindOf,       \* the kind each thread exports
          pc,           \* where each thread is
          registry,     \* gExportThreads
          joining,      \* threads joinExportThreadsNoThrow still waits for
          result,       \* threads whose result waits in the message queue
          shuttingDown, \* gShuttingDown
          ui            \* what the UI thread is doing

vars == <<active, button, loading, dialog, tasks, kindOf, pc, registry, joining,
          result, shuttingDown, ui>>

Task  == 1..MaxTask
Alive == {"exporting", "exported", "posted", "dropped"}

TypeOK == /\ active \in [Kind -> BOOLEAN]
          /\ button \in [Kind -> BOOLEAN]
          /\ loading \in BOOLEAN
          /\ dialog \in Kind \cup {NoKind}
          /\ tasks \in 0..MaxTask
          /\ kindOf \in [Task -> Kind \cup {NoKind}]
          /\ \A t \in Task : kindOf[t] = NoKind <=> t > tasks
          /\ pc \in [Task -> Alive \cup {"none", "done", "joined"}]
          /\ registry \in SUBSET Task
          /\ joining \in SUBSET Task
          /\ result \in SUBSET Task
          /\ shuttingDown \in BOOLEAN
          /\ ui \in {"ready", "closing", "gone"}

Init == /\ active = [k \in Kind |-> FALSE]
        /\ button = [k \in Kind |-> TRUE]
        /\ loading = FALSE
        /\ dialog = NoKind
        /\ tasks = 0
        /\ kindOf = [t \in Task |-> NoKind]
        /\ pc = [t \in Task |-> "none"]
        /\ registry = {} /\ joining = {}
        /\ shuttingDown = FALSE
        /\ ui = "ready"
        /\ result = {}

uiRest  == <<joining, shuttingDown, ui>>
taskVars == <<tasks, kindOf, pc, registry, result>>

----------------------------------------------------------------------------
(* The UI thread.  Faulty variants, each next to what it varies, show what *)
(* the properties are able to notice.                                      *)

\* A second click while the flag is taken only says so.  A click opens the
\* dialogs of its kind; they disable the window, so no other click follows.
ClickExport(k) == /\ ui = "ready" /\ dialog = NoKind
                  /\ button[k] /\ ~active[k]
                  /\ active' = [active EXCEPT ![k] = TRUE]
                  /\ dialog' = k
                  /\ UNCHANGED <<button, loading, taskVars, uiRest>>

\* Faulty: leaving the dialog keeps the flag.
CancelDialogKeepsFlag == /\ dialog # NoKind
                         /\ dialog' = NoKind
                         /\ UNCHANGED <<active, button, loading, taskVars, uiRest>>

\* Every early return after the flag was taken gives it back.
CancelDialog == /\ dialog # NoKind
                /\ active' = [active EXCEPT ![dialog] = FALSE]
                /\ dialog' = NoKind
                /\ UNCHANGED <<button, loading, taskVars, uiRest>>

\* reapCompletedExportThreadsLocked joins the threads whose done flag is set.
Reaped == {t \in registry : pc[t] = "done"}

Register(t) == (registry \ Reaped) \cup {t}

\* registerExportTask: the request is captured, the thread created and registered.
StartTask ==
  LET t == tasks + 1 IN
  /\ dialog # NoKind /\ t <= MaxTask
  /\ dialog' = NoKind
  /\ button' = [button EXCEPT ![dialog] = FALSE]
  /\ tasks' = t
  /\ kindOf' = [kindOf EXCEPT ![t] = dialog]
  /\ pc' = [u \in Task |-> IF u = t THEN "exporting"
                           ELSE IF u \in Reaped THEN "joined" ELSE pc[u]]
  /\ registry' = Register(t)
  /\ UNCHANGED <<active, loading, result, uiRest>>

\* WM_EXPORT_..._RESULT, also delivered while a dialog is open.
ExportResult(t) ==
  /\ ui = "ready" /\ t \in result
  /\ result' = result \ {t}
  /\ active' = [active EXCEPT ![kindOf[t]] = FALSE]
  /\ button' = [button EXCEPT ![kindOf[t]] = TRUE]
  /\ UNCHANGED <<loading, dialog, tasks, kindOf, pc, registry, uiRest>>

\* setReviewLoadingState, when a page load starts or ends.  A load also starts
\* behind a dialog, when WM_INGEST_CASE_READY is delivered there.
SetLoading(b) ==
  /\ ui = "ready"
  /\ loading # b
  /\ loading' = b
  /\ button' = [k \in Kind |-> IF k \in Gated THEN ~b ELSE button[k]]
  /\ UNCHANGED <<active, dialog, taskVars, uiRest>>

\* WM_DESTROY: joinExportThreadsNoThrow takes over the registry.
Close == /\ ui = "ready" /\ dialog = NoKind
         /\ ui' = "closing"
         /\ shuttingDown' = TRUE
         /\ joining' = registry
         /\ registry' = {}
         /\ UNCHANGED <<active, button, loading, dialog, tasks, kindOf, pc, result>>

JoinTask(t) == /\ ui = "closing" /\ t \in joining
               /\ pc[t] = "done"
               /\ joining' = joining \ {t}
               /\ pc' = [pc EXCEPT ![t] = "joined"]
               /\ UNCHANGED <<active, button, loading, dialog, tasks, kindOf,
                              registry, result, shuttingDown, ui>>

FinishClose == /\ ui = "closing" /\ joining = {}
               /\ ui' = "gone"
               /\ UNCHANGED <<active, button, loading, dialog, taskVars,
                              joining, shuttingDown>>

----------------------------------------------------------------------------
(* An export thread.                                                       *)

Move(t, from, to) == /\ pc[t] = from
                     /\ pc' = [pc EXCEPT ![t] = to]
                     /\ UNCHANGED <<active, button, loading, dialog, tasks,
                                    kindOf, registry, uiRest>>

\* The export ends: complete, failed, or cancelled because of shutdown.
Export(t) == Move(t, "exporting", "exported") /\ UNCHANGED result

\* Faulty: a failed export posts nothing.
PostResultOrNot(t) == /\ Move(t, "exported", "posted")
                      /\ \/ result' = result \cup {t}
                         \/ UNCHANGED result

\* postExportResult
PostResult(t) == /\ ~shuttingDown
                 /\ Move(t, "exported", "posted")
                 /\ result' = result \cup {t}

DropResult(t) == /\ shuttingDown
                 /\ Move(t, "exported", "dropped")
                 /\ UNCHANGED result

SetDone(t) == /\ \/ Move(t, "posted", "done")
                 \/ Move(t, "dropped", "done")
              /\ UNCHANGED result

Worker(t) == Export(t) \/ PostResult(t) \/ DropResult(t) \/ SetDone(t)

----------------------------------------------------------------------------
Next == \/ \E k \in Kind : ClickExport(k)
        \/ CancelDialog \/ StartTask
        \/ \E b \in BOOLEAN : SetLoading(b)
        \/ Close \/ FinishClose
        \/ \E t \in Task : ExportResult(t) \/ JoinTask(t) \/ Worker(t)

\* Threads and the message loop run; dialogs are answered and loads end.
Fairness == /\ \A t \in Task : /\ WF_vars(Worker(t))
                               /\ WF_vars(ExportResult(t))
                               /\ WF_vars(JoinTask(t))
            /\ WF_vars(CancelDialog)
            /\ WF_vars(SetLoading(FALSE))
            /\ WF_vars(FinishClose)

Spec == Init /\ [][Next]_vars
FairSpec == Spec /\ Fairness

----------------------------------------------------------------------------
(* Properties.                                                             *)

\* A thread exports kind k, or its result waits for the UI thread.
Running(k) == {t \in Task : kindOf[t] = k /\
                            (pc[t] \in {"exporting", "exported"} \/ t \in result)}

\* The flag of a kind says exactly whether an export of it is being set up, is
\* running or waits to be reported: never two at a time, never a flag left
\* over that would refuse every later export.  And a button stays disabled only
\* for a reason that is still going to end: a page load in progress, or an
\* export of its kind.
FlagHonest ==
  ui = "ready" =>
    \A k \in Kind :
      /\ active[k] <=> dialog = k \/ Running(k) # {}
      /\ \A t, u \in Running(k) : t = u
      /\ ~(dialog = k /\ Running(k) # {})
      /\ ~button[k] => active[k] \/ (loading /\ k \in Gated)

\* A thread that may still touch the program's state is registered (or being
\* joined), so the window is never gone while an export is running.
NoThreadEscapes ==
  /\ \A t \in Task : pc[t] \in Alive => t \in registry \cup joining
  /\ ui = "gone" => \A t \in Task : pc[t] \in {"none", "joined"}

\* An export that was started is reported, unless the window is closed, and
\* closing completes.
ExportsSettle == /\ \A k \in Kind : active[k] ~> ~active[k] \/ shuttingDown
                 /\ shuttingDown ~> ui = "gone"
=============================================================================
