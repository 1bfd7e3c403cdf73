---------------------------- MODULE IngestControl ----------------------------
(***************************************************************************)
(* Starting, cancelling and finishing a run from the Windows GUI           *)
(* (src/src/gui/win32_gui.cpp).  One ingest thread runs the pipeline; it   *)
(* reads its options with cross-thread SendMessage calls, which return only *)
(* while the UI thread dispatches messages, and reports back with posted   *)
(* messages, which the UI thread takes in FIFO order.  The UI thread joins *)
(* the ingest thread when another run is started and when the window is    *)
(* destroyed; while it waits it dispatches nothing.                        *)
(***************************************************************************)
EXTENDS Integers, Sequences

CONSTANTS MaxRuns,   \* bound: runs started in one session
          MaxStatus  \* bound: queue length up to which progress is posted

ASSUME RunsAssumption == MaxRuns \in Nat /\ MaxStatus \in Nat

VARIABLES active,       \* gIngestActive
          cancel,       \* gCancelIngestRequested
          handle,       \* gIngestThread.joinable()
          shuttingDown, \* gShuttingDown
          runButton,    \* gRun is enabled
          cancelButton, \* gCancelIngestButton is enabled
          mutation,     \* setCaseMutationControlsEnabled
          queue,        \* posted messages, oldest first
          ui,           \* what the UI thread is doing
          pc,           \* where the newest ingest thread is
          runs,         \* number of runs started; also the newest run
          reported,     \* newest run that posted WM_INGEST_CASE_READY
          opened        \* the run whose case gOpenedCaseDb names, 0 if none

controls   == <<runButton, cancelButton, mutation>>
threadVars == <<active, handle, pc, runs, reported>>
vars == <<threadVars, controls, cancel, shuttingDown, queue, ui, opened>>

Run == 1..MaxRuns
Message == [kind : {"status", "caseReady", "done"}, run : Run]
Stage == {"none", "reading", "running", "reporting", "joining", "inactive",
          "finished", "exited"}

TypeOK == /\ active \in BOOLEAN /\ cancel \in BOOLEAN
          /\ handle \in BOOLEAN /\ shuttingDown \in BOOLEAN
          /\ runButton \in BOOLEAN /\ cancelButton \in BOOLEAN
          /\ mutation \in BOOLEAN
          /\ queue \in Seq(Message)
          /\ ui \in {"ready", "starting", "closing", "gone"}
          /\ pc \in Stage
          /\ runs \in 0..MaxRuns
          /\ reported \in 0..MaxRuns /\ opened \in 0..MaxRuns

Init == /\ active = FALSE /\ cancel = FALSE
        /\ handle = FALSE /\ shuttingDown = FALSE
        /\ runButton = TRUE /\ cancelButton = FALSE /\ mutation = TRUE
        /\ queue = <<>>
        /\ ui = "ready" /\ pc = "none"
        /\ runs = 0 /\ reported = 0 /\ opened = 0

Note(kind) == [kind |-> kind, run |-> runs]

----------------------------------------------------------------------------
(* The UI thread.  Faulty variants, each next to what it varies, show what *)
(* the properties are able to notice.                                      *)

\* ID_RUN up to joinCompletedIngestThreadNoThrow, which may have to wait for
\* the previous thread to leave.
ClickRun == /\ ui = "ready" /\ runButton
            /\ runs < MaxRuns
            /\ ui' = "starting"
            /\ UNCHANGED <<threadVars, controls, cancel, shuttingDown, queue, opened>>

Joined == handle => pc = "exited"

\* The rest of ID_RUN.  An active run refuses a second one; otherwise
\* startIngestThreadNoThrow starts a thread, or fails and restores the controls.
StartRun ==
  /\ ui = "starting"
  /\ active \/ Joined
  /\ ui' = "ready"
  /\ IF active THEN UNCHANGED <<threadVars, controls, cancel, queue>>
     ELSE /\ cancel' = FALSE
          /\ cancelButton' = TRUE
          /\ runs' = runs + 1
          /\ queue' = Append(queue, [kind |-> "status", run |-> runs + 1])
          /\ \/ /\ active' = TRUE /\ handle' = TRUE /\ pc' = "reading"
                /\ runButton' = FALSE /\ mutation' = FALSE
             \/ /\ active' = FALSE /\ handle' = FALSE /\ pc' = "none"
                /\ runButton' = TRUE /\ mutation' = TRUE
          /\ UNCHANGED reported
  /\ UNCHANGED <<shuttingDown, opened>>

CancelIngest == /\ ui = "ready" /\ cancelButton
                /\ cancel' = TRUE
                /\ cancelButton' = FALSE
                /\ queue' = Append(queue, Note("status"))
                /\ UNCHANGED <<threadVars, runButton, mutation, shuttingDown,
                               ui, opened>>

\* Faulty: an old status line disables the Cancel button of a new run.
StatusAlwaysDisables == /\ ui = "ready" /\ queue # <<>>
                        /\ Head(queue).kind = "status"
                        /\ queue' = Tail(queue)
                        /\ cancelButton' = FALSE
                        /\ UNCHANGED <<threadVars, runButton, mutation, cancel,
                                       shuttingDown, ui, opened>>

\* WM_SET_INGEST_STATUS
SetIngestStatus == /\ ui = "ready" /\ queue # <<>>
                   /\ Head(queue).kind = "status"
                   /\ queue' = Tail(queue)
                   /\ cancelButton' = (cancelButton /\ active)
                   /\ UNCHANGED <<threadVars, runButton, mutation, cancel,
                                  shuttingDown, ui, opened>>

\* Faulty: a case that is already open is kept.
IngestCaseReadyKeepsOpen ==
  /\ ui = "ready" /\ queue # <<>>
  /\ Head(queue).kind = "caseReady"
  /\ queue' = Tail(queue)
  /\ opened' = IF opened = 0 THEN Head(queue).run ELSE opened
  /\ UNCHANGED <<threadVars, controls, cancel, shuttingDown, ui>>

\* WM_INGEST_CASE_READY opens the case database of the run.
IngestCaseReady == /\ ui = "ready" /\ queue # <<>>
                   /\ Head(queue).kind = "caseReady"
                   /\ queue' = Tail(queue)
                   /\ opened' = Head(queue).run
                   /\ UNCHANGED <<threadVars, controls, cancel, shuttingDown, ui>>

\* WM_INGEST_WORKER_DONE_UI
IngestWorkerDone == /\ ui = "ready" /\ queue # <<>>
                    /\ Head(queue).kind = "done"
                    /\ queue' = Tail(queue)
                    /\ runButton' = TRUE /\ mutation' = TRUE
                    /\ cancelButton' = FALSE
                    /\ UNCHANGED <<threadVars, cancel, shuttingDown, ui, opened>>

\* WM_DESTROY, up to joinIngestThreadNoThrow.
Close == /\ ui = "ready"
         /\ shuttingDown' = TRUE
         /\ cancel' = TRUE
         /\ ui' = "closing"
         /\ UNCHANGED <<threadVars, controls, queue, opened>>

FinishClose == /\ ui = "closing" /\ Joined
               /\ ui' = "gone"
               /\ active' = FALSE /\ handle' = FALSE
               /\ UNCHANGED <<pc, runs, reported, controls, cancel,
                              shuttingDown, queue, opened>>

----------------------------------------------------------------------------
(* The ingest thread.                                                      *)

Move(from, to) == /\ pc = from /\ pc' = to
                  /\ UNCHANGED <<handle, runs, controls, shuttingDown, ui, opened>>

\* worker() reads the option controls with SendMessage.
ReadOptions == /\ ui = "ready"
               /\ Move("reading", "running")
               /\ UNCHANGED <<active, reported, cancel, queue>>

\* The monitor thread mirrors the status file of the pipeline.
PostStatus == /\ Len(queue) < MaxStatus
              /\ Move("running", "running")
              /\ queue' = Append(queue, Note("status"))
              /\ UNCHANGED <<active, reported, cancel>>

\* runApplication returns: complete, failed, or at a checkpoint after cancel.
FinishPipeline == /\ Move("running", "reporting")
                  /\ UNCHANGED <<active, reported, cancel, queue>>

\* An exception skips the report of the run.
Throw == /\ \E from \in {"reading", "running"} : Move(from, "joining")
         /\ queue' = Append(queue, Note("status"))
         /\ UNCHANGED <<active, reported, cancel>>

\* The case folder is read again, with SendMessage, and the case is announced.
Report == /\ ui = "ready"
          /\ Move("reporting", "joining")
          /\ queue' = Append(Append(queue, Note("status")), Note("caseReady"))
          /\ reported' = runs
          /\ UNCHANGED <<active, cancel>>

\* Faulty: the controls come back before the thread stops being active.
JoinMonitorEarlyDone == /\ Move("joining", "inactive")
                        /\ queue' = Append(queue, Note("done"))
                        /\ UNCHANGED <<active, reported, cancel>>

JoinMonitor == /\ Move("joining", "inactive")
               /\ active' = FALSE
               /\ UNCHANGED <<reported, cancel, queue>>

\* Faulty: only a run that was not cancelled gives the controls back.
PostDoneUnlessCancelled ==
  /\ Move("inactive", "finished")
  /\ queue' = IF cancel THEN queue
              ELSE Append(Append(queue, Note("status")), Note("done"))
  /\ UNCHANGED <<active, reported, cancel>>

PostDone == /\ Move("inactive", "finished")
            /\ queue' = IF shuttingDown THEN queue
                        ELSE Append(Append(queue, Note("status")), Note("done"))
            /\ UNCHANGED <<active, reported, cancel>>

Exit == /\ Move("finished", "exited")
        /\ UNCHANGED <<active, reported, cancel, queue>>

----------------------------------------------------------------------------
Handlers == \/ ClickRun \/ StartRun \/ CancelIngest \/ Close \/ FinishClose
            \/ SetIngestStatus \/ IngestCaseReady \/ IngestWorkerDone

Thread == \/ ReadOptions \/ PostStatus \/ FinishPipeline \/ Throw
          \/ Report \/ JoinMonitor \/ PostDone \/ Exit

Next == Handlers \/ Thread

\* The message loop dispatches what is posted, a thread that can go on does,
\* and the pipeline ends (its loops are over finite evidence).
Fairness == /\ WF_vars(SetIngestStatus \/ IngestCaseReady \/ IngestWorkerDone)
            /\ WF_vars(StartRun) /\ WF_vars(FinishClose)
            /\ SF_vars(ReadOptions) /\ SF_vars(Report)
            /\ WF_vars(FinishPipeline)
            /\ WF_vars(JoinMonitor \/ PostDone \/ Exit)

Spec == Init /\ [][Next]_vars
FairSpec == Spec /\ Fairness

----------------------------------------------------------------------------
(* Properties.                                                             *)

Queued(kind) == \E i \in 1..Len(queue) : queue[i].kind = kind

\* While a run is active no control that changes the case, and no second Run,
\* is offered; they come back only after every message of the run that touches
\* them was handled, so an old message never re-enables or overwrites what
\* belongs to the next run.
OfferedOnlyWhenSettled ==
  runButton \/ mutation => ~active /\ ~Queued("caseReady") /\ ~Queued("done")

\* Until it is used, the Cancel button of an active run stays available,
\* whatever status lines of earlier runs are still in the queue.
CancelOffered == active /\ ui = "ready" => (cancelButton <=> ~cancel)

\* When the case controls come back the case on screen is the one the last
\* finished run produced.
ShowsLastCase == mutation => opened = reported

\* A run gives the controls back, unless the window is closed.
RunSettles == active ~> (runButton /\ mutation) \/ shuttingDown

\* "Cancellation requested by investigator.  The worker will stop at the next
\* implemented safe checkpoint.": a run that is asked to cancel stops.
CancelStops == active /\ cancel /\ ~shuttingDown ~> ~active
=============================================================================
