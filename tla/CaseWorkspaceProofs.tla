------------------------- MODULE CaseWorkspaceProofs -------------------------
(***************************************************************************)
(* Proofs about MCCaseWorkspace, for any cases, artifacts, views and view  *)
(* sets and any number of runs and count refreshes; first those about the  *)
(* side it extends, IngestControl, for any queue length.                   *)
(***************************************************************************)
EXTENDS MCCaseWorkspace, AscendingProofs

-----------------------------------------------------------------------------
(* The controls of an ingest.  The properties are not inductive: that the   *)
(* controls come back last rests on the order in which the ingest thread    *)
(* posts, and on FIFO delivery.  IInv says what may still be queued at each *)
(* stage.                                                                   *)

Busy == {"reading", "running", "reporting", "joining"}
Reported == {"joining", "inactive", "finished", "exited"}
Finished == {"finished", "exited"}
Idle == {"none", "finished", "exited"}

\* A thread is busy exactly while it is active, and can be joined until it
\* has left.
ActiveInv == /\ active <=> pc \in Busy
             /\ handle \/ pc \in {"none", "exited"}

\* The two groups of controls go together, and are offered only at rest.
ControlInv == /\ runButton <=> mutation
              /\ runButton => pc \in Idle /\ ~Queued("caseReady") /\ ~Queued("done")
              /\ ui = "starting" => runButton

\* In q, only status lines follow "done".
DoneLast(q) == \A i, j \in 1..Len(q) :
                 q[i].kind = "done" /\ i < j => q[j].kind = "status"

\* "done" is posted by a finished thread, after everything but status lines.
DoneInv == /\ DoneLast(queue)
           /\ Queued("done") => pc \in Finished

\* A queued case is the one reported last, and no other case is queued.
ShowInv == /\ \A i \in 1..Len(queue) :
                queue[i].kind = "caseReady" =>
                  pc \in Reported /\ queue[i].run = reported
           /\ opened = reported \/ Queued("caseReady")

\* A message carries the number of a run that was started.
RunsInv == /\ runs = 0 => pc = "none" /\ ~cancelButton
           /\ ui = "starting" => runs < MaxRuns

IInv == TypeOK /\ RunsInv /\ ActiveInv /\ ControlInv /\ DoneInv /\ ShowInv

-----------------------------------------------------------------------------
(* What posting and taking a message do to the queue.                      *)

LEMMA PostLemma ==
  ASSUME NEW q \in Seq(Message), NEW m \in Message
  PROVE  /\ Append(q, m) \in Seq(Message)
         /\ Len(q) \in Nat
         /\ Len(Append(q, m)) = Len(q) + 1
         /\ \A i \in 1..Len(q) : Append(q, m)[i] = q[i]
         /\ Append(q, m)[Len(q) + 1] = m
  OBVIOUS

LEMMA TakeLemma ==
  ASSUME NEW q \in Seq(Message), q # <<>>
  PROVE  /\ Tail(q) \in Seq(Message)
         /\ Len(q) \in Nat /\ Len(q) >= 1
         /\ Len(Tail(q)) = Len(q) - 1
         /\ \A i \in 1..Len(Tail(q)) : Tail(q)[i] = q[i + 1]
         /\ Head(q) = q[1]
         /\ Head(q) \in Message
  OBVIOUS

\* A status line changes nothing that the invariants look at.
LEMMA PostStatusLemma ==
  ASSUME IInv, NEW m \in Message, m.kind = "status", queue' = Append(queue, m)
  PROVE  /\ queue' \in Seq(Message)
         /\ DoneLast(queue')
         /\ Queued("done")' <=> Queued("done")
         /\ Queued("caseReady")' <=> Queued("caseReady")
         /\ \A i \in 1..Len(queue') :
              queue'[i].kind = "caseReady" => i \in 1..Len(queue) /\ queue'[i] = queue[i]
<1>1. queue \in Seq(Message) /\ DoneLast(queue)
  BY DEF IInv, TypeOK, DoneInv
<1> DEFINE new == Append(queue, m)
<1>2. /\ new \in Seq(Message)
      /\ Len(queue) \in Nat /\ Len(new) = Len(queue) + 1
      /\ \A i \in 1..Len(queue) : new[i] = queue[i]
      /\ new[Len(queue) + 1] = m
  BY <1>1, PostLemma
<1> HIDE DEF new
<1>3. \A i \in 1..Len(new) : i \in 1..Len(queue) \/ i = Len(queue) + 1
  BY <1>2
<1>4. queue' = new
  BY DEF new
<1>5. DoneLast(new)
  BY <1>1, <1>2, <1>3 DEF DoneLast
<1>6. ASSUME NEW k \in {"done", "caseReady"}
      PROVE  (\E i \in 1..Len(new) : new[i].kind = k)
               <=> (\E i \in 1..Len(queue) : queue[i].kind = k)
  BY <1>2, <1>3
<1>7. \A i \in 1..Len(new) :
        new[i].kind = "caseReady" => i \in 1..Len(queue) /\ new[i] = queue[i]
  BY <1>2, <1>3
<1> QED  BY <1>2, <1>4, <1>5, <1>6, <1>7 DEF Queued

\* Taking a message keeps what is known of those behind it.
LEMMA TakeMessageLemma ==
  ASSUME IInv, queue # <<>>, queue' = Tail(queue)
  PROVE  /\ queue' \in Seq(Message)
         /\ Head(queue) \in Message
         /\ DoneLast(queue')
         /\ Queued("done")' => Queued("done")
         /\ Queued("caseReady")' => Queued("caseReady")
         /\ Head(queue).kind # "caseReady" =>
              (Queued("caseReady")' <=> Queued("caseReady"))
         /\ Head(queue).kind = "done" => ~Queued("done")' /\ ~Queued("caseReady")'
         /\ Queued(Head(queue).kind)
         /\ \A i \in 1..Len(queue') :
              i + 1 \in 1..Len(queue) /\ queue'[i] = queue[i + 1]
<1>1. queue \in Seq(Message) /\ DoneLast(queue)
  BY DEF IInv, TypeOK, DoneInv
<1> DEFINE rest == Tail(queue)
<1>2. /\ rest \in Seq(Message)
      /\ Len(queue) \in Nat /\ Len(queue) >= 1 /\ Len(rest) = Len(queue) - 1
      /\ \A i \in 1..Len(rest) : rest[i] = queue[i + 1]
      /\ Head(queue) = queue[1] /\ Head(queue) \in Message
  BY <1>1, TakeLemma
<1> HIDE DEF rest
<1>3. queue' = rest
  BY DEF rest
<1>4. \A i \in 1..Len(rest) : i + 1 \in 1..Len(queue) /\ rest[i] = queue[i + 1]
  BY <1>2
<1>5. DoneLast(rest)
  <2> SUFFICES ASSUME NEW i \in 1..Len(rest), NEW j \in 1..Len(rest),
                      rest[i].kind = "done", i < j
               PROVE  rest[j].kind = "status"
    BY DEF DoneLast
  <2>1. i + 1 \in 1..Len(queue) /\ j + 1 \in 1..Len(queue) /\ i + 1 < j + 1
    BY <1>2
  <2> QED  BY <1>1, <1>4, <2>1 DEF DoneLast
<1>6. ASSUME NEW k
      PROVE  (\E i \in 1..Len(rest) : rest[i].kind = k)
               => \E i \in 1..Len(queue) : queue[i].kind = k
  BY <1>4
<1>7. ASSUME NEW k, Head(queue).kind # k, NEW i \in 1..Len(queue), queue[i].kind = k
      PROVE  \E j \in 1..Len(rest) : rest[j].kind = k
  <2>1. i # 1 /\ i - 1 \in 1..Len(rest)
    BY <1>2, <1>7
  <2>2. rest[i - 1] = queue[i]
    BY <1>2, <2>1
  <2> QED  BY <1>7, <2>1, <2>2
<1>8. ASSUME Head(queue).kind = "done", NEW i \in 1..Len(rest)
      PROVE  rest[i].kind = "status"
  <2>1. 1 \in 1..Len(queue) /\ i + 1 \in 1..Len(queue) /\ 1 < i + 1
    BY <1>2
  <2> QED  BY <1>1, <1>2, <1>8, <2>1 DEF DoneLast
<1>9. Queued(Head(queue).kind)
  BY <1>2 DEF Queued
<1>10. Queued("done")' => Queued("done")
  BY <1>3, <1>6 DEF Queued
<1>11. Queued("caseReady")' => Queued("caseReady")
  BY <1>3, <1>6 DEF Queued
<1>12. Head(queue).kind # "caseReady" /\ Queued("caseReady") => Queued("caseReady")'
  BY <1>3, <1>7 DEF Queued
<1>13. Head(queue).kind = "done" => ~Queued("done")' /\ ~Queued("caseReady")'
  BY <1>3, <1>8 DEF Queued
<1> QED  BY <1>2, <1>3, <1>4, <1>5, <1>9, <1>10, <1>11, <1>12, <1>13

-----------------------------------------------------------------------------
LEMMA InitInv == Init => IInv
<1> SUFFICES ASSUME Init PROVE IInv
  OBVIOUS
<1>1. MaxRuns \in Nat /\ 0 \in 0..MaxRuns
  BY RunsAssumption
<1>2. queue = <<>> /\ Len(queue) = 0 /\ queue \in Seq(Message)
  BY DEF Init
<1>3. runs \in 0..MaxRuns /\ reported \in 0..MaxRuns /\ opened \in 0..MaxRuns
  BY <1>1 DEF Init
<1>4. pc \in Stage
  BY DEF Init, Stage
<1>5. TypeOK
  BY <1>2, <1>3, <1>4 DEF Init, TypeOK
<1>6. ActiveInv
  BY DEF Init, ActiveInv, Busy
<1>7. \A k : ~Queued(k)
  BY <1>2 DEF Queued
<1>8. ControlInv
  BY <1>7 DEF Init, ControlInv, Idle
<1>9. DoneInv /\ ShowInv
  BY <1>2, <1>7 DEF Init, DoneInv, DoneLast, ShowInv
<1>10. RunsInv
  BY DEF Init, RunsInv
<1> QED  BY <1>5, <1>6, <1>8, <1>9, <1>10 DEF IInv

\* Steps that leave the queue alone need to be looked at only for the stage
\* of the thread and for the controls.
LEMMA SameQueue ==
  ASSUME IInv, UNCHANGED queue
  PROVE  /\ DoneLast(queue')
         /\ Queued("done")' <=> Queued("done")
         /\ Queued("caseReady")' <=> Queued("caseReady")
BY DEF IInv, DoneInv, DoneLast, Queued

LEMMA ClickRunInv == ASSUME IInv, ClickRun PROVE IInv'
<1>1. /\ DoneLast(queue')
      /\ Queued("done")' <=> Queued("done")
      /\ Queued("caseReady")' <=> Queued("caseReady")
  BY SameQueue DEF ClickRun
<1>2. TypeOK'
  BY DEF IInv, TypeOK, ClickRun, threadVars, controls
<1>3. ActiveInv' /\ ControlInv'
  BY <1>1 DEF IInv, ActiveInv, ControlInv, ClickRun, threadVars, controls
<1>4. DoneInv' /\ ShowInv'
  BY <1>1 DEF IInv, DoneInv, ShowInv, ClickRun, threadVars, controls
<1>5. RunsInv'
  BY DEF IInv, RunsInv, ClickRun, threadVars, controls
<1> QED  BY <1>2, <1>3, <1>4, <1>5 DEF IInv

LEMMA StartRunInv == ASSUME IInv, StartRun PROVE IInv'
<1>1. CASE active
  \* This branch is never taken: a run is offered only at rest.
  <2>1. pc \in Busy /\ pc \in Idle
    BY <1>1 DEF IInv, ActiveInv, ControlInv, StartRun
  <2> QED  BY <2>1 DEF Busy, Idle
<1>2. CASE ~active
  <2> DEFINE m == [kind |-> "status", run |-> runs + 1]
  <2>1. runs \in 0..MaxRuns /\ runs < MaxRuns /\ MaxRuns \in Nat
    BY RunsAssumption DEF IInv, TypeOK, RunsInv, StartRun
  <2>2. runs + 1 \in 1..MaxRuns /\ runs + 1 \in 0..MaxRuns /\ runs + 1 # 0
    BY <2>1
  <2>3. m \in Message /\ m.kind = "status"
    BY <2>2 DEF Message, Run
  <2>4. queue' = Append(queue, m)
    BY <1>2 DEF StartRun
  <2> HIDE DEF m
  <2>5. /\ queue' \in Seq(Message)
        /\ DoneLast(queue')
        /\ Queued("done")' <=> Queued("done")
        /\ Queued("caseReady")' <=> Queued("caseReady")
    BY <2>3, <2>4, PostStatusLemma
  <2>6. ~Queued("done") /\ ~Queued("caseReady")
    BY DEF IInv, ControlInv, StartRun
  <2>7. runs' = runs + 1 /\ reported' = reported /\ opened' = opened /\ ui' = "ready"
    BY <1>2 DEF StartRun
  <2>8. \/ /\ active' = TRUE /\ handle' = TRUE /\ pc' = "reading"
           /\ runButton' = FALSE /\ mutation' = FALSE
        \/ /\ active' = FALSE /\ handle' = FALSE /\ pc' = "none"
           /\ runButton' = TRUE /\ mutation' = TRUE
    BY <1>2 DEF StartRun
  <2>9. TypeOK'
    <3>1. runs' \in 0..MaxRuns /\ reported' \in 0..MaxRuns /\ opened' \in 0..MaxRuns
      BY <2>2, <2>7 DEF IInv, TypeOK
    <3>2. /\ active' \in BOOLEAN /\ cancel' \in BOOLEAN /\ handle' \in BOOLEAN
          /\ shuttingDown' \in BOOLEAN /\ runButton' \in BOOLEAN
          /\ cancelButton' \in BOOLEAN /\ mutation' \in BOOLEAN
      BY <1>2 DEF IInv, TypeOK, StartRun
    <3>3. pc' \in Stage
      BY <2>8 DEF Stage
    <3> QED  BY <2>5, <2>7, <3>1, <3>2, <3>3 DEF TypeOK
  <2>10. ActiveInv'
    BY <2>8 DEF ActiveInv, Busy
  <2>11. ControlInv'
    BY <2>5, <2>6, <2>7, <2>8 DEF ControlInv, Idle
  <2>12. DoneInv'
    BY <2>5, <2>6 DEF DoneInv
  <2>13. ShowInv'
    BY <2>5, <2>6, <2>7 DEF IInv, ShowInv, Queued
  <2>14. RunsInv'
    BY <2>2, <2>7 DEF RunsInv
  <2> QED  BY <2>9, <2>10, <2>11, <2>12, <2>13, <2>14 DEF IInv
<1> QED  BY <1>1, <1>2

\* Messages carry the number of the newest run.
LEMMA NoteLemma ==
  ASSUME IInv, runs # 0, NEW kind \in {"status", "caseReady", "done"}
  PROVE  Note(kind) \in Message /\ Note(kind).kind = kind /\ Note(kind).run = runs
<1>1. runs \in 0..MaxRuns /\ MaxRuns \in Nat
  BY RunsAssumption DEF IInv, TypeOK
<1>2. runs \in 1..MaxRuns
  BY <1>1
<1> QED  BY <1>2 DEF Note, Message, Run

\* Posting one more status line, in a step that touches no other message.
LEMMA PostStatusInv ==
  ASSUME IInv, runs # 0, queue' = Append(queue, Note("status")),
         UNCHANGED <<reported, opened>>
  PROVE  /\ queue' \in Seq(Message) /\ DoneLast(queue')
         /\ Queued("done")' <=> Queued("done")
         /\ Queued("caseReady")' <=> Queued("caseReady")
         /\ (pc \in Reported => pc' \in Reported) => ShowInv'
<1>1. Note("status") \in Message /\ Note("status").kind = "status"
  BY NoteLemma
<1>2. /\ queue' \in Seq(Message) /\ DoneLast(queue')
      /\ Queued("done")' <=> Queued("done")
      /\ Queued("caseReady")' <=> Queued("caseReady")
      /\ \A i \in 1..Len(queue') :
           queue'[i].kind = "caseReady" => i \in 1..Len(queue) /\ queue'[i] = queue[i]
  BY <1>1, PostStatusLemma
<1>3. ASSUME pc \in Reported => pc' \in Reported
      PROVE  ShowInv'
  BY <1>2, <1>3 DEF IInv, ShowInv
<1> QED  BY <1>2, <1>3

LEMMA CancelIngestInv == ASSUME IInv, CancelIngest PROVE IInv'
<1>1. runs # 0
  BY DEF IInv, RunsInv, CancelIngest
<1>2. /\ queue' = Append(queue, Note("status"))
      /\ UNCHANGED <<active, handle, pc, runs, reported, runButton, mutation,
                     shuttingDown, ui, opened>>
      /\ cancel' = TRUE /\ cancelButton' = FALSE
  BY DEF CancelIngest, threadVars
<1>3. /\ queue' \in Seq(Message) /\ DoneLast(queue')
      /\ Queued("done")' <=> Queued("done")
      /\ Queued("caseReady")' <=> Queued("caseReady")
      /\ ShowInv'
  BY <1>1, <1>2, PostStatusInv
<1>4. TypeOK'
  BY <1>2, <1>3 DEF IInv, TypeOK
<1>5. ActiveInv' /\ ControlInv' /\ DoneInv'
  BY <1>2, <1>3 DEF IInv, ActiveInv, ControlInv, DoneInv
<1>6. RunsInv'
  BY <1>2 DEF IInv, RunsInv
<1> QED  BY <1>3, <1>4, <1>5, <1>6 DEF IInv

\* Taking a message that is not a case.
LEMMA TakeOther ==
  ASSUME IInv, queue # <<>>, Head(queue).kind # "caseReady", queue' = Tail(queue),
         UNCHANGED <<pc, reported, opened>>
  PROVE  ShowInv' /\ DoneInv' /\ queue' \in Seq(Message)
<1>1. /\ queue' \in Seq(Message) /\ DoneLast(queue')
      /\ Queued("done")' => Queued("done")
      /\ Queued("caseReady")' <=> Queued("caseReady")
      /\ \A i \in 1..Len(queue') : i + 1 \in 1..Len(queue) /\ queue'[i] = queue[i + 1]
  BY TakeMessageLemma
<1>2. DoneInv'
  BY <1>1 DEF IInv, DoneInv
<1>3. ShowInv'
  BY <1>1 DEF IInv, ShowInv
<1> QED  BY <1>1, <1>2, <1>3

LEMMA SetIngestStatusInv == ASSUME IInv, SetIngestStatus PROVE IInv'
<1>1. /\ queue # <<>> /\ Head(queue).kind = "status" /\ queue' = Tail(queue)
      /\ cancelButton' = (cancelButton /\ active)
      /\ UNCHANGED <<active, handle, pc, runs, reported, runButton, mutation,
                     cancel, shuttingDown, ui, opened>>
  BY DEF SetIngestStatus, threadVars
<1>2. ShowInv' /\ DoneInv' /\ queue' \in Seq(Message)
  BY <1>1, TakeOther
<1>3. Queued("done")' => Queued("done")
  BY <1>1, TakeMessageLemma
<1>4. Queued("caseReady")' => Queued("caseReady")
  BY <1>1, TakeMessageLemma
<1>5. cancelButton' \in BOOLEAN
  BY <1>1
<1>6. TypeOK'
  BY <1>1, <1>2, <1>5 DEF IInv, TypeOK
<1>7. ActiveInv' /\ ControlInv'
  BY <1>1, <1>3, <1>4 DEF IInv, ActiveInv, ControlInv
<1>8. RunsInv'
  BY <1>1 DEF IInv, RunsInv
<1> QED  BY <1>2, <1>6, <1>7, <1>8 DEF IInv

LEMMA IngestCaseReadyInv == ASSUME IInv, IngestCaseReady PROVE IInv'
<1>1. /\ queue # <<>> /\ Head(queue).kind = "caseReady" /\ queue' = Tail(queue)
      /\ opened' = Head(queue).run
      /\ UNCHANGED <<active, handle, pc, runs, reported, runButton, cancelButton,
                     mutation, cancel, shuttingDown, ui>>
  BY DEF IngestCaseReady, threadVars, controls
<1>2. /\ queue' \in Seq(Message) /\ DoneLast(queue')
      /\ Queued("done")' => Queued("done")
      /\ Queued("caseReady")' => Queued("caseReady")
      /\ \A i \in 1..Len(queue') : i + 1 \in 1..Len(queue) /\ queue'[i] = queue[i + 1]
  BY <1>1, TakeMessageLemma
<1>3. 1 \in 1..Len(queue) /\ Head(queue) = queue[1]
  <2>1. queue \in Seq(Message)
    BY DEF IInv, TypeOK
  <2> QED  BY <1>1, <2>1, TakeLemma
<1>4. opened' = reported
  BY <1>1, <1>3 DEF IInv, ShowInv
<1>5. TypeOK'
  BY <1>1, <1>2, <1>4 DEF IInv, TypeOK
<1>6. ActiveInv' /\ ControlInv' /\ DoneInv'
  BY <1>1, <1>2 DEF IInv, ActiveInv, ControlInv, DoneInv
<1>7. ShowInv'
  BY <1>1, <1>2, <1>4 DEF IInv, ShowInv
<1>8. RunsInv'
  BY <1>1 DEF IInv, RunsInv
<1> QED  BY <1>5, <1>6, <1>7, <1>8 DEF IInv

LEMMA IngestWorkerDoneInv == ASSUME IInv, IngestWorkerDone PROVE IInv'
<1>1. /\ queue # <<>> /\ Head(queue).kind = "done" /\ queue' = Tail(queue)
      /\ runButton' = TRUE /\ mutation' = TRUE /\ cancelButton' = FALSE
      /\ UNCHANGED <<active, handle, pc, runs, reported, cancel, shuttingDown,
                     ui, opened>>
      /\ ui = "ready"
  BY DEF IngestWorkerDone, threadVars
<1>2. ShowInv' /\ DoneInv' /\ queue' \in Seq(Message)
  BY <1>1, TakeOther
<1>3. ~Queued("done")' /\ ~Queued("caseReady")' /\ Queued("done")
  BY <1>1, TakeMessageLemma
<1>4. pc \in Finished
  BY <1>3 DEF IInv, DoneInv
<1>5. TypeOK'
  BY <1>1, <1>2 DEF IInv, TypeOK
<1>6. ActiveInv'
  BY <1>1 DEF IInv, ActiveInv
<1>7. ControlInv'
  BY <1>1, <1>3, <1>4 DEF IInv, ControlInv, Finished, Idle
<1>8. RunsInv'
  BY <1>1 DEF IInv, RunsInv
<1> QED  BY <1>2, <1>5, <1>6, <1>7, <1>8 DEF IInv

LEMMA CloseInv == ASSUME IInv, Close PROVE IInv'
<1>1. /\ DoneLast(queue')
      /\ Queued("done")' <=> Queued("done")
      /\ Queued("caseReady")' <=> Queued("caseReady")
  BY SameQueue DEF Close
<1>2. TypeOK'
  BY DEF IInv, TypeOK, Close, threadVars, controls
<1>3. ActiveInv' /\ ControlInv'
  BY <1>1 DEF IInv, ActiveInv, ControlInv, Close, threadVars, controls
<1>4. DoneInv' /\ ShowInv' /\ RunsInv'
  BY <1>1 DEF IInv, DoneInv, ShowInv, RunsInv, Close, threadVars, controls
<1> QED  BY <1>2, <1>3, <1>4 DEF IInv

LEMMA FinishCloseInv == ASSUME IInv, FinishClose PROVE IInv'
<1>1. /\ DoneLast(queue')
      /\ Queued("done")' <=> Queued("done")
      /\ Queued("caseReady")' <=> Queued("caseReady")
  BY SameQueue DEF FinishClose
<1>2. TypeOK'
  BY DEF IInv, TypeOK, FinishClose, controls
<1>3. ActiveInv'
  BY DEF IInv, ActiveInv, FinishClose, Joined, Busy, controls
<1>4. ControlInv'
  BY <1>1 DEF IInv, ControlInv, FinishClose, controls
<1>5. DoneInv' /\ ShowInv' /\ RunsInv'
  BY <1>1 DEF IInv, DoneInv, ShowInv, RunsInv, FinishClose, controls
<1> QED  BY <1>2, <1>3, <1>4, <1>5 DEF IInv

-----------------------------------------------------------------------------
(* The ingest thread.                                                      *)

\* A step of the thread that posts nothing and stays on the same side of the
\* report.
LEMMA QuietMoveInv ==
  ASSUME IInv, NEW from \in Stage, NEW to \in Stage, Move(from, to),
         UNCHANGED <<reported, cancel, queue>>, active' \in BOOLEAN,
         active' <=> to \in Busy, from # "none", from # "exited",
         from \in Reported => to \in Reported,
         from \in Finished => to \in Finished,
         from \in Idle => to \in Idle
  PROVE  IInv'
<1>1. /\ pc = from /\ pc' = to
      /\ UNCHANGED <<handle, runs, runButton, cancelButton, mutation,
                     shuttingDown, ui, opened>>
  BY DEF Move, controls
<1>2. /\ DoneLast(queue')
      /\ Queued("done")' <=> Queued("done")
      /\ Queued("caseReady")' <=> Queued("caseReady")
  BY SameQueue
<1>3. TypeOK'
  BY <1>1 DEF IInv, TypeOK
<1>4. handle
  BY <1>1 DEF IInv, ActiveInv
<1>5. ActiveInv'
  BY <1>1, <1>4 DEF ActiveInv
<1>6. ControlInv'
  BY <1>1, <1>2 DEF IInv, ControlInv
<1>7. DoneInv'
  BY <1>1, <1>2 DEF IInv, DoneInv
<1>8. ShowInv'
  BY <1>1, <1>2 DEF IInv, ShowInv
<1>9. RunsInv'
  BY <1>1 DEF IInv, RunsInv
<1> QED  BY <1>3, <1>5, <1>6, <1>7, <1>8, <1>9 DEF IInv

LEMMA ReadOptionsInv == ASSUME IInv, ReadOptions PROVE IInv'
<1>1. Move("reading", "running") /\ UNCHANGED <<active, reported, cancel, queue>>
  BY DEF ReadOptions
<1>2. active' \in BOOLEAN /\ active'
  BY <1>1 DEF IInv, TypeOK, ActiveInv, Move, Busy
<1> QED  BY <1>1, <1>2, QuietMoveInv DEF Stage, Busy, Reported, Finished, Idle

LEMMA FinishPipelineInv == ASSUME IInv, FinishPipeline PROVE IInv'
<1>1. Move("running", "reporting") /\ UNCHANGED <<active, reported, cancel, queue>>
  BY DEF FinishPipeline
<1>2. active' \in BOOLEAN /\ active'
  BY <1>1 DEF IInv, TypeOK, ActiveInv, Move, Busy
<1> QED  BY <1>1, <1>2, QuietMoveInv DEF Stage, Busy, Reported, Finished, Idle

LEMMA JoinMonitorInv == ASSUME IInv, JoinMonitor PROVE IInv'
<1>1. Move("joining", "inactive") /\ UNCHANGED <<reported, cancel, queue>>
  BY DEF JoinMonitor
<1>2. active' \in BOOLEAN /\ ~active'
  BY DEF JoinMonitor
<1> QED  BY <1>1, <1>2, QuietMoveInv DEF Stage, Busy, Reported, Finished, Idle

LEMMA ExitInv == ASSUME IInv, Exit PROVE IInv'
<1>1. Move("finished", "exited") /\ UNCHANGED <<active, reported, cancel, queue>>
  BY DEF Exit
<1>2. active' \in BOOLEAN /\ ~active'
  BY <1>1 DEF IInv, TypeOK, ActiveInv, Move, Busy
<1> QED  BY <1>1, <1>2, QuietMoveInv DEF Stage, Busy, Reported, Finished, Idle

\* A step of a busy thread that posts a status line.
LEMMA StatusMoveInv ==
  ASSUME IInv, NEW from \in Busy, NEW to \in Busy, Move(from, to),
         queue' = Append(queue, Note("status")),
         UNCHANGED <<active, reported, cancel>>,
         from \in Reported => to \in Reported
  PROVE  IInv'
<1>1. /\ pc = from /\ pc' = to
      /\ UNCHANGED <<handle, runs, runButton, cancelButton, mutation,
                     shuttingDown, ui, opened>>
  BY DEF Move, controls
<1>2. runs # 0 /\ handle
  BY <1>1 DEF IInv, RunsInv, ActiveInv, Busy
<1>3. /\ queue' \in Seq(Message) /\ DoneLast(queue')
      /\ Queued("done")' <=> Queued("done")
      /\ Queued("caseReady")' <=> Queued("caseReady")
      /\ ShowInv'
  BY <1>1, <1>2, PostStatusInv
<1>4. pc' \in Stage
  BY <1>1 DEF Busy, Stage
<1>5. TypeOK'
  BY <1>1, <1>3, <1>4 DEF IInv, TypeOK
<1>6. ActiveInv'
  BY <1>1, <1>2 DEF IInv, ActiveInv
<1>7. ~runButton /\ ~Queued("done")
  BY <1>1 DEF IInv, ControlInv, DoneInv, Busy, Idle, Finished
<1>8. ControlInv'
  BY <1>1, <1>7 DEF IInv, ControlInv
<1>9. DoneInv' /\ RunsInv'
  BY <1>1, <1>2, <1>3, <1>7 DEF IInv, DoneInv, RunsInv
<1> QED  BY <1>3, <1>5, <1>6, <1>8, <1>9 DEF IInv

LEMMA PostStatusStepInv == ASSUME IInv, PostStatus PROVE IInv'
BY StatusMoveInv DEF PostStatus, Busy, Reported

LEMMA ThrowInv == ASSUME IInv, Throw PROVE IInv'
<1>1. PICK from \in {"reading", "running"} : Move(from, "joining")
  BY DEF Throw
<1> QED  BY <1>1, StatusMoveInv DEF Throw, Busy, Reported

\* Posting a status line and then one more message.
LEMMA PostTwoLemma ==
  ASSUME IInv, runs # 0, NEW kind \in {"caseReady", "done"}, ~Queued("done"),
         queue' = Append(Append(queue, Note("status")), Note(kind))
  PROVE  /\ queue' \in Seq(Message) /\ DoneLast(queue')
         /\ Queued("done")' <=> kind = "done"
         /\ Queued("caseReady")' <=> Queued("caseReady") \/ kind = "caseReady"
         /\ \A i \in 1..Len(queue') :
              queue'[i].kind = "caseReady" =>
                \/ i \in 1..Len(queue) /\ queue'[i] = queue[i]
                \/ kind = "caseReady" /\ queue'[i].run = runs
<1>1. /\ queue \in Seq(Message) /\ kind # "status"
      /\ Note("status") \in Message /\ Note("status").kind = "status"
      /\ Note(kind) \in Message /\ Note(kind).kind = kind /\ Note(kind).run = runs
  BY NoteLemma DEF IInv, TypeOK
<1> DEFINE one == Append(queue, Note("status"))
<1> DEFINE two == Append(one, Note(kind))
<1>2. /\ one \in Seq(Message)
      /\ Len(queue) \in Nat /\ Len(one) = Len(queue) + 1
      /\ \A i \in 1..Len(queue) : one[i] = queue[i]
      /\ one[Len(queue) + 1] = Note("status")
  BY <1>1, PostLemma
<1> HIDE DEF one
<1>3. /\ two \in Seq(Message)
      /\ Len(two) = Len(one) + 1
      /\ \A i \in 1..Len(one) : two[i] = one[i]
      /\ two[Len(one) + 1] = Note(kind)
  BY <1>1, <1>2, PostLemma
<1>4. queue' = two
  BY DEF one, two
<1> HIDE DEF two
<1>5. /\ Len(two) = Len(queue) + 2
      /\ \A i \in 1..Len(queue) : two[i] = queue[i]
      /\ two[Len(queue) + 1].kind = "status"
      /\ two[Len(queue) + 2].kind = kind /\ two[Len(queue) + 2].run = runs
  <2>1. Len(two) = Len(queue) + 2 /\ Len(one) + 1 = Len(queue) + 2
    BY <1>2, <1>3
  <2>2. \A i \in 1..Len(queue) : two[i] = queue[i]
    BY <1>2, <1>3
  <2>3. two[Len(queue) + 1] = Note("status")
    BY <1>2, <1>3
  <2>4. two[Len(queue) + 2] = Note(kind)
    BY <1>2, <1>3
  <2> QED  BY <1>1, <2>1, <2>2, <2>3, <2>4
<1>6. \A i \in 1..Len(two) :
        i \in 1..Len(queue) \/ i = Len(queue) + 1 \/ i = Len(queue) + 2
  BY <1>2, <1>5
<1>7. \A i \in 1..Len(queue) : queue[i].kind # "done"
  BY DEF Queued
<1>8. DoneLast(two)
  BY <1>1, <1>2, <1>5, <1>6, <1>7 DEF DoneLast
<1>9. (\E i \in 1..Len(two) : two[i].kind = "done") <=> kind = "done"
  BY <1>1, <1>2, <1>5, <1>6, <1>7
<1>10. (\E i \in 1..Len(two) : two[i].kind = "caseReady")
         <=> \/ \E i \in 1..Len(queue) : queue[i].kind = "caseReady"
             \/ kind = "caseReady"
  BY <1>1, <1>2, <1>5, <1>6
<1>11. \A i \in 1..Len(two) :
         two[i].kind = "caseReady" =>
           \/ i \in 1..Len(queue) /\ two[i] = queue[i]
           \/ kind = "caseReady" /\ two[i].run = runs
  BY <1>1, <1>5, <1>6
<1> QED  BY <1>3, <1>4, <1>8, <1>9, <1>10, <1>11 DEF Queued

LEMMA ReportInv == ASSUME IInv, Report PROVE IInv'
<1>1. /\ pc = "reporting" /\ pc' = "joining" /\ reported' = runs
      /\ queue' = Append(Append(queue, Note("status")), Note("caseReady"))
      /\ UNCHANGED <<active, cancel, handle, runs, runButton, cancelButton,
                     mutation, shuttingDown, ui, opened>>
  BY DEF Report, Move, controls
<1>2. /\ runs # 0 /\ handle /\ active /\ ~runButton
      /\ ~Queued("done") /\ \A i \in 1..Len(queue) : queue[i].kind # "caseReady"
  BY <1>1 DEF IInv, RunsInv, ActiveInv, ControlInv, DoneInv, ShowInv, Busy,
              Reported, Finished, Idle
<1>3. /\ queue' \in Seq(Message) /\ DoneLast(queue')
      /\ ~Queued("done")' /\ Queued("caseReady")'
      /\ \A i \in 1..Len(queue') :
           queue'[i].kind = "caseReady" =>
             \/ i \in 1..Len(queue) /\ queue'[i] = queue[i]
             \/ queue'[i].run = runs
  BY <1>1, <1>2, PostTwoLemma
<1>4. pc' \in Stage /\ pc' \in Busy /\ pc' \in Reported /\ runs \in 0..MaxRuns
  BY <1>1 DEF IInv, TypeOK, Stage, Busy, Reported
<1>5. TypeOK'
  BY <1>1, <1>3, <1>4 DEF IInv, TypeOK
<1>6. ActiveInv'
  BY <1>1, <1>2, <1>4 DEF ActiveInv
<1>7. ControlInv'
  BY <1>1, <1>2 DEF IInv, ControlInv
<1>8. DoneInv' /\ RunsInv'
  BY <1>1, <1>2, <1>3 DEF IInv, DoneInv, RunsInv
<1>9. ShowInv'
  BY <1>1, <1>2, <1>3, <1>4 DEF ShowInv
<1> QED  BY <1>5, <1>6, <1>7, <1>8, <1>9 DEF IInv

LEMMA PostDoneInv == ASSUME IInv, PostDone PROVE IInv'
<1>1. /\ pc = "inactive" /\ Move("inactive", "finished")
      /\ UNCHANGED <<active, reported, cancel>>
  BY DEF PostDone, Move
<1>2. ~active /\ active \in BOOLEAN
  BY <1>1 DEF IInv, TypeOK, ActiveInv, Busy
<1>3. CASE shuttingDown
  <2>1. UNCHANGED queue
    BY <1>3 DEF PostDone
  <2>2. UNCHANGED <<reported, cancel, queue>> /\ active' \in BOOLEAN /\ ~active'
    BY <1>1, <1>2, <2>1
  <2> QED  BY <1>1, <2>2, QuietMoveInv DEF Stage, Busy, Reported, Finished, Idle
<1>4. CASE ~shuttingDown
  <2>1. /\ pc' = "finished"
        /\ queue' = Append(Append(queue, Note("status")), Note("done"))
        /\ UNCHANGED <<active, cancel, handle, runs, reported, runButton,
                       cancelButton, mutation, shuttingDown, ui, opened>>
    BY <1>1, <1>4 DEF PostDone, Move, controls
  <2>2. runs # 0 /\ handle /\ ~runButton /\ ~Queued("done")
    BY <1>1 DEF IInv, RunsInv, ActiveInv, ControlInv, DoneInv, Finished, Idle
  <2>3. /\ queue' \in Seq(Message) /\ DoneLast(queue')
        /\ Queued("caseReady")' <=> Queued("caseReady")
        /\ \A i \in 1..Len(queue') :
             queue'[i].kind = "caseReady" =>
               i \in 1..Len(queue) /\ queue'[i] = queue[i]
    BY <2>1, <2>2, PostTwoLemma
  <2>4. pc' \in Stage /\ pc' \notin Busy /\ pc' \in Reported /\ pc' \in Finished
    BY <2>1 DEF Stage, Busy, Reported, Finished
  <2>5. TypeOK'
    BY <2>1, <2>3, <2>4 DEF IInv, TypeOK
  <2>6. ActiveInv'
    BY <1>2, <2>1, <2>2, <2>4 DEF ActiveInv
  <2>7. ControlInv'
    BY <2>1, <2>2 DEF IInv, ControlInv
  <2>8. DoneInv' /\ RunsInv'
    BY <2>1, <2>2, <2>3, <2>4 DEF IInv, DoneInv, RunsInv
  <2>9. ShowInv'
    BY <2>1, <2>3, <2>4 DEF IInv, ShowInv
  <2> QED  BY <2>5, <2>6, <2>7, <2>8, <2>9 DEF IInv
<1> QED  BY <1>3, <1>4

-----------------------------------------------------------------------------
LEMMA StutterInv == ASSUME IInv, UNCHANGED vars PROVE IInv'
<1>1. UNCHANGED <<active, cancel, handle, shuttingDown, runButton, cancelButton,
                  mutation, queue, ui, pc, runs, reported, opened>>
  BY DEF vars, threadVars, controls
<1>2. TypeOK' /\ RunsInv' /\ ActiveInv'
  BY <1>1 DEF IInv, TypeOK, RunsInv, ActiveInv
<1>3. ControlInv' /\ DoneInv' /\ ShowInv'
  BY <1>1 DEF IInv, ControlInv, DoneInv, DoneLast, ShowInv, Queued
<1> QED  BY <1>2, <1>3 DEF IInv

LEMMA NextInv == IInv /\ [Next]_vars => IInv'
<1> SUFFICES ASSUME IInv, [Next]_vars PROVE IInv'
  OBVIOUS
<1>1. CASE Handlers
  BY <1>1, ClickRunInv, StartRunInv, CancelIngestInv, CloseInv, FinishCloseInv,
     SetIngestStatusInv, IngestCaseReadyInv, IngestWorkerDoneInv DEF Handlers
<1>2. CASE Thread
  BY <1>2, ReadOptionsInv, PostStatusStepInv, FinishPipelineInv, ThrowInv,
     ReportInv, JoinMonitorInv, PostDoneInv, ExitInv DEF Thread
<1>3. CASE UNCHANGED vars
  BY <1>3, StutterInv
<1> QED  BY <1>1, <1>2, <1>3 DEF Next

\* The inductive invariant holds in every state of every behaviour.
THEOREM IngestInvariance == Spec => []IInv
BY InitInv, NextInv, PTL DEF Spec

\* The state of the run controls keeps its type, and every queued message is
\* one the ingest thread or a handler of the window posted for a started run.
THEOREM IngestTypeCorrect == Spec => []TypeOK
<1>1. IInv => TypeOK
  BY DEF IInv
<1> QED  BY <1>1, IngestInvariance, PTL

\* Run and the case controls are offered only when the ingest thread is idle
\* and none of its case or completion messages is still queued.
THEOREM ControlsOfferedWhenSettled == Spec => []OfferedOnlyWhenSettled
<1>1. IInv => OfferedOnlyWhenSettled
  BY DEF IInv, ActiveInv, ControlInv, OfferedOnlyWhenSettled, Idle, Busy
<1> QED  BY <1>1, IngestInvariance, PTL

\* When the case controls are offered, the case on screen is the one the last
\* finished run produced.
THEOREM LastCaseShown == Spec => []ShowsLastCase
<1>1. IInv => ShowsLastCase
  BY DEF IInv, ControlInv, ShowInv, ShowsLastCase
<1> QED  BY <1>1, IngestInvariance, PTL

\* A status line of an earlier run leaves the Cancel button of an active run
\* alone, and the only message that would take it away comes when none is.
LEMMA CancelOfferedStep == IInv /\ CancelOffered /\ [Next]_vars => CancelOffered'
<1> SUFFICES ASSUME IInv, CancelOffered, [Next]_vars, active', ui' = "ready"
             PROVE  cancelButton' <=> ~cancel'
  BY DEF CancelOffered
<1>0. active \in BOOLEAN /\ cancel \in BOOLEAN /\ cancelButton \in BOOLEAN
  BY DEF IInv, TypeOK
<1>1. CASE UNCHANGED vars
  BY <1>1 DEF vars, threadVars, controls, CancelOffered
<1>2. CASE StartRun
  <2>1. ~active
    BY <1>2 DEF StartRun, IInv, ControlInv, ActiveInv, Busy, Idle
  <2>2. QED BY <1>2, <2>1 DEF StartRun
<1>3. CASE CancelIngest
  BY <1>3 DEF CancelIngest
<1>4. CASE SetIngestStatus
  BY <1>0, <1>4 DEF SetIngestStatus, threadVars, CancelOffered
<1>5. CASE IngestCaseReady
  BY <1>5 DEF IngestCaseReady, threadVars, controls, CancelOffered
<1>6. CASE IngestWorkerDone
  <2>1. queue # <<>> /\ Head(queue).kind = "done" /\ active
    BY <1>6 DEF IngestWorkerDone, threadVars
  <2>2. Queued("done")
    <3>1. 1 \in 1..Len(queue) /\ queue[1].kind = "done"
      BY <2>1, TakeLemma DEF IInv, TypeOK
    <3>2. QED BY <3>1 DEF Queued
  <2>3. QED BY <2>1, <2>2 DEF IInv, DoneInv, ActiveInv, Finished, Busy
<1>7. CASE ClickRun \/ Close \/ FinishClose
  BY <1>7 DEF ClickRun, Close, FinishClose
<1>8. CASE Thread
  <2>1. UNCHANGED <<controls, ui, cancel>> /\ (active' = active \/ active' = FALSE)
    BY <1>8 DEF Thread, ReadOptions, PostStatus, FinishPipeline, Throw, Report, JoinMonitor,
                PostDone, Exit, Move
  <2>2. QED BY <2>1 DEF controls, CancelOffered
<1>9. QED BY <1>1, <1>2, <1>3, <1>4, <1>5, <1>6, <1>7, <1>8 DEF Next, Handlers

\* The Cancel button of an active run is there until it is used, for any number
\* of runs and whatever is still queued of those before it.
THEOREM CancelStaysOffered == Spec => []CancelOffered
<1>1. Init => CancelOffered
  BY DEF Init, CancelOffered
<1>2. QED BY <1>1, IngestInvariance, CancelOfferedStep, PTL DEF Spec

-----------------------------------------------------------------------------
(* The case workspace.                                                     *)

\* A run that is going on has a case; and memory and database agree.
CaseInv == /\ C!TypeOK /\ C!ChecksAgree
           /\ ingest = "running" => target \in Case

\* No case is open at first.
LEMMA InitCase == C!Init => CaseInv
<1> SUFFICES ASSUME C!Init PROVE CaseInv
  OBVIOUS
<1>1. C!TypeOK
  <2>1. info \in [Case -> C!Text]
    BY DEF C!Init, C!Text
  <2>2. ingests \in 0..MaxIngests
    BY WorkspaceAssumptions DEF C!Init, C!IngestAssumption
  <2> QED BY <2>1, <2>2 DEF C!Init, C!TypeOK, C!Text
<1>2. C!ChecksAgree
  BY DEF C!Init, C!ChecksAgree
<1> QED BY <1>1, <1>2 DEF CaseInv, C!Init

\* What saving does: nothing while a run is going on or there is nothing to save
\* to, and otherwise the information, never the checks, of the case it is for.
LEMMA SaveLemma ==
  ASSUME CaseInv, C!Save
  PROVE  /\ opened' \in Case \cup {NoCase} /\ loaded' \in {opened', NoCase}
         /\ loaded' # NoCase => loaded' = loaded
         /\ info' \in [Case -> C!Text] /\ dirty' \in BOOLEAN
<1>1. C!SaveTarget \in Case \cup {NoCase}
  BY DEF CaseInv, C!TypeOK, C!SaveTarget
<1>2. CASE ingest = "running" \/ C!SaveTarget = NoCase
  BY <1>2 DEF C!Save, CaseInv, C!TypeOK
<1>3. CASE ~(ingest = "running" \/ C!SaveTarget = NoCase)
  BY <1>1, <1>3 DEF C!Save, C!SaveTarget, CaseInv, C!TypeOK
<1> QED BY <1>2, <1>3

\* Every step of the window, of a timer or of a run keeps CaseInv.
LEMMA CaseKept == CaseInv /\ C!Next => CaseInv'
<1> SUFFICES ASSUME CaseInv, C!Next PROVE CaseInv'
  OBVIOUS
<1>a. /\ C!TypeOK /\ C!ChecksAgree /\ (ingest = "running" => target \in Case)
      /\ NoCase \notin Case /\ MaxIngests \in Nat
      /\ \A c \in Case \cup {NoCase} : c \in C!Text
  BY WorkspaceAssumptions DEF CaseInv, C!CaseAssumption, C!IngestAssumption, C!Text
<1>1. ASSUME NEW t \in C!Text, C!EditName(t) PROVE CaseInv'
  BY <1>a, <1>1 DEF CaseInv, C!EditName, C!Schedule, C!TypeOK, C!ChecksAgree, C!case, C!checks, C!run
<1>2. ASSUME NEW c \in Case \cup {NoCase}, C!EditPath(c) PROVE CaseInv'
  BY <1>a, <1>2 DEF CaseInv, C!EditPath, C!Schedule, C!TypeOK, C!ChecksAgree, C!checks, C!run
<1>3. CASE C!OpenCase
  <2>1. field' \in C!Text /\ dirty' \in BOOLEAN /\ timer' \in BOOLEAN
    BY <1>a, <1>3 DEF C!OpenCase, C!ShowInfo, C!Schedule, C!TypeOK
  <2>2. C!TypeOK'
    BY <1>a, <1>3, <2>1 DEF C!OpenCase, C!TypeOK, C!run
  <2> QED BY <1>a, <1>3, <2>2 DEF CaseInv, C!OpenCase, C!TypeOK, C!ChecksAgree, C!run
<1>4. CASE C!SaveCaseInfo \/ C!Autosave \/ C!Close
  <2>1. C!Save /\ UNCHANGED <<path, field, checked, saved, ingest, target, queued, ingests>>
    BY <1>4 DEF C!SaveCaseInfo, C!Autosave, C!Close, C!checks, C!run
  <2>2. timer' \in BOOLEAN /\ closed' \in BOOLEAN
    BY <1>a, <1>4 DEF C!SaveCaseInfo, C!Autosave, C!Close, C!TypeOK
  <2> QED BY <1>a, <2>1, <2>2, SaveLemma DEF CaseInv, C!TypeOK, C!ChecksAgree
<1>5. ASSUME NEW S \in SUBSET Artifact, C!CheckRows(S) \/ C!UncheckRows(S)
      PROVE  CaseInv'
  <2>1. /\ saved' \in [Case -> SUBSET Artifact] /\ checked' \in SUBSET Artifact
        /\ C!ChecksAgree'
    <3>1. CASE C!CheckRows(S)
      BY <1>a, <3>1 DEF C!CheckRows, C!TypeOK, C!ChecksAgree, C!case
    <3>2. CASE C!UncheckRows(S)
      BY <1>a, <3>2 DEF C!UncheckRows, C!TypeOK, C!ChecksAgree, C!case
    <3> QED BY <1>5, <3>1, <3>2
  <2> QED BY <1>a, <1>5, <2>1
          DEF CaseInv, C!CheckRows, C!UncheckRows, C!TypeOK, C!case, C!text, C!run
<1>6. CASE C!ClearChecked
  BY <1>a, <1>6 DEF CaseInv, C!ClearChecked, C!TypeOK, C!ChecksAgree, C!case, C!text, C!run
<1>7. ASSUME NEW c \in Case, C!Run(c) PROVE CaseInv'
  BY <1>a, <1>7 DEF CaseInv, C!Run, C!TypeOK, C!ChecksAgree, C!text, C!checks
<1>8. CASE C!Report
  BY <1>a, <1>8 DEF CaseInv, C!Report, C!TypeOK, C!ChecksAgree, C!case, C!checks
<1>9. CASE C!EndIngest
  BY <1>a, <1>9 DEF CaseInv, C!EndIngest, C!TypeOK, C!ChecksAgree, C!case, C!text, C!checks
<1>10. CASE C!CaseReady
  BY <1>a, <1>10 DEF CaseInv, C!CaseReady, C!Schedule, C!TypeOK, C!ChecksAgree, C!checks
<1>11. CASE C!WorkerDone
  BY <1>a, <1>11 DEF CaseInv, C!WorkerDone, C!TypeOK, C!ChecksAgree, C!case, C!text, C!checks
<1> QED BY <1>1, <1>2, <1>3, <1>4, <1>5, <1>6, <1>7, <1>8, <1>9, <1>10, <1>11 DEF C!Next

\* However checks, batches, clearing, saving, runs and opening other cases follow
\* each other: as long as the open case is the one whose checks were read, memory
\* and database agree about every artifact.
THEOREM ChecksAlwaysAgree == SidesSpec => []CheckedAgree
<1> DEFINE Inv == side = "case" => CaseInv
<1>1. SidesInit => Inv
  BY InitCase DEF SidesInit
<1>2. Inv /\ [SidesNext]_sidesVars => Inv'
  <2> SUFFICES ASSUME Inv, [SidesNext]_sidesVars, side' = "case"
               PROVE  CaseInv'
    OBVIOUS
  <2>1. side = "case" /\ CaseInv
    BY DEF SidesNext, CaseStep, ListStep, RunStep, OfCase, OfList, OfRun, sidesVars
  <2>2. CASE C!Next
    BY <2>1, <2>2, CaseKept
  <2>3. CASE UNCHANGED sidesVars
    BY <2>1, <2>3 DEF CaseInv, C!TypeOK, C!ChecksAgree, sidesVars, caseOnly
  <2> QED BY <2>1, <2>2, <2>3 DEF SidesNext, CaseStep, ListStep, RunStep, OfCase, OfList, OfRun
<1>3. Inv => CheckedAgree
  BY DEF CheckedAgree, CaseInv
<1> QED BY <1>1, <1>2, <1>3, PTL DEF SidesSpec

\* While a run is active, no autosave, save, check or case that is opened writes
\* case information: only the run does, once, when it reports its case.
THEOREM OnlyTheRunWrites == SidesSpec => RunAloneWritesInfo
<1>1. ASSUME [SidesNext]_sidesVars
      PROVE  [side = "case" /\ ingest = "running" /\ info' # info => ~queued /\ queued']_sidesVars
  <2> SUFFICES ASSUME side = "case", ingest = "running", info' # info
               PROVE  ~queued /\ queued'
    OBVIOUS
  <2>1. C!Next
    BY <1>1 DEF SidesNext, CaseStep, ListStep, RunStep, OfCase, OfList, OfRun, sidesVars, caseOnly
  <2>2. ~C!Save
    BY DEF C!Save
  <2> QED
    BY <2>1, <2>2
    DEF C!Next, C!EditName, C!EditPath, C!OpenCase, C!SaveCaseInfo, C!Autosave, C!Close,
        C!CheckRows, C!UncheckRows, C!ClearChecked, C!Run, C!Report, C!EndIngest,
        C!CaseReady, C!WorkerDone, C!Editable, C!text
<1> QED BY <1>1, PTL DEF SidesSpec, RunAloneWritesInfo
-----------------------------------------------------------------------------
(* The list of views.                                                      *)

AllCases == Case \cup Unreadable

\* Views that may be listed for case c on platform p, each once.
Fits(views, c, p) ==
  /\ views \in Seq(View)
  /\ \A i, j \in 1..Len(views) : views[i] = views[j] => i = j
  /\ \A i \in 1..Len(views) : L!OnPlatform(views[i], p) /\ L!There(c, views[i])

CustomFits(sets) ==
  /\ sets \in [AllCases \X L!Platform -> Seq(View)]
  /\ \A c \in AllCases, p \in L!Platform : Fits(sets[<<c, p>>], c, p)

\* Kept is the same operator here and in the list's module.
LEMMA SameKept == \A items, S : L!Kept(items, S) = Kept(items, S)
<1>0. \A S : L!Cardinality(S) = Cardinality(S)
  BY DEF L!Cardinality, Cardinality
<1>1. \A S, n : L!Rank(S, n) = Rank(S, n)
  BY <1>0 DEF L!Rank, Rank
<1>2. \A S : L!Ascending(S) = Ascending(S)
  BY <1>0, <1>1 DEF L!Ascending, Ascending
<1> QED BY <1>2 DEF L!Kept, Kept

\* What populateViewList lists fits the case and the platform.
LEMMA CandidatesFit ==
  ASSUME NEW sets, CustomFits(sets), NEW c \in AllCases \cup {NoCase},
         NEW p \in L!Platform, NEW m
  PROVE  Fits(L!Candidates(sets, c, p, m), c, p)
<1> DEFINE fitting == {v \in View : L!OnPlatform(v, p) /\ L!There(c, v)}
<1> DEFINE stored == IF m = "custom" /\ L!Readable(c) THEN sets[<<c, p>>] ELSE <<>>
<1> DEFINE chosen == Kept(stored, fitting)
<1> DEFINE all == Kept(InOrder, fitting)
<1> DEFINE wanted == IF m = "recommended" THEN Recommended ELSE View
<1> DEFINE profile == Kept(all, wanted)
<1>1. stored \in Seq(View) /\ \A i, j \in 1..Len(stored) : stored[i] = stored[j] => i = j
  <2>1. CASE m = "custom" /\ L!Readable(c)
    BY <2>1 DEF CustomFits, Fits, L!Readable, AllCases
  <2>2. CASE ~(m = "custom" /\ L!Readable(c))
    BY <2>2
  <2> QED BY <2>1, <2>2
<1>2. InOrder \in Seq(View) /\ \A i, j \in 1..Len(InOrder) : InOrder[i] = InOrder[j] => i = j
  BY ListAssumptions DEF L!ViewAssumption, L!IsInjective, L!ToSet
<1> HIDE DEF stored
<1>3. /\ chosen \in Seq(View \cap fitting) /\ all \in Seq(View \cap fitting)
      /\ \A i, j \in 1..Len(chosen) : chosen[i] = chosen[j] => i = j
      /\ \A i, j \in 1..Len(all) : all[i] = all[j] => i = j
  <2> HIDE DEF fitting
  <2> QED BY <1>1, <1>2, KeptOnce
<1> HIDE DEF chosen, all
<1>4. /\ profile \in Seq(fitting)
      /\ \A i, j \in 1..Len(profile) : profile[i] = profile[j] => i = j
  <2>1. profile \in Seq((View \cap fitting) \cap wanted)
    <3> HIDE DEF fitting, wanted
    <3> QED BY <1>3, KeptOnce
  <2>2. \A i, j \in 1..Len(profile) : profile[i] = profile[j] => i = j
    <3> HIDE DEF fitting, wanted
    <3> QED BY <1>3, KeptOnce
  <2> HIDE DEF profile, wanted
  <2> QED BY <2>1, <2>2
<1>5. chosen \in Seq(fitting) /\ all \in Seq(fitting)
  BY <1>3
<1> HIDE DEF profile
<1>6. \A views \in {chosen, profile, all} : Fits(views, c, p)
  BY <1>3, <1>4, <1>5 DEF Fits
<1>7. L!Candidates(sets, c, p, m) \in {chosen, profile, all}
  <2>1. /\ L!Kept(stored, fitting) = chosen /\ L!Kept(InOrder, fitting) = all
        /\ L!Kept(all, IF m = "recommended" THEN Recommended ELSE View) = profile
    BY SameKept DEF chosen, all, profile
  <2> QED BY <2>1 DEF L!Candidates, stored
<1> QED BY <1>6, <1>7
\* The counts of w, which stay with its views and its case; while the list is
\* seen, the newest counting is of the open case.
Right(w) == /\ w \in L!Result
            /\ w.round <= seq
            /\ Len(w.counts) <= Len(w.views)
            /\ \A k \in 1..Len(w.counts) :
                 w.counts[k].view = w.views[k] /\ w.counts[k].case \in {w.case, NoCase}
            /\ L!Investigating /\ w.round = seq => w.case = opened

WorkInv == /\ \A w \in workers : Right(w)
           /\ \A i \in 1..Len(posted) :
                Right(posted[i]) /\ Len(posted[i].counts) = Len(posted[i].views)

ListInv == /\ L!TypeOK /\ L!SeenCountsAreTrue
           /\ Fits(list, opened, platform) /\ CustomFits(custom)
           /\ WorkInv

\* What ListInv says of what is listed and stored is what ListFitsCase says.
LEMMA ListFits ==
  ASSUME L!TypeOK
  PROVE  L!ListFitsCase <=> Fits(list, opened, platform) /\ CustomFits(custom)
<1>1. /\ list \in Seq(View) /\ DOMAIN list = 1..Len(list)
      /\ \A i, j \in 1..Len(list) : list[i] = list[j] => i = j
  BY DEF L!TypeOK, L!IsInjective
<1>2. /\ custom \in [AllCases \X L!Platform -> Seq(View)]
      /\ \A c \in AllCases, p \in L!Platform :
           custom[<<c, p>>] \in Seq(View) /\ DOMAIN custom[<<c, p>>] = 1..Len(custom[<<c, p>>])
  BY DEF L!TypeOK, AllCases
<1>3. Fits(list, opened, platform) <=>
        \A i \in DOMAIN list : L!OnPlatform(list[i], platform) /\ L!There(opened, list[i])
  BY <1>1 DEF Fits
<1>4. ASSUME NEW c \in AllCases, NEW p \in L!Platform
      PROVE  Fits(custom[<<c, p>>], c, p) <=>
               /\ L!IsInjective(custom[<<c, p>>])
               /\ \A i \in DOMAIN custom[<<c, p>>] :
                    L!OnPlatform(custom[<<c, p>>][i], p) /\ L!There(c, custom[<<c, p>>][i])
  BY <1>2 DEF Fits, L!IsInjective
<1>5. CustomFits(custom) <=>
        \A c \in AllCases, p \in L!Platform :
           /\ L!IsInjective(custom[<<c, p>>])
           /\ \A i \in DOMAIN custom[<<c, p>>] :
                L!OnPlatform(custom[<<c, p>>][i], p) /\ L!There(c, custom[<<c, p>>][i])
  BY <1>2, <1>4 DEF CustomFits
<1> QED BY <1>3, <1>5 DEF L!ListFitsCase, AllCases

\* A list that is shown and not counted yet is labelled with no number.
LEMMA Uncounted ==
  ASSUME NEW views \in Seq(View), NEW r \in Nat
  PROVE  LET l == L!Uncounted(views) IN
         /\ DOMAIN l = DOMAIN views
         /\ \A i \in DOMAIN l : /\ l[i].count \in L!Count /\ l[i].round \in 0..r
                                /\ l[i].count.case = NoCase
<1>1. DOMAIN views = 1..Len(views) /\ \A i \in 1..Len(views) : views[i] \in View
  OBVIOUS
<1>2. L!Uncounted(views) =
        [i \in DOMAIN views |-> [count |-> [case |-> NoCase, view |-> views[i]], round |-> 0]]
  BY DEF L!Uncounted
<1>3. ASSUME NEW i \in DOMAIN views
      PROVE  /\ L!Uncounted(views)[i].count = [case |-> NoCase, view |-> views[i]]
             /\ L!Uncounted(views)[i].round = 0
  BY <1>2
<1>4. \A v \in View : [case |-> NoCase, view |-> v] \in L!Count
  BY DEF L!Count
<1> QED BY <1>1, <1>2, <1>3, <1>4

\* A list that fits is shown, and counted by a new thread if a case is open: what
\* earlier threads do is superseded.
LEMMA ShownAndCounted ==
  ASSUME ListInv, NEW n \in 1..2, NEW c \in AllCases \cup {NoCase}, NEW views,
         opened' = c, platform' \in L!Platform,
         tab' \in L!Platform \cup {"case", "tags"}, mode' \in {"recommended", "all", "custom"},
         Fits(views, c, platform'), CustomFits(custom'),
         L!Show(views), sel' \in 0..Len(views), L!Refresh(n, c, views), UNCHANGED posted
  PROVE  ListInv'
<1>a. /\ L!TypeOK /\ WorkInv /\ MaxRefresh \in Nat /\ NoCase \notin AllCases
      /\ seq \in 0..MaxRefresh + 1
  BY ListAssumptions DEF ListInv, L!CaseAssumption, L!TypeOK, AllCases
<1>1. seq' = seq + n /\ seq' <= MaxRefresh /\ seq' \in 1..MaxRefresh
  BY <1>a DEF L!Refresh
<1>2. list' = views /\ label' = L!Uncounted(views) /\ views \in Seq(View)
  BY DEF L!Show, Fits
<1>3. /\ DOMAIN label' = DOMAIN list'
      /\ \A i \in DOMAIN label' : /\ label'[i].count \in L!Count /\ label'[i].round \in 0..seq'
                                  /\ label'[i].count.case = NoCase
  BY <1>1, <1>2, Uncounted
<1>4. PICK new : /\ new = [round |-> seq', case |-> c, views |-> views, counts |-> <<>>]
                 /\ workers' \subseteq workers \cup {new} /\ (c = NoCase => workers' = workers)
  BY DEF L!Refresh
<1>5. c # NoCase => new \in L!Result
  BY <1>1, <1>2, <1>4, <1>a DEF L!Result, AllCases
<1>6. workers' \subseteq L!Result
  BY <1>4, <1>5, <1>a DEF L!TypeOK
<1>7. L!TypeOK'
  <2>1. L!IsInjective(list')
    BY <1>2 DEF L!IsInjective, Fits
  <2>2. \A i \in DOMAIN label' : label'[i].count \in L!Count /\ label'[i].round \in 0..seq'
    BY <1>3
  <2>3. custom' \in [(Case \cup Unreadable) \X L!Platform -> Seq(View)]
    BY DEF CustomFits, AllCases
  <2>4. posted' \in Seq(L!Result) /\ sel' \in 0..Len(list') /\ opened' \in AllCases \cup {NoCase}
    BY <1>2, <1>a DEF L!TypeOK
  <2>5. seq' \in 0..MaxRefresh + 1
    BY <1>1, <1>a
  <2> QED BY <1>2, <1>3, <1>6, <2>1, <2>2, <2>3, <2>4, <2>5 DEF L!TypeOK, AllCases
<1>8. L!SeenCountsAreTrue'
  BY <1>3 DEF L!SeenCountsAreTrue
<1>9. ASSUME NEW w, Right(w)
      PROVE  Right(w)'
  <2>1. w.round \in Nat
    BY <1>9 DEF Right, L!Result
  <2> QED BY <1>1, <1>9, <1>a, <2>1 DEF Right
<1>10. WorkInv'
  <2>1. ASSUME c # NoCase PROVE Right(new)'
    <3>1. new.counts = <<>> /\ new.round = seq' /\ new.case = opened' /\ new.views = views
      BY <1>4
    <3> QED BY <1>1, <1>2, <1>5, <2>1, <3>1 DEF Right
  <2>2. \A w \in workers' : Right(w)'
    BY <1>9, <1>4, <1>a, <2>1 DEF WorkInv
  <2>3. ASSUME NEW i \in 1..Len(posted)
        PROVE  (Right(posted[i]) /\ Len(posted[i].counts) = Len(posted[i].views))'
    <3>1. PICK w : w = posted[i] /\ Right(w) /\ Len(w.counts) = Len(w.views)
      BY <1>a DEF WorkInv
    <3>2. posted'[i] = w /\ Right(w)'
      BY <1>9, <3>1
    <3> QED BY <3>1, <3>2
  <2> QED BY <2>2, <2>3 DEF WorkInv
<1>11. Fits(list', opened', platform') /\ CustomFits(custom')
  BY <1>2
<1> QED BY <1>7, <1>8, <1>10, <1>11 DEF ListInv

\* As ShownAndCounted, with the line that populateViewList selects.
LEMMA PopulatedAndCounted ==
  ASSUME ListInv, NEW n \in 1..2, NEW c \in AllCases \cup {NoCase}, NEW m,
         opened' = c, platform' \in L!Platform,
         tab' \in L!Platform \cup {"case", "tags"}, mode' \in {"recommended", "all", "custom"},
         CustomFits(custom'), L!PopulateAndCount(n, custom', c, platform', m), UNCHANGED posted
  PROVE  ListInv'
<1>1. PICK views : views = L!Candidates(custom', c, platform', m)
  OBVIOUS
<1>2. Fits(views, c, platform')
  BY <1>1, CandidatesFit
<1>3. L!Show(views) /\ L!Refresh(n, c, views) /\ sel' = IF views = <<>> THEN 0 ELSE 1
  BY <1>1 DEF L!PopulateAndCount, L!Populate
<1>4. sel' \in 0..Len(views)
  BY <1>2, <1>3 DEF Fits
<1> QED BY <1>2, <1>3, <1>4, ShownAndCounted

\* A stored set that fits is a stored set that fits.
LEMMA StoredFits ==
  ASSUME L!TypeOK, CustomFits(custom), NEW views, L!Store(views), Fits(views, opened, platform)
  PROVE  CustomFits(custom')
<1>1. opened \in AllCases /\ platform \in L!Platform /\ views \in Seq(View)
  BY DEF L!Store, L!Readable, L!TypeOK, AllCases, Fits
<1>2. custom' \in [AllCases \X L!Platform -> Seq(View)]
  BY <1>1 DEF L!Store, CustomFits
<1>3. ASSUME NEW c \in AllCases, NEW p \in L!Platform PROVE Fits(custom'[<<c, p>>], c, p)
  <2>1. CASE c = opened /\ p = platform
    BY <1>1, <2>1 DEF L!Store, CustomFits
  <2>2. CASE ~(c = opened /\ p = platform)
    <3>1. custom'[<<c, p>>] = custom[<<c, p>>]
      BY <1>1, <2>2 DEF L!Store, CustomFits
    <3> QED BY <3>1 DEF CustomFits
  <2> QED BY <2>1, <2>2
<1> QED BY <1>2, <1>3 DEF CustomFits

\* The list as the investigator changes it is shown, counted and stored.
LEMMA Changed ==
  ASSUME ListInv, L!Investigating, NEW views, NEW line \in 0..Len(views),
         Fits(views, opened, platform), L!Change(views, line)
  PROVE  ListInv'
<1>a. L!TypeOK /\ CustomFits(custom)
  BY DEF ListInv
<1>1. CustomFits(custom')
  <2>1. CASE L!Store(views)
    BY <1>a, <2>1, StoredFits
  <2>2. CASE UNCHANGED custom
    BY <1>a, <2>2
  <2> QED BY <2>1, <2>2 DEF L!Change
<1>2. /\ opened \in AllCases \cup {NoCase} /\ opened' = opened /\ platform' = platform
      /\ platform' \in L!Platform /\ tab' \in L!Platform \cup {"case", "tags"}
      /\ mode' \in {"recommended", "all", "custom"}
  BY <1>a DEF L!Change, L!TypeOK, AllCases
<1>3. /\ L!Show(views) /\ sel' \in 0..Len(views) /\ L!Refresh(1, opened, views)
      /\ UNCHANGED posted
  BY DEF L!Change
<1> QED BY <1>1, <1>2, <1>3, ShownAndCounted

\* A list without one of its lines, or with two of them swapped, still fits.
LEMMA HiddenFits ==
  ASSUME NEW views, NEW c, NEW p, Fits(views, c, p), NEW k \in 1..Len(views)
  PROVE  Fits(L!RemoveAt(views, k), c, p)
<1>1. views \in Seq(View) /\ Len(views) \in Nat
  BY DEF Fits
<1>2. PICK rest : rest = SubSeq(views, 1, k - 1) \o SubSeq(views, k + 1, Len(views))
  OBVIOUS
<1>3. PICK before \in Seq(View), after \in Seq(View) :
        /\ rest = before \o after
        /\ Len(before) = k - 1 /\ \A i \in 1..Len(before) : before[i] = views[i]
        /\ Len(after) = Len(views) - k /\ \A i \in 1..Len(after) : after[i] = views[k + i]
  <2>1. /\ SubSeq(views, 1, k - 1) \in Seq(View) /\ Len(SubSeq(views, 1, k - 1)) = k - 1
        /\ \A i \in 1..k - 1 : SubSeq(views, 1, k - 1)[i] = views[i]
    BY <1>1
  <2>2. /\ SubSeq(views, k + 1, Len(views)) \in Seq(View)
        /\ Len(SubSeq(views, k + 1, Len(views))) = Len(views) - k
        /\ \A i \in 1..Len(views) - k : SubSeq(views, k + 1, Len(views))[i] = views[k + i]
    BY <1>1
  <2> QED BY <1>2, <2>1, <2>2
<1>4. /\ rest \in Seq(View) /\ Len(rest) = Len(views) - 1
      /\ \A i \in 1..Len(rest) : rest[i] = views[IF i < k THEN i ELSE i + 1]
  <2>1. rest \in Seq(View) /\ Len(rest) = Len(views) - 1
    BY <1>1, <1>3
  <2>2. ASSUME NEW i \in 1..Len(rest) PROVE rest[i] = views[IF i < k THEN i ELSE i + 1]
    <3>1. CASE i < k
      <4>1. i \in 1..Len(before)
        BY <1>1, <1>3, <2>1, <3>1
      <4>2. rest[i] = before[i]
        BY <1>3, <4>1
      <4> QED BY <1>3, <3>1, <4>1, <4>2
    <3>2. CASE ~(i < k)
      <4>1. i - Len(before) \in 1..Len(after) /\ k + (i - Len(before)) = i + 1
        BY <1>1, <1>3, <2>1, <3>2
      <4>2. rest[i] = after[i - Len(before)]
        BY <1>3, <4>1
      <4>3. after[i - Len(before)] = views[i + 1]
        BY <1>3, <4>1
      <4> QED BY <3>2, <4>2, <4>3
    <3> QED BY <3>1, <3>2
  <2> QED BY <2>1, <2>2
<1>5. Fits(rest, c, p)
  <2> DEFINE old(i) == IF i < k THEN i ELSE i + 1
  <2>1. \A i \in 1..Len(rest) : old(i) \in 1..Len(views)
    BY <1>1, <1>4
  <2>2. \A i \in 1..Len(rest) : rest[i] = views[old(i)]
    BY <1>4
  <2>3. \A i, j \in 1..Len(rest) : old(i) = old(j) => i = j
    BY <1>1, <1>4
  <2> HIDE DEF old
  <2> QED BY <1>4, <2>1, <2>2, <2>3 DEF Fits
<1> QED BY <1>2, <1>5 DEF L!RemoveAt

LEMMA MovedFits ==
  ASSUME NEW views, NEW c, NEW p, Fits(views, c, p),
         NEW i \in 1..Len(views), NEW j \in 1..Len(views)
  PROVE  LET new == [views EXCEPT ![i] = views[j], ![j] = views[i]]
         IN Fits(new, c, p) /\ Len(new) = Len(views)
<1>1. views \in Seq(View) /\ Len(views) \in Nat
  BY DEF Fits
<1>2. PICK new : new = [views EXCEPT ![i] = views[j], ![j] = views[i]]
  OBVIOUS
<1>3. /\ new \in Seq(View) /\ Len(new) = Len(views)
      /\ \A k \in 1..Len(new) : new[k] = views[IF k = j THEN i ELSE IF k = i THEN j ELSE k]
  BY <1>1, <1>2
<1>4. Fits(new, c, p)
  BY <1>1, <1>3 DEF Fits
<1> QED BY <1>2, <1>3, <1>4

\* Opening a case from its path, where the list is hidden.
LEMMA OpenedFits == ASSUME ListInv, NEW c \in AllCases, L!OpenCase(c) PROVE ListInv'
<1>a. L!TypeOK /\ WorkInv /\ CustomFits(custom) /\ c \in AllCases /\ platform \in L!Platform
      /\ seq \in Nat
  BY ListAssumptions DEF ListInv, L!TypeOK, AllCases, L!CaseAssumption
<1>1. PICK views : views = L!Candidates(custom, c, platform, mode)
  OBVIOUS
<1>2. Fits(views, c, platform) /\ views \in Seq(View)
  BY <1>1, <1>a, CandidatesFit DEF Fits
<1>3. /\ list' = views /\ label' = L!Uncounted(views) /\ sel' = IF views = <<>> THEN 0 ELSE 1
      /\ opened' = c /\ tab = "case"
      /\ UNCHANGED <<tab, platform, mode, custom, seq, workers, posted>>
  BY <1>1 DEF L!OpenCase, L!Populate, L!Show
<1>4. ~L!Investigating' /\ ~L!Investigating
  BY <1>3 DEF L!Investigating, L!Platform
<1>5. /\ DOMAIN label' = DOMAIN list'
      /\ \A i \in DOMAIN label' : label'[i].count \in L!Count /\ label'[i].round \in 0..seq'
  BY <1>2, <1>3, <1>a, Uncounted
<1>6. L!TypeOK'
  <2>1. L!IsInjective(list') /\ sel' \in 0..Len(list')
    BY <1>2, <1>3 DEF L!IsInjective, Fits
  <2> QED BY <1>2, <1>3, <1>5, <1>a, <2>1 DEF L!TypeOK, AllCases
<1>7. WorkInv'
  BY <1>3, <1>4, <1>a DEF WorkInv, Right
<1> QED BY <1>2, <1>3, <1>4, <1>6, <1>7, <1>a DEF ListInv, L!SeenCountsAreTrue

\* Choosing a tab: an investigation tab fills the list for its platform.
LEMMA TabFits ==
  ASSUME ListInv, NEW t \in L!Platform \cup {"case", "tags"}, L!SelectTab(t) PROVE ListInv'
<1>a. L!TypeOK /\ WorkInv /\ CustomFits(custom) /\ opened \in AllCases \cup {NoCase}
      /\ mode \in {"recommended", "all", "custom"}
  BY DEF ListInv, L!TypeOK, AllCases
<1>1. CASE t \in L!Platform
  <2>1. /\ tab' = t /\ platform' = t /\ L!PopulateAndCount(2, custom, opened, t, mode)
        /\ UNCHANGED <<opened, mode, custom, posted>>
    BY <1>1 DEF L!SelectTab
  <2> QED BY <1>1, <1>a, <2>1, PopulatedAndCounted
<1>2. CASE t \notin L!Platform
  <2>1. tab' = t /\ UNCHANGED <<platform, list, label, sel, seq, workers, opened, mode, custom, posted>>
    BY <1>2 DEF L!SelectTab
  <2>2. ~L!Investigating'
    BY <1>2, <2>1 DEF L!Investigating
  <2>3. L!TypeOK'
    BY <1>a, <2>1 DEF L!TypeOK
  <2>4. WorkInv'
    BY <1>a, <2>1, <2>2 DEF WorkInv, Right
  <2> QED BY <2>1, <2>2, <2>3, <2>4 DEF ListInv, L!SeenCountsAreTrue
<1> QED BY <1>1, <1>2

\* The other steps of the UI thread.
LEMMA EditsFit ==
  ASSUME ListInv,
         \/ \E c \in AllCases : L!CaseReady(c)
         \/ \E m \in {"recommended", "all", "custom"} : L!SetMode(m)
         \/ L!Hide \/ (\E delta \in {-1, 1} : L!Move(delta)) \/ L!SaveSet \/ L!ResetSet
         \/ \E i \in DOMAIN list : L!Select(i)
  PROVE  ListInv'
<1>a. /\ L!TypeOK /\ WorkInv /\ L!SeenCountsAreTrue
      /\ CustomFits(custom) /\ opened \in AllCases \cup {NoCase}
      /\ mode \in {"recommended", "all", "custom"} /\ Fits(list, opened, platform)
      /\ platform \in L!Platform /\ tab \in L!Platform \cup {"case", "tags"}
      /\ list \in Seq(View) /\ Len(list) \in Nat /\ DOMAIN list = 1..Len(list)
      /\ sel \in 0..Len(list)
  BY DEF ListInv, L!TypeOK, AllCases
<1>1. ASSUME NEW c \in AllCases, L!CaseReady(c) PROVE ListInv'
  <2>1. /\ opened' = c /\ L!PopulateAndCount(1, custom, c, platform, mode) /\ c \in AllCases
        /\ UNCHANGED <<tab, platform, mode, custom, posted>>
    BY <1>1 DEF L!CaseReady, AllCases
  <2> QED BY <1>a, <2>1, PopulatedAndCounted
<1>2. ASSUME NEW m \in {"recommended", "all", "custom"}, L!SetMode(m) PROVE ListInv'
  <2>1. /\ mode' = m /\ L!PopulateAndCount(1, custom, opened, platform, m)
        /\ UNCHANGED <<opened, tab, platform, custom, posted>>
    BY <1>2 DEF L!SetMode
  <2> QED BY <1>a, <2>1, PopulatedAndCounted
<1>3. CASE L!Hide
  <2>1. PICK views : views = L!RemoveAt(list, sel)
    OBVIOUS
  <2>2. /\ L!Investigating /\ sel # 0 /\ L!Change(views, L!Min({sel, Len(views)}))
    BY <1>3, <2>1 DEF L!Hide
  <2>3. Fits(views, opened, platform)
    BY <1>a, <2>1, <2>2, HiddenFits
  <2>4. L!Min({sel, Len(views)}) \in 0..Len(views)
    <3>1. Len(views) \in Nat /\ sel \in Nat
      BY <1>a, <2>3 DEF Fits
    <3>2. \A x, y \in Nat : L!Min({x, y}) = IF x <= y THEN x ELSE y
      <4> TAKE x, y \in Nat
      <4>1. PICK n \in {x, y} : \A o \in {x, y} : n <= o
        OBVIOUS
      <4>2. \A o \in {x, y} : (\A q \in {x, y} : o <= q) => o = IF x <= y THEN x ELSE y
        OBVIOUS
      <4> QED BY <4>1, <4>2 DEF L!Min
    <3> QED BY <3>1, <3>2
  <2> QED BY <2>2, <2>3, <2>4, Changed
<1>4. ASSUME NEW delta \in {-1, 1}, L!Move(delta) PROVE ListInv'
  <2>1. PICK views : views = [list EXCEPT ![sel] = list[sel + delta], ![sel + delta] = list[sel]]
    OBVIOUS
  <2>2. /\ L!Investigating /\ sel \in 1..Len(list) /\ sel + delta \in 1..Len(list)
        /\ L!Change(views, sel + delta)
    BY <1>4, <1>a, <2>1 DEF L!Move
  <2>3. Fits(views, opened, platform) /\ Len(views) = Len(list)
    BY <1>a, <2>1, <2>2, MovedFits
  <2> QED BY <1>a, <2>2, <2>3, Changed
<1>5. CASE L!SaveSet
  <2>1. CustomFits(custom')
    BY <1>5, <1>a, StoredFits DEF L!SaveSet
  <2>2. /\ mode' = "custom" /\ UNCHANGED <<opened, tab, platform, list, label, sel, seq, workers, posted>>
    BY <1>5 DEF L!SaveSet
  <2>3. custom' \in [(Case \cup Unreadable) \X L!Platform -> Seq(View)]
    BY <2>1 DEF CustomFits, AllCases
  <2>4. L!TypeOK'
    BY <1>a, <2>2, <2>3 DEF L!TypeOK
  <2>5. WorkInv' /\ L!SeenCountsAreTrue'
    BY <1>a, <2>2 DEF WorkInv, Right, L!SeenCountsAreTrue, L!Investigating
  <2> QED BY <1>a, <2>1, <2>2, <2>4, <2>5 DEF ListInv
<1>6. CASE L!ResetSet
  <2>1. /\ L!PopulateAndCount(1, custom', opened, platform, mode)
        /\ UNCHANGED <<opened, tab, platform, mode, posted>>
    BY <1>6 DEF L!ResetSet
  <2>2. CustomFits(custom')
    <3>1. CASE L!Store(<<>>)
      <4>1. Fits(<<>>, opened, platform)
        BY DEF Fits
      <4> QED BY <1>a, <3>1, <4>1, StoredFits
    <3> QED BY <1>6, <1>a, <3>1 DEF L!ResetSet
  <2> QED BY <1>a, <2>1, <2>2, PopulatedAndCounted
<1>7. ASSUME NEW i \in DOMAIN list, L!Select(i) PROVE ListInv'
  <2>1. sel' \in 0..Len(list)
          /\ UNCHANGED <<opened, tab, platform, mode, custom, list, label, seq, workers, posted>>
    BY <1>7, <1>a DEF L!Select, L!ui
  <2>2. L!TypeOK'
    BY <1>a, <2>1 DEF L!TypeOK
  <2>3. WorkInv' /\ L!SeenCountsAreTrue'
    BY <1>a, <2>1 DEF WorkInv, Right, L!SeenCountsAreTrue, L!Investigating
  <2> QED BY <1>a, <2>1, <2>2, <2>3 DEF ListInv
<1> QED BY <1>1, <1>2, <1>3, <1>4, <1>5, <1>6, <1>7

\* The counting threads, and the handler of their messages.
LEMMA CountsFit == ASSUME ListInv, L!Working PROVE ListInv'
<1>a. /\ L!TypeOK /\ WorkInv /\ L!SeenCountsAreTrue
      /\ CustomFits(custom) /\ Fits(list, opened, platform)
      /\ list \in Seq(View) /\ Len(list) \in Nat /\ DOMAIN list = 1..Len(list)
      /\ sel \in 0..Len(list) /\ posted \in Seq(L!Result) /\ workers \subseteq L!Result
      /\ seq \in Nat
  BY ListAssumptions DEF ListInv, L!TypeOK, L!CaseAssumption
<1>b. ASSUME NEW w PROVE w \in L!Result <=>
        /\ w = [round |-> w.round, case |-> w.case, views |-> w.views, counts |-> w.counts]
        /\ w.round \in 1..MaxRefresh + 1 /\ w.case \in AllCases
        /\ w.views \in Seq(View) /\ w.counts \in Seq(L!Count)
  BY DEF L!Result, AllCases
<1>1. ASSUME NEW w \in workers, L!CountView(w) PROVE ListInv'
  <2>1. /\ UNCHANGED <<opened, tab, platform, mode, custom, list, label, sel, seq, posted>>
        /\ Len(w.counts) < Len(w.views)
    BY <1>1 DEF L!CountView, L!world, L!ui
  <2>2. /\ Right(w) /\ w.case \in AllCases /\ w.views \in Seq(View)
        /\ w.counts \in Seq(L!Count) /\ w.round \in 1..MaxRefresh + 1
    BY <1>a, <1>b DEF WorkInv, Right
  <2>3. PICK c \in {w.case, NoCase} :
          workers' = (workers \ {w}) \cup
            {[w EXCEPT !.counts = Append(w.counts, [case |-> c, view |-> w.views[Len(w.counts) + 1]])]}
    <3>1. (IF L!Readable(w.case) THEN {w.case, NoCase} ELSE {NoCase}) \subseteq {w.case, NoCase}
      OBVIOUS
    <3> QED BY <1>1, <3>1 DEF L!CountView
  <2>4. PICK one : one = [case |-> c, view |-> w.views[Len(w.counts) + 1]]
    OBVIOUS
  <2>5. PICK new : new = [w EXCEPT !.counts = Append(w.counts, one)]
    OBVIOUS
  <2>6. one \in L!Count /\ one.case = c /\ one.view = w.views[Len(w.counts) + 1]
    <3>1. w.views[Len(w.counts) + 1] \in View
      BY <2>1, <2>2
    <3> QED BY <2>2, <2>4, <3>1 DEF L!Count, AllCases
  <2>7. /\ new \in L!Result /\ new.round = w.round /\ new.case = w.case /\ new.views = w.views
        /\ new.counts = Append(w.counts, one)
    <3>1. w = [round |-> w.round, case |-> w.case, views |-> w.views, counts |-> w.counts]
      BY <1>a, <1>b
    <3>2. new = [round |-> w.round, case |-> w.case, views |-> w.views,
                 counts |-> Append(w.counts, one)]
      BY <2>5, <3>1
    <3>3. Append(w.counts, one) \in Seq(L!Count)
      BY <2>2, <2>6
    <3> QED BY <2>2, <3>2, <3>3 DEF L!Result, AllCases
  <2>8. \A k \in 1..Len(new.counts) :
          new.counts[k].view = new.views[k] /\ new.counts[k].case \in {new.case, NoCase}
    <3>1. ASSUME NEW k \in 1..Len(new.counts)
          PROVE  new.counts[k].view = new.views[k] /\ new.counts[k].case \in {new.case, NoCase}
      <4>1. CASE k = Len(w.counts) + 1
        BY <2>2, <2>6, <2>7, <4>1
      <4>2. CASE k # Len(w.counts) + 1
        <5>1. k \in 1..Len(w.counts) /\ new.counts[k] = w.counts[k]
          BY <2>2, <2>6, <2>7, <4>2
        <5> QED BY <2>2, <2>7, <5>1 DEF Right
      <4> QED BY <4>1, <4>2
    <3> QED BY <3>1
  <2>9. Right(new)
    BY <2>1, <2>2, <2>6, <2>7, <2>8 DEF Right
  <2>10. workers' = (workers \ {w}) \cup {new}
    BY <2>3, <2>4, <2>5
  <2>11. L!TypeOK'
    BY <1>a, <2>1, <2>7, <2>10 DEF L!TypeOK
  <2>12. WorkInv'
    BY <1>a, <2>1, <2>9, <2>10 DEF WorkInv, Right, L!Investigating
  <2> QED BY <1>a, <2>1, <2>11, <2>12 DEF ListInv, L!SeenCountsAreTrue, L!Investigating
<1>2. ASSUME NEW w \in workers, L!GiveUp(w) PROVE ListInv'
  <2>1. /\ UNCHANGED <<opened, tab, platform, mode, custom, list, label, sel, seq, posted>>
        /\ workers' = workers \ {w}
    BY <1>2 DEF L!GiveUp, L!world, L!ui
  <2>2. L!TypeOK'
    BY <1>a, <2>1 DEF L!TypeOK
  <2>3. WorkInv'
    BY <1>a, <2>1 DEF WorkInv, Right, L!Investigating
  <2> QED BY <1>a, <2>1, <2>2, <2>3 DEF ListInv, L!SeenCountsAreTrue, L!Investigating
<1>3. ASSUME NEW w \in workers, L!Post(w) PROVE ListInv'
  <2>1. /\ UNCHANGED <<opened, tab, platform, mode, custom, list, label, sel, seq>>
        /\ workers' = workers \ {w} /\ posted' = Append(posted, w)
        /\ Len(w.counts) = Len(w.views) /\ w \in L!Result
    BY <1>3, <1>a DEF L!Post, L!world, L!ui
  <2>2. posted' \in Seq(L!Result)
    BY <1>a, <2>1
  <2>3. L!TypeOK'
    BY <1>a, <2>1, <2>2 DEF L!TypeOK
  <2>4. \A x : Right(x) <=> Right(x)'
    BY <2>1 DEF Right, L!Investigating
  <2>5. \A i \in 1..Len(posted') : posted'[i] = w \/ (i \in 1..Len(posted) /\ posted'[i] = posted[i])
    BY <1>a, <2>1
  <2>6. WorkInv'
    BY <1>a, <2>1, <2>4, <2>5 DEF WorkInv
  <2> QED BY <1>a, <2>1, <2>3, <2>6 DEF ListInv, L!SeenCountsAreTrue, L!Investigating
<1>4. CASE L!Apply
  <2>1. PICK r : r = Head(posted)
    OBVIOUS
  <2>2. /\ posted # <<>> /\ posted' = Tail(posted)
        /\ UNCHANGED <<opened, tab, platform, mode, custom, list, seq, workers>>
        /\ IF r.round = seq /\ r.views = list
           THEN /\ label' = [i \in DOMAIN list |-> [count |-> r.counts[i], round |-> r.round]]
                /\ sel' = IF sel = 0 /\ list # <<>> THEN 1 ELSE sel
           ELSE UNCHANGED <<label, sel>>
    BY <1>4, <2>1 DEF L!Apply, L!ui
  <2>3. /\ posted' \in Seq(L!Result) /\ r = posted[1] /\ 1 \in 1..Len(posted)
        /\ \A i \in 1..Len(posted') : i + 1 \in 1..Len(posted) /\ posted'[i] = posted[i + 1]
    BY <1>a, <2>1, <2>2
  <2>4. \A x : Right(x) <=> Right(x)'
    BY <2>2 DEF Right, L!Investigating
  <2>5. WorkInv'
    BY <1>a, <2>2, <2>3, <2>4 DEF WorkInv
  <2>6. CASE r.round = seq /\ r.views = list
    <3>1. /\ Right(r) /\ Len(r.counts) = Len(list) /\ r.counts \in Seq(L!Count)
      BY <1>a, <1>b, <2>3, <2>6 DEF WorkInv, Right
    <3>2. \A i \in DOMAIN list : label'[i] = [count |-> r.counts[i], round |-> r.round]
      BY <2>2, <2>6
    <3>3. DOMAIN label' = DOMAIN list
      BY <2>2, <2>6
    <3>4. \A i \in DOMAIN list : r.counts[i] \in L!Count
      BY <1>a, <3>1
    <3>5. \A i \in DOMAIN label' : label'[i].count \in L!Count /\ label'[i].round \in 0..seq
      BY <1>a, <2>6, <3>2, <3>3, <3>4
    <3>6. sel' \in 0..Len(list)
      BY <1>a, <2>2, <2>6
    <3>7. L!TypeOK'
      BY <1>a, <2>2, <2>3, <3>3, <3>5, <3>6 DEF L!TypeOK
    <3>8. L!SeenCountsAreTrue'
      <4> SUFFICES ASSUME L!Investigating, NEW i \in DOMAIN list, r.counts[i].case # NoCase
                   PROVE  r.counts[i] = [case |-> opened, view |-> list[i]]
        BY <2>2, <3>2, <3>3 DEF L!SeenCountsAreTrue, L!Investigating
      <4>1. r.counts[i].case = opened /\ r.counts[i].view = list[i]
        BY <1>a, <2>6, <3>1 DEF Right
      <4> QED BY <3>4, <4>1 DEF L!Count
    <3> QED BY <1>a, <2>2, <2>5, <3>7, <3>8 DEF ListInv
  <2>7. CASE ~(r.round = seq /\ r.views = list)
    <3>1. L!TypeOK'
      BY <1>a, <2>2, <2>3, <2>7 DEF L!TypeOK
    <3>2. L!SeenCountsAreTrue'
      BY <1>a, <2>2, <2>7 DEF L!SeenCountsAreTrue, L!Investigating
    <3> QED BY <1>a, <2>2, <2>5, <3>1, <3>2 DEF ListInv
  <2> QED BY <2>6, <2>7
<1> QED BY <1>1, <1>2, <1>3, <1>4 DEF L!Working

\* No case is open, no set stored and nothing counted at first.
LEMMA InitList == L!Init => ListInv
<1> SUFFICES ASSUME L!Init PROVE ListInv
  OBVIOUS
<1>1. CustomFits(custom)
  <2>1. custom \in [AllCases \X L!Platform -> Seq(View)]
    BY DEF L!Init, AllCases
  <2>2. ASSUME NEW c \in AllCases, NEW p \in L!Platform PROVE Fits(custom[<<c, p>>], c, p)
    <3>1. custom[<<c, p>>] = <<>>
      BY DEF L!Init, AllCases
    <3> QED BY <3>1 DEF Fits
  <2> QED BY <2>1, <2>2 DEF CustomFits
<1>2. opened = NoCase /\ platform \in L!Platform /\ tab = "case" /\ mode = "recommended"
  BY DEF L!Init, L!Platform
<1>3. Fits(list, opened, platform)
  <2>1. list = L!Candidates(custom, NoCase, platform, mode)
    BY DEF L!Init
  <2> QED BY <1>1, <1>2, <2>1, CandidatesFit
<1>4. ~L!Investigating
  BY <1>2 DEF L!Investigating, L!Platform
<1>5. L!TypeOK
  <2>1. list \in Seq(View) /\ L!IsInjective(list) /\ sel \in 0..Len(list)
    BY <1>3 DEF Fits, L!IsInjective, L!Init
  <2>2. seq = 0 /\ workers = {} /\ posted = <<>> /\ label = L!Uncounted(list)
    BY DEF L!Init
  <2>3. /\ DOMAIN label = DOMAIN list
        /\ \A i \in DOMAIN label : label[i].count \in L!Count /\ label[i].round \in 0..seq
    BY <2>1, <2>2, Uncounted
  <2>4. custom \in [(Case \cup Unreadable) \X L!Platform -> Seq(View)]
    BY <1>1 DEF CustomFits, AllCases
  <2> QED BY <1>2, <2>1, <2>2, <2>3, <2>4, ListAssumptions DEF L!TypeOK, L!CaseAssumption
<1>6. WorkInv
  BY DEF WorkInv, L!Init
<1> QED BY <1>1, <1>3, <1>4, <1>5, <1>6 DEF ListInv, L!SeenCountsAreTrue

\* Whatever the order in which cases are opened, tabs, modes and sets chosen,
\* threads count and their messages arrive: a number beside a view is the row count
\* of that view in the open case, and nothing is listed, or stored as a set, that
\* does not fit the platform or that the case lacks.
THEOREM ListAlwaysTells == SidesSpec => []ListTellsCase
<1> DEFINE Inv == side = "list" => ListInv
<1>1. SidesInit => Inv
  BY InitList DEF SidesInit
<1>2. Inv /\ [SidesNext]_sidesVars => Inv'
  <2> SUFFICES ASSUME Inv, [SidesNext]_sidesVars, side' = "list"
               PROVE  ListInv'
    OBVIOUS
  <2>1. side = "list" /\ ListInv
    BY DEF SidesNext, CaseStep, ListStep, RunStep, OfCase, OfList, OfRun, sidesVars
  <2>2. CASE L!Next
    BY <2>1, <2>2, OpenedFits, TabFits, EditsFit, CountsFit DEF L!Next, AllCases
  <2>3. CASE UNCHANGED sidesVars
    BY <2>1, <2>3 DEF ListInv, L!TypeOK, L!SeenCountsAreTrue, L!Investigating, WorkInv, Right,
                      sidesVars, listOnly
  <2> QED BY <2>1, <2>2, <2>3 DEF SidesNext, CaseStep, ListStep, RunStep, OfCase, OfList, OfRun
<1>3. Inv => ListTellsCase
  BY ListFits DEF ListTellsCase, ListInv
<1> QED BY <1>1, <1>2, <1>3, PTL DEF SidesSpec
=============================================================================
