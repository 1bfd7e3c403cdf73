--------------------------- MODULE GuiWorkersProofs ---------------------------
(***************************************************************************)
(* Proofs about MCGuiWorkers, for any number of threads, connections,      *)
(* databases, exports and tables.  The workers share nothing, so each      *)
(* theorem is about the behaviours of one of them: where "worker" has      *)
(* another value nothing is claimed, and nothing can go wrong.             *)
(***************************************************************************)
EXTENDS MCGuiWorkers, AscendingProofs

-----------------------------------------------------------------------------
(* The export threads.                                                     *)

\* The window shuts down when it is closed, and not while a dialog is open;
\* then every thread is waited for, and before that none is.
ClosingInv == /\ shuttingDown <=> ui # "ready"
              /\ shuttingDown => dialog = NoKind /\ registry = {}
              /\ ~shuttingDown => joining = {}

\* A thread exists from its start on, and is registered or waited for until it
\* is joined; its result waits only after it was posted.
ThreadInv == \A t \in X!Task :
               /\ pc[t] = "none" <=> t > tasks
               /\ pc[t] \notin {"none", "joined"} <=> t \in registry \cup joining
               /\ t \in result => pc[t] \in {"posted", "done", "joined"}

\* While the dialogs of an export are open its button is disabled by a page
\* load only: what remains when they are left without an export.
DialogInv == \A k \in Kind : dialog = k /\ ~button[k] => loading /\ k \in Gated

TasksInv == /\ X!TypeOK /\ X!FlagHonest /\ X!NoThreadEscapes
            /\ ClosingInv /\ ThreadInv /\ DialogInv

\* The program starts with no export, and TasksInv holds.
LEMMA InitTasks == X!Init => TasksInv
<1> SUFFICES ASSUME X!Init PROVE TasksInv
  OBVIOUS
<1> USE TaskAssumptions DEF X!Init, X!KindAssumption, X!TaskAssumption, X!Task
<1>1. X!TypeOK
  <2>1. \A t \in X!Task : kindOf[t] = NoKind /\ t > tasks
    OBVIOUS
  <2>2. pc \in [X!Task -> {"none"}] /\ kindOf \in [X!Task -> {NoKind}]
    OBVIOUS
  <2>3. tasks \in 0..MaxTask
    OBVIOUS
  <2>4. active \in [Kind -> BOOLEAN] /\ button \in [Kind -> BOOLEAN]
    OBVIOUS
  <2> QED BY <2>1, <2>2, <2>3, <2>4 DEF X!TypeOK, X!Alive
<1>2. ClosingInv /\ ThreadInv /\ DialogInv
  BY DEF ClosingInv, ThreadInv, DialogInv
<1>3. X!FlagHonest
  BY DEF X!FlagHonest, X!Running
<1>4. X!NoThreadEscapes
  BY DEF X!NoThreadEscapes, X!Alive
<1> QED BY <1>1, <1>2, <1>3, <1>4 DEF TasksInv
\* Every step of the window, of a dialog or of an export thread keeps TasksInv.
LEMMA TasksStep == TasksInv /\ X!Next => TasksInv'
<1> SUFFICES ASSUME TasksInv, X!Next PROVE TasksInv'
  OBVIOUS
<1>a. /\ X!TypeOK /\ X!FlagHonest /\ X!NoThreadEscapes /\ ClosingInv /\ ThreadInv /\ DialogInv
      /\ NoKind \notin Kind /\ Gated \subseteq Kind /\ MaxTask \in Nat
  BY TaskAssumptions DEF TasksInv, X!KindAssumption, X!TaskAssumption
<1>1. ASSUME NEW k \in Kind, X!ClickExport(k) PROVE TasksInv'
  <2>1. X!TypeOK'
    BY <1>a, <1>1 DEF X!ClickExport, X!taskVars, X!uiRest, X!TypeOK, X!Alive, X!Task, ThreadInv
  <2>2. ClosingInv'
    BY <1>a, <1>1 DEF X!ClickExport, X!taskVars, X!uiRest, ClosingInv, X!TypeOK
  <2>3. ThreadInv'
    BY <1>a, <1>1 DEF X!ClickExport, X!taskVars, X!uiRest, ThreadInv, ClosingInv, X!TypeOK, X!Alive, X!Task
  <2>4. X!FlagHonest'
    BY <1>a, <1>1 DEF X!ClickExport, X!taskVars, X!uiRest, X!FlagHonest, X!Running, ThreadInv, ClosingInv, X!TypeOK, X!Alive, X!Task
  <2>5. X!NoThreadEscapes'
    BY <1>a, <1>1 DEF X!ClickExport, X!taskVars, X!uiRest, X!NoThreadEscapes, ThreadInv, ClosingInv, X!TypeOK, X!Alive
  <2>6. DialogInv'
    BY <1>a, <1>1 DEF X!ClickExport, X!taskVars, X!uiRest, DialogInv, X!TypeOK
  <2> QED BY <2>1, <2>2, <2>3, <2>4, <2>5, <2>6 DEF TasksInv
<1>2. ASSUME X!CancelDialog PROVE TasksInv'
  <2>1. X!TypeOK'
    BY <1>a, <1>2 DEF X!CancelDialog, X!taskVars, X!uiRest, X!TypeOK, X!Alive, X!Task, ThreadInv
  <2>2. ClosingInv'
    BY <1>a, <1>2 DEF X!CancelDialog, X!taskVars, X!uiRest, ClosingInv, X!TypeOK
  <2>3. ThreadInv'
    BY <1>a, <1>2 DEF X!CancelDialog, X!taskVars, X!uiRest, ThreadInv, ClosingInv, X!TypeOK, X!Alive, X!Task
  <2>4. X!FlagHonest'
    <3>1. \A k \in Kind : X!Running(k)' = X!Running(k)
      BY <1>2 DEF X!CancelDialog, X!taskVars, X!Running
    <3>2. dialog \in Kind /\ dialog' \notin Kind
      BY <1>a, <1>2 DEF X!CancelDialog, X!TypeOK
    <3>3. \A k \in Kind : active'[k] = IF k = dialog THEN FALSE ELSE active[k]
      BY <1>a, <1>2 DEF X!CancelDialog, X!TypeOK
    <3>4. UNCHANGED <<button, loading, ui>>
      BY <1>2 DEF X!CancelDialog, X!uiRest
    <3>5. ui = "ready"
      BY <1>a, <1>2, <3>2 DEF X!CancelDialog, ClosingInv
    <3> SUFFICES ASSUME NEW k \in Kind
                 PROVE  /\ active'[k] <=> dialog' = k \/ X!Running(k)' # {}
                        /\ \A t, u \in X!Running(k)' : t = u
                        /\ ~(dialog' = k /\ X!Running(k)' # {})
                        /\ ~button'[k] => active'[k] \/ (loading' /\ k \in Gated)
      BY DEF X!FlagHonest
    <3>6. /\ active[k] <=> dialog = k \/ X!Running(k) # {}
          /\ \A t, u \in X!Running(k) : t = u
          /\ ~(dialog = k /\ X!Running(k) # {})
          /\ ~button[k] => active[k] \/ (loading /\ k \in Gated)
      BY <1>a, <3>5 DEF X!FlagHonest
    <3>7. CASE k = dialog
      BY <1>a, <3>1, <3>2, <3>3, <3>4, <3>6, <3>7 DEF DialogInv
    <3>8. CASE k # dialog
      BY <3>1, <3>2, <3>3, <3>4, <3>6, <3>8
    <3> QED BY <3>7, <3>8
  <2>5. X!NoThreadEscapes'
    BY <1>a, <1>2 DEF X!CancelDialog, X!taskVars, X!uiRest, X!NoThreadEscapes, ThreadInv, ClosingInv, X!TypeOK, X!Alive
  <2>6. DialogInv'
    BY <1>a, <1>2 DEF X!CancelDialog, X!taskVars, X!uiRest, DialogInv, X!TypeOK
  <2> QED BY <2>1, <2>2, <2>3, <2>4, <2>5, <2>6 DEF TasksInv
<1>3. ASSUME X!StartTask PROVE TasksInv'
  <2>1. X!TypeOK'
    <3>1. dialog \in Kind /\ tasks + 1 \in X!Task
      BY <1>a, <1>3 DEF X!StartTask, X!TypeOK, X!Task
    <3>2. /\ kindOf' \in [X!Task -> Kind \cup {NoKind}]
          /\ \A t \in X!Task : kindOf'[t] = IF t = tasks + 1 THEN dialog ELSE kindOf[t]
      BY <1>a, <1>3, <3>1 DEF X!StartTask, X!TypeOK
    <3>3. \A t \in X!Task : kindOf'[t] = NoKind <=> t > tasks'
      BY <1>a, <1>3, <3>1, <3>2 DEF X!StartTask, X!TypeOK, X!Task
    <3>4. tasks' \in 0..MaxTask
      BY <1>a, <1>3 DEF X!StartTask, X!TypeOK
    <3>5. registry' \in SUBSET X!Task
      BY <1>a, <1>3, <3>1 DEF X!StartTask, X!Register, X!TypeOK
    <3>6. pc' \in [X!Task -> X!Alive \cup {"none", "done", "joined"}]
      BY <1>a, <1>3 DEF X!StartTask, X!TypeOK, X!Alive
    <3> QED BY <1>a, <1>3, <3>2, <3>3, <3>4, <3>5, <3>6
            DEF X!StartTask, X!TypeOK, X!uiRest
  <2>2. ClosingInv'
    BY <1>a, <1>3 DEF X!StartTask, X!Register, X!Reaped, X!taskVars, X!uiRest, ClosingInv, X!TypeOK
  <2>3. ThreadInv'
    BY <1>a, <1>3 DEF X!StartTask, X!Register, X!Reaped, X!taskVars, X!uiRest, ThreadInv, ClosingInv, X!TypeOK, X!Alive, X!Task
  <2>4. X!FlagHonest'
    <3>1. dialog \in Kind /\ tasks + 1 \in X!Task /\ pc[tasks + 1] = "none"
      BY <1>a, <1>3 DEF X!StartTask, X!TypeOK, X!Task, ThreadInv
    <3>2. \A k \in Kind : X!Running(k)' = IF k = dialog THEN {tasks + 1} ELSE X!Running(k)
      <4>1. \A t \in X!Task : kindOf'[t] = IF t = tasks + 1 THEN dialog ELSE kindOf[t]
        BY <1>a, <1>3, <3>1 DEF X!StartTask, X!TypeOK
      <4>2. \A t \in X!Task \ {tasks + 1} :
              pc'[t] \in {"exporting", "exported"} <=> pc[t] \in {"exporting", "exported"}
        BY <1>a, <1>3 DEF X!StartTask, X!Reaped, X!TypeOK
      <4>3. pc'[tasks + 1] = "exporting" /\ result' = result /\ tasks + 1 \notin result
        BY <1>a, <1>3, <3>1 DEF X!StartTask, ThreadInv
      <4>4. ui = "ready" /\ X!Running(dialog) = {}
        BY <1>a, <1>3, <3>1 DEF X!StartTask, X!FlagHonest, ClosingInv
      <4>5. \A k \in Kind : tasks + 1 \notin X!Running(k)
        BY <3>1, <4>3 DEF X!Running
      <4> QED BY <3>1, <4>1, <4>2, <4>3, <4>4, <4>5 DEF X!Running
    <3>3. \A k \in Kind : button'[k] = IF k = dialog THEN FALSE ELSE button[k]
      BY <1>a, <1>3 DEF X!StartTask, X!TypeOK
    <3>4. UNCHANGED <<active, loading, ui>> /\ dialog' \notin Kind
      BY <1>a, <1>3 DEF X!StartTask, X!uiRest
    <3>5. ui = "ready"
      BY <1>a, <1>3, <3>1 DEF X!StartTask, ClosingInv
    <3> SUFFICES ASSUME NEW k \in Kind
                 PROVE  /\ active'[k] <=> dialog' = k \/ X!Running(k)' # {}
                        /\ \A t, u \in X!Running(k)' : t = u
                        /\ ~(dialog' = k /\ X!Running(k)' # {})
                        /\ ~button'[k] => active'[k] \/ (loading' /\ k \in Gated)
      BY DEF X!FlagHonest
    <3>6. /\ active[k] <=> dialog = k \/ X!Running(k) # {}
          /\ \A t, u \in X!Running(k) : t = u
          /\ ~(dialog = k /\ X!Running(k) # {})
          /\ ~button[k] => active[k] \/ (loading /\ k \in Gated)
      BY <1>a, <3>5 DEF X!FlagHonest
    <3>7. CASE k = dialog
      BY <3>1, <3>2, <3>3, <3>4, <3>6, <3>7
    <3>8. CASE k # dialog
      BY <3>1, <3>2, <3>3, <3>4, <3>6, <3>8
    <3> QED BY <3>7, <3>8
  <2>5. X!NoThreadEscapes'
    BY <1>a, <1>3 DEF X!StartTask, X!Register, X!Reaped, X!taskVars, X!uiRest, X!NoThreadEscapes, ThreadInv, ClosingInv, X!TypeOK, X!Alive
  <2>6. DialogInv'
    BY <1>a, <1>3 DEF X!StartTask, X!Register, X!Reaped, X!taskVars, X!uiRest, DialogInv, X!TypeOK
  <2> QED BY <2>1, <2>2, <2>3, <2>4, <2>5, <2>6 DEF TasksInv
<1>4. ASSUME NEW v \in BOOLEAN, X!SetLoading(v) PROVE TasksInv'
  <2>1. X!TypeOK'
    BY <1>a, <1>4 DEF X!SetLoading, X!taskVars, X!uiRest, X!TypeOK, X!Alive, X!Task, ThreadInv
  <2>2. ClosingInv'
    BY <1>a, <1>4 DEF X!SetLoading, X!taskVars, X!uiRest, ClosingInv, X!TypeOK
  <2>3. ThreadInv'
    BY <1>a, <1>4 DEF X!SetLoading, X!taskVars, X!uiRest, ThreadInv, ClosingInv, X!TypeOK, X!Alive, X!Task
  <2>4. X!FlagHonest'
    BY <1>a, <1>4 DEF X!SetLoading, X!taskVars, X!uiRest, X!FlagHonest, X!Running, ThreadInv, ClosingInv, X!TypeOK, X!Alive, X!Task
  <2>5. X!NoThreadEscapes'
    BY <1>a, <1>4 DEF X!SetLoading, X!taskVars, X!uiRest, X!NoThreadEscapes, ThreadInv, ClosingInv, X!TypeOK, X!Alive
  <2>6. DialogInv'
    BY <1>a, <1>4 DEF X!SetLoading, X!taskVars, X!uiRest, DialogInv, X!TypeOK
  <2> QED BY <2>1, <2>2, <2>3, <2>4, <2>5, <2>6 DEF TasksInv
<1>5. ASSUME X!Close PROVE TasksInv'
  <2>1. X!TypeOK'
    BY <1>a, <1>5 DEF X!Close, X!taskVars, X!uiRest, X!TypeOK, X!Alive, X!Task, ThreadInv
  <2>2. ClosingInv'
    BY <1>a, <1>5 DEF X!Close, X!taskVars, X!uiRest, ClosingInv, X!TypeOK
  <2>3. ThreadInv'
    BY <1>a, <1>5 DEF X!Close, X!taskVars, X!uiRest, ThreadInv, ClosingInv, X!TypeOK, X!Alive, X!Task
  <2>4. X!FlagHonest'
    BY <1>a, <1>5 DEF X!Close, X!taskVars, X!uiRest, X!FlagHonest, X!Running, ThreadInv, ClosingInv, X!TypeOK, X!Alive, X!Task
  <2>5. X!NoThreadEscapes'
    BY <1>a, <1>5 DEF X!Close, X!taskVars, X!uiRest, X!NoThreadEscapes, ThreadInv, ClosingInv, X!TypeOK, X!Alive
  <2>6. DialogInv'
    BY <1>a, <1>5 DEF X!Close, X!taskVars, X!uiRest, DialogInv, X!TypeOK
  <2> QED BY <2>1, <2>2, <2>3, <2>4, <2>5, <2>6 DEF TasksInv
<1>6. ASSUME X!FinishClose PROVE TasksInv'
  <2>1. X!TypeOK'
    BY <1>a, <1>6 DEF X!FinishClose, X!taskVars, X!uiRest, X!TypeOK, X!Alive, X!Task, ThreadInv
  <2>2. ClosingInv'
    BY <1>a, <1>6 DEF X!FinishClose, X!taskVars, X!uiRest, ClosingInv, X!TypeOK
  <2>3. ThreadInv'
    BY <1>a, <1>6 DEF X!FinishClose, X!taskVars, X!uiRest, ThreadInv, ClosingInv, X!TypeOK, X!Alive, X!Task
  <2>4. X!FlagHonest'
    BY <1>a, <1>6 DEF X!FinishClose, X!taskVars, X!uiRest, X!FlagHonest, X!Running, ThreadInv, ClosingInv, X!TypeOK, X!Alive, X!Task
  <2>5. X!NoThreadEscapes'
    BY <1>a, <1>6 DEF X!FinishClose, X!taskVars, X!uiRest, X!NoThreadEscapes, ThreadInv, ClosingInv, X!TypeOK, X!Alive
  <2>6. DialogInv'
    BY <1>a, <1>6 DEF X!FinishClose, X!taskVars, X!uiRest, DialogInv, X!TypeOK
  <2> QED BY <2>1, <2>2, <2>3, <2>4, <2>5, <2>6 DEF TasksInv
<1>7. ASSUME NEW t \in X!Task, X!ExportResult(t) PROVE TasksInv'
  <2>1. X!TypeOK'
    BY <1>a, <1>7 DEF X!ExportResult, X!taskVars, X!uiRest, X!TypeOK, X!Alive, X!Task, ThreadInv
  <2>2. ClosingInv'
    BY <1>a, <1>7 DEF X!ExportResult, X!taskVars, X!uiRest, ClosingInv, X!TypeOK
  <2>3. ThreadInv'
    BY <1>a, <1>7 DEF X!ExportResult, X!taskVars, X!uiRest, ThreadInv, ClosingInv, X!TypeOK, X!Alive, X!Task
  <2>4. X!FlagHonest'
    <3>1. ui = "ready" /\ t \in result /\ kindOf[t] \in Kind
      BY <1>a, <1>7 DEF X!ExportResult, X!TypeOK, ThreadInv
    <3>2. \A k \in Kind : X!Running(k)' = X!Running(k) \ {t}
      BY <1>a, <1>7 DEF X!ExportResult, X!uiRest, X!Running, ThreadInv
    <3>3. \A k \in Kind : t \in X!Running(k) <=> k = kindOf[t]
      BY <3>1 DEF X!Running
    <3>4. \A k \in Kind : /\ active'[k] = IF k = kindOf[t] THEN FALSE ELSE active[k]
                          /\ button'[k] = IF k = kindOf[t] THEN TRUE ELSE button[k]
      BY <1>a, <1>7 DEF X!ExportResult, X!TypeOK
    <3>5. UNCHANGED <<loading, dialog, ui>>
      BY <1>7 DEF X!ExportResult, X!uiRest
    <3> SUFFICES ASSUME NEW k \in Kind
                 PROVE  /\ active'[k] <=> dialog' = k \/ X!Running(k)' # {}
                        /\ \A u, v \in X!Running(k)' : u = v
                        /\ ~(dialog' = k /\ X!Running(k)' # {})
                        /\ ~button'[k] => active'[k] \/ (loading' /\ k \in Gated)
      BY DEF X!FlagHonest
    <3>6. /\ active[k] <=> dialog = k \/ X!Running(k) # {}
          /\ \A u, v \in X!Running(k) : u = v
          /\ ~(dialog = k /\ X!Running(k) # {})
          /\ ~button[k] => active[k] \/ (loading /\ k \in Gated)
      BY <1>a, <3>1 DEF X!FlagHonest
    <3>7. CASE k = kindOf[t]
      BY <3>2, <3>3, <3>4, <3>5, <3>6, <3>7
    <3>8. CASE k # kindOf[t]
      BY <3>2, <3>3, <3>4, <3>5, <3>6, <3>8
    <3> QED BY <3>7, <3>8
  <2>5. X!NoThreadEscapes'
    BY <1>a, <1>7 DEF X!ExportResult, X!taskVars, X!uiRest, X!NoThreadEscapes, ThreadInv, ClosingInv, X!TypeOK, X!Alive
  <2>6. DialogInv'
    BY <1>a, <1>7 DEF X!ExportResult, X!taskVars, X!uiRest, DialogInv, X!TypeOK
  <2> QED BY <2>1, <2>2, <2>3, <2>4, <2>5, <2>6 DEF TasksInv
<1>8. ASSUME NEW t \in X!Task, X!JoinTask(t) PROVE TasksInv'
  <2>1. X!TypeOK'
    BY <1>a, <1>8 DEF X!JoinTask, X!taskVars, X!uiRest, X!TypeOK, X!Alive, X!Task, ThreadInv
  <2>2. ClosingInv'
    BY <1>a, <1>8 DEF X!JoinTask, X!taskVars, X!uiRest, ClosingInv, X!TypeOK
  <2>3. ThreadInv'
    BY <1>a, <1>8 DEF X!JoinTask, X!taskVars, X!uiRest, ThreadInv, ClosingInv, X!TypeOK, X!Alive, X!Task
  <2>4. X!FlagHonest'
    BY <1>a, <1>8 DEF X!JoinTask, X!taskVars, X!uiRest, X!FlagHonest, X!Running, ThreadInv, ClosingInv, X!TypeOK, X!Alive, X!Task
  <2>5. X!NoThreadEscapes'
    BY <1>a, <1>8 DEF X!JoinTask, X!taskVars, X!uiRest, X!NoThreadEscapes, ThreadInv, ClosingInv, X!TypeOK, X!Alive
  <2>6. DialogInv'
    BY <1>a, <1>8 DEF X!JoinTask, X!taskVars, X!uiRest, DialogInv, X!TypeOK
  <2> QED BY <2>1, <2>2, <2>3, <2>4, <2>5, <2>6 DEF TasksInv
<1>9. ASSUME NEW t \in X!Task, X!Export(t) PROVE TasksInv'
  <2>1. X!TypeOK'
    BY <1>a, <1>9 DEF X!Export, X!Move, X!taskVars, X!uiRest, X!TypeOK, X!Alive, X!Task, ThreadInv
  <2>2. ClosingInv'
    BY <1>a, <1>9 DEF X!Export, X!Move, X!taskVars, X!uiRest, ClosingInv, X!TypeOK
  <2>3. ThreadInv'
    BY <1>a, <1>9 DEF X!Export, X!Move, X!taskVars, X!uiRest, ThreadInv, ClosingInv, X!TypeOK, X!Alive, X!Task
  <2>4. X!FlagHonest'
    BY <1>a, <1>9 DEF X!Export, X!Move, X!taskVars, X!uiRest, X!FlagHonest, X!Running, ThreadInv, ClosingInv, X!TypeOK, X!Alive, X!Task
  <2>5. X!NoThreadEscapes'
    BY <1>a, <1>9 DEF X!Export, X!Move, X!taskVars, X!uiRest, X!NoThreadEscapes, ThreadInv, ClosingInv, X!TypeOK, X!Alive
  <2>6. DialogInv'
    BY <1>a, <1>9 DEF X!Export, X!Move, X!taskVars, X!uiRest, DialogInv, X!TypeOK
  <2> QED BY <2>1, <2>2, <2>3, <2>4, <2>5, <2>6 DEF TasksInv
<1>10. ASSUME NEW t \in X!Task, X!PostResult(t) PROVE TasksInv'
  <2>1. X!TypeOK'
    BY <1>a, <1>10 DEF X!PostResult, X!Move, X!taskVars, X!uiRest, X!TypeOK, X!Alive, X!Task, ThreadInv
  <2>2. ClosingInv'
    BY <1>a, <1>10 DEF X!PostResult, X!Move, X!taskVars, X!uiRest, ClosingInv, X!TypeOK
  <2>3. ThreadInv'
    BY <1>a, <1>10 DEF X!PostResult, X!Move, X!taskVars, X!uiRest, ThreadInv, ClosingInv, X!TypeOK, X!Alive, X!Task
  <2>4. X!FlagHonest'
    BY <1>a, <1>10 DEF X!PostResult, X!Move, X!taskVars, X!uiRest, X!FlagHonest, X!Running, ThreadInv, ClosingInv, X!TypeOK, X!Alive, X!Task
  <2>5. X!NoThreadEscapes'
    BY <1>a, <1>10 DEF X!PostResult, X!Move, X!taskVars, X!uiRest, X!NoThreadEscapes, ThreadInv, ClosingInv, X!TypeOK, X!Alive
  <2>6. DialogInv'
    BY <1>a, <1>10 DEF X!PostResult, X!Move, X!taskVars, X!uiRest, DialogInv, X!TypeOK
  <2> QED BY <2>1, <2>2, <2>3, <2>4, <2>5, <2>6 DEF TasksInv
<1>11. ASSUME NEW t \in X!Task, X!DropResult(t) PROVE TasksInv'
  <2>1. X!TypeOK'
    BY <1>a, <1>11 DEF X!DropResult, X!Move, X!taskVars, X!uiRest, X!TypeOK, X!Alive, X!Task, ThreadInv
  <2>2. ClosingInv'
    BY <1>a, <1>11 DEF X!DropResult, X!Move, X!taskVars, X!uiRest, ClosingInv, X!TypeOK
  <2>3. ThreadInv'
    BY <1>a, <1>11 DEF X!DropResult, X!Move, X!taskVars, X!uiRest, ThreadInv, ClosingInv, X!TypeOK, X!Alive, X!Task
  <2>4. X!FlagHonest'
    BY <1>a, <1>11 DEF X!DropResult, X!Move, X!taskVars, X!uiRest, X!FlagHonest, X!Running, ThreadInv, ClosingInv, X!TypeOK, X!Alive, X!Task
  <2>5. X!NoThreadEscapes'
    BY <1>a, <1>11 DEF X!DropResult, X!Move, X!taskVars, X!uiRest, X!NoThreadEscapes, ThreadInv, ClosingInv, X!TypeOK, X!Alive
  <2>6. DialogInv'
    BY <1>a, <1>11 DEF X!DropResult, X!Move, X!taskVars, X!uiRest, DialogInv, X!TypeOK
  <2> QED BY <2>1, <2>2, <2>3, <2>4, <2>5, <2>6 DEF TasksInv
<1>12. ASSUME NEW t \in X!Task, X!SetDone(t) PROVE TasksInv'
  <2>1. X!TypeOK'
    BY <1>a, <1>12 DEF X!SetDone, X!Move, X!taskVars, X!uiRest, X!TypeOK, X!Alive, X!Task, ThreadInv
  <2>2. ClosingInv'
    BY <1>a, <1>12 DEF X!SetDone, X!Move, X!taskVars, X!uiRest, ClosingInv, X!TypeOK
  <2>3. ThreadInv'
    BY <1>a, <1>12 DEF X!SetDone, X!Move, X!taskVars, X!uiRest, ThreadInv, ClosingInv, X!TypeOK, X!Alive, X!Task
  <2>4. X!FlagHonest'
    BY <1>a, <1>12 DEF X!SetDone, X!Move, X!taskVars, X!uiRest, X!FlagHonest, X!Running, ThreadInv, ClosingInv, X!TypeOK, X!Alive, X!Task
  <2>5. X!NoThreadEscapes'
    BY <1>a, <1>12 DEF X!SetDone, X!Move, X!taskVars, X!uiRest, X!NoThreadEscapes, ThreadInv, ClosingInv, X!TypeOK, X!Alive
  <2>6. DialogInv'
    BY <1>a, <1>12 DEF X!SetDone, X!Move, X!taskVars, X!uiRest, DialogInv, X!TypeOK
  <2> QED BY <2>1, <2>2, <2>3, <2>4, <2>5, <2>6 DEF TasksInv
<1> QED BY <1>1, <1>2, <1>3, <1>4, <1>5, <1>6, <1>7, <1>8, <1>9, <1>10, <1>11, <1>12 DEF X!Next, X!Worker
\* Without a step of theirs nothing changes.
LEMMA TasksQuiet ==
  ASSUME TasksInv, UNCHANGED <<taskOnly, pc, shuttingDown>>
  PROVE  TasksInv'
<1>1. X!TypeOK' /\ ClosingInv' /\ ThreadInv' /\ DialogInv'
  BY DEF TasksInv, taskOnly, X!TypeOK, ClosingInv, ThreadInv, DialogInv, X!Task, X!Alive
<1>2. \A k \in Kind : X!Running(k)' = X!Running(k)
  BY DEF taskOnly, X!Running
<1>3. X!FlagHonest'
  BY <1>2 DEF TasksInv, taskOnly, X!FlagHonest
<1>4. X!NoThreadEscapes'
  BY DEF TasksInv, taskOnly, X!NoThreadEscapes
<1> QED BY <1>1, <1>3, <1>4 DEF TasksInv

\* Whatever is clicked, answered, posted and closed in whatever order, however
\* many exports are started: the flag and the button of every kind are given
\* back exactly when they should be, and no export thread outlives the window.
THEOREM ExportThreadsAreSound == WorkersSpec => []ExportThreadsSound
<1> DEFINE Inv == worker = "tasks" => TasksInv
<1>1. WorkersInit => Inv
  BY InitTasks DEF WorkersInit
<1>2. Inv /\ [WorkersNext]_workerVars => Inv'
  <2> SUFFICES ASSUME Inv, [WorkersNext]_workerVars, worker' = "tasks"
               PROVE  TasksInv'
    OBVIOUS
  <2>1. worker = "tasks" /\ TasksInv
    BY DEF WorkersNext, Threads, Tasks, TableStep, ViewStep, workerVars
  <2>2. CASE X!Next
    BY <2>1, <2>2, TasksStep
  <2>3. CASE UNCHANGED workerVars
    BY <2>1, <2>3, TasksQuiet DEF workerVars
  <2> QED BY <2>1, <2>2, <2>3 DEF WorkersNext, Threads, Tasks, TableStep, ViewStep
<1>3. Inv => ExportThreadsSound
  BY DEF ExportThreadsSound, TasksInv
<1> QED BY <1>1, <1>2, <1>3, PTL DEF WorkersSpec
-----------------------------------------------------------------------------
(* The pooled connections.                                                 *)

\* The connection a thread is about to insert is its own: open, in nobody
\* else's hands, and not in the pool.
OwnInv == /\ \A t \in Thread : pc[t] = "insert" =>
               own[t] # 0 /\ state[own[t]] = "open" /\ own[t] \notin Pooled
          /\ \A t, u \in Thread :
               pc[t] = "insert" /\ pc[u] = "insert" /\ own[t] = own[u] => t = u

PoolInv == TypeOK /\ PoolSound /\ OwnInv

\* A load has an odd number, and no number exceeds twice the bound.
LEMMA IdType ==
  /\ \A t \in Load : Id(t) \in 1..(2 * MaxLoad)
  /\ \A t \in Counter : Id(t) \in 1..MaxCount
  /\ Load \cap Counter = {}
  BY BoundAssumption DEF Id, Load, Counter

\* sqlite3_open_v2 gives a connection that nobody had.
LEMMA FreshIsNew ==
  ASSUME CanOpen
  PROVE  Fresh \in Conn /\ state[Fresh] = "new"
<1>1. \E c \in Conn : state[c] = "new" /\ \A d \in Conn : state[d] = "new" => c <= d
  <2> DEFINE New == {c \in Conn : state[c] = "new"}
  <2>1. New \in SUBSET Nat /\ New # {}
    BY BoundAssumption DEF CanOpen, Conn
  <2> QED BY <2>1, LeastNat
<1> QED BY <1>1 DEF Fresh

\* What starting threads that are not started yet does to the pool's invariant:
\* nothing.
LEMMA StartTypes ==
  ASSUME TypeOK, NEW Ts \in SUBSET Thread, NEW p \in Path, Start(Ts, p),
         \A t \in Ts : pc[t] = "none"
  PROVE  /\ seq' \in 0..(2 * MaxLoad) /\ countSeq' \in 0..MaxCount
         /\ path' \in [Thread -> Path]
         /\ pc' \in [Thread -> {"none"} \cup Acquiring \cup Using \cup {"done", "failed"}]
         /\ \A t \in Thread : pc'[t] \in Using => pc[t] \in Using
         /\ \A t \in Thread : pc'[t] = "insert" <=> pc[t] = "insert"
<1>1. seq' \in 0..(2 * MaxLoad)
  <2>1. CASE Ts \cap Load = {}
    BY <2>1 DEF Start, TypeOK
  <2>2. CASE Ts \cap Load # {}
    <3>1. (CHOOSE t \in Ts \cap Load : TRUE) \in Load
      BY <2>2
    <3> QED BY <2>2, <3>1, IdType, BoundAssumption DEF Start
  <2> QED BY <2>1, <2>2
<1>2. countSeq' \in 0..MaxCount
  <2>1. CASE Ts \cap Counter = {}
    BY <2>1 DEF Start, TypeOK
  <2>2. CASE Ts \cap Counter # {}
    <3>1. (CHOOSE t \in Ts \cap Counter : TRUE) \in Counter
      BY <2>2
    <3> QED BY <2>2, <3>1, IdType, BoundAssumption DEF Start
  <2> QED BY <2>1, <2>2
<1>3. /\ pc' \in [Thread -> {"none"} \cup Acquiring \cup Using \cup {"done", "failed"}]
      /\ path' \in [Thread -> Path]
  BY DEF Start, TypeOK, Acquiring
<1>4. \A t \in Thread : pc'[t] = IF t \in Ts THEN "lookup" ELSE pc[t]
  BY DEF Start
<1> QED BY <1>1, <1>2, <1>3, <1>4 DEF Using

\* The threads that start next are not started yet.
LEMMA UpcomingAreNew ==
  /\ \A t \in Upcoming(Load) : t \in Thread /\ pc[t] = "none"
  /\ \A t \in Upcoming(Counter) : t \in Thread /\ pc[t] = "none"
  BY DEF Upcoming, Thread

\* The program starts with an empty pool.
LEMMA InitPool == Init => PoolInv
<1> SUFFICES ASSUME Init PROVE PoolInv
  OBVIOUS
<1>1. TypeOK
  <2>1. 0 \in 0..(2 * MaxLoad) /\ 0 \in 0..MaxCount
    BY BoundAssumption
  <2>2. pc \in [Thread -> {"none"}] /\ path \in [Thread -> Path]
    BY DEF Init
  <2> QED BY <2>1, <2>2 DEF Init, TypeOK, Using
<1>2. PoolSound
  BY DEF Init, PoolSound, Pooled
<1>3. OwnInv
  BY DEF Init, OwnInv
<1> QED BY <1>1, <1>2, <1>3 DEF PoolInv

\* The steps of the window.
LEMMA WindowKeepsPool ==
  ASSUME PoolInv,
         \/ LoadReviewPage \/ StartViewCountRefresh \/ CancelLoad
         \/ \E p \in Path : OpenCase(p) \/ IngestCaseReady(p)
         \/ Close \/ ClosePool
  PROVE  PoolInv'
<1>a. TypeOK /\ PoolSound /\ OwnInv
  BY DEF PoolInv
<1>1. ASSUME NEW Ts \in SUBSET Thread, \A t \in Ts : pc[t] = "none", NEW p \in Path,
             Start(Ts, p), UNCHANGED <<opened, shuttingDown, poolVars, handler, expired>>
      PROVE  PoolInv'
  <2>1. TypeOK'
    BY <1>a, <1>1, StartTypes DEF TypeOK, poolVars
  <2>2. PoolSound'
    <3>1. UNCHANGED <<pool, state, own>> /\ Pooled' = Pooled
      BY <1>1 DEF poolVars, Pooled
    <3>2. \A t \in Thread : pc'[t] = "insert" <=> pc[t] = "insert"
      BY <1>a, <1>1, StartTypes
    <3> QED BY <1>a, <3>1, <3>2 DEF PoolSound
  <2>3. OwnInv'
    BY <1>a, <1>1, StartTypes DEF OwnInv, Pooled, poolVars
  <2> QED BY <2>1, <2>2, <2>3 DEF PoolInv
<1>2. CASE LoadReviewPage \/ StartViewCountRefresh
  <2>1. PICK t \in Upcoming(Load) \cup Upcoming(Counter) : Start({t}, opened)
    BY <1>2 DEF LoadReviewPage, StartViewCountRefresh
  <2>2. opened \in Path /\ {t} \in SUBSET Thread /\ pc[t] = "none"
    BY <1>a, UpcomingAreNew DEF TypeOK
  <2>3. UNCHANGED <<opened, shuttingDown, poolVars, handler, expired>>
    BY <1>2 DEF LoadReviewPage, StartViewCountRefresh
  <2> QED BY <1>1, <2>1, <2>2, <2>3
<1>3. ASSUME UNCHANGED <<poolVars, pc, path, handler, expired, opened>>,
             seq' \in 0..(2 * MaxLoad), countSeq' \in 0..MaxCount,
             shuttingDown' \in BOOLEAN
      PROVE  PoolInv'
  BY <1>a, <1>3 DEF PoolInv, TypeOK, PoolSound, OwnInv, Pooled, poolVars
<1>4. CASE CancelLoad
  <2>1. seq \in 0..(2 * MaxLoad) /\ seq % 2 = 1 /\ seq' = seq + 1
    BY <1>a, <1>4 DEF CancelLoad, TypeOK
  <2>2. seq' \in 0..(2 * MaxLoad)
    BY <2>1, BoundAssumption
  <2> QED BY <1>a, <1>3, <1>4, <2>2 DEF CancelLoad, TypeOK
<1>5. CASE Close
  BY <1>a, <1>3, <1>5 DEF Close, TypeOK
<1>6. CASE ClosePool
  <2>1. TypeOK'
    BY <1>a, <1>6 DEF ClosePool, TypeOK, uiVars, AfterClosePool
  <2>2. \A c \in Conn : state'[c] = IF c \in Pooled THEN "closed" ELSE state[c]
    BY <1>6 DEF ClosePool, AfterClosePool
  <2>3. Pooled' = {} /\ UNCHANGED <<pc, own>>
    BY <1>6 DEF ClosePool, Pooled
  <2>4. PoolSound'
    BY <1>a, <1>6, <2>2, <2>3 DEF ClosePool, PoolSound
  <2>5. OwnInv'
    BY <1>a, <2>2, <2>3 DEF OwnInv, TypeOK
  <2> QED BY <2>1, <2>4, <2>5 DEF PoolInv
<1>7. ASSUME NEW p \in Path, NEW Ts \in SUBSET Thread, \A t \in Ts : pc[t] = "none",
             SwitchCase(p, Ts)
      PROVE  PoolInv'
  <2>1. Fresh \in Conn /\ state[Fresh] = "new" /\ Fresh # 0
    BY <1>7, FreshIsNew, BoundAssumption DEF SwitchCase, Conn
  <2>2. Start(Ts, p)
    BY <1>7 DEF SwitchCase
  <2>3. \A c \in Conn : state'[c] = IF c = Fresh THEN "open"
                                    ELSE IF c \in Pooled THEN "closed" ELSE state[c]
    BY <1>7 DEF SwitchCase, AfterClosePool
  <2>4. /\ pool' = [q \in Path |-> IF q = p THEN Fresh ELSE 0]
        /\ own' = own
    BY <1>7 DEF SwitchCase
  <2>5. Pooled' = {Fresh}
    BY <2>1, <2>4 DEF Pooled
  <2>6. TypeOK'
    <3>1. state' \in [Conn -> {"new", "open", "closed"}]
      BY <1>a, <1>7 DEF SwitchCase, AfterClosePool, TypeOK
    <3>2. /\ seq' \in 0..(2 * MaxLoad) /\ countSeq' \in 0..MaxCount
          /\ path' \in [Thread -> Path]
          /\ pc' \in [Thread -> {"none"} \cup Acquiring \cup Using \cup {"done", "failed"}]
          /\ \A t \in Thread : pc'[t] \in Using => pc[t] \in Using
      BY <1>a, <1>7, <2>2, StartTypes
    <3>3. pool' \in [Path -> Conn \cup {0}]
      BY <2>1, <2>4
    <3>4. /\ opened' \in Path /\ shuttingDown' \in BOOLEAN
          /\ handler' \in [Conn -> Thread \cup {Nobody}]
          /\ own' \in [Thread -> Conn \cup {0}]
          /\ db' \in [Thread -> Conn \cup {0}] /\ db' = db
          /\ expired' \in [Thread -> BOOLEAN]
      BY <1>a, <1>7 DEF SwitchCase, TypeOK
    <3>5. \A t \in Thread : pc'[t] \in Using => db'[t] # 0
      BY <1>a, <3>2, <3>4 DEF TypeOK
    <3> QED BY <3>1, <3>2, <3>3, <3>4, <3>5 DEF TypeOK
  <2>7. \A t \in Thread : pc'[t] = "insert" <=> pc[t] = "insert"
    BY <1>a, <1>7, <2>2, StartTypes
  <2>8. PoolSound'
    BY <1>a, <2>1, <2>3, <2>4, <2>5, <2>7 DEF PoolSound
  <2>9. OwnInv'
    BY <1>a, <2>1, <2>3, <2>4, <2>5, <2>7 DEF OwnInv, TypeOK
  <2> QED BY <2>6, <2>8, <2>9 DEF PoolInv
<1>8. ASSUME NEW p \in Path, OpenCase(p) \/ IngestCaseReady(p)
      PROVE  PoolInv'
  <2>1. PICK Ts \in SUBSET (Upcoming(Load) \cup Upcoming(Counter)) : SwitchCase(p, Ts)
    <3>1. CASE OpenCase(p)
      BY <3>1 DEF OpenCase
    <3>2. CASE IngestCaseReady(p)
      <4>1. PICK k \in Upcoming(Counter) :
              SwitchCase(p, {k}) \/ \E l \in Upcoming(Load) : SwitchCase(p, {k, l})
        BY <3>2 DEF IngestCaseReady
      <4> QED BY <4>1
    <3> QED BY <1>8, <3>1, <3>2
  <2>2. Ts \in SUBSET Thread /\ \A t \in Ts : pc[t] = "none"
    BY UpcomingAreNew
  <2> QED BY <1>7, <2>1, <2>2
<1> QED BY <1>2, <1>4, <1>5, <1>6, <1>8
\* Steps of a thread that neither enter nor leave "insert" and touch no
\* connection.
LEMMA BesideThePool ==
  ASSUME PoolInv, NEW t \in Thread, UNCHANGED <<pool, state, own>>, TypeOK',
         \A u \in Thread : pc'[u] = "insert" <=> pc[u] = "insert"
  PROVE  PoolInv'
<1>1. Pooled' = Pooled
  BY DEF Pooled
<1>2. PoolSound' /\ OwnInv'
  BY <1>1 DEF PoolInv, PoolSound, OwnInv
<1> QED BY <1>2 DEF PoolInv

\* What a move of one thread does to the places of all.
LEMMA Moves ==
  ASSUME TypeOK, NEW t \in Thread, NEW from,
         NEW to \in {"none"} \cup Acquiring \cup Using \cup {"done", "failed"},
         At(t, from, to)
  PROVE  /\ pc[t] = from
         /\ pc' \in [Thread -> {"none"} \cup Acquiring \cup Using \cup {"done", "failed"}]
         /\ \A u \in Thread : pc'[u] = IF u = t THEN to ELSE pc[u]
         /\ UNCHANGED <<opened, seq, countSeq, shuttingDown, path>>
  BY DEF At, TypeOK, uiVars

\* The steps of a thread that finds or opens a connection.
LEMMA AcquiringKeepsPool ==
  ASSUME PoolInv, NEW t \in Thread, LookUp(t) \/ Open(t) \/ OpenFails(t) \/ Insert(t)
  PROVE  PoolInv'
<1>a. TypeOK /\ PoolSound /\ OwnInv
  BY DEF PoolInv
<1>1. CASE LookUp(t)
  <2>1. PICK to \in {"install", "open"} :
          At(t, "lookup", to) /\ (to = "install" => pool[path[t]] # 0)
    BY <1>1 DEF LookUp
  <2>2. /\ pc[t] = "lookup"
        /\ pc' \in [Thread -> {"none"} \cup Acquiring \cup Using \cup {"done", "failed"}]
        /\ \A u \in Thread : pc'[u] = IF u = t THEN to ELSE pc[u]
        /\ UNCHANGED <<opened, seq, countSeq, shuttingDown, path>>
    BY <1>a, <2>1, Moves DEF Acquiring, Using
  <2>3. pool[path[t]] \in Conn \cup {0}
    BY <1>a DEF TypeOK
  <2>4. /\ db' \in [Thread -> Conn \cup {0}]
        /\ \A u \in Thread : db'[u] = IF u = t THEN pool[path[t]] ELSE db[u]
        /\ UNCHANGED <<pool, state, own, handler, expired>>
    BY <1>a, <1>1, <2>3 DEF LookUp, TypeOK
  <2>5. TypeOK'
    BY <1>a, <2>1, <2>2, <2>4 DEF TypeOK, Using
  <2> QED BY <2>2, <2>4, <2>5, BesideThePool
<1>2. CASE OpenFails(t)
  <2>1. At(t, "open", "failed") /\ UNCHANGED <<pool, state, own, db, handler, expired>>
    BY <1>2 DEF OpenFails, poolVars
  <2>2. /\ pc[t] = "open"
        /\ pc' \in [Thread -> {"none"} \cup Acquiring \cup Using \cup {"done", "failed"}]
        /\ \A u \in Thread : pc'[u] = IF u = t THEN "failed" ELSE pc[u]
        /\ UNCHANGED <<opened, seq, countSeq, shuttingDown, path>>
    BY <1>a, <2>1, Moves
  <2>3. TypeOK'
    BY <1>a, <2>1, <2>2 DEF TypeOK, Using
  <2> QED BY <2>1, <2>2, <2>3, BesideThePool
<1>3. CASE Open(t)
  <2>1. Fresh \in Conn /\ state[Fresh] = "new" /\ Fresh # 0
    BY <1>3, FreshIsNew, BoundAssumption DEF Open, Conn
  <2>2. /\ pc[t] = "open"
        /\ pc' \in [Thread -> {"none"} \cup Acquiring \cup Using \cup {"done", "failed"}]
        /\ \A u \in Thread : pc'[u] = IF u = t THEN "insert" ELSE pc[u]
        /\ UNCHANGED <<opened, seq, countSeq, shuttingDown, path>>
    BY <1>a, <1>3, Moves DEF Open, Acquiring
  <2>3. /\ state' \in [Conn -> {"new", "open", "closed"}]
        /\ \A c \in Conn : state'[c] = IF c = Fresh THEN "open" ELSE state[c]
        /\ own' \in [Thread -> Conn \cup {0}]
        /\ \A u \in Thread : own'[u] = IF u = t THEN Fresh ELSE own[u]
        /\ UNCHANGED <<pool, db, handler, expired>>
    BY <1>a, <1>3, <2>1 DEF Open, TypeOK
  <2>4. Pooled' = Pooled /\ Fresh \notin Pooled
    BY <1>a, <2>1, <2>3 DEF Pooled, PoolSound
  <2>5. TypeOK'
    BY <1>a, <2>2, <2>3 DEF TypeOK, Using
  <2>6. PoolSound'
    BY <1>a, <2>1, <2>2, <2>3, <2>4 DEF PoolSound
  <2>7. OwnInv'
    BY <1>a, <2>1, <2>2, <2>3, <2>4 DEF OwnInv, TypeOK
  <2> QED BY <2>5, <2>6, <2>7 DEF PoolInv
<1>4. CASE Insert(t)
  <2>1. /\ pc[t] = "insert"
        /\ pc' \in [Thread -> {"none"} \cup Acquiring \cup Using \cup {"done", "failed"}]
        /\ \A u \in Thread : pc'[u] = IF u = t THEN "install" ELSE pc[u]
        /\ UNCHANGED <<opened, seq, countSeq, shuttingDown, path>>
    BY <1>a, <1>4, Moves DEF Insert, Using
  <2>2. /\ own[t] \in Conn /\ own[t] # 0 /\ state[own[t]] = "open" /\ own[t] \notin Pooled
        /\ path[t] \in Path /\ pool[path[t]] \in Conn \cup {0}
    BY <1>a, <2>1 DEF OwnInv, TypeOK
  <2>3. UNCHANGED <<own, handler, expired>>
    BY <1>4 DEF Insert
  <2>4. CASE pool[path[t]] # 0
    <3>1. /\ state' \in [Conn -> {"new", "open", "closed"}]
          /\ \A c \in Conn : state'[c] = IF c = own[t] THEN "closed" ELSE state[c]
          /\ db' \in [Thread -> Conn \cup {0}]
          /\ \A u \in Thread : db'[u] = IF u = t THEN pool[path[t]] ELSE db[u]
          /\ UNCHANGED pool
      BY <1>a, <1>4, <2>2, <2>4 DEF Insert, TypeOK
    <3>2. Pooled' = Pooled
      BY <3>1 DEF Pooled
    <3>3. TypeOK'
      BY <1>a, <2>1, <2>3, <2>4, <3>1 DEF TypeOK, Using
    <3>4. PoolSound'
      BY <1>a, <2>1, <2>2, <2>3, <3>1, <3>2 DEF PoolSound
    <3>5. OwnInv'
      BY <1>a, <2>1, <2>2, <2>3, <3>1, <3>2 DEF OwnInv, TypeOK
    <3> QED BY <3>3, <3>4, <3>5 DEF PoolInv
  <2>5. CASE pool[path[t]] = 0
    <3>1. /\ pool' \in [Path -> Conn \cup {0}]
          /\ \A p \in Path : pool'[p] = IF p = path[t] THEN own[t] ELSE pool[p]
          /\ db' \in [Thread -> Conn \cup {0}]
          /\ \A u \in Thread : db'[u] = IF u = t THEN own[t] ELSE db[u]
          /\ UNCHANGED state
      BY <1>a, <1>4, <2>2, <2>5 DEF Insert, TypeOK
    <3>2. Pooled' = Pooled \cup {own[t]}
      BY <2>2, <2>5, <3>1 DEF Pooled
    <3>3. TypeOK'
      BY <1>a, <2>1, <2>2, <2>3, <3>1 DEF TypeOK, Using
    <3>4. PoolSound'
      BY <1>a, <2>1, <2>2, <2>3, <3>1, <3>2 DEF PoolSound, Pooled
    <3>5. OwnInv'
      BY <1>a, <2>1, <2>2, <2>3, <3>1, <3>2 DEF OwnInv, TypeOK
    <3> QED BY <3>3, <3>4, <3>5 DEF PoolInv
  <2> QED BY <2>4, <2>5
<1> QED BY <1>1, <1>2, <1>3, <1>4

\* The steps of a thread that uses its connection.
LEMMA UsingKeepsPool ==
  ASSUME PoolInv, NEW t \in Thread,
         Install(t) \/ Deadline(t) \/ Scan(t) \/ LeaveStale(t) \/ CountRows(t) \/ Clear(t)
  PROVE  PoolInv'
<1>a. TypeOK
  BY DEF PoolInv
<1>1. UNCHANGED <<opened, seq, countSeq, shuttingDown, path, pool, state, own, db>>
  BY DEF Install, Deadline, Scan, LeaveStale, CountRows, Clear, At, poolVars, uiVars
<1>2. pc[t] \in Using \ {"insert"}
  BY DEF Install, Deadline, Scan, LeaveStale, CountRows, Clear, At, Using
<1>3. PICK to \in Using \cup {"done", "failed"} :
        \/ pc' = [pc EXCEPT ![t] = to]
        \/ UNCHANGED pc /\ to = pc[t]
  <2>1. CASE Install(t)
    BY <2>1 DEF Install, At, Using
  <2>2. CASE Scan(t)
    BY <2>2 DEF Scan, At, Using
  <2>3. CASE LeaveStale(t)
    BY <2>3 DEF LeaveStale, At, Using
  <2>4. CASE CountRows(t)
    BY <2>4 DEF CountRows, At, Using
  <2>5. CASE Clear(t)
    BY <2>5 DEF Clear, At, Using
  <2>6. CASE Deadline(t)
    BY <1>2, <2>6 DEF Deadline
  <2> QED BY <2>1, <2>2, <2>3, <2>4, <2>5, <2>6
<1>4. /\ pc' \in [Thread -> {"none"} \cup Acquiring \cup Using \cup {"done", "failed"}]
      /\ \A u \in Thread : pc'[u] = IF u = t THEN to ELSE pc[u]
  BY <1>a, <1>3 DEF TypeOK
<1>5. handler' \in [Conn -> Thread \cup {Nobody}]
  BY <1>a DEF Install, Deadline, Scan, LeaveStale, CountRows, Clear, TypeOK
<1>6. expired' \in [Thread -> BOOLEAN]
  BY <1>a DEF Install, Deadline, Scan, LeaveStale, CountRows, Clear, TypeOK
<1>7. TypeOK'
  BY <1>a, <1>1, <1>2, <1>4, <1>5, <1>6 DEF TypeOK
<1>8. \A u \in Thread : pc'[u] = "insert" <=> pc[u] = "insert"
  BY <1>2, <1>4 DEF Using
<1> QED BY <1>1, <1>7, <1>8, BesideThePool

\* However many threads race for the connection of a case, and however often the
\* case is switched meanwhile, no connection is leaked, none is closed while the
\* pool still hands it out, and none serves two cases.
THEOREM ConnectionsAreSound == WorkersSpec => []ConnectionsSound
<1> DEFINE Inv == worker = "pool" => PoolInv
<1>1. WorkersInit => Inv
  BY InitPool DEF WorkersInit
<1>2. Inv /\ [WorkersNext]_workerVars => Inv'
  <2> SUFFICES ASSUME Inv, [WorkersNext]_workerVars, worker' = "pool"
               PROVE  PoolInv'
    OBVIOUS
  <2>1. worker = "pool" /\ PoolInv
    BY DEF WorkersNext, Threads, Tasks, TableStep, ViewStep, workerVars
  <2>2. CASE Next
    BY <2>1, <2>2, WindowKeepsPool, AcquiringKeepsPool, UsingKeepsPool DEF Next
  <2>3. CASE UNCHANGED workerVars
    BY <2>1, <2>3 DEF PoolInv, TypeOK, PoolSound, OwnInv, Pooled, workerVars, poolOnly
  <2> QED BY <2>1, <2>2, <2>3 DEF WorkersNext, Threads, Tasks, TableStep, ViewStep
<1>3. Inv => ConnectionsSound
  BY DEF ConnectionsSound, PoolInv
<1> QED BY <1>1, <1>2, <1>3, PTL DEF WorkersSpec

-----------------------------------------------------------------------------
(* The export of views.                                                    *)

\* Ascending is the same operator here and in the export's module.
LEMMA SameInViews ==
  /\ \A S : V!Cardinality(S) = Cardinality(S)
  /\ \A S : V!Ascending(S) = Ascending(S)
<1>1. \A S : V!Cardinality(S) = Cardinality(S)
  BY DEF V!Cardinality, Cardinality
<1>2. \A S, n : V!Rank(S, n) = Rank(S, n)
  BY <1>1 DEF V!Rank, Rank
<1> QED BY <1>1, <1>2 DEF V!Ascending, Ascending

\* The placeholders of a query: the search columns, then the filter column.
LEMMA PlaceholderList ==
  ASSUME request \in V!Request, NEW v \in View
  PROVE  LET n == IF request.search THEN Columns[v] ELSE 0
             all == IF V!Filtering THEN n + 1 ELSE n
         IN /\ DOMAIN V!Placeholders(v) = 1..all
            /\ \A i \in 1..n : V!Placeholders(v)[i] = i
            /\ V!Filtering => V!Placeholders(v)[n + 1] = 0
            /\ request.kind # "visible" =>
                 /\ Len(V!Bound(v)) = all
                 /\ \A i \in 1..n : V!Bound(v)[i] = "search"
                 /\ V!Filtering => V!Bound(v)[n + 1] = "filter"
<1>1. Columns[v] \in Nat /\ request.search \in BOOLEAN
  BY ViewAssumptions DEF V!ViewAssumption, V!Request
<1>2. PICK n \in Nat : n = IF request.search THEN Columns[v] ELSE 0
  BY <1>1
<1>3. PICK search, filter : search = "search" /\ filter = "filter"
  OBVIOUS
<1>4. PICK columns : columns = IF request.search THEN [i \in 1..Columns[v] |-> i] ELSE <<>>
  OBVIOUS
<1>5. PICK texts : texts = IF request.search THEN [i \in 1..Columns[v] |-> search] ELSE <<>>
  OBVIOUS
<1>6. columns \in Seq(Nat) /\ Len(columns) = n /\ \A i \in 1..n : columns[i] = i
  <2>1. /\ [i \in 1..Columns[v] |-> i] \in Seq(Nat) /\ Len([i \in 1..Columns[v] |-> i]) = Columns[v]
        /\ \A i \in 1..Columns[v] : [k \in 1..Columns[v] |-> k][i] = i
    BY <1>1
  <2> QED BY <1>1, <1>2, <1>4, <2>1
<1>7. texts \in Seq({search}) /\ Len(texts) = n /\ \A i \in 1..n : texts[i] = search
  <2>1. /\ [i \in 1..Columns[v] |-> search] \in Seq({search})
        /\ Len([i \in 1..Columns[v] |-> search]) = Columns[v]
        /\ \A i \in 1..Columns[v] : [k \in 1..Columns[v] |-> search][i] = search
    BY <1>1
  <2> QED BY <1>1, <1>2, <1>5, <2>1
<1>8. V!Placeholders(v) = columns \o (IF V!Filtering THEN <<0>> ELSE <<>>)
  BY <1>4 DEF V!Placeholders
<1>9. request.kind # "visible" => V!Bound(v) = texts \o (IF V!Filtering THEN <<filter>> ELSE <<>>)
  BY <1>3, <1>5 DEF V!Bound
<1>10. /\ DOMAIN V!Placeholders(v) = 1..(IF V!Filtering THEN n + 1 ELSE n)
       /\ \A i \in 1..n : V!Placeholders(v)[i] = i
       /\ V!Filtering => V!Placeholders(v)[n + 1] = 0
  <2>1. CASE V!Filtering
    <3>1. V!Placeholders(v) = columns \o <<0>>
      BY <1>8, <2>1
    <3> QED BY <1>6, <2>1, <3>1
  <2>2. CASE ~V!Filtering
    <3>1. V!Placeholders(v) = columns \o <<>>
      BY <1>8, <2>2
    <3> QED BY <1>6, <2>2, <3>1
  <2> QED BY <2>1, <2>2
<1>11. request.kind # "visible" =>
         /\ Len(V!Bound(v)) = IF V!Filtering THEN n + 1 ELSE n
         /\ \A i \in 1..n : V!Bound(v)[i] = search
         /\ V!Filtering => V!Bound(v)[n + 1] = filter
  <2> SUFFICES ASSUME request.kind # "visible"
               PROVE  /\ Len(V!Bound(v)) = IF V!Filtering THEN n + 1 ELSE n
                      /\ \A i \in 1..n : V!Bound(v)[i] = search
                      /\ V!Filtering => V!Bound(v)[n + 1] = filter
    OBVIOUS
  <2>1. CASE V!Filtering
    <3>1. V!Bound(v) = texts \o <<filter>>
      BY <1>9, <2>1
    <3> QED BY <1>7, <2>1, <3>1
  <2>2. CASE ~V!Filtering
    <3>1. V!Bound(v) = texts \o <<>>
      BY <1>9, <2>2
    <3> QED BY <1>7, <2>2, <3>1
  <2> QED BY <2>1, <2>2
<1> QED BY <1>2, <1>3, <1>10, <1>11

\* The rows a query selects are those the investigator asked for, unless views are
\* searched that nothing is bound for.
LEMMA SelectsWanted ==
  ASSUME request \in V!Request, request.kind = "visible" => ~request.search, NEW v \in View
  PROVE  {r \in V!Rows(v) : V!Where(v, r)} = V!Wanted(v)
<1> DEFINE n == IF request.search THEN Columns[v] ELSE 0
<1> DEFINE searched == {i \in DOMAIN V!Placeholders(v) : V!Placeholders(v)[i] # 0}
<1>1. Columns[v] \in Nat /\ n \in Nat /\ request.search \in BOOLEAN
  BY ViewAssumptions DEF V!ViewAssumption, V!Request
<1>2. /\ DOMAIN V!Placeholders(v) = 1..(IF V!Filtering THEN n + 1 ELSE n)
      /\ \A i \in 1..n : V!Placeholders(v)[i] = i
      /\ V!Filtering => V!Placeholders(v)[n + 1] = 0
      /\ request.kind # "visible" =>
           /\ Len(V!Bound(v)) = (IF V!Filtering THEN n + 1 ELSE n)
           /\ \A i \in 1..n : V!Bound(v)[i] = "search"
           /\ V!Filtering => V!Bound(v)[n + 1] = "filter"
  BY PlaceholderList
<1>3. request.kind = "visible" => n = 0 /\ ~V!Filtering
  BY DEF V!Filtering
<1> HIDE DEF n
<1>4. searched = 1..n
  BY <1>1, <1>2
<1>5. DOMAIN V!Placeholders(v) \ searched = IF V!Filtering THEN {n + 1} ELSE {}
  BY <1>1, <1>2, <1>4
<1>6. ASSUME NEW r
      PROVE  /\ \A i \in 1..n : V!Like(v, r, i) <=> HasText[v][r][i]
             /\ V!Filtering => (V!Like(v, r, n + 1) <=> HasText[v][r][0])
  BY <1>1, <1>2, <1>3 DEF V!Like
<1> HIDE DEF searched
<1>7. ASSUME NEW r
      PROVE  V!Where(v, r) <=> /\ n # 0 => \E i \in 1..n : HasText[v][r][i]
                               /\ V!Filtering => HasText[v][r][0]
  <2>1. V!Where(v, r) <=> /\ searched # {} => \E i \in searched : V!Like(v, r, i)
                          /\ \A i \in DOMAIN V!Placeholders(v) \ searched : V!Like(v, r, i)
    BY DEF V!Where, searched
  <2>2. 1..n # {} <=> n # 0
    BY <1>1
  <2> QED BY <1>4, <1>5, <1>6, <2>1, <2>2
<1>8. (request.search /\ Columns[v] > 0) <=> n # 0
  BY <1>1 DEF n
<1>9. n # 0 => n = Columns[v]
  BY DEF n
<1> QED BY <1>7, <1>8, <1>9 DEF V!Wanted

\* On which page position x is.
LEMMA PageNumber ==
  ASSUME NEW x \in Nat, NEW n \in Nat \ {0}, NEW p \in Nat
  PROVE  x \div n = p <=> p * n <= x /\ x < p * n + n
  OBVIOUS

\* A statement returns, in order, the rows the investigator asked for, or those of
\* them on the page.
LEMMA SelectedRows ==
  ASSUME request \in V!Request, request.kind = "visible" => ~request.search, NEW v \in View
  PROVE  /\ V!ToSet(V!Selected(v)) = {r \in V!Wanted(v) : V!OnPage(v, r)}
         /\ \A i, j \in DOMAIN V!Selected(v) : i < j => V!Selected(v)[i] < V!Selected(v)[j]
<1>1. PICK W : W = V!Wanted(v)
  OBVIOUS
<1>2. W \in SUBSET Int /\ IsFiniteSet(W) /\ Cardinality(W) \in Nat
  <2>1. PICK n \in Nat : V!Rows(v) = 1..n
    <3>1. HasText[v] \in Seq([0..Columns[v] -> BOOLEAN])
      BY ViewAssumptions DEF V!ViewAssumption
    <3>2. Len(HasText[v]) \in Nat /\ DOMAIN HasText[v] = 1..Len(HasText[v])
      BY <3>1
    <3> QED BY <3>2 DEF V!Rows
  <2>2. W \in SUBSET (1..n) /\ 1..n \in SUBSET Int
    BY <1>1, <2>1 DEF V!Wanted
  <2>3. IsFiniteSet(1..n)
    BY FS_Interval
  <2>4. IsFiniteSet(W)
    BY <2>2, <2>3, FS_Subset
  <2> QED BY <2>2, <2>4, FS_CardinalityType
<1>3. PICK all : all = Ascending(W)
  OBVIOUS
<1>4. /\ all \in Seq(W) /\ Len(all) = Cardinality(W)
      /\ \A k \in 1..Cardinality(W) : all[k] \in W /\ Rank(W, all[k]) = k
      /\ \A n \in W : Rank(W, n) \in 1..Cardinality(W) /\ all[Rank(W, n)] = n
  BY <1>2, <1>3, AscendingRanks
<1>5. \A i, j \in 1..Cardinality(W) : i < j => all[i] < all[j]
  BY <1>2, <1>3, AscendingOrder
<1>6. V!Selected(v) = IF request.kind # "page" THEN all
                      ELSE SubSeq(all, V!FirstRow + 1, V!Min({V!FirstRow + PageSize, Len(all)}))
  BY <1>1, <1>3, SelectsWanted, SameInViews DEF V!Selected
<1>7. CASE request.kind # "page"
  <2>1. V!Selected(v) = all /\ DOMAIN all = 1..Cardinality(W)
    BY <1>4, <1>6, <1>7
  <2>2. V!ToSet(all) = W
    BY <1>4, <2>1 DEF V!ToSet
  <2>3. {r \in V!Wanted(v) : V!OnPage(v, r)} = W
    BY <1>1, <1>7 DEF V!OnPage
  <2> QED BY <1>5, <2>1, <2>2, <2>3
<1>8. CASE request.kind = "page"
  <2>1. PICK size \in Nat, p \in Nat : size = PageSize /\ size > 0 /\ p = request.page
    <3>1. request.page \in Nat /\ PageSize \in Nat \ {0}
      BY ViewAssumptions DEF V!PageAssumption, V!Request
    <3> QED BY <3>1
  <2>2. PICK F \in Nat : F = p * size
    BY <2>1
  <2>3. F = V!FirstRow
    BY <2>1, <2>2 DEF V!FirstRow
  <2>4. PICK C \in Nat : C = Cardinality(W) /\ C = Len(all)
    BY <1>2, <1>4
  <2>5. PICK end \in Nat : end = V!Min({F + size, C}) /\ end <= C /\ end <= F + size
                           /\ (end = C \/ end = F + size)
    <3>1. F + size \in Nat
      BY <2>1
    <3>2. PICK n \in {F + size, C} : \A o \in {F + size, C} : n <= o
      BY <3>1, <2>4
    <3>3. V!Min({F + size, C}) \in {F + size, C} /\ \A o \in {F + size, C} : V!Min({F + size, C}) <= o
      BY <3>2 DEF V!Min
    <3> QED BY <3>1, <3>3
  <2>6. V!Selected(v) = SubSeq(all, F + 1, end)
    BY <1>6, <1>8, <2>1, <2>3, <2>4, <2>5
  <2>7. PICK size2 \in Nat : /\ DOMAIN V!Selected(v) = 1..size2
                             /\ size2 = IF F < end THEN end - F ELSE 0
                             /\ \A i \in 1..size2 : V!Selected(v)[i] = all[F + i]
    <3>1. all \in Seq(W) /\ end \in Nat /\ end <= Len(all)
      BY <1>4, <2>4, <2>5
    <3>2. PICK piece : piece = SubSeq(all, F + 1, end)
      OBVIOUS
    <3>3. /\ piece \in Seq(W) /\ Len(piece) = IF F < end THEN end - F ELSE 0
          /\ \A k \in 1..Len(piece) : piece[k] = all[F + k]
      BY <3>1, <3>2, SubSeqPiece
    <3>4. DOMAIN piece = 1..Len(piece) /\ Len(piece) \in Nat
      BY <3>3
    <3> QED BY <2>6, <3>2, <3>3, <3>4
  <2>8. \A i \in 1..size2 : F + i \in 1..C /\ F + i <= F + size
    BY <2>1, <2>5, <2>7
  <2>9. \A k \in 1..C : k >= F + 1 /\ k <= F + size => k - F \in 1..size2
    BY <2>1, <2>5, <2>7
  <2>10. ASSUME NEW r \in W PROVE V!OnPage(v, r) <=> Rank(W, r) \in F + 1..F + size
    <3>1. PICK x \in Nat : x = V!Position(v, r) /\ Rank(W, r) = x + 1
      <4>1. V!Position(v, r) = Cardinality({k \in W : k < r})
        BY <1>1, SameInViews DEF V!Position
      <4>2. Cardinality({k \in W : k < r}) = Rank(W, r) - 1 /\ Rank(W, r) \in 1..C
        BY <1>2, <1>4, <2>4, SmallerRank
      <4>3. ASSUME NEW m, NEW y, m \in 1..C, y = m - 1 PROVE y \in Nat /\ m = y + 1
        BY <2>4, <4>3
      <4> QED BY <4>1, <4>2, <4>3
    <3>2. V!OnPage(v, r) <=> x \div size = p
      BY <1>8, <2>1, <3>1 DEF V!OnPage
    <3>3. x \div size = p <=> p * size <= x /\ x < p * size + size
      BY <2>1, PageNumber
    <3>4. x \div size = p <=> F <= x /\ x < F + size
      BY <2>2, <3>3
    <3> QED BY <2>1, <3>1, <3>2, <3>4
  <2> HIDE <2>2
  <2>11. ASSUME NEW r
         PROVE  (\E i \in 1..size2 : r = all[F + i]) <=> r \in W /\ Rank(W, r) \in F + 1..F + size
    <3>1. ASSUME NEW i \in 1..size2, r = all[F + i]
          PROVE  r \in W /\ Rank(W, r) \in F + 1..F + size
      <4>1. F + i \in 1..C /\ F + i <= F + size /\ F + i >= F + 1
        BY <2>8
      <4>2. r \in W /\ Rank(W, r) = F + i
        BY <1>4, <2>4, <3>1, <4>1
      <4> QED BY <2>1, <4>1, <4>2
    <3>2. ASSUME r \in W, Rank(W, r) \in F + 1..F + size
          PROVE  \E i \in 1..size2 : r = all[F + i]
      <4>1. PICK k \in 1..C : k = Rank(W, r) /\ all[k] = r
        BY <1>4, <2>4, <3>2
      <4>2. k - F \in 1..size2 /\ F + (k - F) = k
        BY <2>1, <2>9, <3>2, <4>1
      <4> QED BY <4>1, <4>2
    <3> QED BY <3>1, <3>2
  <2>12. V!ToSet(V!Selected(v)) = {r \in V!Wanted(v) : V!OnPage(v, r)}
    <3>1. \A r : r \in V!ToSet(V!Selected(v)) <=> \E i \in 1..size2 : r = all[F + i]
      BY <2>7 DEF V!ToSet
    <3> QED BY <1>1, <2>10, <2>11, <3>1
  <2>13. \A i, j \in 1..size2 : i < j => V!Selected(v)[i] < V!Selected(v)[j]
    <3> SUFFICES ASSUME NEW i \in 1..size2, NEW j \in 1..size2, i < j
                 PROVE  V!Selected(v)[i] < V!Selected(v)[j]
      OBVIOUS
    <3>1. F + i < F + j /\ F + i \in 1..C /\ F + j \in 1..C
      BY <2>8
    <3>2. all[F + i] < all[F + j]
      BY <1>5, <2>4, <3>1
    <3> QED BY <2>7, <3>2
  <2> QED BY <2>7, <2>12, <2>13
<1> QED BY <1>7, <1>8

\* The rows a statement returns are rows of the view.
LEMMA SelectedType ==
  ASSUME request \in V!Request, NEW v \in View
  PROVE  V!Selected(v) \in Seq(V!Rows(v))
<1>1. PICK W : W = {r \in V!Rows(v) : V!Where(v, r)}
  OBVIOUS
<1>2. W \in SUBSET V!Rows(v) /\ W \in SUBSET Int /\ IsFiniteSet(W)
  <2>1. PICK n \in Nat : V!Rows(v) = 1..n
    <3>1. HasText[v] \in Seq([0..Columns[v] -> BOOLEAN])
      BY ViewAssumptions DEF V!ViewAssumption
    <3>2. Len(HasText[v]) \in Nat /\ DOMAIN HasText[v] = 1..Len(HasText[v])
      BY <3>1
    <3> QED BY <3>2 DEF V!Rows
  <2>2. W \in SUBSET (1..n)
    BY <1>1, <2>1
  <2>3. IsFiniteSet(1..n)
    BY FS_Interval
  <2>4. W \in SUBSET Int /\ W \in SUBSET V!Rows(v)
    BY <2>1, <2>2
  <2> QED BY <2>2, <2>3, <2>4, FS_Subset
<1>3. PICK all \in Seq(W) : all = Ascending(W)
  BY <1>2, AscendingRanks
<1>4. V!Selected(v) = IF request.kind # "page" THEN all
                      ELSE SubSeq(all, V!FirstRow + 1, V!Min({V!FirstRow + PageSize, Len(all)}))
  BY <1>1, <1>3, SameInViews DEF V!Selected
<1>5. PICK F \in Nat, size \in Nat, C \in Nat : F = V!FirstRow /\ size = PageSize /\ C = Len(all)
  <2>1. request.page \in Nat /\ PageSize \in Nat \ {0}
    BY ViewAssumptions DEF V!PageAssumption, V!Request
  <2>2. V!FirstRow \in Nat
    BY <2>1 DEF V!FirstRow
  <2>3. Len(all) \in Nat
    BY <1>3
  <2> QED BY <2>1, <2>2, <2>3
<1>6. PICK end \in Nat : end = V!Min({F + size, C}) /\ end <= C
  <2>1. F + size \in Nat
    BY <1>5
  <2>2. PICK n \in {F + size, C} : \A o \in {F + size, C} : n <= o
    BY <1>5, <2>1
  <2>3. V!Min({F + size, C}) \in {F + size, C} /\ \A o \in {F + size, C} : V!Min({F + size, C}) <= o
    BY <2>2 DEF V!Min
  <2> QED BY <1>5, <2>1, <2>3
<1>7. SubSeq(all, F + 1, end) \in Seq(W)
  BY <1>5, <1>6, SubSeqPiece
<1>8. PICK chosen \in Seq(W) : chosen = V!Selected(v)
  BY <1>3, <1>4, <1>5, <1>6, <1>7
<1>9. \A r \in W : r \in V!Rows(v)
  BY <1>2
<1>10. ASSUME NEW R, \A r \in W : r \in R PROVE chosen \in Seq(R)
  BY <1>10
<1> QED BY <1>8, <1>9, <1>10

\* What a statement selects depends on the request only.
LEMMA SameSelection == UNCHANGED request => \A v : V!Selected(v)' = V!Selected(v)
  BY DEF V!Selected, V!Where, V!Like, V!Bound, V!Placeholders, V!Filtering, V!FirstRow, V!Rows

\* One view at a time is being written, and what is written of it and what its
\* statement has still to return is what the statement selects; the others are
\* finished, with all their rows, and counted; the manifest comes last.
Writing(v) == /\ v \notin DOMAIN counts /\ DOMAIN files = DOMAIN counts \cup {v}
              /\ pending \in Seq(V!Rows(v)) /\ files[v] \o pending = V!Selected(v)

ViewsInv ==
  /\ V!TypeOK
  /\ pc = "scan" => \E v \in View : Writing(v)
  /\ pc \in {"open", "ok"} => DOMAIN files = DOMAIN counts
  /\ \A v \in DOMAIN counts : files[v] = V!Selected(v) /\ counts[v] = Len(files[v])
  /\ request.kind = "visible" => todo \cup DOMAIN files = View
  /\ manifest # <<>> => pc = "ok" /\ request.kind = "visible" /\ todo = {}

\* Nothing is written at first.
LEMMA InitViews == V!Init => ViewsInv
<1> SUFFICES ASSUME V!Init PROVE ViewsInv
  OBVIOUS
<1>1. /\ request \in V!Request /\ todo \in SUBSET View /\ files = <<>> /\ pending = <<>>
      /\ counts = <<>> /\ manifest = <<>> /\ stop = FALSE /\ pc = "open"
      /\ request.kind = "visible" => todo = View
  BY DEF V!Init
<1>2. DOMAIN files = {} /\ DOMAIN counts = {}
  BY <1>1
<1>3. pending \in Seq(UNION {V!Rows(v) : v \in View})
  BY <1>1
<1> QED BY <1>1, <1>2, <1>3 DEF ViewsInv, V!TypeOK

\* Every step of the export and of the window keeps ViewsInv.
LEMMA ViewsKept == ViewsInv /\ V!Next => ViewsInv'
<1> SUFFICES ASSUME ViewsInv, V!Next PROVE ViewsInv'
  OBVIOUS
<1>a. /\ request \in V!Request /\ todo \in SUBSET View /\ DOMAIN files \subseteq View \ todo
      /\ \A v \in DOMAIN files : files[v] \in Seq(V!Rows(v))
      /\ pending \in Seq(UNION {V!Rows(v) : v \in View})
      /\ DOMAIN counts \subseteq DOMAIN files /\ manifest \in {<<>>, counts}
      /\ stop \in BOOLEAN /\ pc \in {"open", "scan", "ok", "failed"}
  BY DEF ViewsInv, V!TypeOK
<1>b. UNCHANGED request => \A v : V!Selected(v)' = V!Selected(v)
  BY SameSelection
<1>c. ASSUME NEW v \in View, NEW s \in Seq(V!Rows(v)) PROVE s \in Seq(UNION {V!Rows(w) : w \in View})
  <2>1. \A r \in V!Rows(v) : r \in UNION {V!Rows(w) : w \in View}
    OBVIOUS
  <2> QED BY <2>1
<1>1. ASSUME NEW v \in View, V!OpenFile(v) PROVE ViewsInv'
  <2>1. /\ pc = "open" /\ v \in todo /\ v \notin DOMAIN files /\ pc' = "scan"
        /\ UNCHANGED <<request, counts, manifest, stop>>
        /\ todo' = todo \ {v} /\ pending' = V!Selected(v)
        /\ files' = [w \in DOMAIN files \cup {v} |-> IF w = v THEN <<>> ELSE files[w]]
    BY <1>1, <1>a DEF V!OpenFile
  <2>2. pending' \in Seq(V!Rows(v))
    BY <1>a, <2>1, SelectedType
  <2>3. /\ DOMAIN files' = DOMAIN files \cup {v} /\ files'[v] = <<>>
        /\ \A w \in DOMAIN files : files'[w] = files[w]
    BY <2>1
  <2>4. \A w \in DOMAIN files' : files'[w] \in Seq(V!Rows(w))
    <3>1. files'[v] \in Seq(V!Rows(v))
      BY <2>3
    <3> QED BY <1>a, <2>3, <3>1
  <2>5. V!TypeOK'
    BY <1>a, <1>c, <2>1, <2>2, <2>3, <2>4 DEF V!TypeOK, V!Request, V!Rows
  <2>6. DOMAIN files = DOMAIN counts
    BY <2>1 DEF ViewsInv
  <2>7. Writing(v)'
    <3>1. files'[v] \o pending' = V!Selected(v)'
      BY <1>b, <2>1, <2>2, <2>3
    <3> QED BY <2>1, <2>2, <2>3, <2>6, <3>1 DEF Writing, V!Rows
  <2>8. \A w \in DOMAIN counts' : files'[w] = V!Selected(w)' /\ counts'[w] = Len(files'[w])
    BY <1>a, <1>b, <2>1, <2>3 DEF ViewsInv
  <2>9. request'.kind = "visible" => todo' \cup DOMAIN files' = View
    BY <1>a, <2>1, <2>3 DEF ViewsInv
  <2>10. manifest' = <<>>
    BY <2>1 DEF ViewsInv
  <2> QED BY <2>1, <2>5, <2>7, <2>8, <2>9, <2>10 DEF ViewsInv
<1>2. ASSUME pc = "scan"
      PROVE  /\ Writing(V!Scanned) /\ V!Scanned \in View /\ V!Scanned \in DOMAIN files
             /\ manifest = <<>>
  <2>1. PICK v \in View : Writing(v)
    BY <1>2 DEF ViewsInv
  <2>2. V!Scanned = v
    BY <2>1 DEF V!Scanned, Writing
  <2> QED BY <1>2, <2>1, <2>2 DEF Writing, ViewsInv
<1>3. CASE V!WriteRow
  <2>1. PICK v \in View : v = V!Scanned /\ Writing(v) /\ v \in DOMAIN files /\ manifest = <<>>
    BY <1>2, <1>3 DEF V!WriteRow
  <2>2. /\ pc = "scan" /\ pending # <<>> /\ pending' = Tail(pending)
        /\ files' = [files EXCEPT ![v] = Append(files[v], Head(pending))]
        /\ UNCHANGED <<request, todo, counts, manifest, stop, pc>>
    BY <1>3, <2>1 DEF V!WriteRow
  <2>3. PICK R, done, rest :
          /\ R = V!Rows(v) /\ done = files[v] /\ rest = pending /\ rest # <<>>
          /\ done \in Seq(R) /\ rest \in Seq(R)
    BY <1>a, <2>1, <2>2 DEF Writing
  <2>4. /\ Append(done, Head(rest)) \in Seq(R) /\ Tail(rest) \in Seq(R)
        /\ Append(done, Head(rest)) \o Tail(rest) = done \o rest
    BY <2>3
  <2>5. /\ DOMAIN files' = DOMAIN files /\ files'[v] = Append(done, Head(rest))
        /\ \A w \in DOMAIN files \ {v} : files'[w] = files[w]
    BY <2>1, <2>2, <2>3
  <2>6. \A w \in DOMAIN files' : files'[w] \in Seq(V!Rows(w))
    BY <1>a, <2>3, <2>4, <2>5
  <2>7. pending' \in Seq(V!Rows(v)) /\ pending' = Tail(rest)
    BY <2>2, <2>3, <2>4
  <2>8. V!TypeOK'
    BY <1>a, <1>c, <2>2, <2>5, <2>6, <2>7 DEF V!TypeOK, V!Request, V!Rows
  <2>9. Writing(v)'
    <3>1. files'[v] \o pending' = V!Selected(v)'
      BY <1>b, <2>1, <2>2, <2>3, <2>4, <2>5, <2>7 DEF Writing
    <3> QED BY <2>1, <2>2, <2>5, <2>7, <3>1 DEF Writing, V!Rows
  <2>10. \A w \in DOMAIN counts' : files'[w] = V!Selected(w)' /\ counts'[w] = Len(files'[w])
    <3>1. \A w \in DOMAIN counts : w \in DOMAIN files \ {v}
      BY <1>a, <2>1 DEF Writing
    <3> QED BY <1>b, <2>2, <2>5, <3>1 DEF ViewsInv
  <2> QED BY <2>1, <2>2, <2>5, <2>8, <2>9, <2>10 DEF ViewsInv
<1>4. CASE V!EndFile
  <2>1. PICK v \in View : v = V!Scanned /\ Writing(v) /\ v \in DOMAIN files /\ manifest = <<>>
    BY <1>2, <1>4 DEF V!EndFile
  <2>2. /\ pc = "scan" /\ pending = <<>>
        /\ counts' = [w \in DOMAIN files |-> Len(files[w])]
        /\ UNCHANGED <<request, todo, files, pending, stop>>
        /\ IF todo # {} THEN pc' = "open" /\ UNCHANGED manifest
           ELSE /\ pc' = "ok"
                /\ manifest' = IF request.kind = "visible" THEN counts' ELSE <<>>
    BY <1>4 DEF V!EndFile
  <2>3. manifest' \in {<<>>, counts'} /\ pc' \in {"open", "ok"}
    BY <2>1, <2>2
  <2>4. DOMAIN counts' = DOMAIN files
    BY <2>2
  <2>5. V!TypeOK'
    BY <1>a, <2>2, <2>3, <2>4 DEF V!TypeOK, V!Request, V!Rows
  <2>6. files[v] = V!Selected(v)
    <3>1. files[v] \in Seq(V!Rows(v))
      BY <1>a, <2>1
    <3>2. files[v] \o <<>> = files[v]
      BY <3>1
    <3> QED BY <2>1, <2>2, <3>2 DEF Writing
  <2>7. \A w \in DOMAIN counts' : files'[w] = V!Selected(w)' /\ counts'[w] = Len(files'[w])
    <3>1. \A w \in DOMAIN files : w \in DOMAIN counts \/ w = v
      BY <2>1 DEF Writing
    <3> QED BY <1>b, <2>2, <2>6, <3>1 DEF ViewsInv
  <2>8. manifest' # <<>> => pc' = "ok" /\ request.kind = "visible" /\ todo = {}
    BY <2>1, <2>2
  <2> QED BY <2>2, <2>3, <2>4, <2>5, <2>7, <2>8 DEF ViewsInv
<1>5. CASE V!Cancel \/ V!Close
  <2>1. /\ UNCHANGED <<request, todo, files, pending, counts, manifest>>
        /\ stop' \in BOOLEAN /\ (pc' = pc \/ (pc' = "failed" /\ pc # "ok"))
    BY <1>5, <1>a DEF V!Cancel, V!Close
  <2>2. V!TypeOK'
    BY <1>a, <2>1 DEF V!TypeOK, V!Request, V!Rows
  <2>3. \A v \in View : Writing(v) => Writing(v)'
    BY <1>b, <2>1 DEF Writing, V!Rows
  <2>4. pc' = "scan" => \E v \in View : Writing(v)'
    BY <2>1, <2>3 DEF ViewsInv
  <2>5. \A w \in DOMAIN counts' : files'[w] = V!Selected(w)' /\ counts'[w] = Len(files'[w])
    BY <1>b, <2>1 DEF ViewsInv
  <2> QED BY <2>1, <2>2, <2>4, <2>5 DEF ViewsInv
<1> QED BY <1>1, <1>3, <1>4, <1>5 DEF V!Next

\* Whatever is searched or filtered for and whichever page is shown, of whatever
\* size: the export of the current page, of a filtered view, and of the visible
\* views when nothing is searched for, holds exactly the rows the panel shows, in
\* order; and the manifest appears only when every view is complete.
THEOREM ExportsAreAsShown == WorkersSpec => []ExportsWhatIsShown
<1> DEFINE Inv == worker = "views" => ViewsInv
<1>1. WorkersInit => Inv
  BY InitViews DEF WorkersInit
<1>2. Inv /\ [WorkersNext]_workerVars => Inv'
  <2> SUFFICES ASSUME Inv, [WorkersNext]_workerVars, worker' = "views"
               PROVE  ViewsInv'
    OBVIOUS
  <2>1. worker = "views" /\ ViewsInv
    BY DEF WorkersNext, Threads, Tasks, TableStep, ViewStep, workerVars
  <2>2. CASE V!Next
    BY <2>1, <2>2, ViewsKept
  <2>3. CASE UNCHANGED workerVars
    <3>1. UNCHANGED <<request, todo, files, pending, counts, manifest, stop, pc>>
      BY <2>3 DEF workerVars, viewOnly, fileVars
    <3> QED BY <2>1, <3>1, SameSelection DEF ViewsInv, Writing, V!TypeOK, V!Request, V!Rows
  <2> QED BY <2>1, <2>2, <2>3 DEF WorkersNext, Threads, Tasks, TableStep, ViewStep
<1>3. Inv => ExportsWhatIsShown
  <2> SUFFICES ASSUME ViewsInv PROVE V!TypeOK /\ V!ExportsWhatIsShown
    BY DEF ExportsWhatIsShown
  <2>1. ASSUME pc = "ok", request.kind = "visible" => ~request.search, NEW v \in DOMAIN files
        PROVE  V!Faithful(v)
    <3>1. /\ request \in V!Request /\ v \in View /\ files[v] = V!Selected(v)
      BY <2>1 DEF ViewsInv, V!TypeOK
    <3> QED BY <2>1, <3>1, SelectedRows DEF V!Faithful
  <2>2. V!ManifestComplete
    BY DEF V!ManifestComplete, ViewsInv, V!TypeOK
  <2> QED BY <2>1, <2>2 DEF V!ExportsWhatIsShown, ViewsInv
<1> QED BY <1>1, <1>2, <1>3, PTL DEF WorkersSpec

-----------------------------------------------------------------------------
(* The export of the tables.                                               *)

\* What table t held when it was counted; whether this export is done with t.
Held(t) == T!ToSet(counted[t])
Done(t) == \E n \in 1..Len(Tables) : Tables[n] = t /\ n < table

\* No row has a larger number than the last one given; and what a table that
\* numbers its rows got since it was counted is larger than all it held.
DataInv == \A t \in T!Table :
             /\ \A r \in rows[t] : r <= last[t]
             /\ Held(t) \subseteq 1..last[t] /\ counted[t] = Ascending(Held(t))
             /\ t \notin Keyed => \A r \in rows[t] \ Held(t), h \in Held(t) : h < r

\* Where the export is, and what it left in the folder.
RunInv == /\ pc # "idle" <=> outcome = "running"
          /\ pc # "idle" => chunk \in ChunkSizes
          /\ offset <= MaxRow
          /\ exports = 0 => outcome = "none"
          /\ outcome = "none" => exports = 0
          /\ exports <= 1 /\ outcome # "ok" => manifest = NoManifest
          /\ outcome = "ok" => manifest = listed /\ table = Len(Tables) + 1

\* A file that is listed is not written to any more.
FilesInv == \A i \in DOMAIN listed :
              /\ listed[i][1] \in DOMAIN folder /\ Len(folder[listed[i][1]]) = listed[i][2]
              /\ \E n \in 1..Len(Tables) :
                   /\ listed[i][1][1] = Tables[n]
                   /\ n < table \/ (n = table /\ pc \in {"part", "scan"} /\ listed[i][1][2] < part)

\* The rows in the listed files of a table that numbers its rows.
RowsInv == \A t \in T!Table \ Keyed :
             /\ T!RowsAscend(listed, t)
             /\ \A r \in T!RowsOf(listed, t) :
                  r <= last[t] /\ (r \notin Held(t) => \A h \in Held(t) : h < r)
             /\ Done(t) /\ Held(t) \subseteq rows[t] => Held(t) \subseteq T!RowsOf(listed, t)

\* Between two parts: deletions move rows to the front only, so that no row that
\* was exported is behind the offset; without one the rows up to it were exported.
PartInv ==
  pc \in {"part", "scan"} =>
    /\ table <= Len(Tables) /\ part <= offset + 1
    /\ part = 0 <=> counted[T!Current] = <<>>
    /\ part = 0 => offset = 0
    /\ T!Current \notin Keyed =>
         /\ \A r \in T!RowsOf(listed, T!Current) : Rank(rows[T!Current], r) <= offset
         /\ Held(T!Current) \subseteq rows[T!Current] =>
              \A i \in 1..Len(counted[T!Current]) :
                i <= offset => counted[T!Current][i] \in T!RowsOf(listed, T!Current)

\* Inside a part: what was written of it and what its query has still to return.
ScanInv ==
  pc = "scan" =>
    /\ T!Out \in DOMAIN folder
    /\ T!Current \notin Keyed =>
         LET selected == folder[T!Out] \o pending
         IN /\ \A k, l \in 1..Len(selected) : k < l => selected[k] < selected[l]
            /\ \A k \in 1..Len(selected) :
                 /\ selected[k] <= last[T!Current]
                 /\ Rank(rows[T!Current], selected[k]) <= offset + T!Limit
                 /\ \A r \in T!RowsOf(listed, T!Current) : r < selected[k]
                 /\ selected[k] \notin Held(T!Current) =>
                      \A h \in Held(T!Current) : h < selected[k]
            /\ Held(T!Current) \subseteq rows[T!Current] =>
                 \A i \in 1..Len(counted[T!Current]) :
                   i > offset /\ i <= offset + chunk =>
                     \E k \in 1..Len(selected) : selected[k] = counted[T!Current][i]

TablesInv == /\ T!TypeOK /\ DataInv /\ RunInv
             /\ outcome \in {"running", "ok"} => FilesInv /\ RowsInv /\ PartInv /\ ScanInv

\* Ascending is the same operator here and in the export's module.
LEMMA SameInTables == \A S : T!Ascending(S) = Ascending(S)
<1>1. \A S : T!Cardinality(S) = Cardinality(S)
  BY DEF T!Cardinality, Cardinality
<1>2. \A S, n : T!Rank(S, n) = Rank(S, n)
  BY <1>1 DEF T!Rank, Rank
<1> QED BY <1>1, <1>2 DEF T!Ascending, Ascending

\* A set of row numbers is finite, and its numbers in order are a sequence of them.
LEMMA RowSets ==
  ASSUME NEW n \in Nat, NEW S \in SUBSET (1..n)
  PROVE  /\ S \in SUBSET Int /\ IsFiniteSet(S) /\ Cardinality(S) \in 0..n
         /\ Ascending(S) \in Seq(S) /\ Len(Ascending(S)) = Cardinality(S)
         /\ T!ToSet(Ascending(S)) = S
         /\ Ascending(S) = <<>> <=> S = {}
<1>1. IsFiniteSet(1..n) /\ Cardinality(1..n) = n
  BY FS_Interval
<1>2. IsFiniteSet(S) /\ Cardinality(S) <= n /\ Cardinality(S) \in Nat
  BY <1>1, FS_Subset, FS_CardinalityType
<1>3. S \in SUBSET Int
  OBVIOUS
<1>4. PICK all : all = Ascending(S)
  OBVIOUS
<1>5. /\ all \in Seq(S) /\ Len(all) = Cardinality(S)
      /\ \A k \in 1..Cardinality(S) : all[k] \in S
      /\ \A m \in S : Rank(S, m) \in 1..Cardinality(S) /\ all[Rank(S, m)] = m
  BY <1>2, <1>3, <1>4, AscendingRanks
<1>6. T!ToSet(all) = S
  <2>1. DOMAIN all = 1..Cardinality(S)
    BY <1>2, <1>5
  <2>2. \A k \in DOMAIN all : all[k] \in S
    BY <1>5, <2>1
  <2>3. \A m \in S : \E k \in DOMAIN all : all[k] = m
    BY <1>5, <2>1
  <2> QED BY <2>2, <2>3 DEF T!ToSet
<1>7. all = <<>> <=> S = {}
  <2>1. ASSUME all = <<>> PROVE S = {}
    <3>1. T!ToSet(<<>>) = {}
      BY DEF T!ToSet
    <3> QED BY <1>6, <2>1, <3>1
  <2>2. ASSUME S = {} PROVE all = <<>>
    BY <1>2, <1>5, <2>2, FS_EmptySet
  <2> QED BY <2>1, <2>2
<1> QED BY <1>2, <1>3, <1>4, <1>5, <1>6, <1>7

\* Ranks among row numbers.
LEMMA RowRanks ==
  ASSUME NEW n \in Nat, NEW R \in SUBSET (1..n), NEW S \in SUBSET R, NEW x \in 1..n
  PROVE  /\ Rank(R, x) \in Int /\ Rank(S, x) \in Int /\ Rank(S, x) <= Rank(R, x)
         /\ (\A y \in R \ S : x < y) => Rank(S, x) = Rank(R, x)
<1>1. R \in SUBSET Int /\ IsFiniteSet(R) /\ S \in SUBSET (1..n) /\ S \in SUBSET Int /\ IsFiniteSet(S)
      /\ x \in Int
  BY RowSets
<1>2. Rank(R, x) \in Int /\ Rank(S, x) \in Int
  <2>1. Cardinality(R) \in Nat /\ Rank(R, x) \in 0..Cardinality(R)
    BY <1>1, RankType
  <2>2. Cardinality(S) \in Nat /\ Rank(S, x) \in 0..Cardinality(S)
    BY <1>1, RankType
  <2> QED BY <2>1, <2>2
<1> QED BY <1>1, <1>2, RankSubset

\* What the module's assumptions say, and where the tables are.
LEMMA TableFacts ==
  /\ MaxRow \in Nat /\ MaxWrites \in Nat /\ MaxExports \in Nat
  /\ ChunkSizes \subseteq Nat \ {0} /\ Keyed \subseteq T!Table
  /\ Len(Tables) \in Nat
  /\ \A n \in 1..Len(Tables) : Tables[n] \in T!Table
  /\ \A m, n \in 1..Len(Tables) : Tables[m] = Tables[n] => m = n
<1>1. /\ Tables \in Seq(T!ToSet(Tables)) /\ T!IsInjective(Tables)
      /\ {MaxRow, MaxWrites, MaxExports} \subseteq Nat /\ ChunkSizes \subseteq Nat \ {0}
      /\ Keyed \subseteq T!Table
  BY TableAssumptions DEF T!TablesAssumption, T!BoundAssumption, T!ChunkAssumption,
     T!LoadedAssumption
<1>2. Len(Tables) \in Nat /\ DOMAIN Tables = 1..Len(Tables)
  BY <1>1
<1>3. \A n \in 1..Len(Tables) : Tables[n] \in T!Table
  BY <1>2 DEF T!Table, T!ToSet
<1> QED BY <1>1, <1>2, <1>3 DEF T!IsInjective

\* The tables are as the case has them at first, and nothing was exported.
LEMMA InitTables == T!Init => TablesInv
<1> SUFFICES ASSUME T!Init PROVE TablesInv
  OBVIOUS
<1>1. /\ rows = Loaded /\ last = [t \in T!Table |-> T!Max(Loaded[t] \cup {0})]
      /\ writes = 0 /\ folder = <<>> /\ manifest = NoManifest /\ exports = 0
      /\ outcome = "none" /\ stop = FALSE /\ pc = "idle" /\ chunk = 0 /\ table = 1
      /\ counted = [t \in T!Table |-> <<>>] /\ offset = 0 /\ part = 0
      /\ pending = <<>> /\ listed = <<>>
  BY DEF T!Init
<1>2. Loaded \in [T!Table -> SUBSET (1..MaxRow)] /\ MaxRow \in Nat
  BY TableFacts, TableAssumptions DEF T!LoadedAssumption, T!Row
<1>3. ASSUME NEW t \in T!Table
      PROVE  last[t] \in 0..MaxRow /\ \A r \in rows[t] : r <= last[t]
  <2>1. PICK S : S = Loaded[t] \cup {0} /\ \A x \in S : x \in 0..MaxRow
    <3>1. Loaded[t] \subseteq 1..MaxRow
      BY <1>2
    <3>2. \A x \in Loaded[t] \cup {0} : x \in 0..MaxRow
      BY <1>2, <3>1
    <3> QED BY <3>2
  <2>2. PICK d \in {x \in 0..MaxRow : MaxRow - x \in S} :
          \A e \in {x \in 0..MaxRow : MaxRow - x \in S} : d <= e
    <3>1. MaxRow \in {x \in 0..MaxRow : MaxRow - x \in S}
      BY <1>2, <2>1
    <3>2. {x \in 0..MaxRow : MaxRow - x \in S} \in SUBSET Nat
      OBVIOUS
    <3> QED BY <3>1, <3>2, LeastNat
  <2>3. MaxRow - d \in S /\ \A x \in S : MaxRow - d >= x
    <3>1. \A x \in S : MaxRow - x \in 0..MaxRow /\ MaxRow - (MaxRow - x) = x
      BY <1>2, <2>1
    <3>2. \A x \in S : d <= MaxRow - x
      BY <2>2, <3>1
    <3> QED BY <1>2, <2>1, <2>2, <3>2
  <2>4. T!Max(S) \in S /\ \A x \in S : T!Max(S) >= x
    BY <2>3 DEF T!Max
  <2> QED BY <1>1, <1>2, <2>1, <2>4
<1>4. \A t \in T!Table : Held(t) = {} /\ counted[t] = Ascending({})
  <2>1. Ascending({}) = <<>>
    BY RowSets
  <2> QED BY <1>1, <2>1 DEF Held, T!ToSet
<1>5. DataInv
  BY <1>3, <1>4 DEF DataInv
<1>6. T!TypeOK
  <2>1. last \in [T!Table -> 0..MaxRow] /\ rows \in [T!Table -> SUBSET T!Row]
    BY <1>1, <1>2, <1>3 DEF T!Row
  <2>2. counted \in [T!Table -> Seq(T!Row)] /\ DOMAIN folder = {}
    BY <1>1
  <2>3. 0 \in 0..MaxRow /\ 0 \in 0..MaxWrites /\ 0 \in 0..MaxExports /\ 0 \in 0..MaxRow + 0
        /\ 1 \in 1..Len(Tables) + 1
    BY TableFacts
  <2>4. pending \in Seq(T!Row) /\ listed \in Seq(T!File \X Nat)
    BY <1>1
  <2> QED BY <1>1, <2>1, <2>2, <2>3, <2>4 DEF T!TypeOK, T!Part
<1>7. RunInv
  BY <1>1, <1>2 DEF RunInv
<1> QED BY <1>1, <1>5, <1>6, <1>7 DEF TablesInv

\* How the investigator changes a table: the numbers of rows only grow; in a table
\* that numbers its rows, what was counted does not come back, new rows come behind
\* it, and no row moves to the back.
LEMMA DataChanges ==
  ASSUME T!TypeOK, DataInv, NEW t \in T!Table, NEW r \in T!Row, T!Insert(t, r) \/ T!Delete(t, r),
         NEW u \in T!Table
  PROVE  /\ rows'[u] \in SUBSET T!Row /\ last'[u] \in 0..MaxRow /\ last[u] <= last'[u]
         /\ \A x \in rows'[u] : x <= last'[u]
         /\ u \notin Keyed =>
              /\ \A x \in T!Row : x <= last[u] => Rank(rows'[u], x) <= Rank(rows[u], x)
              /\ Held(u) \subseteq rows'[u] => Held(u) \subseteq rows[u]
              /\ \A x \in rows'[u] \ Held(u), h \in Held(u) : h < x
<1>1. /\ MaxRow \in Nat /\ rows[u] \in SUBSET (1..MaxRow) /\ last[u] \in 0..MaxRow
      /\ r \in 1..MaxRow /\ T!Row = 1..MaxRow
  BY TableFacts DEF T!TypeOK, T!Row
<1>2. /\ \A x \in rows[u] : x <= last[u]
      /\ Held(u) \subseteq 1..last[u]
      /\ u \notin Keyed => \A x \in rows[u] \ Held(u), h \in Held(u) : h < x
  BY DEF DataInv
<1>3. CASE u # t
  <2>1. rows'[u] = rows[u] /\ last'[u] = last[u]
    BY <1>3 DEF T!Insert, T!Delete, T!TypeOK
  <2>2. \A x \in T!Row : Rank(rows[u], x) <= Rank(rows[u], x)
    <3>1. ASSUME NEW x \in T!Row PROVE Rank(rows[u], x) \in Int
      BY <1>1, RowRanks
    <3> QED BY <3>1
  <2> QED BY <1>1, <1>2, <2>1, <2>2
<1>4. CASE u = t /\ T!Delete(t, r)
  <2>1. rows'[u] = rows[u] \ {r} /\ last'[u] = last[u]
    BY <1>4 DEF T!Delete, T!TypeOK
  <2>2. \A x \in T!Row : Rank(rows'[u], x) <= Rank(rows[u], x)
    BY <1>1, <2>1, RowRanks
  <2>3. /\ rows'[u] \in SUBSET (1..MaxRow) /\ rows'[u] \subseteq rows[u]
        /\ last[u] <= last'[u]
    BY <1>1, <2>1
  <2> QED BY <1>1, <1>2, <2>1, <2>2, <2>3
<1>5. CASE u = t /\ T!Insert(t, r)
  <2>1. /\ rows'[u] = rows[u] \cup {r} /\ last'[u] = IF r > last[u] THEN r ELSE last[u]
        /\ r \notin rows[u] /\ (u \in Keyed \/ r = last[u] + 1)
    BY <1>5 DEF T!Insert, T!TypeOK
  <2>2. ASSUME u \notin Keyed, NEW x \in T!Row, x <= last[u]
        PROVE  Rank(rows'[u], x) <= Rank(rows[u], x)
    <3>1. \A y \in rows'[u] \ rows[u] : x < y
      BY <1>1, <2>1, <2>2
    <3>2. rows'[u] \in SUBSET (1..MaxRow) /\ rows[u] \in SUBSET rows'[u]
      BY <1>1, <2>1
    <3>3. Rank(rows[u], x) = Rank(rows'[u], x)
      BY <1>1, <3>1, <3>2, RowRanks
    <3>4. Rank(rows[u], x) \in Int
      BY <1>1, RowRanks
    <3> QED BY <3>3, <3>4
  <2>3. u \notin Keyed => r \notin Held(u) /\ \A h \in Held(u) : h < r
    BY <1>1, <1>2, <2>1
  <2>4. /\ rows'[u] \in SUBSET (1..MaxRow) /\ last'[u] \in 0..MaxRow /\ last[u] <= last'[u]
        /\ \A x \in rows'[u] : x <= last'[u]
    <3>1. \A x \in rows[u] : x \in 1..MaxRow /\ x <= last[u]
      BY <1>1, <1>2
    <3> QED BY <1>1, <2>1, <3>1
  <2>5. u \notin Keyed /\ Held(u) \subseteq rows'[u] => Held(u) \subseteq rows[u]
    BY <2>1, <2>3
  <2>6. u \notin Keyed => \A x \in rows'[u] \ Held(u), h \in Held(u) : h < x
    BY <1>2, <2>1, <2>3
  <2> QED BY <1>1, <2>2, <2>4, <2>5, <2>6
<1> QED BY <1>3, <1>4, <1>5

\* The rows in files that are listed.
LEMMA ListedRows ==
  ASSUME T!TypeOK, FilesInv, NEW t PROVE T!RowsOf(listed, t) \in SUBSET T!Row
<1>1. ASSUME NEW i \in T!OfTable(listed, t) PROVE T!ToSet(folder[listed[i][1]]) \subseteq T!Row
  <2>1. folder[listed[i][1]] \in Seq(T!Row)
    BY <1>1 DEF FilesInv, T!OfTable, T!TypeOK
  <2>2. \A k \in DOMAIN folder[listed[i][1]] : folder[listed[i][1]][k] \in T!Row
    BY <2>1
  <2> QED BY <2>2 DEF T!ToSet
<1> QED BY <1>1 DEF T!RowsOf

\* The steps of the investigator.
LEMMA RowsChanged ==
  ASSUME TablesInv, NEW t \in T!Table, NEW r \in T!Row, T!Insert(t, r) \/ T!Delete(t, r)
  PROVE  TablesInv'
<1>a. T!TypeOK /\ DataInv /\ RunInv
  BY DEF TablesInv
<1>1. /\ UNCHANGED <<stop, folder, manifest, exports, outcome, pc, chunk, table, counted, offset,
                     part, pending, listed>>
      /\ writes' \in 0..MaxWrites /\ DOMAIN rows' = T!Table /\ DOMAIN last' = T!Table
      /\ rows' = [u \in T!Table |-> rows'[u]] /\ last' = [u \in T!Table |-> last'[u]]
  BY <1>a, TableFacts DEF T!Insert, T!Delete, T!exporting, T!query, T!TypeOK
<1>2. \A u \in T!Table :
        /\ rows'[u] \in SUBSET T!Row /\ last'[u] \in 0..MaxRow /\ last[u] <= last'[u]
        /\ \A x \in rows'[u] : x <= last'[u]
        /\ u \notin Keyed =>
             /\ \A x \in T!Row : x <= last[u] => Rank(rows'[u], x) <= Rank(rows[u], x)
             /\ Held(u) \subseteq rows'[u] => Held(u) \subseteq rows[u]
             /\ \A x \in rows'[u] \ Held(u), h \in Held(u) : h < x
  BY <1>a, DataChanges
<1>3. \A u : Held(u)' = Held(u) /\ (Done(u)' <=> Done(u))
  BY <1>1 DEF Held, Done
<1>4. T!TypeOK'
  <2>1. rows' \in [T!Table -> SUBSET T!Row] /\ last' \in [T!Table -> 0..MaxRow]
    BY <1>1, <1>2
  <2> QED BY <1>a, <1>1, <2>1 DEF T!TypeOK
<1>5. DataInv'
  <2>1. ASSUME NEW u \in T!Table PROVE last[u] \in Nat /\ last'[u] \in Nat /\ last[u] <= last'[u]
    BY <1>a, <1>2, TableFacts DEF T!TypeOK
  <2>2. \A u \in T!Table : Held(u) \subseteq 1..last'[u]
    BY <1>a, <2>1 DEF DataInv
  <2> QED BY <1>a, <1>1, <1>2, <1>3, <2>2 DEF DataInv
<1>6. RunInv'
  BY <1>a, <1>1 DEF RunInv
<1>7. ASSUME outcome \in {"running", "ok"} PROVE FilesInv' /\ RowsInv' /\ PartInv' /\ ScanInv'
  <2>a. FilesInv /\ RowsInv /\ PartInv /\ ScanInv
    BY <1>7 DEF TablesInv
  <2>1. FilesInv'
    BY <2>a, <1>1 DEF FilesInv
  <2>2. \A u : T!RowsOf(listed, u)' = T!RowsOf(listed, u) /\ T!RowsOf(listed, u) \in SUBSET T!Row
               /\ (T!RowsAscend(listed, u)' <=> T!RowsAscend(listed, u))
    BY <1>a, <1>1, <2>a, ListedRows DEF T!RowsOf, T!OfTable, T!RowsAscend
  <2>3. ASSUME NEW u \in T!Table, NEW x \in T!Row, x <= last[u] PROVE x <= last'[u]
    BY <1>a, <1>2, <2>3, TableFacts DEF T!TypeOK, T!Row
  <2>4. RowsInv'
    BY <1>2, <1>3, <2>a, <2>2, <2>3 DEF RowsInv
  <2>5. ASSUME pc \in {"part", "scan"}
        PROVE  T!Current \in T!Table /\ T!Current' = T!Current /\ T!Out' = T!Out /\ T!Limit' = T!Limit
    BY <1>a, <1>1, <2>a, <2>5, TableFacts DEF T!TypeOK, PartInv, T!Current, T!Out, T!Limit
  <2>6. ASSUME NEW u \in T!Table \ Keyed, NEW x \in T!Row, x <= last[u], NEW b2 \in Int,
               Rank(rows[u], x) <= b2
        PROVE  Rank(rows'[u], x) <= b2
    <3>1. Rank(rows'[u], x) <= Rank(rows[u], x)
      BY <1>2, <2>6
    <3>2. Rank(rows[u], x) \in Int /\ Rank(rows'[u], x) \in Int
      <4>1. /\ rows[u] \in SUBSET (1..MaxRow) /\ rows'[u] \in SUBSET (1..MaxRow)
            /\ x \in 1..MaxRow /\ MaxRow \in Nat
        BY <1>a, <1>2, TableFacts DEF T!TypeOK, T!Row
      <4> QED BY <4>1, RowRanks
    <3> QED BY <2>6, <3>1, <3>2
  <2>7. PartInv'
    <3> SUFFICES ASSUME pc \in {"part", "scan"}, T!Current \notin Keyed
                 PROVE  \A x \in T!RowsOf(listed, T!Current) : Rank(rows'[T!Current], x) <= offset
      BY <1>1, <1>2, <1>3, <2>a, <2>2, <2>5 DEF PartInv
    <3>1. offset \in Int
      BY <1>a, TableFacts DEF T!TypeOK
    <3>2. \A x \in T!RowsOf(listed, T!Current) :
            x \in T!Row /\ x <= last[T!Current] /\ Rank(rows[T!Current], x) <= offset
      BY <2>a, <2>2, <2>5 DEF PartInv, RowsInv
    <3> QED BY <2>5, <2>6, <3>1, <3>2
  <2>8. ScanInv'
    <3> SUFFICES ASSUME pc = "scan" PROVE ScanInv'
      BY <1>1 DEF ScanInv
    <3>1. PICK selected : selected = folder[T!Out] \o pending
      OBVIOUS
    <3>2. selected \in Seq(T!Row) /\ T!Out \in DOMAIN folder
      BY <1>a, <2>a, <3>1 DEF T!TypeOK, ScanInv
    <3>3. \A k \in 1..Len(selected) : selected[k] \in T!Row
      BY <3>2
    <3>4. T!Current \notin Keyed =>
            \A k \in 1..Len(selected) :
              selected[k] <= last[T!Current] /\ Rank(rows[T!Current], selected[k]) <= offset + T!Limit
      BY <2>a, <3>1 DEF ScanInv
    <3>5. offset + T!Limit \in Int
      <4>1. chunk \in Nat
        BY <1>a, TableFacts DEF T!TypeOK
      <4> QED BY <1>a, <4>1, TableFacts DEF T!TypeOK, T!Limit
    <3>6. T!Current \notin Keyed =>
            \A k \in 1..Len(selected) :
              selected[k] <= last'[T!Current] /\ Rank(rows'[T!Current], selected[k]) <= offset + T!Limit
      BY <2>3, <2>5, <2>6, <3>3, <3>4, <3>5
    <3>7. selected = folder'[T!Out'] \o pending'
      BY <1>1, <2>5, <3>1
    <3> QED BY <1>1, <1>2, <1>3, <2>a, <2>2, <2>5, <3>1, <3>2, <3>6, <3>7 DEF ScanInv
  <2> QED BY <2>1, <2>4, <2>7, <2>8
<1> QED BY <1>1, <1>4, <1>5, <1>6, <1>7 DEF TablesInv

\* The file being written is not listed yet.
LEMMA OutNotListed ==
  ASSUME T!TypeOK, FilesInv, pc \in {"part", "scan"}, table <= Len(Tables)
  PROVE  \A i \in DOMAIN listed : listed[i][1] # T!Out
<1> SUFFICES ASSUME NEW i \in DOMAIN listed, listed[i][1] = T!Out PROVE FALSE
  OBVIOUS
<1>1. listed[i][1][1] = Tables[table] /\ listed[i][1][2] = part
  BY DEF T!Out, T!Current
<1>2. PICK n \in 1..Len(Tables) :
        /\ Tables[table] = Tables[n]
        /\ n < table \/ (n = table /\ part < part)
  BY <1>1 DEF FilesInv
<1>3. table \in 1..Len(Tables) /\ part \in Nat
  BY TableFacts DEF T!TypeOK, T!Part
<1> QED BY <1>2, <1>3, TableFacts

\* As long as the listed files are left alone, what is in them stays.
LEMMA SameFiles ==
  ASSUME UNCHANGED listed, \A i \in DOMAIN listed : folder'[listed[i][1]] = folder[listed[i][1]],
         NEW t
  PROVE  /\ T!RowsOf(listed, t)' = T!RowsOf(listed, t)
         /\ T!RowsAscend(listed, t)' <=> T!RowsAscend(listed, t)
<1>1. T!OfTable(listed, t)' = T!OfTable(listed, t) /\ T!OfTable(listed, t) \subseteq DOMAIN listed
  BY DEF T!OfTable
<1>2. \A i \in T!OfTable(listed, t) : folder'[listed'[i][1]] = folder[listed[i][1]]
  BY <1>1
<1>3. T!RowsOf(listed, t)' = T!RowsOf(listed, t)
  BY <1>1, <1>2 DEF T!RowsOf
<1>4. T!RowsAscend(listed, t)' <=> T!RowsAscend(listed, t)
  BY <1>1, <1>2 DEF T!RowsAscend
<1> QED BY <1>3, <1>4

\* A table of which nothing is listed.
LEMMA NotListed ==
  ASSUME NEW t, T!OfTable(listed, t) = {}
  PROVE  T!RowsOf(listed, t) = {} /\ T!RowsAscend(listed, t)
  BY DEF T!RowsOf, T!RowsAscend

\* Starting, ending and giving up an export, and closing the window.
LEMMA ExportEnds ==
  ASSUME TablesInv,
         \/ \E c \in ChunkSizes : T!StartExport(c)
         \/ T!Cancel \/ T!WriteManifest \/ T!Close
  PROVE  TablesInv'
<1>a. T!TypeOK /\ DataInv /\ RunInv
  BY DEF TablesInv
<1>1. ASSUME NEW c \in ChunkSizes, T!StartExport(c) PROVE TablesInv'
  <2>1. /\ pc = "idle" /\ exports < MaxExports /\ exports' = exports + 1 /\ outcome' = "running"
        /\ pc' = "count" /\ chunk' = c /\ table' = 1 /\ listed' = <<>>
        /\ UNCHANGED <<rows, last, writes, folder, manifest, stop, counted, offset, part, pending>>
    BY <1>1 DEF T!StartExport, T!data, T!query
  <2>2. T!TypeOK'
    <3>1. /\ c \in Nat /\ exports' \in 0..MaxExports /\ listed' \in Seq(T!File \X Nat)
          /\ table' \in 1..Len(Tables) + 1 /\ offset' \in 0..MaxRow + chunk'
      BY <1>a, <2>1, TableFacts DEF T!TypeOK, RunInv
    <3> QED BY <1>a, <2>1, <3>1 DEF T!TypeOK
  <2>3. DataInv'
    BY <1>a, <2>1 DEF DataInv, Held
  <2>4. RunInv'
    <3>1. exports \in Nat
      BY <1>a, TableFacts DEF T!TypeOK
    <3>2. outcome # "running"
      BY <1>a, <2>1 DEF RunInv
    <3> QED BY <1>a, <2>1, <3>1, <3>2 DEF RunInv
  <2>5. FilesInv'
    BY <2>1 DEF FilesInv
  <2>6. \A t : T!OfTable(listed, t)' = {} /\ ~Done(t)'
    BY <2>1, TableFacts DEF T!OfTable, Done
  <2>7. RowsInv'
    BY <2>6 DEF RowsInv, T!RowsOf, T!RowsAscend
  <2> QED BY <2>1, <2>2, <2>3, <2>4, <2>5, <2>7 DEF TablesInv, PartInv, ScanInv
<1>2. CASE T!Cancel
  <2>1. /\ pc # "idle" /\ pc' = "idle" /\ outcome' = "failed"
        /\ UNCHANGED <<rows, last, writes, folder, manifest, exports, stop, chunk, table, counted,
                       offset, part, pending, listed>>
    BY <1>2 DEF T!Cancel, T!data, T!query
  <2>2. T!TypeOK' /\ DataInv'
    BY <1>a, <2>1 DEF T!TypeOK, DataInv, Held
  <2>3. RunInv'
    BY <1>a, <2>1 DEF RunInv
  <2> QED BY <2>1, <2>2, <2>3 DEF TablesInv
<1>3. CASE T!WriteManifest
  <2>1. /\ pc = "count" /\ table > Len(Tables) /\ manifest' = listed /\ pc' = "idle" /\ outcome' = "ok"
        /\ UNCHANGED <<rows, last, writes, folder, exports, stop, chunk, table, counted,
                       offset, part, pending, listed>>
    BY <1>3 DEF T!WriteManifest, T!data, T!query
  <2>2. T!TypeOK' /\ DataInv'
    BY <1>a, <2>1 DEF T!TypeOK, DataInv, Held
  <2>3. RunInv'
    <3>1. table = Len(Tables) + 1
      <4>1. table \in 1..Len(Tables) + 1 /\ Len(Tables) \in Nat
        BY <1>a, TableFacts DEF T!TypeOK
      <4> QED BY <2>1, <4>1
    <3> QED BY <1>a, <2>1, <3>1 DEF RunInv
  <2>4. FilesInv /\ RowsInv
    BY <1>a, <2>1 DEF TablesInv, RunInv
  <2>5. FilesInv'
    BY <2>1, <2>4 DEF FilesInv
  <2>6. RowsInv'
    <3>1. \A t : /\ T!RowsOf(listed, t)' = T!RowsOf(listed, t) /\ Held(t)' = Held(t)
                 /\ (T!RowsAscend(listed, t)' <=> T!RowsAscend(listed, t)) /\ (Done(t)' <=> Done(t))
      BY <2>1, SameFiles DEF Held, Done
    <3> QED BY <2>1, <2>4, <3>1 DEF RowsInv
  <2> QED BY <2>1, <2>2, <2>3, <2>5, <2>6 DEF TablesInv, PartInv, ScanInv
<1>4. CASE T!Close
  <2>1. /\ stop' \in BOOLEAN
        /\ UNCHANGED <<rows, last, writes, folder, manifest, exports, outcome, pc, chunk, table, counted,
                       offset, part, pending, listed>>
    BY <1>4 DEF T!Close, T!data, T!exporting, T!query
  <2>2. T!TypeOK'
    BY <1>a, <2>1 DEF T!TypeOK
  <2>3. T!Current' = T!Current /\ T!Out' = T!Out /\ T!Limit' = T!Limit
    BY <2>1 DEF T!Current, T!Out, T!Limit
  <2>4. \A t : /\ T!RowsOf(listed, t)' = T!RowsOf(listed, t) /\ Held(t)' = Held(t)
               /\ (T!RowsAscend(listed, t)' <=> T!RowsAscend(listed, t)) /\ (Done(t)' <=> Done(t))
    BY <2>1, SameFiles DEF Held, Done
  <2> QED BY <2>1, <2>2, <2>3, <2>4
          DEF TablesInv, DataInv, RunInv, FilesInv, RowsInv, PartInv, ScanInv
<1> QED BY <1>1, <1>2, <1>3, <1>4

\* A table is counted: nothing of it is listed yet.
LEMMA TableCounted == ASSUME TablesInv, T!CountTable PROVE TablesInv'
<1>a. T!TypeOK /\ DataInv /\ RunInv
  BY DEF TablesInv
<1>1. /\ pc = "count" /\ table <= Len(Tables) /\ pc' = "part" /\ offset' = 0
      /\ part' = IF rows[T!Current] = {} THEN 0 ELSE 1
      /\ counted' = [counted EXCEPT ![T!Current] = T!InOrder(T!Current)]
      /\ UNCHANGED <<rows, last, writes, folder, manifest, exports, outcome, stop, chunk, table,
                     pending, listed>>
  BY DEF T!CountTable, T!data
<1>2. PICK c \in T!Table : /\ c = T!Current /\ c = Tables[table] /\ table \in 1..Len(Tables)
                           /\ c = T!Current'
  BY <1>a, <1>1, TableFacts DEF T!TypeOK, T!Current
<1>3. /\ MaxRow \in Nat /\ rows[c] \in SUBSET (1..MaxRow) /\ T!Row = 1..MaxRow
      /\ \A r \in rows[c] : r <= last[c]
  BY <1>a, TableFacts DEF T!TypeOK, T!Row, DataInv
<1>4. /\ counted'[c] = Ascending(rows[c]) /\ counted' \in [T!Table -> Seq(T!Row)]
      /\ Held(c)' = rows[c] /\ Len(counted'[c]) = Cardinality(rows[c])
      /\ (counted'[c] = <<>> <=> rows[c] = {}) /\ Cardinality(rows[c]) \in 0..MaxRow
      /\ \A u \in T!Table : u # c => counted'[u] = counted[u] /\ Held(u)' = Held(u)
  <2>1. T!InOrder(T!Current) = Ascending(rows[c])
    BY <1>2, SameInTables DEF T!InOrder
  <2>2. /\ Ascending(rows[c]) \in Seq(rows[c]) /\ Len(Ascending(rows[c])) = Cardinality(rows[c])
        /\ T!ToSet(Ascending(rows[c])) = rows[c] /\ Cardinality(rows[c]) \in 0..MaxRow
        /\ Ascending(rows[c]) = <<>> <=> rows[c] = {}
    BY <1>3, RowSets
  <2>3. Ascending(rows[c]) \in Seq(T!Row)
    <3>1. PICK all : all = Ascending(rows[c])
      OBVIOUS
    <3>2. all \in Seq(rows[c]) /\ \A r \in rows[c] : r \in T!Row
      BY <1>3, <2>2, <3>1
    <3>3. all \in Seq(T!Row)
      BY <3>2
    <3> QED BY <3>1, <3>3
  <2>4. counted'[c] = Ascending(rows[c]) /\ \A u \in T!Table : u # c => counted'[u] = counted[u]
    BY <1>a, <1>1, <1>2, <2>1 DEF T!TypeOK
  <2>5. counted' \in [T!Table -> Seq(T!Row)]
    BY <1>a, <1>1, <1>2, <2>1, <2>3 DEF T!TypeOK
  <2> QED BY <2>2, <2>4, <2>5 DEF Held
<1>5. T!TypeOK'
  <2>1. part' \in T!Part /\ offset' \in 0..MaxRow + chunk' /\ part' <= Len(counted'[Tables'[table']])
    <3>1. chunk \in Nat
      BY <1>a, TableFacts DEF T!TypeOK
    <3>2. rows[c] # {} => Cardinality(rows[c]) # 0
      BY <1>3, RowSets, FS_EmptySet
    <3> QED BY <1>1, <1>2, <1>3, <1>4, <3>1, <3>2 DEF T!Part
  <2> QED BY <1>a, <1>1, <1>4, <2>1 DEF T!TypeOK
<1>6. DataInv'
  <2>1. rows[c] \subseteq 1..last[c]
    BY <1>a, <1>3 DEF T!TypeOK
  <2> QED BY <1>a, <1>1, <1>4, <2>1 DEF DataInv
<1>7. RunInv'
  BY <1>a, <1>1, <1>3 DEF RunInv
<1>8. outcome = "running" /\ FilesInv /\ RowsInv
  BY <1>a, <1>1 DEF TablesInv, RunInv
<1>9. FilesInv'
  BY <1>1, <1>8 DEF FilesInv
<1>10. T!OfTable(listed, c) = {}
  <2> SUFFICES ASSUME NEW i \in T!OfTable(listed, c) PROVE FALSE
    OBVIOUS
  <2>1. PICK n \in 1..Len(Tables) : Tables[n] = Tables[table] /\ n < table
    BY <1>1, <1>2, <1>8 DEF FilesInv, T!OfTable
  <2>2. n = table
    BY <1>2, <2>1, TableFacts
  <2> QED BY <1>2, <2>1, <2>2
<1>11. /\ \A t : /\ T!RowsOf(listed, t)' = T!RowsOf(listed, t) /\ (Done(t)' <=> Done(t))
                 /\ (T!RowsAscend(listed, t)' <=> T!RowsAscend(listed, t))
       /\ T!RowsOf(listed, c) = {} /\ T!RowsAscend(listed, c)
  BY <1>1, <1>10, SameFiles, NotListed DEF Done
<1>12. ~Done(c)
  <2> SUFFICES ASSUME NEW n \in 1..Len(Tables), Tables[n] = c, n < table PROVE FALSE
    BY DEF Done
  <2>1. n = table
    BY <1>2, TableFacts
  <2> QED BY <1>2, <2>1
<1>13. RowsInv'
  <2> SUFFICES ASSUME NEW t \in T!Table \ Keyed
               PROVE  /\ T!RowsAscend(listed, t)
                      /\ \A r \in T!RowsOf(listed, t) :
                           r <= last[t] /\ (r \notin Held(t)' => \A h \in Held(t)' : h < r)
                      /\ Done(t) /\ Held(t)' \subseteq rows[t] => Held(t)' \subseteq T!RowsOf(listed, t)
    BY <1>1, <1>11 DEF RowsInv
  <2> QED BY <1>4, <1>8, <1>11, <1>12 DEF RowsInv
<1>14. PartInv'
  <2>1. part' \in Nat /\ part' <= offset' + 1 /\ (part' = 0 <=> counted'[c] = <<>>)
    BY <1>1, <1>2, <1>4
  <2>2. \A i \in 1..Len(counted'[c]) : ~(i <= offset')
    BY <1>1
  <2> QED BY <1>1, <1>2, <1>11, <2>1, <2>2 DEF PartInv
<1> QED BY <1>1, <1>5, <1>6, <1>7, <1>9, <1>13, <1>14 DEF TablesInv, ScanInv

\* What is known of the table that is being exported.
LEMMA CurrentTable ==
  ASSUME T!TypeOK, DataInv, table <= Len(Tables)
  PROVE  /\ T!Current \in T!Table /\ T!Current = Tables[table] /\ table \in 1..Len(Tables)
         /\ T!Out \in T!Table \X T!Part /\ T!Out[1] = T!Current /\ T!Out[2] = part
         /\ rows[T!Current] \in SUBSET (1..MaxRow) /\ MaxRow \in Nat /\ last[T!Current] \in 0..MaxRow
         /\ Held(T!Current) \in SUBSET (1..MaxRow) /\ counted[T!Current] = Ascending(Held(T!Current))
         /\ Len(counted[T!Current]) = Cardinality(Held(T!Current))
         /\ Len(counted[T!Current]) \in 0..MaxRow
         /\ \A h \in Held(T!Current) :
              \E i \in 1..Len(counted[T!Current]) : counted[T!Current][i] = h
<1>1. T!Current \in T!Table /\ T!Current = Tables[table] /\ table \in 1..Len(Tables) /\ part \in T!Part
  BY TableFacts DEF T!TypeOK, T!Current
<1>2. PICK c \in T!Table : c = T!Current
  BY <1>1
<1>3. /\ rows[c] \in SUBSET (1..MaxRow) /\ MaxRow \in Nat /\ last[c] \in 0..MaxRow
      /\ Held(c) \in SUBSET (1..last[c]) /\ counted[c] = Ascending(Held(c))
  BY TableFacts DEF T!TypeOK, T!Row, DataInv
<1>4. Held(c) \in SUBSET (1..MaxRow)
  BY <1>3
<1>5. /\ Len(counted[c]) = Cardinality(Held(c)) /\ Len(counted[c]) \in 0..MaxRow
      /\ counted[c] \in Seq(Held(c))
  BY <1>3, <1>4, RowSets
<1>6. \A h \in Held(c) : \E i \in 1..Len(counted[c]) : counted[c][i] = h
  <2>1. PICK all : all = counted[c]
    OBVIOUS
  <2>2. Held(c) = {all[i] : i \in DOMAIN all}
    BY <2>1 DEF Held, T!ToSet
  <2>3. DOMAIN all = 1..Len(all)
    BY <1>5, <2>1
  <2> QED BY <2>1, <2>2, <2>3
<1> QED BY <1>1, <1>2, <1>3, <1>4, <1>5, <1>6 DEF T!Out

\* The query of a part: the rows behind the offset, in order, are behind all that
\* was exported before; and if no row was deleted they are those counted.
LEMMA PartQuery ==
  ASSUME T!TypeOK, DataInv, RunInv, FilesInv, RowsInv, PartInv, pc = "part",
         NEW piece,
         piece = SubSeq(T!InOrder(T!Current), offset + 1,
                        T!Min({offset + T!Limit, Len(T!InOrder(T!Current))}))
  PROVE  /\ piece \in Seq(T!Row)
         /\ T!Current \notin Keyed =>
              /\ \A k, l \in 1..Len(piece) : k < l => piece[k] < piece[l]
              /\ \A k \in 1..Len(piece) :
                   /\ piece[k] <= last[T!Current]
                   /\ Rank(rows[T!Current], piece[k]) <= offset + T!Limit
                   /\ \A r \in T!RowsOf(listed, T!Current) : r < piece[k]
                   /\ piece[k] \notin Held(T!Current) => \A h \in Held(T!Current) : h < piece[k]
              /\ Held(T!Current) \subseteq rows[T!Current] =>
                   \A i \in 1..Len(counted[T!Current]) :
                     i > offset /\ i <= offset + chunk =>
                       \E k \in 1..Len(piece) : piece[k] = counted[T!Current][i]
<1>1. PICK c \in T!Table :
        /\ c = T!Current /\ rows[c] \in SUBSET (1..MaxRow) /\ MaxRow \in Nat
        /\ counted[c] = Ascending(Held(c))
        /\ Len(counted[c]) = Cardinality(Held(c)) /\ Len(counted[c]) \in Nat
  BY CurrentTable DEF PartInv
<1>2. PICK R : R = rows[c]
  OBVIOUS
<1>3. R \in SUBSET (1..MaxRow) /\ MaxRow \in Nat
  BY <1>1, <1>2
<1>4. PICK size \in Nat : size = Cardinality(R) /\ size = Len(Ascending(R))
  <2>1. Len(Ascending(R)) = Cardinality(R) /\ Cardinality(R) \in 0..MaxRow
    BY <1>3, RowSets
  <2>2. PICK n : n = Cardinality(R)
    OBVIOUS
  <2>3. n \in Nat /\ n = Len(Ascending(R))
    BY <1>3, <2>1, <2>2
  <2> QED BY <2>2, <2>3
<1>5. PICK o \in Nat, limit \in Nat : /\ o = offset /\ limit = T!Limit
                                      /\ part # 0 => limit = chunk
  BY TableFacts DEF T!TypeOK, T!Limit
<1>6. PICK end \in Nat : /\ end = T!Min({o + limit, size}) /\ end <= size /\ end <= o + limit
                         /\ (end = size \/ end = o + limit)
  <2>1. PICK n \in {o + limit, size} : \A m \in {o + limit, size} : n <= m
    OBVIOUS
  <2>2. /\ T!Min({o + limit, size}) \in {o + limit, size}
        /\ \A m \in {o + limit, size} : T!Min({o + limit, size}) <= m
    BY <2>1 DEF T!Min
  <2> QED BY <2>2
<1>7. piece = SubSeq(Ascending(R), o + 1, end)
  BY <1>1, <1>2, <1>4, <1>5, <1>6, SameInTables DEF T!InOrder
<1>8. IsPiece(piece, R, o, limit)
  <2>1. PieceEnds(end, o, limit, Cardinality(R))
    BY <1>4, <1>6 DEF PieceEnds
  <2>2. R \in SUBSET Int /\ IsFiniteSet(R)
    BY <1>3, RowSets
  <2>3. IsPiece(SubSeq(Ascending(R), o + 1, end), R, o, limit)
    BY <2>1, <2>2, ScanPiece
  <2> QED BY <1>7, <2>3
<1>9. piece \in Seq(T!Row)
  <2>1. PICK lines \in Seq(R) : lines = piece
    BY <1>8 DEF IsPiece
  <2>2. \A r \in R : r \in T!Row
    BY <1>3 DEF T!Row
  <2>3. lines \in Seq(T!Row)
    BY <2>2
  <2> QED BY <2>1, <2>3
<1>10. ASSUME c \notin Keyed
       PROVE  /\ \A k, l \in 1..Len(piece) : k < l => piece[k] < piece[l]
              /\ \A k \in 1..Len(piece) :
                   /\ piece[k] <= last[c]
                   /\ Rank(rows[c], piece[k]) <= o + limit
                   /\ \A r \in T!RowsOf(listed, c) : r < piece[k]
                   /\ piece[k] \notin Held(c) => \A h \in Held(c) : h < piece[k]
              /\ Held(c) \subseteq rows[c] =>
                   \A i \in 1..Len(counted[c]) :
                     i > o /\ i <= o + chunk => \E k \in 1..Len(piece) : piece[k] = counted[c][i]
  <2>1. ASSUME NEW k \in 1..Len(piece)
        PROVE  piece[k] <= last[c] /\ (piece[k] \notin Held(c) => \A h \in Held(c) : h < piece[k])
    <3>1. piece[k] \in rows[c]
      BY <1>2, <1>8 DEF IsPiece
    <3> QED BY <1>10, <3>1 DEF DataInv
  <2>2. \A r \in T!RowsOf(listed, c) : r \in Int /\ Rank(R, r) <= o
    BY <1>1, <1>2, <1>5, <1>10, ListedRows DEF PartInv, T!Row
  <2>3. ASSUME Held(c) \subseteq R, NEW i \in 1..Len(counted[c]), i > o, i <= o + chunk
        PROVE  \E k \in 1..Len(piece) : piece[k] = counted[c][i]
    <3>1. limit = chunk
      <4>1. counted[c] # <<>>
        BY <2>3
      <4> QED BY <1>1, <1>5, <4>1 DEF PartInv
    <3>2. \A r \in R \ Held(c), h \in Held(c) : h < r
      BY <1>2, <1>10 DEF DataInv
    <3>3. i \in 1..Cardinality(Held(c)) /\ i <= o + limit
      BY <1>1, <2>3, <3>1
    <3>4. \E k \in 1..Len(piece) : piece[k] = Ascending(Held(c))[i]
      BY <1>8, <2>3, <3>2, <3>3 DEF IsPiece
    <3> QED BY <1>1, <3>4
  <2> QED BY <1>2, <1>8, <2>1, <2>2, <2>3 DEF IsPiece
<1> QED BY <1>1, <1>5, <1>9, <1>10

\* A part is opened.
LEMMA PartOpened == ASSUME TablesInv, T!OpenPart PROVE TablesInv'
<1>1. /\ pc = "part" /\ pc' = "scan"
      /\ folder' = [f \in DOMAIN folder \cup {T!Out} |-> IF f = T!Out THEN <<>> ELSE folder[f]]
      /\ pending' = SubSeq(T!InOrder(T!Current), offset + 1,
                           T!Min({offset + T!Limit, Len(T!InOrder(T!Current))}))
      /\ UNCHANGED <<rows, last, writes, manifest, exports, outcome, stop, chunk, table, counted,
                     offset, part, listed>>
  BY DEF T!OpenPart, T!data, T!query
<1>a. /\ T!TypeOK /\ DataInv /\ RunInv /\ FilesInv /\ RowsInv /\ PartInv /\ outcome = "running"
      /\ table <= Len(Tables)
  BY <1>1 DEF TablesInv, RunInv, PartInv
<1>2. PICK piece : piece = pending'
  OBVIOUS
<1>3. /\ piece \in Seq(T!Row)
      /\ T!Current \notin Keyed =>
           /\ \A k, l \in 1..Len(piece) : k < l => piece[k] < piece[l]
           /\ \A k \in 1..Len(piece) :
                /\ piece[k] <= last[T!Current]
                /\ Rank(rows[T!Current], piece[k]) <= offset + T!Limit
                /\ \A r \in T!RowsOf(listed, T!Current) : r < piece[k]
                /\ piece[k] \notin Held(T!Current) => \A h \in Held(T!Current) : h < piece[k]
           /\ Held(T!Current) \subseteq rows[T!Current] =>
                \A i \in 1..Len(counted[T!Current]) :
                  i > offset /\ i <= offset + chunk =>
                    \E k \in 1..Len(piece) : piece[k] = counted[T!Current][i]
  BY <1>1, <1>2, <1>a, PartQuery
<1>4. /\ T!Out \in T!File /\ T!Current' = T!Current /\ T!Out' = T!Out /\ T!Limit' = T!Limit
  BY <1>1, <1>a, CurrentTable DEF T!File, T!Current, T!Out, T!Limit
<1>5. /\ DOMAIN folder' = DOMAIN folder \cup {T!Out} /\ folder'[T!Out] = <<>>
      /\ \A f \in DOMAIN folder : f # T!Out => folder'[f] = folder[f]
  BY <1>1
<1>6. \A i \in DOMAIN listed : folder'[listed[i][1]] = folder[listed[i][1]]
  BY <1>1, <1>5, <1>a, OutNotListed DEF FilesInv
<1>7. \A t : /\ T!RowsOf(listed, t)' = T!RowsOf(listed, t) /\ Held(t)' = Held(t)
             /\ (T!RowsAscend(listed, t)' <=> T!RowsAscend(listed, t)) /\ (Done(t)' <=> Done(t))
  BY <1>1, <1>6, SameFiles DEF Held, Done
<1>8. T!TypeOK'
  <2>1. \A f \in DOMAIN folder' : folder'[f] \in Seq(T!Row)
    <3>1. <<>> \in Seq(T!Row)
      OBVIOUS
    <3>2. \A f \in DOMAIN folder : folder[f] \in Seq(T!Row)
      BY <1>a DEF T!TypeOK
    <3> QED BY <1>5, <3>1, <3>2
  <2>2. DOMAIN folder' \subseteq T!File
    BY <1>4, <1>5, <1>a DEF T!TypeOK
  <2> QED BY <1>1, <1>2, <1>3, <1>a, <2>1, <2>2 DEF T!TypeOK
<1>9. DataInv' /\ RunInv' /\ RowsInv'
  BY <1>1, <1>7, <1>a DEF DataInv, RunInv, RowsInv
<1>10. FilesInv'
  BY <1>1, <1>5, <1>6, <1>a DEF FilesInv
<1>11. PartInv'
  BY <1>1, <1>4, <1>7, <1>a DEF PartInv
<1>12. ScanInv'
  <2>1. folder'[T!Out'] \o pending' = piece
    BY <1>2, <1>3, <1>4, <1>5
  <2>2. T!Out' \in DOMAIN folder'
    BY <1>4, <1>5
  <2>3. PICK c : c = T!Current /\ c = T!Current'
    BY <1>4
  <2>4. PICK limit : limit = T!Limit /\ limit = T!Limit'
    BY <1>4
  <2>5. folder'[T!Out'] \o pending' = piece
    BY <1>4, <2>1
  <2>6. \A t : T!RowsOf(listed, t)' = T!RowsOf(listed, t) /\ Held(t)' = Held(t)
    BY <1>7
  <2>7. c \notin Keyed =>
             /\ \A k, l \in 1..Len(piece) : k < l => piece[k] < piece[l]
             /\ \A k \in 1..Len(piece) :
                  /\ piece[k] <= last'[c]
                  /\ Rank(rows'[c], piece[k]) <= offset' + limit
                  /\ \A r \in T!RowsOf(listed, c)' : r < piece[k]
                  /\ piece[k] \notin Held(c)' => \A h \in Held(c)' : h < piece[k]
             /\ Held(c)' \subseteq rows'[c] =>
                  \A i \in 1..Len(counted'[c]) :
                    i > offset' /\ i <= offset' + chunk' =>
                      \E k \in 1..Len(piece) : piece[k] = counted'[c][i]
    BY <1>1, <1>3, <2>3, <2>4, <2>6
  <2> QED BY <2>2, <2>3, <2>4, <2>5, <2>7 DEF ScanInv
<1> QED BY <1>8, <1>9, <1>10, <1>11, <1>12 DEF TablesInv

\* A row is written: what the part has still to get is unchanged as a whole.
LEMMA RowWritten == ASSUME TablesInv, T!WriteRow PROVE TablesInv'
<1>1. /\ pc = "scan" /\ pending # <<>> /\ pending' = Tail(pending)
      /\ folder' = [folder EXCEPT ![T!Out] = Append(@, Head(pending))]
      /\ UNCHANGED <<rows, last, writes, manifest, exports, outcome, stop, pc, chunk, table, counted,
                     offset, part, listed>>
  BY DEF T!WriteRow, T!data, T!query
<1>a. /\ T!TypeOK /\ DataInv /\ RunInv /\ FilesInv /\ RowsInv /\ PartInv /\ ScanInv
      /\ outcome = "running" /\ table <= Len(Tables)
  BY <1>1 DEF TablesInv, RunInv, PartInv
<1>2. /\ T!Current' = T!Current /\ T!Out' = T!Out /\ T!Limit' = T!Limit
  BY <1>1 DEF T!Current, T!Out, T!Limit
<1>3. PICK out : out = T!Out /\ out = T!Out' /\ out \in DOMAIN folder
  BY <1>1, <1>2, <1>a DEF ScanInv
<1>4. PICK one \in Seq(T!Row), two \in Seq(T!Row) : one = folder[out] /\ two = pending /\ two # <<>>
  BY <1>1, <1>3, <1>a DEF T!TypeOK
<1>5. /\ DOMAIN folder' = DOMAIN folder /\ folder'[out] = Append(one, Head(two))
      /\ \A f \in DOMAIN folder : f # out => folder'[f] = folder[f]
  BY <1>1, <1>3, <1>4
<1>6. /\ folder'[out] \in Seq(T!Row) /\ pending' \in Seq(T!Row)
      /\ folder'[out] \o pending' = folder[out] \o pending
  <2>1. /\ Append(one, Head(two)) \in Seq(T!Row) /\ Tail(two) \in Seq(T!Row)
        /\ Append(one, Head(two)) \o Tail(two) = one \o two
    BY <1>4, ItemMoved
  <2> QED BY <1>1, <1>4, <1>5, <2>1
<1>7. \A i \in DOMAIN listed : folder'[listed[i][1]] = folder[listed[i][1]]
  BY <1>1, <1>3, <1>5, <1>a, OutNotListed DEF FilesInv
<1>8. \A t : /\ T!RowsOf(listed, t)' = T!RowsOf(listed, t) /\ Held(t)' = Held(t)
             /\ (T!RowsAscend(listed, t)' <=> T!RowsAscend(listed, t)) /\ (Done(t)' <=> Done(t))
  BY <1>1, <1>7, SameFiles DEF Held, Done
<1>9. T!TypeOK'
  <2>1. \A f \in DOMAIN folder' : folder'[f] \in Seq(T!Row)
    BY <1>5, <1>6, <1>a DEF T!TypeOK
  <2> QED BY <1>1, <1>5, <1>6, <1>a, <2>1 DEF T!TypeOK
<1>10. DataInv' /\ RunInv' /\ RowsInv'
  BY <1>1, <1>8, <1>a DEF DataInv, RunInv, RowsInv
<1>11. FilesInv'
  BY <1>1, <1>5, <1>7, <1>a DEF FilesInv
<1>12. PartInv'
  BY <1>1, <1>2, <1>8, <1>a DEF PartInv
<1>13. ScanInv'
  <2>1. out \in DOMAIN folder'
    BY <1>3, <1>5
  <2>2. PICK selected : selected = folder[out] \o pending /\ selected = folder'[out] \o pending'
    BY <1>6
  <2>3. PICK c : c = T!Current /\ c = T!Current'
    BY <1>2
  <2>4. PICK limit : limit = T!Limit /\ limit = T!Limit'
    BY <1>2
  <2>5. c \notin Keyed =>
         /\ \A k, l \in 1..Len(selected) : k < l => selected[k] < selected[l]
         /\ \A k \in 1..Len(selected) :
              /\ selected[k] <= last[c]
              /\ Rank(rows[c], selected[k]) <= offset + limit
              /\ \A r \in T!RowsOf(listed, c) : r < selected[k]
              /\ selected[k] \notin Held(c) => \A h \in Held(c) : h < selected[k]
         /\ Held(c) \subseteq rows[c] =>
              \A i \in 1..Len(counted[c]) :
                i > offset /\ i <= offset + chunk =>
                  \E k \in 1..Len(selected) : selected[k] = counted[c][i]
    BY <1>1, <1>3, <1>a, <2>2, <2>3, <2>4 DEF ScanInv
  <2>6. c \notin Keyed =>
         /\ \A k, l \in 1..Len(selected) : k < l => selected[k] < selected[l]
         /\ \A k \in 1..Len(selected) :
              /\ selected[k] <= last'[c]
              /\ Rank(rows'[c], selected[k]) <= offset' + limit
              /\ \A r \in T!RowsOf(listed, c)' : r < selected[k]
              /\ selected[k] \notin Held(c)' => \A h \in Held(c)' : h < selected[k]
         /\ Held(c)' \subseteq rows'[c] =>
              \A i \in 1..Len(counted'[c]) :
                i > offset' /\ i <= offset' + chunk' =>
                  \E k \in 1..Len(selected) : selected[k] = counted'[c][i]
    BY <1>1, <1>8, <2>5
  <2> QED BY <1>3, <2>1, <2>2, <2>3, <2>4, <2>6 DEF ScanInv
<1> QED BY <1>9, <1>10, <1>11, <1>12, <1>13 DEF TablesInv

\* One more file is listed: what that adds to what is found of each table.
LEMMA FileListed ==
  ASSUME T!TypeOK, FilesInv, UNCHANGED folder, NEW c, NEW size, c = T!Out[1],
         listed' = Append(listed, <<T!Out, size>>)
  PROVE  /\ \A t : t # c => /\ T!RowsOf(listed, t)' = T!RowsOf(listed, t)
                            /\ (T!RowsAscend(listed, t)' <=> T!RowsAscend(listed, t))
         /\ T!RowsOf(listed, c)' = T!RowsOf(listed, c) \cup T!ToSet(folder[T!Out])
         /\ T!RowsAscend(listed, c) /\ T!Increasing(folder[T!Out])
              /\ (\A r \in T!RowsOf(listed, c), k \in DOMAIN folder[T!Out] : r < folder[T!Out][k])
            => T!RowsAscend(listed, c)'
<1>1. PICK n \in Nat : n = Len(listed) /\ DOMAIN listed = 1..n
  BY DEF T!TypeOK
<1>2. /\ DOMAIN listed' = 1..(n + 1) /\ listed'[n + 1] = <<T!Out, size>>
      /\ \A i \in 1..n : listed'[i] = listed[i]
  BY <1>1 DEF T!TypeOK
<1>3. PICK out : out = T!Out /\ out[1] = c
  OBVIOUS
<1>4. listed'[n + 1][1] = out
  BY <1>2, <1>3
<1>5. 1..(n + 1) = 1..n \cup {n + 1} /\ n + 1 \notin 1..n /\ \A i \in 1..n : i < n + 1
  BY <1>1
<1>6. \A t : T!OfTable(listed, t)' = IF t = c THEN T!OfTable(listed, t) \cup {n + 1}
                                              ELSE T!OfTable(listed, t)
  BY <1>1, <1>2, <1>3, <1>4, <1>5 DEF T!OfTable
<1>7. \A t : \A i \in T!OfTable(listed, t) : /\ i \in 1..n
                                             /\ folder'[listed'[i][1]] = folder[listed[i][1]]
  BY <1>1, <1>2 DEF T!OfTable
<1>8. folder'[listed'[n + 1][1]] = folder[out]
  BY <1>4
<1>9. ASSUME NEW t, t # c
      PROVE  /\ T!RowsOf(listed, t)' = T!RowsOf(listed, t)
             /\ (T!RowsAscend(listed, t)' <=> T!RowsAscend(listed, t))
  <2>1. T!OfTable(listed, t)' = T!OfTable(listed, t)
    BY <1>6, <1>9
  <2>2. \A i \in T!OfTable(listed, t) : folder'[listed'[i][1]] = folder[listed[i][1]]
    BY <1>7
  <2>3. T!RowsOf(listed, t)' = T!RowsOf(listed, t)
    BY <2>1, <2>2 DEF T!RowsOf
  <2>4. T!RowsAscend(listed, t)' <=> T!RowsAscend(listed, t)
    BY <2>1, <2>2 DEF T!RowsAscend
  <2> QED BY <2>3, <2>4
<1>10. T!OfTable(listed, c)' = T!OfTable(listed, c) \cup {n + 1}
  BY <1>6
<1>11. T!RowsOf(listed, c)' = T!RowsOf(listed, c) \cup T!ToSet(folder[out])
  <2>1. \A x : x \in T!RowsOf(listed, c)' <=>
                \E i \in T!OfTable(listed, c) \cup {n + 1} : x \in T!ToSet(folder'[listed'[i][1]])
    <3>1. T!RowsOf(listed, c)' =
            UNION {T!ToSet(folder'[listed'[i][1]]) : i \in T!OfTable(listed, c)'}
      BY DEF T!RowsOf, T!ToSet
    <3>2. PICK all : all = T!OfTable(listed, c)'
      OBVIOUS
    <3>3. \A x : x \in T!RowsOf(listed, c)' <=> \E i \in all : x \in T!ToSet(folder'[listed'[i][1]])
      BY <3>1, <3>2
    <3> QED BY <1>10, <3>2, <3>3
  <2>2. \A x : x \in T!RowsOf(listed, c) <=>
                \E i \in T!OfTable(listed, c) : x \in T!ToSet(folder[listed[i][1]])
    BY DEF T!RowsOf
  <2>3. \A i \in T!OfTable(listed, c) : T!ToSet(folder'[listed'[i][1]]) = T!ToSet(folder[listed[i][1]])
    BY <1>7
  <2>4. T!ToSet(folder'[listed'[n + 1][1]]) = T!ToSet(folder[out])
    BY <1>8
  <2>5. \A x : x \in T!RowsOf(listed, c)' <=> x \in T!RowsOf(listed, c) \/ x \in T!ToSet(folder[out])
    BY <2>1, <2>2, <2>3, <2>4
  <2> QED BY <2>5
<1>12. ASSUME T!RowsAscend(listed, c), T!Increasing(folder[out]),
              \A r \in T!RowsOf(listed, c), k \in DOMAIN folder[out] : r < folder[out][k]
       PROVE  T!RowsAscend(listed, c)'
  <2>1. ASSUME NEW i \in T!OfTable(listed, c) PROVE T!Precedes(folder[listed[i][1]], folder[out])
    <3>1. \A k \in DOMAIN folder[listed[i][1]] : folder[listed[i][1]][k] \in T!RowsOf(listed, c)
      BY <2>1 DEF T!RowsOf, T!ToSet
    <3> QED BY <1>12, <3>1 DEF T!Precedes
  <2>2. ASSUME NEW i \in T!OfTable(listed, c)'
        PROVE  T!Increasing(folder'[listed'[i][1]])
    <3>1. CASE i \in T!OfTable(listed, c)
      BY <1>7, <1>12, <3>1 DEF T!RowsAscend
    <3>2. CASE i = n + 1
      BY <1>8, <1>12, <3>2
    <3> QED BY <1>10, <2>2, <3>1, <3>2
  <2>3. ASSUME NEW i \in T!OfTable(listed, c)', NEW j \in T!OfTable(listed, c)', i < j
        PROVE  T!Precedes(folder'[listed'[i][1]], folder'[listed'[j][1]])
    <3>1. i \in T!OfTable(listed, c)
      <4>1. i \in 1..(n + 1) /\ j \in 1..(n + 1)
        BY <1>1, <1>5, <1>7, <1>10, <2>3
      <4>2. i # n + 1
        BY <1>1, <2>3, <4>1
      <4> QED BY <1>10, <2>3, <4>2
    <3>2. CASE j \in T!OfTable(listed, c)
      BY <1>7, <1>12, <2>3, <3>1, <3>2 DEF T!RowsAscend
    <3>3. CASE j = n + 1
      BY <1>7, <1>8, <2>1, <3>1, <3>3
    <3> QED BY <1>10, <2>3, <3>2, <3>3
  <2>4. \A i, j : i \in T!OfTable(listed, c)' /\ j \in T!OfTable(listed, c)' /\ i < j =>
                    T!Precedes(folder'[listed'[i][1]], folder'[listed'[j][1]])
    BY <2>3
  <2> QED BY <2>2, <2>4 DEF T!RowsAscend
<1> QED BY <1>3, <1>9, <1>11, <1>12

\* A part is finished: its file is listed, and the export goes on to the next part
\* or, when all that was counted is behind it, to the next table.
LEMMA PartEnded == ASSUME TablesInv, T!EndPart PROVE TablesInv'
<1>1. /\ pc = "scan" /\ pending = <<>> /\ listed' = Append(listed, <<T!Out, Len(folder[T!Out])>>)
      /\ UNCHANGED <<rows, last, writes, folder, manifest, exports, outcome, stop, chunk, counted, pending>>
      /\ \/ /\ part # 0 /\ offset + chunk < Len(counted[T!Current])
            /\ offset' = offset + chunk /\ part' = part + 1 /\ pc' = "part" /\ table' = table
         \/ /\ part = 0 \/ ~(offset + chunk < Len(counted[T!Current]))
            /\ table' = table + 1 /\ pc' = "count" /\ offset' = offset /\ part' = part
  BY DEF T!EndPart, T!Listed, T!NextOffset, T!NextPart, T!data, T!query
<1>a. /\ T!TypeOK /\ DataInv /\ RunInv /\ FilesInv /\ RowsInv /\ PartInv /\ ScanInv
      /\ outcome = "running" /\ table <= Len(Tables)
  BY <1>1 DEF TablesInv, RunInv, PartInv
<1>2. PICK c \in T!Table :
        /\ c = T!Current /\ c = Tables[table] /\ table \in 1..Len(Tables)
        /\ T!Out \in T!Table \X T!Part /\ T!Out[1] = c /\ T!Out[2] = part
        /\ counted[c] = Ascending(Held(c)) /\ Len(counted[c]) \in 0..MaxRow /\ MaxRow \in Nat
        /\ \A h \in Held(c) : \E i \in 1..Len(counted[c]) : counted[c][i] = h
  BY <1>a, CurrentTable
<1>3. PICK out : out = T!Out /\ out \in DOMAIN folder /\ out[1] = c /\ out[2] = part /\ out \in T!File
  BY <1>1, <1>2, <1>a DEF ScanInv, T!File
<1>4. PICK file \in Seq(T!Row) : file = folder[out]
  BY <1>3, <1>a DEF T!TypeOK
<1>5. /\ offset \in 0..MaxRow /\ chunk \in Nat \ {0} /\ part \in 0..MaxRow /\ part <= offset + 1
      /\ Len(Tables) \in Nat
  BY <1>1, <1>a, TableFacts DEF T!TypeOK, T!Part, RunInv, PartInv
<1>6. PICK n \in Nat : n = Len(counted[c]) /\ n <= MaxRow
  BY <1>2
<1>7. \/ /\ part # 0 /\ offset + chunk < n /\ offset' = offset + chunk /\ part' = part + 1
         /\ pc' = "part" /\ table' = table
      \/ /\ part = 0 \/ n <= offset + chunk
         /\ table' = table + 1 /\ pc' = "count" /\ offset' = offset /\ part' = part
  BY <1>1, <1>2, <1>5, <1>6
<1>8. /\ offset' \in 0..MaxRow /\ part' \in 0..MaxRow /\ table' \in 1..Len(Tables) + 1
      /\ pc' = "part" => part' <= n /\ table' = table /\ part' <= offset' + 1 /\ part' # 0 /\ n # 0
  <2>1. PICK o \in Nat, p \in Nat, k \in Nat \ {0} : o = offset /\ p = part /\ k = chunk
    BY <1>5
  <2>2. o <= MaxRow /\ p <= MaxRow /\ p <= o + 1
    BY <1>5, <2>1
  <2>3. CASE part # 0 /\ offset + chunk < n /\ offset' = offset + chunk /\ part' = part + 1
             /\ pc' = "part" /\ table' = table
    <3>1. o + k < n /\ offset' = o + k /\ part' = p + 1 /\ p # 0
      BY <2>1, <2>3
    <3>2. o + k \in 0..MaxRow /\ p + 1 \in 0..MaxRow /\ p + 1 <= n /\ p + 1 <= (o + k) + 1 /\ n # 0
      BY <1>2, <1>6, <2>1, <2>2, <3>1
    <3> QED BY <1>2, <1>5, <2>3, <3>1, <3>2
  <2>4. CASE table' = table + 1 /\ pc' = "count" /\ offset' = offset /\ part' = part
    BY <1>2, <1>5, <2>4
  <2> QED BY <1>7, <2>3, <2>4
<1>9. /\ \A t : t # c => /\ T!RowsOf(listed, t)' = T!RowsOf(listed, t)
                         /\ (T!RowsAscend(listed, t)' <=> T!RowsAscend(listed, t))
      /\ T!RowsOf(listed, c)' = T!RowsOf(listed, c) \cup T!ToSet(file)
      /\ T!RowsAscend(listed, c) /\ T!Increasing(file)
           /\ (\A r \in T!RowsOf(listed, c), k \in DOMAIN file : r < file[k])
         => T!RowsAscend(listed, c)'
  <2>1. PICK size : size = Len(folder[T!Out]) /\ listed' = Append(listed, <<T!Out, size>>)
    BY <1>1
  <2>2. UNCHANGED folder
    BY <1>1
  <2> QED BY <1>2, <1>3, <1>4, <1>a, <2>1, <2>2, FileListed
<1>10. \A t : Held(t)' = Held(t)
  BY <1>1 DEF Held
<1>11. T!TypeOK'
  <2>1. listed' \in Seq(T!File \X Nat)
    <3>1. PICK entry : entry = <<out, Len(folder[out])>>
      OBVIOUS
    <3>2. entry \in T!File \X Nat
      BY <1>3, <1>4, <3>1
    <3>3. listed \in Seq(T!File \X Nat) /\ listed' = Append(listed, entry)
      BY <1>1, <1>3, <1>a, <3>1 DEF T!TypeOK
    <3> QED BY <3>2, <3>3
  <2>2. offset' \in 0..MaxRow + chunk' /\ part' \in T!Part
    BY <1>1, <1>2, <1>5, <1>8 DEF T!Part
  <2>3. pc' \in {"part", "scan"} => part' <= Len(counted'[Tables'[table']])
    BY <1>1, <1>2, <1>6, <1>7, <1>8
  <2>4. pc' \in {"idle", "count", "part", "scan", "manifest"}
    BY <1>7
  <2> QED BY <1>1, <1>8, <1>a, <2>1, <2>2, <2>3, <2>4 DEF T!TypeOK
<1>12. DataInv'
  BY <1>1, <1>10, <1>a DEF DataInv
<1>13. RunInv'
  <2>1. offset' <= MaxRow /\ pc' # "idle"
    BY <1>2, <1>7, <1>8
  <2> QED BY <1>1, <1>a, <2>1 DEF RunInv
<1>14. FilesInv'
  <2>1. PICK m \in Nat : m = Len(listed) /\ DOMAIN listed = 1..m
    BY <1>a DEF T!TypeOK
  <2>2. /\ DOMAIN listed' = 1..(m + 1) /\ listed'[m + 1] = <<out, Len(folder[out])>>
        /\ \A i \in 1..m : listed'[i] = listed[i]
    BY <1>1, <1>3, <1>a, <2>1 DEF T!TypeOK
  <2> SUFFICES ASSUME NEW i \in 1..(m + 1)
               PROVE  /\ listed'[i][1] \in DOMAIN folder /\ Len(folder[listed'[i][1]]) = listed'[i][2]
                      /\ \E j \in 1..Len(Tables) :
                           /\ listed'[i][1][1] = Tables[j]
                           /\ j < table' \/ (j = table' /\ pc' \in {"part", "scan"} /\ listed'[i][1][2] < part')
    BY <1>1, <2>2 DEF FilesInv
  <2>3. CASE i \in 1..m
    <3>1. listed'[i] = listed[i] /\ i \in DOMAIN listed
      BY <2>1, <2>2, <2>3
    <3>2. PICK e : e = listed[i]
      OBVIOUS
    <3>3. e[1] \in DOMAIN folder /\ Len(folder[e[1]]) = e[2] /\ e[1][2] \in Nat
      <4>1. e \in T!File \X Nat
        BY <1>a, <3>1, <3>2 DEF T!TypeOK
      <4>2. e[1][2] \in T!Part
        BY <4>1 DEF T!File
      <4>3. e[1][2] \in Nat
        BY <1>2, <4>2 DEF T!Part
      <4> QED BY <1>a, <3>1, <3>2, <4>3 DEF FilesInv
    <3>4. PICK j \in 1..Len(Tables) : /\ e[1][1] = Tables[j]
                                      /\ j < table \/ (j = table /\ e[1][2] < part)
      BY <1>a, <3>1, <3>2 DEF FilesInv
    <3>5. PICK q \in Nat : q = e[1][2]
      BY <3>3
    <3>6. j < table' \/ (j = table' /\ pc' \in {"part", "scan"} /\ q < part')
      BY <1>2, <1>5, <1>7, <3>4, <3>5
    <3> QED BY <3>1, <3>2, <3>3, <3>4, <3>5, <3>6
  <2>4. CASE i = m + 1
    <3>1. listed'[i][1] = out /\ listed'[i][2] = Len(folder[out])
      BY <2>2, <2>4
    <3>2. table < table' \/ (table = table' /\ pc' \in {"part", "scan"} /\ part < part')
      BY <1>2, <1>5, <1>7
    <3> QED BY <1>2, <1>3, <3>1, <3>2
  <2> QED BY <2>1, <2>3, <2>4
<1>15. ASSUME NEW t \in T!Table, t # c PROVE Done(t)' <=> Done(t)
  <2>1. \A j \in 1..Len(Tables) : Tables[j] = t => (j < table' <=> j < table)
    BY <1>2, <1>7, <1>15
  <2> QED BY <2>1 DEF Done
<1>16. Done(c)' => part = 0 \/ n <= offset + chunk
  <2> SUFFICES ASSUME NEW j \in 1..Len(Tables), Tables[j] = c, j < table', ~(part = 0 \/ n <= offset + chunk)
               PROVE  FALSE
    BY DEF Done
  <2>1. j = table
    BY <1>2, TableFacts
  <2> QED BY <1>2, <1>7, <2>1
<1>17. ASSUME c \notin Keyed
       PROVE  /\ T!Increasing(file)
              /\ \A k \in DOMAIN file :
                   /\ file[k] <= last[c]
                   /\ Rank(rows[c], file[k]) <= offset + T!Limit
                   /\ \A r \in T!RowsOf(listed, c) : r < file[k]
                   /\ file[k] \notin Held(c) => \A h \in Held(c) : h < file[k]
              /\ Held(c) \subseteq rows[c] =>
                   \A i \in 1..n : i > offset /\ i <= offset + chunk => counted[c][i] \in T!ToSet(file)
  <2>1. file = folder[T!Out] \o pending
    BY <1>1, <1>3, <1>4
  <2>2. DOMAIN file = 1..Len(file)
    BY <1>4
  <2>3. /\ \A k, l \in 1..Len(file) : k < l => file[k] < file[l]
        /\ \A k \in 1..Len(file) :
             /\ file[k] <= last[c]
             /\ Rank(rows[c], file[k]) <= offset + T!Limit
             /\ \A r \in T!RowsOf(listed, c) : r < file[k]
             /\ file[k] \notin Held(c) => \A h \in Held(c) : h < file[k]
        /\ Held(c) \subseteq rows[c] =>
             \A i \in 1..n : i > offset /\ i <= offset + chunk =>
               \E k \in 1..Len(file) : file[k] = counted[c][i]
    BY <1>1, <1>2, <1>6, <1>17, <1>a, <2>1 DEF ScanInv
  <2> QED BY <2>2, <2>3 DEF T!Increasing, T!ToSet
<1>18. ASSUME c \notin Keyed, Held(c) \subseteq rows[c], NEW i \in 1..n, i <= offset + chunk
       PROVE  counted[c][i] \in T!RowsOf(listed, c)'
  <2>1. CASE i <= offset
    BY <1>1, <1>2, <1>6, <1>9, <1>18, <1>a, <2>1 DEF PartInv
  <2>2. CASE i > offset
    BY <1>9, <1>17, <1>18, <2>2
  <2> QED BY <1>5, <2>1, <2>2
<1>19. RowsInv'
  <2> SUFFICES ASSUME NEW t \in T!Table \ Keyed
               PROVE  /\ T!RowsAscend(listed, t)'
                      /\ \A r \in T!RowsOf(listed, t)' :
                           r <= last[t] /\ (r \notin Held(t) => \A h \in Held(t) : h < r)
                      /\ Done(t)' /\ Held(t) \subseteq rows[t] => Held(t) \subseteq T!RowsOf(listed, t)'
    BY <1>1, <1>10 DEF RowsInv
  <2>1. CASE t # c
    BY <1>9, <1>15, <1>a, <2>1 DEF RowsInv
  <2>2. CASE t = c
    <3>1. T!RowsAscend(listed, c)'
      BY <1>9, <1>17, <1>a, <2>2 DEF RowsInv
    <3>2. \A r \in T!ToSet(file) : r <= last[c] /\ (r \notin Held(c) => \A h \in Held(c) : h < r)
      BY <1>17, <2>2 DEF T!ToSet
    <3>3. \A r \in T!RowsOf(listed, c) : r <= last[c] /\ (r \notin Held(c) => \A h \in Held(c) : h < r)
      BY <1>a, <2>2 DEF RowsInv
    <3>4. ASSUME Done(c)', Held(c) \subseteq rows[c], NEW h \in Held(c)
          PROVE  h \in T!RowsOf(listed, c)'
      <4>1. PICK i \in 1..n : counted[c][i] = h
        BY <1>2, <1>6, <3>4
      <4>2. part # 0
        <5>1. counted[c] # <<>>
          BY <1>6, <4>1
        <5> QED BY <1>1, <1>2, <1>a, <5>1 DEF PartInv
      <4>3. i <= offset + chunk
        BY <1>5, <1>16, <3>4, <4>2
      <4> QED BY <1>18, <2>2, <3>4, <4>1, <4>3
    <3> QED BY <1>9, <2>2, <3>1, <3>2, <3>3, <3>4
  <2> QED BY <2>1, <2>2
<1>20. PartInv'
  <2> SUFFICES ASSUME pc' = "part" PROVE PartInv'
    BY <1>7 DEF PartInv
  <2>1. /\ part # 0 /\ offset' = offset + chunk /\ table' = table /\ part' # 0 /\ n # 0
        /\ part' <= offset' + 1 /\ T!Current' = c
    BY <1>2, <1>7, <1>8 DEF T!Current
  <2>2. counted[c] # <<>>
    BY <1>6, <2>1
  <2>3. T!Limit = chunk
    BY <2>1 DEF T!Limit
  <2>4. ASSUME c \notin Keyed, NEW r \in T!RowsOf(listed, c)' PROVE Rank(rows[c], r) <= offset + chunk
    <3>1. CASE r \in T!RowsOf(listed, c)
      <4>1. Rank(rows[c], r) <= offset
        BY <1>1, <1>2, <1>a, <2>4, <3>1 DEF PartInv
      <4>2. PICK rank \in Int : rank = Rank(rows[c], r)
        <5>1. r \in 1..MaxRow /\ rows[c] \in SUBSET (1..MaxRow)
          BY <1>a, <3>1, ListedRows DEF T!TypeOK, T!Row
        <5> QED BY <1>2, <5>1, RowRanks
      <4> QED BY <1>5, <4>1, <4>2
    <3>2. CASE r \in T!ToSet(file)
      BY <1>17, <2>3, <2>4, <3>2 DEF T!ToSet
    <3> QED BY <1>9, <2>4, <3>1, <3>2
  <2>5. ASSUME c \notin Keyed, Held(c) \subseteq rows[c], NEW i \in 1..n, i <= offset + chunk
        PROVE  counted[c][i] \in T!RowsOf(listed, c)'
    BY <1>18, <2>5
  <2>6. /\ table' <= Len(Tables) /\ part' <= offset' + 1 /\ part' # 0
        /\ counted'[c] # <<>> /\ Len(counted'[c]) = n
    BY <1>1, <1>2, <1>6, <2>1, <2>2
  <2>7. c \notin Keyed =>
          /\ \A r \in T!RowsOf(listed, c)' : Rank(rows'[c], r) <= offset'
          /\ Held(c)' \subseteq rows'[c] =>
               \A i \in 1..Len(counted'[c]) :
                 i <= offset' => counted'[c][i] \in T!RowsOf(listed, c)'
    BY <1>1, <1>6, <1>10, <2>1, <2>4, <2>5
  <2> QED BY <2>1, <2>6, <2>7 DEF PartInv
<1> QED BY <1>7, <1>11, <1>12, <1>13, <1>14, <1>19, <1>20 DEF TablesInv, ScanInv

\* Each step of the export and of the investigator.
LEMMA TablesKept == ASSUME TablesInv, T!Next PROVE TablesInv'
<1>1. CASE \E t \in T!Table, r \in T!Row : T!Insert(t, r) \/ T!Delete(t, r)
  BY <1>1, RowsChanged
<1>2. CASE T!Close \/ T!Cancel \/ T!WriteManifest \/ \E c \in ChunkSizes : T!StartExport(c)
  BY <1>2, ExportEnds
<1> QED BY <1>1, <1>2, TableCounted, PartOpened, RowWritten, PartEnded DEF T!Next, T!Export

\* Where nothing of the export changes, nothing it knows does.
LEMMA TablesStutter == ASSUME TablesInv, UNCHANGED T!vars PROVE TablesInv'
<1>1. UNCHANGED <<rows, last, writes, folder, manifest, exports, outcome, stop, pc, chunk, table, counted,
                  offset, part, pending, listed>>
  BY DEF T!vars, T!data, T!query
<1>2. \A t : /\ T!RowsOf(listed, t)' = T!RowsOf(listed, t) /\ Held(t)' = Held(t)
             /\ (T!RowsAscend(listed, t)' <=> T!RowsAscend(listed, t)) /\ (Done(t)' <=> Done(t))
  BY <1>1, SameFiles DEF Held, Done
<1>3. T!Current' = T!Current /\ T!Out' = T!Out /\ T!Limit' = T!Limit
  BY <1>1 DEF T!Current, T!Out, T!Limit
<1>4. T!TypeOK' /\ DataInv' /\ RunInv'
  BY <1>1, <1>2 DEF TablesInv, T!TypeOK, DataInv, RunInv
<1> QED BY <1>1, <1>2, <1>3, <1>4 DEF TablesInv, FilesInv, RowsInv, PartInv, ScanInv

\* The manifest of the table export names the files that are there, and each table
\* that numbers its rows is in them in order, complete unless rows were deleted.
THEOREM TablesAreExported == WorkersSpec => []TablesExported
<1> DEFINE Inv == worker = "tables" => TablesInv
<1>1. WorkersInit => Inv
  BY InitTables DEF WorkersInit
<1>2. Inv /\ [WorkersNext]_workerVars => Inv'
  <2> SUFFICES ASSUME Inv, [WorkersNext]_workerVars, worker' = "tables"
               PROVE  TablesInv'
    OBVIOUS
  <2>1. worker = "tables" /\ TablesInv
    BY DEF WorkersNext, Threads, Tasks, TableStep, ViewStep, workerVars
  <2>2. CASE T!Next
    BY <2>1, <2>2, TablesKept
  <2>3. CASE UNCHANGED workerVars
    <3>1. UNCHANGED T!vars
      BY <2>3 DEF workerVars, T!vars, T!data, T!query, tableOnly, fileVars
    <3> QED BY <2>1, <3>1, TablesStutter
  <2> QED BY <2>1, <2>2, <2>3 DEF WorkersNext, Threads, Tasks, TableStep, ViewStep
<1>3. Inv => TablesExported
  <2> SUFFICES ASSUME TablesInv PROVE T!TypeOK /\ T!ManifestMatches /\ T!CompleteUnlessDeleted
    BY DEF TablesExported
  <2>1. T!TypeOK /\ RunInv
    BY DEF TablesInv
  <2>2. ASSUME outcome = "ok"
        PROVE  /\ manifest = listed /\ table = Len(Tables) + 1 /\ FilesInv /\ RowsInv
               /\ manifest # NoManifest
    <3>1. manifest = listed /\ listed \in Seq(T!File \X Nat)
      BY <2>1, <2>2 DEF RunInv, T!TypeOK
    <3>2. NoManifest \notin Seq(T!File \X Nat)
      BY TableAssumptions DEF T!ManifestAssumption
    <3> QED BY <2>1, <2>2, <3>1, <3>2 DEF TablesInv, RunInv
  <2>3. T!ManifestMatches
    BY <2>1, <2>2 DEF T!ManifestMatches, RunInv, FilesInv
  <2>4. ASSUME outcome = "ok", NEW t \in T!Table \ Keyed
        PROVE  T!RowsAscend(manifest, t) /\ T!CountedFirst(manifest, t)
    <3>1. Done(t)
      <4>1. PICK n \in DOMAIN Tables : Tables[n] = t
        BY DEF T!Table, T!ToSet
      <4>2. n \in 1..Len(Tables) /\ n < table
        <5>1. DOMAIN Tables = 1..Len(Tables) /\ Len(Tables) \in Nat
          BY TableAssumptions DEF T!TablesAssumption
        <5> QED BY <2>2, <2>4, <5>1
      <4> QED BY <4>1, <4>2 DEF Done
    <3>2. T!RowsAscend(listed, t) /\ T!CountedFirst(listed, t)
      BY <2>2, <2>4, <3>1 DEF RowsInv, T!CountedFirst, Held
    <3> QED BY <2>2, <2>4, <3>2
  <2> QED BY <2>1, <2>3, <2>4 DEF T!CompleteUnlessDeleted
<1> QED BY <1>1, <1>2, <1>3, PTL DEF WorkersSpec
=============================================================================
