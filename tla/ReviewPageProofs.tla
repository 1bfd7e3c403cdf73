-------------------------- MODULE ReviewPageProofs --------------------------
(***************************************************************************)
(* Safety of the review grid for any cases, views, page size and number of *)
(* requests.  The two properties about the grid and about the busy state   *)
(* are not inductive: a step needs to know that request numbers are handed *)
(* out in increasing order, that a cancelled number names no load, and     *)
(* that the stop flag is only up once the UI has left its message loop.    *)
(***************************************************************************)
EXTENDS ReviewPage, TLAPS

\* A load never carries a number that has not been handed out yet.
NumbersIncrease == \A r \in Req : pc[r] # "none" => r <= seq

\* A load that was started has captured a complete question.
AskedBeforeRun == \A r \in Req : pc[r] # "none" => ask[r] \in Ask

\* The rows on screen are those of a delivered load that none follows.
GridIsNewest == grid # 0 => /\ pc[grid] = "delivered"
                            /\ \A q \in Req : pc[q] # "none" => q <= grid

\* While the UI waits in a cancel, the current number names no load at all.
CancelNamesNoLoad == ui = "cancelling" => seq \in Req /\ pc[seq] = "none"

StopOnlyWhenClosing == shuttingDown => ui \in {"closing", "gone"}

IInv == /\ TypeOK
        /\ NumbersIncrease
        /\ AskedBeforeRun
        /\ GridIsNewest
        /\ CancelNamesNoLoad
        /\ StopOnlyWhenClosing
        /\ LoadingIffPending

\* The page that Last goes to is never negative.
LEMMA LastPageIndexNat == \A n \in Int : LastPageIndex(n) \in Nat
BY BoundAssumption DEF LastPageIndex

\* A fresh result and a captured question are what their types say.
LEMMA FreshLoadTypes ==
  /\ NoResult \in Result
  /\ \A c \in Case, v \in View, s \in Search, p \in Nat :
       [case |-> c, view |-> v, search |-> s, page |-> p] \in Ask
BY DEF NoResult, Result, Ask

\* What starting a load does to the parts of the invariant.
LEMMA LoadReviewPageInv ==
  ASSUME IInv, ui = "ready", ui' = ui, shuttingDown' = shuttingDown,
         NEW c \in Case \cup {NoCase}, NEW v \in View, NEW p \in Nat,
         openedCase' \in Case \cup {NoCase}, view' \in View,
         search' \in Search, reviewTab' \in BOOLEAN, currentPage' \in Nat,
         LoadReviewPage(c, v, p)
  PROVE  IInv'
<1> USE DEF IInv
<1>1. CASE c = NoCase
  BY <1>1 DEF LoadReviewPage, loadVars, TypeOK, NumbersIncrease, AskedBeforeRun,
     GridIsNewest, CancelNamesNoLoad, StopOnlyWhenClosing, LoadingIffPending, Pending
<1>2. CASE c # NoCase
  <2> DEFINE r == seq + (IF handle # 0 THEN 2 ELSE 1)
  <2>0. seq \in Nat /\ MaxSeq \in Nat /\ r \in Nat /\ r > seq
    BY BoundAssumption DEF TypeOK
  <2>1. /\ r \in Req /\ r > seq
        /\ seq' = r /\ handle' = r
        /\ pc' = [pc EXCEPT ![r] = "opening"]
        /\ ask' = [ask EXCEPT ![r] = [case |-> c, view |-> v, search |-> search, page |-> p]]
        /\ res' = [res EXCEPT ![r] = NoResult]
        /\ loading' = TRUE /\ grid' = 0 /\ hasNext' = FALSE /\ totalRows' = -1
    BY <1>2, <2>0 DEF LoadReviewPage, Req
  <2> HIDE DEF r
  <2>2. [case |-> c, view |-> v, search |-> search, page |-> p] \in Ask
    BY <1>2, FreshLoadTypes DEF TypeOK
  <2>3. NoResult \in Result
    BY FreshLoadTypes
  <2>4. TypeOK'
    <3>1. "opening" \in Stage /\ r \in 0..MaxSeq
      BY <2>1, BoundAssumption DEF Stage, Running, Req
    <3>2. /\ pc' \in [Req -> Stage] /\ res' \in [Req -> Result]
          /\ ask' \in [Req -> Ask \cup {NoCase}]
      BY <2>1, <2>2, <2>3, <3>1 DEF TypeOK
    <3>3. 0 \in 0..MaxSeq
      BY BoundAssumption
    <3>4. loading' \in BOOLEAN /\ hasNext' \in BOOLEAN
      BY <2>1
    <3>5. /\ totalRows' \in Int /\ grid' \in 0..MaxSeq
          /\ seq' \in 0..MaxSeq /\ handle' \in 0..MaxSeq
      BY <2>1, <3>1, <3>3
    <3>6. QED BY <3>2, <3>4, <3>5 DEF TypeOK
  <2>5. NumbersIncrease' /\ AskedBeforeRun'
    BY <2>1, <2>2 DEF NumbersIncrease, AskedBeforeRun, TypeOK, Req
  <2>6. LoadingIffPending'
    BY <2>1 DEF LoadingIffPending, Pending, Running, TypeOK, Req
  <2>7. GridIsNewest' /\ CancelNamesNoLoad' /\ StopOnlyWhenClosing'
    BY <2>1 DEF GridIsNewest, CancelNamesNoLoad, StopOnlyWhenClosing
  <2>8. QED
    BY <2>4, <2>5, <2>6, <2>7
<1>3. QED BY <1>1, <1>2

\* What a step of a background thread does to them: it moves only its own pc,
\* never from or to "none" or "delivered", and keeps a current load pending.
LEMMA WorkerStepInv ==
  ASSUME IInv, NEW r \in Req, NEW from \in Running,
         NEW to \in Running \cup {"posted", "dropped"},
         WorkerStep(r, from, to), res' \in [Req -> Result],
         to = "dropped" => Stale(r)
  PROVE  IInv'
<1> USE DEF IInv
<1>1. /\ pc[r] = from /\ pc' = [pc EXCEPT ![r] = to]
      /\ UNCHANGED <<openedCase, view, search, reviewTab, currentPage, hasNext,
                     totalRows, grid, loading, seq, handle, ask, shuttingDown, ui>>
  BY DEF WorkerStep, uiVars
<1>2. from # "none" /\ to # "none" /\ from # "delivered" /\ to \in Stage
  BY DEF Running, Stage
<1>3. TypeOK'
  BY <1>1, <1>2 DEF TypeOK
<1>4. NumbersIncrease' /\ AskedBeforeRun'
  BY <1>1, <1>2 DEF NumbersIncrease, AskedBeforeRun, TypeOK
<1>5. GridIsNewest'
  BY <1>1, <1>2 DEF GridIsNewest, TypeOK, Req
<1>6. CancelNamesNoLoad' /\ StopOnlyWhenClosing'
  BY <1>1, <1>2 DEF CancelNamesNoLoad, StopOnlyWhenClosing, TypeOK
<1>7. LoadingIffPending'
  <2>1. CASE r # seq
    BY <1>1, <1>2, <2>1 DEF LoadingIffPending, Pending, TypeOK, Req
  <2>2. CASE r = seq
    <3>1. ui = "ready" => to # "dropped"
      BY <2>2 DEF Stale, StopOnlyWhenClosing
    <3>2. QED
      BY <1>1, <1>2, <2>2, <3>1 DEF LoadingIffPending, Pending, TypeOK, Req, Running
  <2>3. QED BY <2>1, <2>2
<1>8. QED BY <1>3, <1>4, <1>5, <1>6, <1>7

LEMMA InitInv == Init => IInv
<1> SUFFICES ASSUME Init PROVE IInv
  OBVIOUS
<1>1. TypeOK
  <2>1. pc \in [Req -> Stage] /\ ask \in [Req -> Ask \cup {NoCase}]
    BY DEF Init, Stage
  <2>2. res \in [Req -> Result]
    BY FreshLoadTypes DEF Init
  <2>3. 0 \in 0..MaxSeq
    BY BoundAssumption
  <2>4. /\ reviewTab \in BOOLEAN /\ hasNext \in BOOLEAN
        /\ loading \in BOOLEAN /\ shuttingDown \in BOOLEAN
    BY DEF Init
  <2>5. /\ currentPage \in Nat /\ totalRows \in Int
        /\ grid \in 0..MaxSeq /\ seq \in 0..MaxSeq /\ handle \in 0..MaxSeq
    BY <2>3 DEF Init
  <2>6. QED BY <2>1, <2>2, <2>4, <2>5, ViewAssumption DEF Init, TypeOK
<1>2. NumbersIncrease /\ AskedBeforeRun /\ GridIsNewest
  BY DEF Init, NumbersIncrease, AskedBeforeRun, GridIsNewest
<1>3. CancelNamesNoLoad /\ StopOnlyWhenClosing /\ LoadingIffPending
  BY DEF Init, CancelNamesNoLoad, StopOnlyWhenClosing, LoadingIffPending
<1>4. QED BY <1>1, <1>2, <1>3 DEF IInv

\* Every action of the investigator preserves the invariant.
LEMMA UserInv == IInv /\ User => IInv'
<1> SUFFICES ASSUME IInv, User PROVE IInv'
  OBVIOUS
<1>0. TypeOK
  BY DEF IInv
<1>1. ASSUME NEW c \in Case \cup {NoCase}, OpenCase(c) PROVE IInv'
  BY <1>0, <1>1, LoadReviewPageInv, ViewAssumption DEF OpenCase, TypeOK
<1>2. ASSUME NEW c \in Case, IngestCaseReady(c) PROVE IInv'
  <2>1. CASE reviewTab
    BY <1>0, <1>2, <2>1, LoadReviewPageInv, ViewAssumption DEF IngestCaseReady, TypeOK
  <2>2. CASE ~reviewTab
    BY <1>2, <2>2, ViewAssumption
       DEF IngestCaseReady, loadVars, IInv, TypeOK, NumbersIncrease, AskedBeforeRun,
           GridIsNewest, CancelNamesNoLoad, StopOnlyWhenClosing, LoadingIffPending, Pending
  <2>3. QED BY <2>1, <2>2
<1>3. ASSUME NEW b \in BOOLEAN, SelectTab(b) PROVE IInv'
  BY <1>3, ViewAssumption
     DEF SelectTab, loadVars, IInv, TypeOK, NumbersIncrease, AskedBeforeRun,
         GridIsNewest, CancelNamesNoLoad, StopOnlyWhenClosing, LoadingIffPending, Pending
<1>4. ASSUME NEW s \in Search, EditSearch(s) PROVE IInv'
  BY <1>4 DEF EditSearch, loadVars, IInv, TypeOK, NumbersIncrease, AskedBeforeRun,
         GridIsNewest, CancelNamesNoLoad, StopOnlyWhenClosing, LoadingIffPending, Pending
<1>5. ASSUME NEW v \in View, NEW p \in Nat, GoTo(v, p) PROVE IInv'
  BY <1>0, <1>5, LoadReviewPageInv DEF GoTo, TypeOK
<1>6. ASSUME First \/ Previous \/ NextPage \/ Last \/ \E v \in View : SelectView(v)
      PROVE  IInv'
  BY <1>0, <1>5, <1>6, LastPageIndexNat
     DEF First, Previous, NextPage, Last, SelectView, TypeOK
<1>7. ASSUME CancelLoad PROVE IInv'
  <2>1. seq + 1 \in Req /\ seq \in Nat
    BY <1>0, <1>7, BoundAssumption DEF CancelLoad, TypeOK, Req
  <2>2. pc[seq + 1] = "none"
    BY <1>0, <2>1 DEF IInv, NumbersIncrease, TypeOK, Req, Stage, Running
  <2>3. QED
    BY <1>7, <2>1, <2>2
       DEF CancelLoad, uiVars, IInv, TypeOK, NumbersIncrease, AskedBeforeRun,
           GridIsNewest, CancelNamesNoLoad, StopOnlyWhenClosing, LoadingIffPending, Req
<1>8. ASSUME Close PROVE IInv'
  BY <1>8, BoundAssumption
     DEF Close, uiVars, IInv, TypeOK, NumbersIncrease, AskedBeforeRun,
         GridIsNewest, CancelNamesNoLoad, StopOnlyWhenClosing, LoadingIffPending, Req
<1>9. QED
  BY <1>1, <1>2, <1>3, <1>4, <1>6, <1>7, <1>8 DEF User

\* The end of a wait: the cancelled number named no load, so nothing is pending.
LEMMA FinishInv ==
  ASSUME IInv, FinishCancel \/ FinishClose
  PROVE  IInv'
<1>0. /\ UNCHANGED <<uiVars, hasNext, totalRows, grid, seq, pc, ask, res, shuttingDown>>
      /\ handle' = 0
      /\ loading' = loading \/ loading' = FALSE
      /\ ui \in {"cancelling", "closing"}
      /\ ui = "cancelling" => ui' = "ready" /\ loading' = FALSE
      /\ ui = "closing" => ui' = "gone"
  BY DEF FinishCancel, FinishClose
<1>1. TypeOK'
  <2>1. 0 \in 0..MaxSeq
    BY BoundAssumption
  <2>2. loading' \in BOOLEAN /\ ui' \in {"ready", "cancelling", "closing", "gone"}
    BY <1>0 DEF IInv, TypeOK
  <2>3. QED BY <1>0, <2>1, <2>2 DEF IInv, TypeOK, uiVars
<1>2. NumbersIncrease' /\ AskedBeforeRun' /\ GridIsNewest'
  BY <1>0 DEF IInv, NumbersIncrease, AskedBeforeRun, GridIsNewest
<1>3. CancelNamesNoLoad' /\ StopOnlyWhenClosing'
  BY <1>0 DEF IInv, CancelNamesNoLoad, StopOnlyWhenClosing
<1>4. LoadingIffPending'
  BY <1>0 DEF IInv, CancelNamesNoLoad, LoadingIffPending, Pending, Running
<1>5. QED BY <1>1, <1>2, <1>3, <1>4 DEF IInv

\* Delivering a result.
LEMMA CompleteInv ==
  ASSUME IInv, NEW r \in Req, CompleteReviewPageLoad(r)
  PROVE  IInv'
<1>0. TypeOK /\ seq \in Nat
  BY BoundAssumption DEF IInv, TypeOK
<1>1. /\ ui = "ready" /\ pc[r] = "posted" /\ pc' = [pc EXCEPT ![r] = "delivered"]
      /\ UNCHANGED <<openedCase, view, search, reviewTab, seq, handle, ask, res,
                     shuttingDown, ui>>
  BY DEF CompleteReviewPageLoad
<1>2. ask[r] \in Ask /\ r <= seq
  BY <1>1 DEF IInv, AskedBeforeRun, NumbersIncrease
<1>3. CASE r # seq
  <2>1. UNCHANGED <<grid, currentPage, hasNext, totalRows, loading>>
    BY <1>3 DEF CompleteReviewPageLoad
  <2>2. QED
    BY <1>0, <1>1, <1>3, <2>1
       DEF IInv, TypeOK, NumbersIncrease, AskedBeforeRun, GridIsNewest,
           CancelNamesNoLoad, StopOnlyWhenClosing, LoadingIffPending, Pending,
           Req, Running, Stage
<1>4. CASE r = seq
  <2>1. loading' = FALSE /\ IF res[r].failed THEN ShowError ELSE Populate(r)
    BY <1>4 DEF CompleteReviewPageLoad
  <2>2. /\ grid' \in {0, r} /\ currentPage' \in Nat
        /\ hasNext' \in BOOLEAN /\ totalRows' \in Int
    <3>1. ask[r].page \in Nat
      BY <1>2 DEF Ask
    <3>2. res[r].more \in BOOLEAN /\ res[r].total \in Int
      BY <1>0 DEF TypeOK, Result
    <3>3. currentPage \in Nat
      BY <1>0 DEF TypeOK
    <3>4. CASE res[r].failed
      <4>1. hasNext' \in BOOLEAN
        BY <2>1, <3>4 DEF ShowError
      <4>2. grid' \in {0, r} /\ currentPage' \in Nat /\ totalRows' \in Int
        BY <2>1, <3>3, <3>4 DEF ShowError
      <4>3. QED BY <4>1, <4>2
    <3>5. CASE ~res[r].failed
      BY <2>1, <3>1, <3>2, <3>5 DEF Populate
    <3>6. QED BY <3>4, <3>5
  <2>3. TypeOK'
    <3>1. "delivered" \in Stage /\ r \in 0..MaxSeq /\ 0 \in 0..MaxSeq
      BY BoundAssumption DEF Stage, Req
    <3>2. QED BY <1>0, <1>1, <2>1, <2>2, <3>1 DEF TypeOK
  <2>4. NumbersIncrease' /\ AskedBeforeRun'
    BY <1>0, <1>1 DEF IInv, NumbersIncrease, AskedBeforeRun, TypeOK
  <2>5. GridIsNewest'
    BY <1>0, <1>1, <1>4, <2>2 DEF IInv, GridIsNewest, NumbersIncrease, TypeOK
  <2>6. CancelNamesNoLoad' /\ StopOnlyWhenClosing'
    BY <1>1 DEF IInv, CancelNamesNoLoad, StopOnlyWhenClosing
  <2>7. LoadingIffPending'
    BY <1>0, <1>1, <1>4, <2>1 DEF LoadingIffPending, Pending, Running, TypeOK
  <2>8. QED BY <2>3, <2>4, <2>5, <2>6, <2>7 DEF IInv
<1>5. QED BY <1>3, <1>4

\* Every step of a background thread is a WorkerStep with a well-typed result.
LEMMA ThreadInv ==
  ASSUME IInv, NEW r \in Req, Worker(r) \/ Fail(r)
  PROVE  IInv'
<1>0. TypeOK /\ res[r] \in Result /\ ask[r] \in Ask \cup {NoCase}
  BY DEF IInv, TypeOK
<1>1. ASSUME pc[r] \in Running PROVE RowCount(ask[r]) \in Nat
  <2>1. ask[r] \in Ask
    BY <1>1 DEF IInv, AskedBeforeRun, Running
  <2>2. QED BY <2>1, RowsAssumption DEF RowCount, Ask
<1>2. CASE Fail(r)
  <2>1. res' \in [Req -> Result]
    BY <1>0, <1>2 DEF Fail, TypeOK, Result
  <2>2. QED BY <1>2, <2>1, WorkerStepInv DEF Fail, Running
<1>3. CASE UNCHANGED res /\ \E from \in Running, to \in Running \cup {"posted"} :
                               WorkerStep(r, from, to)
  BY <1>0, <1>3, WorkerStepInv DEF TypeOK, Running
<1>4. CASE ScanRow(r)
  <2>1. res' \in [Req -> Result]
    BY <1>0, <1>4 DEF ScanRow, TypeOK, Result
  <2>2. QED BY <1>4, <2>1, WorkerStepInv DEF ScanRow, Running
<1>5. CASE EndScan(r)
  <2>1. res' \in [Req -> Result]
    <3> DEFINE left == Offset(ask[r]) + res[r].rows < RowCount(ask[r])
    <3>1. left \in BOOLEAN /\ res' = [res EXCEPT ![r].more = left]
      BY <1>5 DEF EndScan
    <3> HIDE DEF left
    <3>2. QED BY <1>0, <3>1 DEF TypeOK, Result
  <2>2. QED BY <1>5, <2>1, WorkerStepInv DEF EndScan, Running
<1>6. CASE CountRows(r)
  <2>1. pc[r] \in Running
    BY <1>6 DEF CountRows, WorkerStep, Running
  <2>2. PICK n \in {-1, RowCount(ask[r])} : res' = [res EXCEPT ![r].total = n]
    BY <1>6 DEF CountRows
  <2>3. n \in Int
    BY <1>1, <2>1, <2>2
  <2>4. res' \in [Req -> Result]
    BY <1>0, <2>2, <2>3 DEF TypeOK, Result
  <2>5. QED BY <1>6, <2>4, WorkerStepInv DEF CountRows, Running
<1>7. CASE DropStale(r)
  BY <1>0, <1>7, WorkerStepInv DEF DropStale, Running, TypeOK
<1>8. QED
  BY <1>2, <1>3, <1>4, <1>5, <1>6, <1>7
     DEF Worker, OpenDatabase, BeginCount, BeginTags, Post, Running

\* The invariant holds in every reachable state.
THEOREM Invariance == Spec => []IInv
<1>1. IInv /\ [Next]_vars => IInv'
  <2> SUFFICES ASSUME IInv, [Next]_vars PROVE IInv'
    OBVIOUS
  <2>1. CASE UNCHANGED vars
    BY <2>1 DEF vars, uiVars, loadVars, IInv, TypeOK, NumbersIncrease, AskedBeforeRun,
       GridIsNewest, CancelNamesNoLoad, StopOnlyWhenClosing, LoadingIffPending, Pending
  <2>2. CASE Next
    BY <2>2, UserInv, FinishInv, CompleteInv, ThreadInv DEF Next
  <2>3. QED BY <2>1, <2>2
<1>2. QED BY InitInv, <1>1, PTL DEF Spec

\* Every variable of the grid keeps its type for any constants.
THEOREM TypeCorrect == Spec => []TypeOK
BY Invariance, PTL DEF IInv

\* The busy state is honest for any number of loads, cancels and threads.
THEOREM BusyStateHonest == Spec => []LoadingIffPending
BY Invariance, PTL DEF IInv

\* The rows on screen belong to the newest load for any number of loads.
THEOREM LatestWins == Spec => []LatestLoadWins
<1>1. IInv => LatestLoadWins
  <2> SUFFICES ASSUME IInv, grid # 0 PROVE grid = Newest /\ pc[grid] = "delivered"
    BY DEF LatestLoadWins
  <2>1. /\ grid \in Req /\ pc[grid] = "delivered"
        /\ \A q \in Req : pc[q] # "none" => q <= grid
    BY BoundAssumption DEF IInv, TypeOK, GridIsNewest, Req
  <2> DEFINE IsNewest(r) == pc[r] # "none" /\ \A q \in Req : pc[q] # "none" => q <= r
  <2>2. Newest = CHOOSE r \in Req : IsNewest(r)
    BY <2>1 DEF Newest
  <2>3. IsNewest(grid)
    BY <2>1
  <2>4. \A r \in Req : IsNewest(r) => r = grid
    BY <2>1, BoundAssumption DEF Req
  <2> HIDE DEF IsNewest
  <2>5. grid = CHOOSE r \in Req : IsNewest(r)
    BY <2>1, <2>3, <2>4
  <2>6. QED BY <2>1, <2>2, <2>5
<1>2. QED BY Invariance, <1>1, PTL

-----------------------------------------------------------------------------
(* What the answers hold.  IInv says which load is on screen; that its     *)
(* rows are a complete page needs to know what each thread has read.       *)

\* The scan of a load has come to its end, and no error replaced its result.
Scanned(r) == \/ pc[r] \in {"scanned", "counting", "counted", "tagging"}
              \/ pc[r] \in {"posted", "delivered"} /\ ~res[r].failed

\* What load r has read so far is the beginning of its page, and all of it once
\* the scan has ended; a count, where there is one, counts the rows of the view.
ReadsItsPage(r) ==
  /\ pc[r] \in Running => ~res[r].failed
  /\ res[r].rows <= PageSize
  /\ res[r].rows # 0 => Offset(ask[r]) + res[r].rows <= RowCount(ask[r])
  /\ res[r].total \in {-1, RowCount(ask[r])}
  /\ Scanned(r) => /\ res[r].rows = PageRows(ask[r])
                   /\ res[r].more = (Offset(ask[r]) + PageSize < RowCount(ask[r]))

ResultsComplete == \A r \in Req : pc[r] # "none" => ReadsItsPage(r)

\* The paging state is that of the load on screen, and a load in progress has
\* cleared the screen.
GridShowsResult == /\ grid # 0 => /\ ~res[grid].failed
                                  /\ hasNext = res[grid].more
                                  /\ totalRows = res[grid].total
                   /\ loading => grid = 0

PageInv == ResultsComplete /\ GridShowsResult

\* The page and its offset, the rows of a view: all natural numbers.
LEMMA PageNumbers ==
  ASSUME NEW a \in Ask
  PROVE  Offset(a) \in Nat /\ RowCount(a) \in Nat /\ PageSize \in Nat /\ PageSize > 0
<1>1. a.page \in Nat /\ PageSize \in Nat /\ PageSize > 0
  BY BoundAssumption DEF Ask
<1>2. a.page * PageSize \in Nat
  BY <1>1
<1>3. QED BY <1>1, <1>2, RowsAssumption DEF Ask, Offset, RowCount

\* Starting a load: it has read nothing yet, and the screen is cleared.
LEMMA LoadPage ==
  ASSUME IInv, PageInv, NEW c \in Case \cup {NoCase}, NEW v \in View, NEW p \in Nat,
         LoadReviewPage(c, v, p)
  PROVE  PageInv'
<1>1. CASE c = NoCase
  BY <1>1 DEF LoadReviewPage, loadVars, PageInv, ResultsComplete, GridShowsResult,
     ReadsItsPage, Scanned, Offset, RowCount, PageRows
<1>2. CASE c # NoCase
  <2> DEFINE n == seq + (IF handle # 0 THEN 2 ELSE 1)
             a == [case |-> c, view |-> v, search |-> search, page |-> p]
  <2>0. seq \in Nat /\ MaxSeq \in Nat /\ n \in Nat /\ n > seq
    BY BoundAssumption DEF IInv, TypeOK
  <2>1. PICK r \in Req :
          /\ pc' = [pc EXCEPT ![r] = "opening"]
          /\ ask' = [ask EXCEPT ![r] = a]
          /\ res' = [res EXCEPT ![r] = NoResult]
          /\ grid' = 0
    <3>1. /\ n \in Req
          /\ pc' = [pc EXCEPT ![n] = "opening"]
          /\ ask' = [ask EXCEPT ![n] = a]
          /\ res' = [res EXCEPT ![n] = NoResult]
          /\ grid' = 0
      BY <1>2, <2>0 DEF LoadReviewPage, Req
    <3> HIDE DEF n, a
    <3>2. QED BY <3>1
  <2> HIDE DEF n, a
  <2>2. ASSUME NEW q \in Req, q # r, pc'[q] # "none" PROVE ReadsItsPage(q)'
    <3>1. pc'[q] = pc[q] /\ ask'[q] = ask[q] /\ res'[q] = res[q]
      BY <2>1, <2>2 DEF IInv, TypeOK
    <3>2. ReadsItsPage(q)
      BY <2>2, <3>1 DEF PageInv, ResultsComplete
    <3>3. QED BY <3>1, <3>2 DEF ReadsItsPage, Scanned, Offset, RowCount, PageRows
  <2>3. ReadsItsPage(r)'
    <3>1. pc'[r] = "opening" /\ res'[r] = NoResult
      BY <2>1 DEF IInv, TypeOK
    <3>2. /\ res'[r].rows = 0 /\ res'[r].total = -1 /\ res'[r].failed = FALSE
      BY <3>1 DEF NoResult
    <3>3. QED BY <3>1, <3>2, BoundAssumption DEF ReadsItsPage, Scanned
  <2>4. ResultsComplete'
    BY <2>2, <2>3 DEF ResultsComplete
  <2>5. QED BY <2>1, <2>4 DEF PageInv, GridShowsResult
<1>3. QED BY <1>1, <1>2

\* A step of a thread changes neither what was asked nor what is on screen, and
\* is right if the thread's own result is.
LEMMA ThreadPage ==
  ASSUME IInv, PageInv, NEW r \in Req, NEW from \in Running,
         NEW to \in Running \cup {"posted", "dropped"}, WorkerStep(r, from, to),
         NEW x \in Result, res' = [res EXCEPT ![r] = x],
         ReadsItsPage(r)'
  PROVE  PageInv'
<1>1. /\ pc' = [pc EXCEPT ![r] = to] /\ pc[r] = from
      /\ UNCHANGED <<ask, grid, loading, hasNext, totalRows>>
  BY DEF WorkerStep, uiVars
<1>2. from # "none" /\ from # "delivered"
  BY DEF Running
<1>3. ASSUME NEW q \in Req, q # r, pc'[q] # "none" PROVE ReadsItsPage(q)'
  <2>1. pc'[q] = pc[q] /\ res'[q] = res[q] /\ ask'[q] = ask[q]
    BY <1>1, <1>3 DEF IInv, TypeOK
  <2>2. ReadsItsPage(q)
    BY <1>3, <2>1 DEF PageInv, ResultsComplete
  <2>3. QED BY <2>1, <2>2 DEF ReadsItsPage, Scanned, Offset, RowCount, PageRows
<1>4. ResultsComplete'
  BY <1>3 DEF ResultsComplete
<1>5. GridShowsResult'
  <2>1. grid # 0 => grid # r /\ res'[grid] = res[grid]
    <3>1. grid # 0 => grid \in Req /\ pc[grid] = "delivered"
      BY BoundAssumption DEF IInv, TypeOK, GridIsNewest, Req
    <3>2. QED BY <1>1, <1>2, <3>1 DEF IInv, TypeOK
  <2>2. QED BY <1>1, <2>1 DEF PageInv, GridShowsResult
<1>6. QED BY <1>4, <1>5 DEF PageInv

\* What a thread reads step by step is its page, and the look at one row more
\* tells whether there is a next one.
LEMMA ThreadsReadPages ==
  ASSUME IInv, PageInv, NEW r \in Req, Worker(r) \/ Fail(r)
  PROVE  PageInv'
<1>0. /\ TypeOK /\ pc \in [Req -> Stage] /\ res \in [Req -> Result] /\ res[r] \in Result
  BY DEF IInv, TypeOK
<1>1. /\ pc[r] \in Running
      /\ \E from \in Running, to \in Running \cup {"posted", "dropped"} : WorkerStep(r, from, to)
  BY DEF Worker, Fail, OpenDatabase, ScanRow, EndScan, BeginCount, CountRows, BeginTags, Post,
         DropStale, WorkerStep, Running
<1>2. /\ ask[r] \in Ask /\ ReadsItsPage(r) /\ ~res[r].failed
  BY <1>1 DEF IInv, AskedBeforeRun, PageInv, ResultsComplete, ReadsItsPage, Running
<1> DEFINE a == ask[r]
<1>3. /\ Offset(a) \in Nat /\ RowCount(a) \in Nat /\ PageSize \in Nat /\ PageSize > 0
  BY <1>2, PageNumbers
<1>4. ask' = ask
  BY <1>1 DEF WorkerStep
<1>5. /\ Offset(ask'[r]) = Offset(a) /\ RowCount(ask'[r]) = RowCount(a)
      /\ PageRows(ask'[r]) = PageRows(a)
  BY <1>4
<1>6. ASSUME UNCHANGED res, NEW from \in Running, NEW to \in Running \cup {"posted", "dropped"},
             WorkerStep(r, from, to),
             to \in {"scanned", "counting", "counted", "tagging", "posted"} => Scanned(r)
      PROVE  PageInv'
  <2>1. pc'[r] = to /\ to \notin {"none", "delivered"}
    BY <1>0, <1>6 DEF WorkerStep, Running
  <2>2. ReadsItsPage(r)'
    BY <1>2, <1>4, <1>6, <2>1 DEF ReadsItsPage, Scanned, Offset, RowCount, PageRows, Running
  <2>3. res' = [res EXCEPT ![r] = res[r]]
    BY <1>0, <1>6
  <2>4. QED BY <1>0, <1>6, <2>2, <2>3, ThreadPage
<1>7. CASE OpenDatabase(r)
  BY <1>6, <1>7 DEF OpenDatabase, Running
<1>8. CASE BeginCount(r) \/ BeginTags(r) \/ Post(r)
  BY <1>6, <1>8, <1>2 DEF BeginCount, BeginTags, Post, Running, Scanned, WorkerStep
<1>9. CASE DropStale(r)
  BY <1>6, <1>9 DEF DropStale, Running
<1>10. CASE Fail(r)
  <2> DEFINE x == [res[r] EXCEPT !.failed = TRUE]
  <2>1. PICK from \in {"opening", "scanning", "tagging"} : WorkerStep(r, from, "posted")
    BY <1>10 DEF Fail
  <2>2. x \in Result /\ res' = [res EXCEPT ![r] = x] /\ res'[r] = x
    BY <1>0, <1>10 DEF Fail, Result
  <2>3. /\ x.rows = res[r].rows /\ x.total = res[r].total /\ x.failed
    BY <1>0 DEF Result
  <2>4. pc'[r] = "posted"
    BY <1>0, <2>1 DEF WorkerStep
  <2>5. ReadsItsPage(r)'
    BY <1>2, <1>5, <2>2, <2>3, <2>4 DEF ReadsItsPage, Scanned, Running
  <2>6. QED BY <2>1, <2>2, <2>5, ThreadPage DEF Running
<1>11. CASE ScanRow(r)
  <2> DEFINE x == [res[r] EXCEPT !.rows = @ + 1]
  <2>1. x \in Result /\ res' = [res EXCEPT ![r] = x] /\ res'[r] = x
    BY <1>0, <1>11 DEF ScanRow, Result
  <2>2. /\ x.rows = res[r].rows + 1 /\ x.total = res[r].total /\ x.failed = res[r].failed
        /\ res[r].rows \in Nat
    BY <1>0 DEF Result
  <2>3. /\ Offset(a) + res[r].rows < RowCount(a) /\ res[r].rows < PageSize
        /\ pc'[r] = "scanning" /\ WorkerStep(r, "scanning", "scanning")
    BY <1>0, <1>11 DEF ScanRow, WorkerStep
  <2>4. ReadsItsPage(r)'
    BY <1>2, <1>3, <1>5, <2>1, <2>2, <2>3 DEF ReadsItsPage, Scanned
  <2>5. QED BY <2>1, <2>3, <2>4, ThreadPage DEF Running
<1>12. CASE EndScan(r)
  <2> DEFINE left == Offset(a) + res[r].rows < RowCount(a)
             x    == [res[r] EXCEPT !.more = left]
  <2>0. left \in BOOLEAN
    OBVIOUS
  <2>1. x \in Result /\ res' = [res EXCEPT ![r] = x] /\ res'[r] = x
    BY <1>0, <1>12, <2>0 DEF EndScan, Result
  <2>2. /\ x.rows = res[r].rows /\ x.total = res[r].total /\ x.failed = res[r].failed
        /\ x.more = left /\ res[r].rows \in Nat
    BY <1>0 DEF Result
  <2>3. /\ left => res[r].rows = PageSize
        /\ pc'[r] = "scanned" /\ WorkerStep(r, "scanning", "scanned")
    BY <1>0, <1>12 DEF EndScan, WorkerStep
  <2>4. /\ res[r].rows <= PageSize
        /\ res[r].rows # 0 => Offset(a) + res[r].rows <= RowCount(a)
        /\ res[r].total \in {-1, RowCount(a)}
    BY <1>2 DEF ReadsItsPage
  <2>5. res[r].rows = PageRows(a) /\ left = (Offset(a) + PageSize < RowCount(a))
    BY <1>3, <2>2, <2>3, <2>4 DEF PageRows
  <2>6. ReadsItsPage(r)'
    BY <1>2, <1>5, <2>1, <2>2, <2>3, <2>4, <2>5 DEF ReadsItsPage
  <2>7. QED BY <2>1, <2>3, <2>6, ThreadPage DEF Running
<1>13. CASE CountRows(r)
  <2>1. PICK n \in {-1, RowCount(a)} : res' = [res EXCEPT ![r].total = n]
    BY <1>13 DEF CountRows
  <2> DEFINE x == [res[r] EXCEPT !.total = n]
  <2>2. x \in Result /\ res' = [res EXCEPT ![r] = x] /\ res'[r] = x
    BY <1>0, <1>3, <2>1 DEF Result
  <2>3. /\ x.rows = res[r].rows /\ x.more = res[r].more /\ x.failed = res[r].failed
        /\ x.total = n
    BY <1>0 DEF Result
  <2>4. /\ pc[r] = "counting" /\ pc'[r] = "counted" /\ WorkerStep(r, "counting", "counted")
    BY <1>0, <1>13 DEF CountRows, WorkerStep
  <2>5. ReadsItsPage(r)'
    BY <1>2, <1>5, <2>1, <2>2, <2>3, <2>4 DEF ReadsItsPage, Scanned
  <2>6. QED BY <2>2, <2>4, <2>5, ThreadPage DEF Running
<1>14. QED BY <1>7, <1>8, <1>9, <1>10, <1>11, <1>12, <1>13 DEF Worker

\* A step that reads nothing and starts nothing leaves the answers as they are.
LEMMA QuietPage ==
  ASSUME PageInv, UNCHANGED <<pc, ask, res, grid, hasNext, totalRows>>,
         loading' = loading \/ loading' = FALSE
  PROVE  PageInv'
BY DEF PageInv, ResultsComplete, GridShowsResult, ReadsItsPage, Scanned, Offset, RowCount, PageRows

\* The investigator's commands start a load or leave the answers alone.
LEMMA UserPage == IInv /\ PageInv /\ User => PageInv'
<1> SUFFICES ASSUME IInv, PageInv, User PROVE PageInv'
  OBVIOUS
<1>0. TypeOK
  BY DEF IInv
<1>1. ASSUME NEW c \in Case \cup {NoCase}, OpenCase(c) PROVE PageInv'
  BY <1>1, LoadPage, ViewAssumption DEF OpenCase
<1>2. ASSUME NEW c \in Case, IngestCaseReady(c) PROVE PageInv'
  <2>1. CASE reviewTab
    BY <1>0, <1>2, <2>1, LoadPage, ViewAssumption DEF IngestCaseReady, TypeOK
  <2>2. CASE ~reviewTab
    BY <1>2, <2>2, QuietPage DEF IngestCaseReady, loadVars
  <2>3. QED BY <2>1, <2>2
<1>3. ASSUME NEW v \in View, NEW p \in Nat, GoTo(v, p) PROVE PageInv'
  BY <1>0, <1>3, LoadPage DEF GoTo, TypeOK
<1>4. CASE First \/ Previous \/ NextPage \/ Last \/ \E v \in View : SelectView(v)
  BY <1>0, <1>3, <1>4, LastPageIndexNat DEF First, Previous, NextPage, Last, SelectView, TypeOK
<1>5. CASE (\E b \in BOOLEAN : SelectTab(b)) \/ (\E t \in Search : EditSearch(t))
  BY <1>5, QuietPage DEF SelectTab, EditSearch, loadVars
<1>6. CASE CancelLoad \/ Close
  BY <1>6, QuietPage DEF CancelLoad, Close
<1>7. QED BY <1>1, <1>2, <1>4, <1>5, <1>6 DEF User

\* A result that is delivered brings its own page and paging state to the screen.
LEMMA CompletePage ==
  ASSUME IInv, PageInv, NEW r \in Req, CompleteReviewPageLoad(r)
  PROVE  PageInv'
<1>1. /\ pc[r] = "posted" /\ pc' = [pc EXCEPT ![r] = "delivered"]
      /\ UNCHANGED <<ask, res>>
  BY DEF CompleteReviewPageLoad
<1>2. ASSUME NEW q \in Req, pc'[q] # "none" PROVE ReadsItsPage(q)'
  <2>1. pc[q] # "none" /\ (pc'[q] = pc[q] \/ (q = r /\ pc'[q] = "delivered"))
    BY <1>1, <1>2 DEF IInv, TypeOK
  <2>2. ReadsItsPage(q)
    BY <2>1 DEF PageInv, ResultsComplete
  <2>3. QED BY <1>1, <2>1, <2>2 DEF ReadsItsPage, Scanned, Offset, RowCount, PageRows, Running
<1>3. GridShowsResult'
  <2>1. CASE r # seq
    BY <1>1, <2>1 DEF CompleteReviewPageLoad, PageInv, GridShowsResult
  <2>2. CASE r = seq /\ res[r].failed
    BY <1>1, <2>2 DEF CompleteReviewPageLoad, ShowError, GridShowsResult
  <2>3. CASE r = seq /\ ~res[r].failed
    BY <1>1, <2>3 DEF CompleteReviewPageLoad, Populate, GridShowsResult
  <2>4. QED BY <2>1, <2>2, <2>3
<1>4. QED BY <1>2, <1>3 DEF PageInv, ResultsComplete

LEMMA PageStep == IInv /\ PageInv /\ [Next]_vars => PageInv'
<1> SUFFICES ASSUME IInv, PageInv, [Next]_vars PROVE PageInv'
  OBVIOUS
<1>1. CASE UNCHANGED vars
  BY <1>1, QuietPage DEF vars, loadVars
<1>2. CASE User
  BY <1>2, UserPage
<1>3. CASE FinishCancel \/ FinishClose
  BY <1>3, QuietPage DEF FinishCancel, FinishClose
<1>4. CASE \E r \in Req : CompleteReviewPageLoad(r) \/ Worker(r) \/ Fail(r)
  BY <1>4, CompletePage, ThreadsReadPages
<1>5. QED BY <1>1, <1>2, <1>3, <1>4 DEF Next

LEMMA InitPage == Init => PageInv
BY DEF Init, PageInv, ResultsComplete, GridShowsResult

\* In every reachable state what is read is a page and what is shown was read.
THEOREM PagesComplete == Spec => [](IInv /\ PageInv)
<1>1. IInv /\ PageInv /\ [Next]_vars => PageInv'
  BY PageStep
<1>2. QED BY Invariance, InitPage, <1>1, PTL DEF Spec

\* A full page of which more follow is before the last one, and only such a page:
\* "one row more" and the count divided by the page size say the same.
LEMMA LastPageIndexExact ==
  ASSUME NEW p \in Nat, NEW n \in Nat
  PROVE  p * PageSize + PageSize < n <=> p < LastPageIndex(n)
<1>1. PageSize \in Nat /\ PageSize > 0
  BY BoundAssumption
<1>2. CASE n = 0
  <2>1. p * PageSize \in Nat
    BY <1>1
  <2>2. QED BY <1>1, <1>2, <2>1 DEF LastPageIndex
<1>3. CASE n > 0
  <2> DEFINE d == (n - 1) \div PageSize
  <2>1. LastPageIndex(n) = d
    BY <1>3 DEF LastPageIndex
  <2>2. d \in Nat /\ d * PageSize <= n - 1 /\ n - 1 < d * PageSize + PageSize
    BY <1>1, <1>3
  <2> HIDE DEF d
  <2>3. p + 1 <= d => (p + 1) * PageSize <= d * PageSize
    BY <1>1, <2>2
  <2>4. d <= p => d * PageSize <= p * PageSize
    BY <1>1, <2>2
  <2>5. (p + 1) * PageSize = p * PageSize + PageSize
    BY <1>1
  <2>6. p * PageSize \in Nat /\ d * PageSize \in Nat
    BY <1>1, <2>2
  <2>7. QED BY <1>1, <2>1, <2>2, <2>3, <2>4, <2>5, <2>6
<1>4. QED BY <1>2, <1>3

\* Next is offered exactly when the page on screen is before the last one.
THEOREM PagingStateAgrees == Spec => []PagingAgrees
<1>1. IInv /\ PageInv => PagingAgrees
  <2> SUFFICES ASSUME IInv, PageInv, grid # 0
               PROVE  /\ totalRows >= 0 => (hasNext <=> ask[grid].page < LastPageIndex(totalRows))
                      /\ hasNext => res[grid].rows = PageSize
    BY DEF PagingAgrees
  <2> DEFINE a == ask[grid]
  <2>1. grid \in Req /\ pc[grid] = "delivered" /\ a \in Ask
    BY BoundAssumption DEF IInv, TypeOK, GridIsNewest, AskedBeforeRun, Req
  <2>2. /\ hasNext = (Offset(a) + PageSize < RowCount(a))
        /\ totalRows \in {-1, RowCount(a)}
        /\ res[grid].rows = PageRows(a)
    BY <2>1 DEF PageInv, GridShowsResult, ResultsComplete, ReadsItsPage, Scanned
  <2>3. a.page \in Nat /\ Offset(a) = a.page * PageSize /\ Offset(a) \in Nat
        /\ RowCount(a) \in Nat /\ PageSize \in Nat /\ PageSize > 0
    BY <2>1, PageNumbers DEF Ask, Offset
  <2>4. hasNext <=> Offset(a) + PageSize < RowCount(a)
    BY <2>2
  <2>5. totalRows >= 0 => (hasNext <=> a.page < LastPageIndex(totalRows))
    <3>1. Offset(a) + PageSize < RowCount(a) <=> a.page < LastPageIndex(RowCount(a))
      BY <2>3, LastPageIndexExact
    <3>2. QED BY <2>2, <2>4, <3>1
  <2>6. hasNext => res[grid].rows = PageSize
    <3> DEFINE left == RowCount(a) - Offset(a)
    <3>1. hasNext => left > 0 /\ ~(left < PageSize)
      BY <2>3, <2>4
    <3>2. QED BY <2>2, <2>3, <3>1 DEF PageRows
  <2>7. QED BY <2>5, <2>6
<1>2. QED BY PagesComplete, <1>1, PTL

-----------------------------------------------------------------------------
(* The grid implements LatestAnswer.  The question is that of the newest   *)
(* load, so what is needed of a step is whether it makes another load the  *)
(* newest, and whether the newest is the one that is shown.                *)

\* The newest of the loads whose threads are where p says.
NewestOf(p) == IF \A r \in Req : p[r] = "none" THEN 0
               ELSE CHOOSE r \in Req : /\ p[r] # "none"
                                       /\ \A q \in Req : p[q] # "none" => q <= r

\* There is no other load with that description.
LEMMA NewestIs ==
  ASSUME NEW p, NEW r \in Req, p[r] # "none", \A q \in Req : p[q] # "none" => q <= r
  PROVE  NewestOf(p) = r
<1> DEFINE IsNewest(x) == p[x] # "none" /\ \A q \in Req : p[q] # "none" => q <= x
<1>1. NewestOf(p) = CHOOSE x \in Req : IsNewest(x)
  BY DEF NewestOf
<1>2. IsNewest(r)
  OBVIOUS
<1>3. \A x \in Req : IsNewest(x) => x = r
  BY BoundAssumption DEF Req
<1> HIDE DEF IsNewest
<1>4. QED BY <1>1, <1>2, <1>3

LEMMA NewestByStart ==
  ASSUME NEW p, NEW q, \A r \in Req : p[r] = "none" <=> q[r] = "none"
  PROVE  NewestOf(p) = NewestOf(q)
<1> DEFINE P(r) == p[r] # "none" /\ \A x \in Req : p[x] # "none" => x <= r
           Q(r) == q[r] # "none" /\ \A x \in Req : q[x] # "none" => x <= r
<1>1. \A r \in Req : P(r) <=> Q(r)
  OBVIOUS
<1>2. /\ NewestOf(p) = IF \A r \in Req : p[r] = "none" THEN 0 ELSE CHOOSE r \in Req : P(r)
      /\ NewestOf(q) = IF \A r \in Req : q[r] = "none" THEN 0 ELSE CHOOSE r \in Req : Q(r)
  BY DEF NewestOf
<1> HIDE DEF P, Q
<1>3. (CHOOSE r \in Req : P(r)) = (CHOOSE r \in Req : Q(r))
  BY <1>1
<1>4. (\A r \in Req : p[r] = "none") <=> (\A r \in Req : q[r] = "none")
  OBVIOUS
<1>5. CASE \A r \in Req : p[r] = "none"
  BY <1>2, <1>4, <1>5
<1>6. CASE ~\A r \in Req : p[r] = "none"
  BY <1>2, <1>3, <1>4, <1>6
<1>7. QED BY <1>5, <1>6

LEMMA NewestUnfolds == Newest = NewestOf(pc) /\ (Newest = NewestOf(pc))'
BY DEF Newest, NewestOf

\* Asking: another load becomes the newest, and the screen is cleared.
LEMMA LoadAsks ==
  ASSUME IInv, NEW c \in Case \cup {NoCase}, NEW v \in View, NEW p \in Nat,
         LoadReviewPage(c, v, p)
  PROVE  [Promise!Next]_(Promise!vars)
<1>1. CASE c = NoCase
  <2>1. UNCHANGED <<pc, ask, res, grid, hasNext, totalRows, loading>>
    BY <1>1 DEF LoadReviewPage, loadVars
  <2>2. Newest' = Newest
    BY <2>1, NewestUnfolds
  <2>3. QED BY <2>1, <2>2 DEF Promise!vars, Shown
<1>2. CASE c # NoCase
  <2> DEFINE n == seq + (IF handle # 0 THEN 2 ELSE 1)
             a == [case |-> c, view |-> v, search |-> search, page |-> p]
  <2>0. seq \in Nat /\ MaxSeq \in Nat /\ n \in Nat /\ n > seq
    BY BoundAssumption DEF IInv, TypeOK
  <2>1. /\ n \in Req
        /\ pc' = [pc EXCEPT ![n] = "opening"]
        /\ ask' = [ask EXCEPT ![n] = a]
        /\ loading' = TRUE /\ grid' = 0
    BY <1>2, <2>0 DEF LoadReviewPage, Req
  <2>2. a \in Ask
    BY <1>2, FreshLoadTypes DEF IInv, TypeOK
  <2>3. pc'[n] # "none" /\ \A q \in Req : pc'[q] # "none" => q <= n
    BY <2>0, <2>1 DEF IInv, TypeOK, NumbersIncrease, Req
  <2> HIDE DEF n, a
  <2>4. Newest' = n
    BY <2>1, <2>3, NewestIs, NewestUnfolds
  <2>5. ask'[n] = a /\ n # 0
    BY <2>0, <2>1 DEF IInv, TypeOK
  <2>6. Promise!Ask
    BY <2>1, <2>2, <2>4, <2>5 DEF Promise!Ask
  <2>7. QED BY <2>6 DEF Promise!Next
<1>3. QED BY <1>1, <1>2

\* Withdrawing, or nothing at all: a step that starts no load and shows none.
LEMMA QuietStep ==
  ASSUME IInv, PageInv, \A r \in Req : pc'[r] = "none" <=> pc[r] = "none",
         UNCHANGED <<ask, grid, hasNext, totalRows>>,
         grid # 0 => res'[grid].rows = res[grid].rows,
         loading' = loading \/ loading' = FALSE
  PROVE  [Promise!Next]_(Promise!vars)
<1>1. Newest' = Newest
  BY NewestByStart, NewestUnfolds
<1>2. CASE loading' = loading
  BY <1>1, <1>2 DEF Promise!vars, Shown
<1>3. CASE loading' # loading
  <2>1. loading = TRUE /\ loading' = FALSE /\ grid = 0
    BY <1>3 DEF IInv, TypeOK, PageInv, GridShowsResult
  <2>2. Promise!Withdraw
    BY <1>1, <2>1 DEF Promise!Withdraw
  <2>3. QED BY <2>2 DEF Promise!Next
<1>4. QED BY <1>2, <1>3

\* Replying: the newest load, if it is still awaited, brings its complete page.
LEMMA CompleteReplies ==
  ASSUME IInv, PageInv, NEW r \in Req, CompleteReviewPageLoad(r)
  PROVE  [Promise!Next]_(Promise!vars)
<1>1. /\ ui = "ready" /\ pc[r] = "posted" /\ pc' = [pc EXCEPT ![r] = "delivered"]
      /\ UNCHANGED <<ask, res>>
  BY DEF CompleteReviewPageLoad
<1>2. \A q \in Req : pc'[q] = "none" <=> pc[q] = "none"
  BY <1>1 DEF IInv, TypeOK
<1>3. CASE r # seq
  <2>1. UNCHANGED <<grid, hasNext, totalRows, loading>>
    BY <1>3 DEF CompleteReviewPageLoad
  <2>2. QED BY <1>1, <1>2, <2>1, QuietStep
<1>4. CASE r = seq
  <2>1. loading = TRUE /\ loading' = FALSE
    BY <1>1, <1>4, BoundAssumption
       DEF IInv, TypeOK, LoadingIffPending, Pending, CompleteReviewPageLoad, Req
  <2>2. Newest = r /\ Newest' = r /\ r # 0
    <3>1. \A q \in Req : pc[q] # "none" => q <= r
      BY <1>4 DEF IInv, NumbersIncrease
    <3>2. Newest = r
      BY <1>1, <3>1, NewestIs, NewestUnfolds
    <3>3. QED BY <1>2, <3>2, NewestByStart, NewestUnfolds, BoundAssumption DEF Req
  <2>3. ask[r] \in Ask /\ ReadsItsPage(r)
    BY <1>1 DEF IInv, AskedBeforeRun, PageInv, ResultsComplete
  <2>4. CASE res[r].failed
    <3>1. grid' = 0
      BY <1>4, <2>4 DEF CompleteReviewPageLoad, ShowError
    <3>2. Promise!Withdraw
      BY <1>1, <2>1, <2>2, <3>1 DEF Promise!Withdraw
    <3>3. QED BY <3>2 DEF Promise!Next
  <2>5. CASE ~res[r].failed
    <3>1. grid' = r /\ hasNext' = res[r].more /\ totalRows' = res[r].total
      BY <1>4, <2>5 DEF CompleteReviewPageLoad, Populate
    <3>2. /\ res[r].rows = PageRows(ask[r])
          /\ res[r].more = (Offset(ask[r]) + PageSize < RowCount(ask[r]))
          /\ res[r].total \in {-1, RowCount(ask[r])}
      BY <1>1, <2>3, <2>5 DEF ReadsItsPage, Scanned
    <3>3. Shown(ask'[r], res'[r].rows, hasNext', totalRows') \in Answers(ask[r])
      BY <1>1, <3>1, <3>2 DEF Answers, Shown
    <3>4. Promise!Reply
      BY <1>1, <2>1, <2>2, <3>1, <3>3 DEF Promise!Reply
    <3>5. QED BY <3>4 DEF Promise!Next
  <2>6. QED BY <2>4, <2>5
<1>5. QED BY <1>3, <1>4

\* A step of a thread shows nothing.
LEMMA ThreadsAreQuiet ==
  ASSUME IInv, PageInv, NEW r \in Req, Worker(r) \/ Fail(r)
  PROVE  [Promise!Next]_(Promise!vars)
<1>1. PICK from \in Running, to \in Running \cup {"posted", "dropped"} : WorkerStep(r, from, to)
  BY DEF Worker, Fail, OpenDatabase, ScanRow, EndScan, BeginCount, CountRows, BeginTags, Post,
         DropStale, Running
<1>2. /\ pc[r] = from /\ pc' = [pc EXCEPT ![r] = to]
      /\ UNCHANGED <<ask, grid, hasNext, totalRows, loading>>
  BY <1>1 DEF WorkerStep
<1>3. from \notin {"none", "delivered"} /\ to # "none"
  BY DEF Running
<1>4. \A q \in Req : pc'[q] = "none" <=> pc[q] = "none"
  BY <1>2, <1>3 DEF IInv, TypeOK
<1>5. grid # 0 => res'[grid] = res[grid]
  <2>1. grid # 0 => grid \in Req /\ grid # r
    BY <1>2, <1>3, BoundAssumption DEF IInv, TypeOK, GridIsNewest, Req
  <2>2. \A q \in Req : q # r => res'[q] = res[q]
    BY DEF Worker, Fail, OpenDatabase, ScanRow, EndScan, BeginCount, CountRows, BeginTags, Post,
           DropStale, IInv, TypeOK
  <2>3. QED BY <2>1, <2>2
<1>6. QED BY <1>2, <1>4, <1>5, QuietStep

LEMMA UserAsks ==
  ASSUME IInv, PageInv, User
  PROVE  [Promise!Next]_(Promise!vars)
<1>0. TypeOK
  BY DEF IInv
<1>1. ASSUME NEW c \in Case \cup {NoCase}, OpenCase(c) PROVE [Promise!Next]_(Promise!vars)
  BY <1>1, LoadAsks, ViewAssumption DEF OpenCase
<1>2. ASSUME NEW c \in Case, IngestCaseReady(c) PROVE [Promise!Next]_(Promise!vars)
  <2>1. CASE reviewTab
    BY <1>0, <1>2, <2>1, LoadAsks, ViewAssumption DEF IngestCaseReady, TypeOK
  <2>2. CASE ~reviewTab
    BY <1>2, <2>2, QuietStep DEF IngestCaseReady, loadVars
  <2>3. QED BY <2>1, <2>2
<1>3. ASSUME NEW v \in View, NEW p \in Nat, GoTo(v, p) PROVE [Promise!Next]_(Promise!vars)
  BY <1>0, <1>3, LoadAsks DEF GoTo, TypeOK
<1>4. CASE First \/ Previous \/ NextPage \/ Last \/ \E v \in View : SelectView(v)
  BY <1>0, <1>3, <1>4, LastPageIndexNat DEF First, Previous, NextPage, Last, SelectView, TypeOK
<1>5. CASE (\E b \in BOOLEAN : SelectTab(b)) \/ (\E t \in Search : EditSearch(t))
  BY <1>5, QuietStep DEF SelectTab, EditSearch, loadVars
<1>6. CASE CancelLoad \/ Close
  BY <1>6, QuietStep DEF CancelLoad, Close
<1>7. QED BY <1>1, <1>2, <1>4, <1>5, <1>6 DEF User

\* Every behaviour of the grid is one of the promise: what is on screen is the
\* complete answer to the latest question or nothing.
THEOREM PromiseKept == Spec => ImplementsPromise
<1>1. Init => Promise!Init
  <2> SUFFICES ASSUME Init PROVE Promise!Init
    OBVIOUS
  <2>1. Newest = 0 /\ grid = 0 /\ loading = FALSE
    BY DEF Init, Newest
  <2>2. QED BY <2>1 DEF Promise!Init
<1>2. IInv /\ PageInv /\ [Next]_vars => [Promise!Next]_(Promise!vars)
  <2> SUFFICES ASSUME IInv, PageInv, [Next]_vars PROVE [Promise!Next]_(Promise!vars)
    OBVIOUS
  <2>1. CASE UNCHANGED vars
    BY <2>1, QuietStep DEF vars, loadVars
  <2>2. CASE User
    BY <2>2, UserAsks
  <2>3. CASE FinishCancel \/ FinishClose
    BY <2>3, QuietStep DEF FinishCancel, FinishClose
  <2>4. CASE \E r \in Req : CompleteReviewPageLoad(r) \/ Worker(r) \/ Fail(r)
    BY <2>4, CompleteReplies, ThreadsAreQuiet
  <2>5. QED BY <2>1, <2>2, <2>3, <2>4 DEF Next
<1>3. QED BY <1>1, <1>2, PagesComplete, PTL DEF Spec, ImplementsPromise, Promise!Spec
=============================================================================
