----------------------------- MODULE ReviewPage -----------------------------
(***************************************************************************)
(* The review grid of the Windows GUI (src/src/gui/win32_gui.cpp).  The UI *)
(* thread starts one background std::thread per page load, supersedes an   *)
(* older load by advancing gReviewRequestSeq and detaching its thread, and *)
(* applies a WM_REVIEW_PAGE_RESULT only if it carries the current number.  *)
(*                                                                         *)
(* A load is identified by its request number, so a request number is also *)
(* the identity of the thread that serves it.  The message queue is the    *)
(* set of loads whose pc is "posted"; delivery in any order includes the   *)
(* FIFO order of Windows.  A column filter or a sort is a load of page 0   *)
(* like a refresh and is not told apart from it.                           *)
(***************************************************************************)
EXTENDS Integers

CONSTANTS Case,       \* case databases
          NoCase,     \* the empty path
          View,       \* review views
          FirstView,  \* the view populateViewList selects
          Search,     \* contents of the search box
          RowsIn,     \* rows of a view of a case that match a search
          PageSize,   \* rows per page
          MaxSeq,     \* bound: request numbers handed out in one session
          MaxPage     \* bound: highest page the paging buttons go to

ASSUME CaseAssumption == NoCase \notin Case
ASSUME ViewAssumption == FirstView \in View
ASSUME RowsAssumption == RowsIn \in [Case -> [View -> [Search -> Nat]]]
ASSUME BoundAssumption == PageSize \in Nat \ {0} /\ MaxSeq \in Nat /\ MaxPage \in Nat

VARIABLES openedCase,   \* gOpenedCaseDb
          view,         \* selectedViewIndex()
          search,       \* text of gSearch
          reviewTab,    \* isInvestigationTabIndex(gActiveTabIndex)
          currentPage,  \* gCurrentPage
          hasNext,      \* gCurrentHasNext
          totalRows,    \* gCurrentTotalRows, -1 when not known
          grid,         \* the load whose rows are listed, 0 when cleared
          loading,      \* gReviewLoadInProgress
          seq,          \* gReviewRequestSeq
          handle,       \* the load gReviewThread runs, 0 if not joinable
          shuttingDown, \* gShuttingDown
          ui,           \* what the UI thread is doing
          pc,           \* where the thread of each load is
          ask,          \* what each load captured when it started
          res           \* the ReviewPageResult each load builds

uiVars     == <<openedCase, view, search, reviewTab, currentPage>>
loadVars   == <<hasNext, totalRows, grid, loading, seq, handle, pc, ask, res>>
vars       == <<uiVars, loadVars, shuttingDown, ui>>

Req == 1..MaxSeq
Ask == [case : Case, view : View, search : Search, page : Nat]
Result == [rows : Nat, more : BOOLEAN, total : Int, failed : BOOLEAN]
NoResult == [rows |-> 0, more |-> FALSE, total |-> -1, failed |-> FALSE]

\* Stages of a load.  A thread that saw it was stale is "dropped"; "posted" is
\* a result in the message queue and "delivered" one the UI has taken out.
Running == {"opening", "scanning", "scanned", "counting", "counted", "tagging"}
Stage   == Running \cup {"none", "dropped", "posted", "delivered"}

TypeOK == /\ openedCase \in Case \cup {NoCase}
          /\ view \in View /\ search \in Search
          /\ reviewTab \in BOOLEAN
          /\ currentPage \in Nat
          /\ hasNext \in BOOLEAN
          /\ totalRows \in Int
          /\ grid \in 0..MaxSeq
          /\ loading \in BOOLEAN
          /\ seq \in 0..MaxSeq
          /\ handle \in 0..MaxSeq
          /\ shuttingDown \in BOOLEAN
          /\ ui \in {"ready", "cancelling", "closing", "gone"}
          /\ pc \in [Req -> Stage]
          /\ ask \in [Req -> Ask \cup {NoCase}]
          /\ res \in [Req -> Result]

Init == /\ openedCase = NoCase
        /\ view = FirstView /\ search \in Search
        /\ reviewTab = FALSE
        /\ currentPage = 0 /\ hasNext = FALSE /\ totalRows = -1
        /\ grid = 0 /\ loading = FALSE
        /\ seq = 0 /\ handle = 0
        /\ shuttingDown = FALSE /\ ui = "ready"
        /\ pc = [r \in Req |-> "none"]
        /\ ask = [r \in Req |-> NoCase]
        /\ res = [r \in Req |-> NoResult]

LastPageIndex(total) == IF total <= 0 THEN 0 ELSE (total - 1) \div PageSize

----------------------------------------------------------------------------
(* The UI thread.                                                          *)

\* A load of page p of view v in case c.  With no case open nothing happens;
\* otherwise a thread that is still joinable is superseded and detached.
LoadReviewPage(c, v, p) ==
  LET r == seq + (IF handle # 0 THEN 2 ELSE 1) IN
  IF c = NoCase THEN UNCHANGED loadVars
  ELSE /\ r <= MaxSeq
       /\ seq' = r
       /\ handle' = r
       /\ pc' = [pc EXCEPT ![r] = "opening"]
       /\ ask' = [ask EXCEPT ![r] =
                    [case |-> c, view |-> v, search |-> search, page |-> p]]
       /\ res' = [res EXCEPT ![r] = NoResult]
       /\ loading' = TRUE
       /\ grid' = 0 /\ hasNext' = FALSE /\ totalRows' = -1

OpenCase(c) ==
  /\ ui = "ready"
  /\ openedCase' = c
  /\ currentPage' = 0
  /\ view' = FirstView
  /\ LoadReviewPage(c, FirstView, 0)
  /\ UNCHANGED <<search, reviewTab, shuttingDown, ui>>

\* WM_INGEST_CASE_READY: the grid is reloaded only if it is on screen, and
\* the page number of the previous case is kept.
IngestCaseReady(c) ==
  /\ ui = "ready"
  /\ openedCase' = c
  /\ view' = FirstView
  /\ IF reviewTab THEN LoadReviewPage(c, FirstView, currentPage)
                  ELSE UNCHANGED loadVars
  /\ UNCHANGED <<search, reviewTab, currentPage, shuttingDown, ui>>

\* Choosing a tab rebuilds the view list of an investigation tab; the grid
\* itself is left as it is.
SelectTab(review) ==
  /\ ui = "ready"
  /\ reviewTab' = review
  /\ view' = IF review THEN FirstView ELSE view
  /\ UNCHANGED <<openedCase, search, currentPage, loadVars, shuttingDown, ui>>

EditSearch(s) ==
  /\ ui = "ready" /\ reviewTab
  /\ search' = s
  /\ UNCHANGED <<openedCase, view, reviewTab, currentPage, loadVars,
                 shuttingDown, ui>>

GoTo(v, p) ==
  /\ ui = "ready" /\ reviewTab
  /\ p <= MaxPage
  /\ view' = v
  /\ currentPage' = p
  /\ LoadReviewPage(openedCase, v, p)
  /\ UNCHANGED <<openedCase, search, reviewTab, shuttingDown, ui>>

\* The view list and the column headers stay enabled during a load, the
\* paging buttons do not.
SelectView(v) == GoTo(v, 0)
First    == ~loading /\ GoTo(view, 0)
Previous == ~loading /\ GoTo(view, IF currentPage > 0 THEN currentPage - 1 ELSE 0)
NextPage == ~loading /\ GoTo(view, IF hasNext THEN currentPage + 1 ELSE currentPage)
Last     == ~loading /\ GoTo(view, IF totalRows >= 0 THEN LastPageIndex(totalRows)
                                                     ELSE currentPage)

\* Faulty variants, each next to what it varies, show what the properties
\* are able to notice.  This one joins without making the load stale.
CancelLoadKeepsNumber ==
  /\ ui = "ready" /\ reviewTab /\ loading
  /\ ui' = "cancelling"
  /\ UNCHANGED <<uiVars, loadVars, shuttingDown>>

\* cancelAndJoinReviewThreadNoThrow: the sequence number advances first, then
\* the UI thread waits for the thread it would otherwise have to detach.
CancelLoad ==
  /\ ui = "ready" /\ reviewTab /\ loading
  /\ seq < MaxSeq
  /\ seq' = seq + 1
  /\ ui' = "cancelling"
  /\ UNCHANGED <<uiVars, hasNext, totalRows, grid, loading, handle, pc, ask,
                 res, shuttingDown>>

Joined == handle # 0 => pc[handle] \notin Running

FinishCancel ==
  /\ ui = "cancelling" /\ Joined
  /\ ui' = "ready"
  /\ handle' = 0
  /\ loading' = FALSE
  /\ UNCHANGED <<uiVars, hasNext, totalRows, grid, seq, pc, ask, res,
                 shuttingDown>>

\* WM_DESTROY, as far as the review thread is concerned.
Close ==
  /\ ui = "ready"
  /\ seq < MaxSeq
  /\ shuttingDown' = TRUE
  /\ seq' = seq + 1
  /\ ui' = "closing"
  /\ UNCHANGED <<uiVars, hasNext, totalRows, grid, loading, handle, pc, ask, res>>

FinishClose ==
  /\ ui = "closing" /\ Joined
  /\ ui' = "gone"
  /\ handle' = 0
  /\ UNCHANGED <<uiVars, hasNext, totalRows, grid, loading, seq, pc, ask, res,
                 shuttingDown>>

\* populateReviewListFromResult
Populate(r) == /\ grid' = r
               /\ currentPage' = ask[r].page
               /\ hasNext' = res[r].more
               /\ totalRows' = res[r].total

ShowError == /\ grid' = 0
             /\ hasNext' = FALSE
             /\ totalRows' = -1
             /\ UNCHANGED currentPage

\* Faulty: applies whatever arrives.
CompleteAnyLoad(r) ==
  /\ ui = "ready" /\ pc[r] = "posted"
  /\ pc' = [pc EXCEPT ![r] = "delivered"]
  /\ IF res[r].failed THEN ShowError ELSE Populate(r)
  /\ loading' = FALSE
  /\ UNCHANGED <<openedCase, view, search, reviewTab, seq, handle, ask, res,
                 shuttingDown, ui>>

\* Faulty: the error path returns before the busy state is reset.
CompleteErrorStaysBusy(r) ==
  /\ ui = "ready" /\ pc[r] = "posted"
  /\ pc' = [pc EXCEPT ![r] = "delivered"]
  /\ IF r # seq
       THEN UNCHANGED <<grid, currentPage, hasNext, totalRows, loading>>
       ELSE /\ IF res[r].failed THEN ShowError ELSE Populate(r)
            /\ loading' = res[r].failed
  /\ UNCHANGED <<openedCase, view, search, reviewTab, seq, handle, ask, res,
                 shuttingDown, ui>>

CompleteReviewPageLoad(r) ==
  /\ ui = "ready" /\ pc[r] = "posted"
  /\ pc' = [pc EXCEPT ![r] = "delivered"]
  /\ IF r # seq
       THEN UNCHANGED <<grid, currentPage, hasNext, totalRows, loading>>
       ELSE /\ IF res[r].failed THEN ShowError ELSE Populate(r)
            /\ loading' = FALSE
  /\ UNCHANGED <<openedCase, view, search, reviewTab, seq, handle, ask, res,
                 shuttingDown, ui>>

----------------------------------------------------------------------------
(* The background threads.                                                 *)

RowCount(a) == RowsIn[a.case][a.view][a.search]
Offset(a)   == a.page * PageSize
Stale(r)    == r # seq \/ shuttingDown

WorkerStep(r, from, to) == /\ pc[r] = from
                           /\ pc' = [pc EXCEPT ![r] = to]
                           /\ UNCHANGED <<uiVars, hasNext, totalRows, grid,
                                          loading, seq, handle, ask,
                                          shuttingDown, ui>>

OpenDatabase(r) == WorkerStep(r, "opening", "scanning") /\ UNCHANGED res

\* Opening, preparing or stepping can fail, and a progress handler can
\* interrupt the scan; the exception becomes the message of the result.
Fail(r) == /\ \E from \in {"opening", "scanning", "tagging"} :
                 WorkerStep(r, from, "posted")
           /\ res' = [res EXCEPT ![r].failed = TRUE]

ScanRow(r) ==
  /\ WorkerStep(r, "scanning", "scanning")
  /\ ~Stale(r)
  /\ Offset(ask[r]) + res[r].rows < RowCount(ask[r])
  /\ res[r].rows < PageSize
  /\ res' = [res EXCEPT ![r].rows = @ + 1]

\* Faulty: asks for PageSize rows only, so it never sees that more follow.
EndScanNoLookahead(r) ==
  /\ WorkerStep(r, "scanning", "scanned")
  /\ ~Stale(r)
  /\ Offset(ask[r]) + res[r].rows < RowCount(ask[r]) => res[r].rows = PageSize
  /\ UNCHANGED res

\* Faulty: any interruption of the scan passes for its end.
EndScanEarly(r) ==
  /\ WorkerStep(r, "scanning", "scanned")
  /\ ~Stale(r)
  /\ res' = [res EXCEPT ![r].more = Offset(ask[r]) + res[r].rows < RowCount(ask[r])]

\* The query asks for one row more than the page holds: seeing it proves that
\* there is a next page.
EndScan(r) ==
  LET left == Offset(ask[r]) + res[r].rows < RowCount(ask[r]) IN
  /\ WorkerStep(r, "scanning", "scanned")
  /\ ~Stale(r)
  /\ left => res[r].rows = PageSize
  /\ res' = [res EXCEPT ![r].more = left]

BeginCount(r) == /\ ~Stale(r)
                 /\ WorkerStep(r, "scanned", "counting")
                 /\ UNCHANGED res

\* An interrupted or failed COUNT(*) leaves the total unknown.
CountRows(r) == /\ WorkerStep(r, "counting", "counted")
                /\ \E n \in {-1, RowCount(ask[r])} :
                      res' = [res EXCEPT ![r].total = n]

BeginTags(r) == /\ ~Stale(r)
                /\ WorkerStep(r, "counted", "tagging")
                /\ UNCHANGED res

Post(r) == WorkerStep(r, "tagging", "posted") /\ UNCHANGED res

DropStale(r) == /\ Stale(r)
                /\ \E from \in {"scanning", "scanned", "counted"} :
                      WorkerStep(r, from, "dropped")
                /\ UNCHANGED res

Worker(r) == \/ OpenDatabase(r) \/ ScanRow(r) \/ EndScan(r) \/ BeginCount(r)
             \/ CountRows(r) \/ BeginTags(r) \/ Post(r) \/ DropStale(r)

----------------------------------------------------------------------------
User == \/ \E c \in Case \cup {NoCase} : OpenCase(c)
        \/ \E c \in Case : IngestCaseReady(c)
        \/ \E b \in BOOLEAN : SelectTab(b)
        \/ \E s \in Search : EditSearch(s)
        \/ \E v \in View : SelectView(v)
        \/ First \/ Previous \/ NextPage \/ Last
        \/ CancelLoad
        \/ Close

Next == \/ User
        \/ FinishCancel \/ FinishClose
        \/ \E r \in Req : CompleteReviewPageLoad(r) \/ Worker(r) \/ Fail(r)

\* The operating system runs every thread and the message loop; nothing
\* obliges the investigator to act.
Fairness == /\ \A r \in Req : WF_vars(Worker(r))
            /\ \A r \in Req : WF_vars(CompleteReviewPageLoad(r))
            /\ WF_vars(FinishCancel) /\ WF_vars(FinishClose)

Spec == Init /\ [][Next]_vars
FairSpec == Spec /\ Fairness

----------------------------------------------------------------------------
(* Properties.                                                             *)

\* The result of load r can still reach the message loop.
Pending(r) == pc[r] \in Running \cup {"posted"}

\* The newest load ever started, 0 before the first.
Newest == IF \A r \in Req : pc[r] = "none" THEN 0
          ELSE CHOOSE r \in Req : /\ pc[r] # "none"
                                  /\ \A q \in Req : pc[q] # "none" => q <= r

\* However many loads were superseded, cancelled or overtaken, the rows on
\* screen are those of the newest load the UI ever started: no answer to an
\* earlier view, page, search or case ever replaces or survives it.
LatestLoadWins == grid # 0 => grid = Newest /\ pc[grid] = "delivered"

\* The busy state is honest in both directions.  While the Loading indicator
\* is on, the current load is still going to answer (the grid cannot be stuck
\* behind disabled buttons); once it is off, nothing still under way can be
\* taken for the current load and overwrite the grid.
LoadingIffPending ==
  ui = "ready" => (loading <=> seq # 0 /\ Pending(seq))

\* The paging state agrees with the rows on screen: Next is offered exactly
\* when the listed page is before the last page that the total implies, so the
\* scan of PageSize + 1 rows and the separate COUNT(*) never contradict each
\* other, and a page that is followed by another one is full.
PagingAgrees ==
  grid # 0 =>
    /\ totalRows >= 0 =>
         (hasNext <=> ask[grid].page < LastPageIndex(totalRows))
    /\ hasNext => res[grid].rows = PageSize

\* A load settles: the Loading indicator does not stay on for ever unless the
\* window is closed, and closing it completes although it waits for the review
\* thread.
LoadsSettle == /\ loading ~> (~loading \/ shuttingDown)
               /\ shuttingDown ~> ui = "gone"

\* The grid implements the promise of LatestAnswer.
Shown(a, rows, more, total) == [to |-> a, rows |-> rows, more |-> more, total |-> total]

PageRows(a) == LET left == RowCount(a) - Offset(a) IN
               IF left <= 0 THEN 0 ELSE IF left < PageSize THEN left ELSE PageSize

Answers(a) == {Shown(a, PageRows(a), Offset(a) + PageSize < RowCount(a), n) :
                  n \in {-1, RowCount(a)}}

Promise == INSTANCE LatestAnswer WITH
  Question <- Ask,
  None <- NoCase,
  AnswersTo <- Answers,
  question <- IF Newest = 0 THEN NoCase ELSE ask[Newest],
  waiting <- loading,
  answer <- IF grid = 0 THEN NoCase
            ELSE Shown(ask[grid], res[grid].rows, hasNext, totalRows)

\* Every behaviour of the request protocol is one of LatestAnswer: the answer
\* shown is the complete page of the latest question, never part of a page and
\* never a page of a superseded question.
ImplementsPromise == Promise!Spec
=============================================================================
