------------------------------- MODULE ViewList -------------------------------
(***************************************************************************)
(* The list of review views and the row counts beside their names          *)
(* (populateViewList, startViewCountRefreshNoThrow, applyViewCountsResult  *)
(* and the custom view sets in src/src/gui/win32_gui.cpp).  A thread counts*)
(* the rows of the listed views of the case that was open when it started  *)
(* and posts the counts to the UI thread, which may have opened another    *)
(* case, changed the tab, or changed the list by then.                     *)
(***************************************************************************)
EXTENDS Integers, Sequences, SequencesExt, Ascending

CONSTANTS Case,        \* case databases
          Unreadable,  \* those that cannot be opened
          NoCase,      \* gOpenedCaseDb is empty
          View,
          InOrder,     \* the views in order of rank and name
          PlatformOf,  \* "macos", "ios" or "shared"
          Recommended, \* the views of the Recommended V1 profile
          HasView,     \* the views a case database has
          MaxRefresh   \* bound: count refreshes

ViewAssumption ==
  /\ InOrder \in Seq(View) /\ IsInjective(InOrder) /\ ToSet(InOrder) = View
  /\ PlatformOf \in [View -> {"macos", "ios", "shared"}]
  /\ Recommended \subseteq View /\ HasView \in [Case -> SUBSET View]
CaseAssumption == /\ Unreadable \subseteq Case /\ NoCase \notin Case
                         /\ MaxRefresh \in Nat

Platform == {"macos", "ios"}

VARIABLES opened,   \* gOpenedCaseDb
          tab,      \* gActiveTabIndex
          platform, \* gIosReviewMode
          mode,     \* gReviewViewProfileMode
          list,     \* gVisibleViews
          label,    \* of each line of the list box: the case and the view its
                    \* number is of, NoCase for none, and who wrote it
          sel,      \* the selected line, 0 for none
          custom,   \* review_view_preferences of each case
          seq,      \* gViewCountRequestSeq
          workers,  \* the counting threads
          posted    \* WM_VIEW_COUNTS_RESULT messages

ui   == <<opened, tab, platform, mode, custom>>
vars == <<ui, list, label, sel, seq, workers, posted>>

Count  == [case : Case \cup {NoCase}, view : View]
Result == [round : 1..MaxRefresh + 1, case : Case, views : Seq(View), counts : Seq(Count)]

TypeOK ==
  /\ opened \in Case \cup {NoCase}
  /\ tab \in Platform \cup {"case", "tags"} /\ platform \in Platform
  /\ mode \in {"recommended", "all", "custom"}
  /\ list \in Seq(View) /\ IsInjective(list)
  /\ DOMAIN label = DOMAIN list
  /\ \A i \in DOMAIN label : label[i].count \in Count /\ label[i].round \in 0..seq
  /\ sel \in 0..Len(list)
  /\ custom \in [Case \X Platform -> Seq(View)]
  /\ seq \in 0..MaxRefresh + 1
  /\ workers \subseteq Result
  /\ posted \in Seq(Result)

----------------------------------------------------------------------------
(* What is listed.                                                         *)

OnPlatform(v, p) == PlatformOf[v] \in {p, "shared"}
Readable(c)      == c \in Case \ Unreadable

\* sqliteObjectExists, or no database to ask.
There(c, v) == Readable(c) => v \in HasView[c]

\* populateViewList: the custom set; or the views of the profile; or, so that
\* the list is not empty, every view of the platform.
Candidates(sets, c, p, m) ==
  LET fitting == {v \in View : OnPlatform(v, p) /\ There(c, v)}
      saved   == IF m = "custom" /\ Readable(c) THEN sets[<<c, p>>] ELSE <<>>
      chosen  == Kept(saved, fitting)
      all     == Kept(InOrder, fitting)
      profile == Kept(all, IF m = "recommended" THEN Recommended ELSE View)
  IN CASE chosen # <<>>                    -> chosen
       [] chosen = <<>> /\ profile # <<>> -> profile
       [] OTHER                            -> all

Uncounted(views) ==
  [i \in DOMAIN views |-> [count |-> [case |-> NoCase, view |-> views[i]], round |-> 0]]

Show(views) == list' = views /\ label' = Uncounted(views)

Populate(views) == /\ Show(views)
                   /\ sel' = IF views = <<>> THEN 0 ELSE 1

\* startViewCountRefreshNoThrow: earlier threads are detached, and superseded.
Refresh(n, c, views) ==
  /\ seq' = seq + n /\ seq' <= MaxRefresh
  /\ workers' = IF c = NoCase \/ views = <<>> THEN workers
                ELSE workers \cup {[round |-> seq', case |-> c, views |-> views, counts |-> <<>>]}

\* populateViewListForCurrentContextNoThrow
PopulateAndCount(n, sets, c, p, m) == /\ Populate(Candidates(sets, c, p, m))
                                      /\ Refresh(n, c, Candidates(sets, c, p, m))

----------------------------------------------------------------------------
(* The UI thread.                                                          *)

Init == /\ opened = NoCase /\ tab = "case" /\ platform = "macos"
        /\ mode = "recommended"
        /\ custom = [x \in Case \X Platform |-> <<>>]
        /\ list = Candidates(custom, NoCase, platform, mode) /\ label = Uncounted(list)
        /\ sel = IF list = <<>> THEN 0 ELSE 1
        /\ seq = 0 /\ workers = {} /\ posted = <<>>

\* openCaseFromPath, from the Case Information tab, where the list is hidden:
\* it is filled, and not counted.
OpenCase(c) == /\ tab = "case"
               /\ opened' = c
               /\ Populate(Candidates(custom, c, platform, mode))
               /\ UNCHANGED <<tab, platform, mode, custom, seq, workers, posted>>

\* WM_INGEST_CASE_READY, whatever the tab.
CaseReady(c) == /\ Readable(c)
                /\ opened' = c
                /\ PopulateAndCount(1, custom, c, platform, mode)
                /\ UNCHANGED <<tab, platform, mode, custom, posted>>

\* Faulty: the list is filled again when the platform changes only.
SelectTabLazily(t) ==
  /\ t # tab /\ tab' = t
  /\ IF t \in Platform /\ t # platform
     THEN platform' = t /\ PopulateAndCount(2, custom, opened, t, mode)
     ELSE UNCHANGED <<platform, list, label, sel, seq, workers>>
  /\ UNCHANGED <<opened, mode, custom, posted>>

\* TCN_SELCHANGE fills the list of an investigation tab, and showTab again.
SelectTab(t) ==
  /\ t # tab /\ tab' = t
  /\ IF t \in Platform
     THEN platform' = t /\ PopulateAndCount(2, custom, opened, t, mode)
     ELSE UNCHANGED <<platform, list, label, sel, seq, workers>>
  /\ UNCHANGED <<opened, mode, custom, posted>>

Investigating == tab \in Platform

SetMode(m) == /\ Investigating
              /\ mode' = m
              /\ PopulateAndCount(1, custom, opened, platform, m)
              /\ UNCHANGED <<opened, tab, platform, custom, posted>>

\* saveCustomViewSetNoThrow and resetCustomViewSetNoThrow, each atomic; the case
\* may be locked.
Store(views) == /\ Readable(opened)
                /\ custom' = [custom EXCEPT ![<<opened, platform>>] = views]

\* Hide, Move Up and Move Down turn the list as it is into the custom set:
\* refillReviewViewListFromVisible shows and counts it, then it is saved.
Change(views, line) == /\ Show(views)
                       /\ sel' = line
                       /\ mode' = "custom"
                       /\ Refresh(1, opened, views)
                       /\ \/ views # <<>> /\ Store(views)
                          \/ UNCHANGED custom
                       /\ UNCHANGED <<opened, tab, platform, posted>>

Hide == /\ Investigating /\ sel # 0
        /\ LET views == RemoveAt(list, sel)
           IN Change(views, Min({sel, Len(views)}))

Move(delta) == /\ Investigating /\ sel # 0
               /\ sel + delta \in DOMAIN list
               /\ Change([list EXCEPT ![sel] = list[sel + delta],
                                      ![sel + delta] = list[sel]],
                         sel + delta)

SaveSet == /\ Investigating /\ list # <<>>
           /\ Store(list)
           /\ mode' = "custom"
           /\ UNCHANGED <<opened, tab, platform, list, label, sel, seq, workers, posted>>

ResetSet == /\ Investigating
            /\ Store(<<>>) \/ UNCHANGED custom
            /\ PopulateAndCount(1, custom', opened, platform, mode)
            /\ UNCHANGED <<opened, tab, platform, mode, posted>>

Select(i) == /\ Investigating /\ sel' = i /\ sel # i
             /\ UNCHANGED <<ui, list, label, seq, workers, posted>>

----------------------------------------------------------------------------
(* The counting threads and their results.                                 *)

world == <<ui, list, label, sel, seq>>

\* The view is counted, or not within 400 ms, or not at all.
CountView(w) ==
  /\ w.round = seq /\ Len(w.counts) < Len(w.views)
  /\ \E c \in IF Readable(w.case) THEN {w.case, NoCase} ELSE {NoCase} :
       workers' = (workers \ {w}) \cup
         {[w EXCEPT !.counts = Append(@, [case |-> c, view |-> w.views[Len(@) + 1]])]}
  /\ UNCHANGED <<world, posted>>

\* Superseded: the result is thrown away.
GiveUp(w) == /\ w.round # seq
             /\ workers' = workers \ {w}
             /\ UNCHANGED <<world, posted>>

Post(w) == /\ w.round = seq /\ Len(w.counts) = Len(w.views)
           /\ workers' = workers \ {w}
           /\ posted' = Append(posted, w)
           /\ UNCHANGED world

\* Faulty: which request the counts answer is not looked at.
ApplyAny == /\ posted # <<>>
            /\ posted' = Tail(posted)
            /\ LET r == Head(posted)
               IN IF r.views = list
                  THEN /\ label' = [i \in DOMAIN list |-> [count |-> r.counts[i], round |-> r.round]]
                       /\ sel' = IF sel = 0 /\ list # <<>> THEN 1 ELSE sel
                  ELSE UNCHANGED <<label, sel>>
            /\ UNCHANGED <<ui, list, seq, workers>>

\* applyViewCountsResult
Apply == /\ posted # <<>>
         /\ posted' = Tail(posted)
         /\ LET r == Head(posted)
            IN IF r.round = seq /\ r.views = list
               THEN /\ label' = [i \in DOMAIN list |-> [count |-> r.counts[i], round |-> r.round]]
                    /\ sel' = IF sel = 0 /\ list # <<>> THEN 1 ELSE sel
               ELSE UNCHANGED <<label, sel>>
         /\ UNCHANGED <<ui, list, seq, workers>>

Working == \/ \E w \in workers : CountView(w) \/ GiveUp(w) \/ Post(w)
           \/ Apply

Next ==
  \/ \E c \in Case : OpenCase(c) \/ CaseReady(c)
  \/ \E t \in Platform \cup {"case", "tags"} : SelectTab(t)
  \/ \E m \in {"recommended", "all", "custom"} : SetMode(m)
  \/ Hide \/ (\E delta \in {-1, 1} : Move(delta)) \/ SaveSet \/ ResetSet
  \/ \E i \in DOMAIN list : Select(i)
  \/ Working

\* The counting threads run, and the UI thread handles its messages.
Fairness == WF_vars(Working)

Spec == Init /\ [][Next]_vars /\ Fairness

----------------------------------------------------------------------------
(* Properties.                                                             *)

\* Any number the investigator sees beside a view is the row count of that very
\* view in the case that is open, although opening a case from its path neither
\* counts nor supersedes the counting of the case before (lines 3930-3955).
SeenCountsAreTrue ==
  Investigating =>
    \A i \in DOMAIN label :
      label[i].count.case # NoCase =>
        label[i].count = [case |-> opened, view |-> list[i]]

\* The list the investigator sees has no view of the other platform and none
\* the open case lacks, and a stored custom set none of the other platform, so
\* that it never falls back to all views because of one.
ListFitsCase ==
  /\ \A i \in DOMAIN list : OnPlatform(list[i], platform) /\ There(opened, list[i])
  /\ \A c \in Case, p \in Platform :
       /\ IsInjective(custom[<<c, p>>])
       /\ \A i \in DOMAIN custom[<<c, p>>] :
            OnPlatform(custom[<<c, p>>][i], p) /\ There(c, custom[<<c, p>>][i])

\* A list that is seen and being counted is labelled by its own counting, unless
\* another is begun or the investigator leaves the tab.
CountsArrive ==
  \A r \in 1..MaxRefresh :
    (Investigating /\ seq = r /\ opened # NoCase /\ list # <<>>)
      ~> (seq # r \/ ~Investigating \/ \A i \in DOMAIN label : label[i].round = r)
=============================================================================
