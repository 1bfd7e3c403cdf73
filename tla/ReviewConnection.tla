-------------------------- MODULE ReviewConnection --------------------------
(***************************************************************************)
(* The read-only SQLite connections of the review grid                     *)
(* (src/src/gui/win32_gui.cpp).  ReadOnlyDb keeps one connection per case  *)
(* database in a pool and hands the same one to the thread of a page load  *)
(* and to the thread that counts the rows of the listed views.  Each       *)
(* thread installs its own progress handler on it; SQLite keeps one        *)
(* handler per connection, and calls it in whatever statement is running.  *)
(*                                                                         *)
(* SQLite serialises the calls on one connection, so a call is one action; *)
(* a handler that fires in the middle of a statement is a handler that     *)
(* fires in the action.  A handler whose context died with its thread's    *)
(* stack frame answers anything.                                           *)
(***************************************************************************)
EXTENDS Integers, FiniteSets

CONSTANTS Path,     \* case databases
          MaxLoad,  \* bound: page loads in one session
          MaxCount, \* bound: view count refreshes in one session
          MaxConn   \* bound: connections opened in one session

ASSUME BoundAssumption == MaxLoad \in Nat /\ MaxCount \in Nat /\ MaxConn \in Nat

Load    == {"load"} \X (1..MaxLoad)
Counter == {"count"} \X (1..MaxCount)
Thread  == Load \cup Counter
Conn    == 1..MaxConn
Nobody  == <<"nobody", 0>>

VARIABLES opened,       \* gOpenedCaseDb
          seq,          \* gReviewRequestSeq
          countSeq,     \* gViewCountRequestSeq
          shuttingDown, \* gShuttingDown
          pool,         \* ReadOnlyDb::pool_, 0 for no entry
          state,        \* whether SQLite has a connection open
          handler,      \* whose progress handler a connection has
          pc, path,     \* where each thread is, and the database it captured
          own,          \* newDb of a thread that opened a connection itself
          db,           \* db_: the connection a thread uses
          expired       \* the 400 ms of a counter's context are over

poolVars == <<pool, state, own, db>>
uiVars   == <<opened, seq, countSeq, shuttingDown>>
vars == <<uiVars, poolVars, handler, pc, path, expired>>

Acquiring == {"lookup", "open", "insert"}
Using     == {"install", "scan", "count", "clear"}

TypeOK == /\ opened \in Path
          /\ seq \in 0..(2 * MaxLoad)
          /\ countSeq \in 0..MaxCount
          /\ shuttingDown \in BOOLEAN
          /\ pool \in [Path -> Conn \cup {0}]
          /\ state \in [Conn -> {"new", "open", "closed"}]
          /\ handler \in [Conn -> Thread \cup {Nobody}]
          /\ pc \in [Thread -> {"none"} \cup Acquiring \cup Using \cup {"done", "failed"}]
          /\ path \in [Thread -> Path]
          /\ own \in [Thread -> Conn \cup {0}]
          /\ db \in [Thread -> Conn \cup {0}]
          /\ expired \in [Thread -> BOOLEAN]
          /\ \A t \in Thread : pc[t] \in Using => db[t] # 0

Init == /\ opened \in Path
        /\ seq = 0 /\ countSeq = 0
        /\ shuttingDown = FALSE
        /\ pool = [p \in Path |-> 0]
        /\ state = [c \in Conn |-> "new"]
        /\ handler = [c \in Conn |-> Nobody]
        /\ pc = [t \in Thread |-> "none"]
        /\ path = [t \in Thread |-> opened]
        /\ own = [t \in Thread |-> 0] /\ db = [t \in Thread |-> 0]
        /\ expired = [t \in Thread |-> FALSE]

\* sqlite3_open_v2 gives the next connection, which has no handler.
CanOpen == \E c \in Conn : state[c] = "new"
Fresh   == CHOOSE c \in Conn : /\ state[c] = "new"
                               /\ \A d \in Conn : state[d] = "new" => c <= d

----------------------------------------------------------------------------
(* The UI thread.                                                          *)

\* Loads have the odd request numbers and a cancellation advances to an even
\* one, so that a cancelled load is never current again.
Id(t) == IF t[1] = "load" THEN 2 * t[2] - 1 ELSE t[2]
Current(t) == ~shuttingDown /\ Id(t) = (IF t \in Load THEN seq ELSE countSeq)

\* The thread of a kind that starts next, and the one started last: only that
\* one can be joined, the others are detached.
Upcoming(kind) == {t \in kind : pc[t] = "none" /\
                                \A u \in kind : pc[u] = "none" => t[2] <= u[2]}
Joinable(kind) == {t \in kind : pc[t] # "none" /\
                                \A u \in kind : pc[u] # "none" => u[2] <= t[2]}
Ended(kind) == \A t \in Joinable(kind) : pc[t] \in {"done", "failed"}

\* The UI thread waits for the load it cancelled.
UiReady == /\ ~shuttingDown
           /\ seq % 2 = 0 => Ended(Load)

\* Starts the threads in T, which are not started yet, on database p.
Start(T, p) ==
  /\ pc' = [t \in Thread |-> IF t \in T THEN "lookup" ELSE pc[t]]
  /\ path' = [t \in Thread |-> IF t \in T THEN p ELSE path[t]]
  /\ seq' = IF T \cap Load = {} THEN seq ELSE Id(CHOOSE t \in T \cap Load : TRUE)
  /\ countSeq' = IF T \cap Counter = {} THEN countSeq
                 ELSE Id(CHOOSE t \in T \cap Counter : TRUE)

LoadReviewPage ==
  /\ UiReady
  /\ \E t \in Upcoming(Load) : Start({t}, opened)
  /\ UNCHANGED <<opened, shuttingDown, poolVars, handler, expired>>

StartViewCountRefresh ==
  /\ UiReady
  /\ \E t \in Upcoming(Counter) : Start({t}, opened)
  /\ UNCHANGED <<opened, shuttingDown, poolVars, handler, expired>>

CancelLoad == /\ UiReady
              /\ seq % 2 = 1
              /\ seq' = seq + 1
              /\ UNCHANGED <<opened, countSeq, shuttingDown, poolVars, handler,
                             pc, path, expired>>

Pooled == {pool[p] : p \in Path} \ {0}

\* closePoolNoThrow closes every pooled connection, also one a thread uses.
AfterClosePool == [c \in Conn |-> IF c \in Pooled THEN "closed" ELSE state[c]]

\* Switching to the database p: the pool is closed, the UI thread opens p
\* again for the view list, and the list is counted or a page is loaded.
SwitchCase(p, T) ==
  /\ UiReady /\ CanOpen
  /\ opened' = p
  /\ state' = [AfterClosePool EXCEPT ![Fresh] = "open"]
  /\ pool' = [q \in Path |-> IF q = p THEN Fresh ELSE 0]
  /\ Start(T, p)
  /\ UNCHANGED <<shuttingDown, own, db, handler, expired>>

OpenCase(p) == \E l \in Upcoming(Load) : SwitchCase(p, {l})

\* WM_INGEST_CASE_READY; the grid is reloaded only on an investigation tab.
IngestCaseReady(p) ==
  \E k \in Upcoming(Counter) : \/ SwitchCase(p, {k})
                             \/ \E l \in Upcoming(Load) : SwitchCase(p, {k, l})

\* WM_DESTROY joins the newest review and count threads, then closes the pool.
Close == /\ UiReady
         /\ shuttingDown' = TRUE
         /\ UNCHANGED <<opened, seq, countSeq, poolVars, handler, pc, path, expired>>

ClosePool == /\ shuttingDown
             /\ Ended(Load) /\ Ended(Counter)
             /\ Pooled # {}
             /\ state' = AfterClosePool
             /\ pool' = [p \in Path |-> 0]
             /\ UNCHANGED <<uiVars, own, db, handler, pc, path, expired>>

----------------------------------------------------------------------------
(* ReadOnlyDb: find or open a connection.                                  *)

At(t, from, to) == /\ pc[t] = from
                   /\ pc' = [pc EXCEPT ![t] = to]
                   /\ UNCHANGED <<uiVars, path>>

LookUp(t) == /\ At(t, "lookup", IF pool[path[t]] # 0 THEN "install" ELSE "open")
             /\ db' = [db EXCEPT ![t] = pool[path[t]]]
             /\ UNCHANGED <<pool, state, own, handler, expired>>

\* The connection is opened outside the lock.
Open(t) == /\ CanOpen
           /\ At(t, "open", "insert")
           /\ state' = [state EXCEPT ![Fresh] = "open"]
           /\ own' = [own EXCEPT ![t] = Fresh]
           /\ UNCHANGED <<pool, db, handler, expired>>

OpenFails(t) == /\ At(t, "open", "failed")
                /\ UNCHANGED <<poolVars, handler, expired>>

\* Faulty: the pool is not looked at again.
InsertUnchecked(t) == /\ At(t, "insert", "install")
                      /\ pool' = [pool EXCEPT ![path[t]] = own[t]]
                      /\ db' = [db EXCEPT ![t] = own[t]]
                      /\ UNCHANGED <<state, own, handler, expired>>

\* Another thread may have inserted one meanwhile: then this one is closed.
Insert(t) ==
  LET there == pool[path[t]] IN
  /\ At(t, "insert", "install")
  /\ IF there # 0
     THEN /\ state' = [state EXCEPT ![own[t]] = "closed"]
          /\ db' = [db EXCEPT ![t] = there]
          /\ UNCHANGED pool
     ELSE /\ pool' = [pool EXCEPT ![path[t]] = own[t]]
          /\ db' = [db EXCEPT ![t] = own[t]]
          /\ UNCHANGED state
  /\ UNCHANGED <<own, handler, expired>>

----------------------------------------------------------------------------
(* Statements and progress handlers.                                       *)

\* What the handler on connection c can answer: TRUE interrupts.
Answers(c) == LET h == handler[c] IN
              CASE h = Nobody -> {FALSE}
                [] h # Nobody /\ pc[h] \in {"done", "failed"} -> BOOLEAN
                [] OTHER -> {~Current(h) \/ expired[h]}

\* A counter sets its deadline before it waits for the connection.
Deadline(t) == /\ t \in Counter
               /\ pc[t] \in Using /\ ~expired[t]
               /\ expired' = [expired EXCEPT ![t] = TRUE]
               /\ UNCHANGED <<uiVars, poolVars, handler, pc, path>>

Install(t) == /\ At(t, "install", IF t \in Load THEN "scan" ELSE "count")
              /\ handler' = [handler EXCEPT ![db[t]] = t]
              /\ UNCHANGED <<poolVars, expired>>

\* A load scans its page; an interrupted scan throws past the call that
\* removes the handler.
Scan(t) ==
  /\ \/ At(t, "scan", "failed") /\ TRUE \in Answers(db[t])
     \/ At(t, "scan", "count") /\ FALSE \in Answers(db[t])
  /\ UNCHANGED <<poolVars, handler, expired>>

\* Each step of the scan, and the count, is preceded by a look at the number.
LeaveStale(t) == /\ t \in Load
                 /\ \E from \in {"scan", "count"} : At(t, from, "done")
                 /\ ~Current(t)
                 /\ handler' = [handler EXCEPT ![db[t]] = Nobody]
                 /\ UNCHANGED <<poolVars, expired>>

\* COUNT(*): an interruption leaves the number unknown, and nothing more.
CountRows(t) == /\ At(t, "count", "clear")
                /\ UNCHANGED <<poolVars, handler, expired>>

\* Done, or a counter goes on with the next view and a new deadline.
Clear(t) == /\ \/ At(t, "clear", "done") /\ UNCHANGED expired
               \/ /\ t \in Counter /\ Current(t)
                  /\ At(t, "clear", "install")
                  /\ expired' = [expired EXCEPT ![t] = FALSE]
            /\ handler' = [handler EXCEPT ![db[t]] = Nobody]
            /\ UNCHANGED poolVars

----------------------------------------------------------------------------
Next == \/ LoadReviewPage \/ StartViewCountRefresh \/ CancelLoad
        \/ \E p \in Path : OpenCase(p) \/ IngestCaseReady(p)
        \/ Close \/ ClosePool
        \/ \E t \in Thread :
             \/ LookUp(t) \/ Open(t) \/ OpenFails(t) \/ Insert(t)
             \/ Install(t) \/ Deadline(t) \/ Scan(t) \/ LeaveStale(t)
             \/ CountRows(t) \/ Clear(t)

Spec == Init /\ [][Next]_vars

----------------------------------------------------------------------------
(* Properties.                                                             *)

\* However the threads race for a connection, none is leaked and none is
\* closed while the pool still hands it out: an open connection is in the
\* pool, for one database only, or about to be put there by the thread that
\* opened it, and a pooled connection is open.
PoolSound ==
  /\ Pooled \subseteq {c \in Conn : state[c] = "open"}
  /\ \A p, q \in Path : pool[p] = pool[q] /\ pool[p] # 0 => p = q
  /\ \A c \in Conn : state[c] = "open" =>
       c \in Pooled \/ \E t \in Thread : pc[t] = "insert" /\ own[t] = c

\* "Loading selected view. Results will appear when the background SQLite
\* query completes.": the query of a load that is neither superseded nor
\* cancelled runs to its end.
CurrentLoadCompletes ==
  [][\A t \in Load : pc[t] = "scan" /\ Current(t) => pc'[t] # "failed"]_vars
=============================================================================
