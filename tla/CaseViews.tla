------------------------------- MODULE CaseViews -------------------------------
(***************************************************************************)
(* How the views of a case come to be there.  A run                        *)
(* (runApplication), the opening of a case (upgradeCaseSchemaForGuiNoThrow)*)
(* and every change the window makes (WritableGuiDb) execute a script of   *)
(* CaseSchema, statement by statement and outside a transaction: a view is *)
(* dropped, and created again by the next statement.  The three meet in    *)
(* one database, which may be of an earlier version, may be locked by the  *)
(* run that fills it, and keeps what a script that was stopped has left.   *)
(***************************************************************************)
EXTENDS Naturals, Sequences

CONSTANTS Schema,      \* the scripts of CaseSchema
          Slice,       \* bound: on the statements about these names installers may interleave and be
                       \* stopped, while the whole scripts are executed in turns
          Missing,     \* bound: which columns a case of an earlier version may lack
          MaxInstalls  \* bound: how many scripts are begun

Installer == {"run", "open", "touch"}

\* All names, for behaviours in which installers take turns.
Everything == Schema.names

ASSUME SliceAssumption == /\ Slice \subseteq Everything
                          /\ \A cols \in Missing : cols \subseteq Schema.columns
                          /\ MaxInstalls \in Nat

\* The statements of i's script that are about some names.
Script(names, i) == IF names = Everything THEN Schema.script[i]
                    ELSE SelectSeq(Schema.script[i], LAMBDA s : s.name \in names)

\* Statement s leaves a view with its last text.
Replaces(s, n) == s.op = "view" /\ s.name = n /\ s.text # "former"

(***************************************************************************)
(* What the scripts are like, whole or sliced: an index is over columns    *)
(* that tables have got since; what a script of a run or an opening        *)
(* installs under way, and what an earlier version may have left, it       *)
(* replaces further down, and the window's script installs no such text.   *)
(***************************************************************************)
Ordered(script) ==
  /\ Len(script) \in Nat \ {0} /\ DOMAIN script = 1..Len(script)
  /\ \A k \in DOMAIN script : script[k].text = "former" =>
       script[k].name \in Schema.formers /\ \E m \in k + 1..Len(script) : Replaces(script[m], script[k].name)

ASSUME ScriptsAssumption ==
  \A names \in {Everything, Slice}, i \in Installer :
    LET script == Script(names, i)
    IN /\ Ordered(script) /\ \A k \in DOMAIN script : script[k].name \in names
       /\ \A k \in DOMAIN script : script[k].op = "index" => script[k].reads \subseteq Schema.columns \cap names
       /\ IF i = "touch" THEN \A k \in DOMAIN script : script[k].text # "former"
          ELSE \A n \in Schema.formers \cap names : \E k \in DOMAIN script : Replaces(script[k], n)

VARIABLES scope,     \* the names this behaviour is about
          objects,   \* name -> text: the tables, columns, indexes and views that are there
          at,        \* per installer: the next statement of its script, 0 when it is idle
          half,      \* per installer: the first half of that statement is done: the view is
                     \* dropped, or the column was looked for and not found
          alone,     \* per installer: nothing else was at work since it began
          ended,     \* per installer: how its last script ended
          installed, \* a run or an opening has come to the end of its script
          settled,   \* the last of these was alone, and none was begun since
          ingesting, \* a run is at work on the tables it has installed
          writing,   \* and holds the write lock
          apart,     \* runs are of another process, not of the window's worker
          reviewed,  \* the case is open in the window
          cut,       \* views that were dropped and not created again
          installs   \* scripts begun so far

viewsVars == <<scope, objects, at, half, alone, ended, installed, settled, ingesting, writing, apart,
               reviewed, cut, installs>>

\* The statements of a script that are about the names at hand.
Statements(i) == Script(scope, i)

\* A case of an earlier version has the tables, and earlier texts of some views.
OldCase(cols) ==
  LET has == Schema.columns \ cols
  IN  [n \in scope \cap (Schema.tables \cup Schema.formers \cup has) |->
         CASE n \in Schema.tables -> "table" [] n \in has -> "columns" [] n \in Schema.formers -> "former"]

ViewsTypeOK ==
  /\ scope \in {Everything, Slice} /\ DOMAIN objects \subseteq scope
  /\ at \in [Installer -> 0..Len(Schema.script["run"])] /\ half \in [Installer -> BOOLEAN]
  /\ alone \in [Installer -> BOOLEAN] /\ ended \in [Installer -> {"none", "done", "failed", "stopped"}]
  /\ {installed, settled, ingesting, writing, apart, reviewed} \subseteq BOOLEAN
  /\ cut \subseteq scope /\ installs \in 0..MaxInstalls

ViewsInit ==
  /\ scope \in {Everything, Slice}
  /\ objects \in {<<>>} \cup {OldCase(cols) : cols \in Missing}
  /\ at = [i \in Installer |-> 0] /\ half = [i \in Installer |-> FALSE]
  /\ alone = [i \in Installer |-> FALSE] /\ ended = [i \in Installer |-> "none"]
  /\ installed = FALSE /\ settled = FALSE /\ ingesting = FALSE /\ writing = FALSE
  /\ apart \in BOOLEAN /\ reviewed = FALSE /\ cut = {} /\ installs = 0

----------------------------------------------------------------------------
Idle(i)  == at[i] = 0
AllIdle  == \A i \in Installer : Idle(i)
Window   == {"open", "touch"}         \* its UI thread does one or the other

\* i begins its script.
Begin(i) ==
  /\ installs < MaxInstalls /\ Idle(i) /\ (scope = Everything => AllIdle /\ ~ingesting)
  /\ installs' = installs + 1
  /\ at' = [at EXCEPT ![i] = 1]
  /\ ended' = [ended EXCEPT ![i] = "none"]
  /\ alone' = [j \in Installer |-> j = i /\ AllIdle /\ ~ingesting]
  /\ settled' = (settled /\ i = "touch")
  /\ UNCHANGED <<scope, objects, half, installed, ingesting, writing, apart, cut>>

BeginRun == ~ingesting /\ Begin("run") /\ UNCHANGED reviewed

\* Open case is refused while a run of the window itself is active.
BeginOpen == /\ \A w \in Window : Idle(w)
             /\ apart \/ (Idle("run") /\ ~ingesting)
             /\ Begin("open") /\ reviewed' = TRUE

\* A tag, a note, checks, a view set or an autosave in the open case.
BeginTouch == reviewed /\ (\A w \in Window : Idle(w)) /\ Begin("touch") /\ UNCHANGED reviewed

Stop(i, how) ==
  /\ at' = [at EXCEPT ![i] = 0] /\ half' = [half EXCEPT ![i] = FALSE]
  /\ ended' = [ended EXCEPT ![i] = how]

\* The statement of i is done: the next one, or the end of the script.
Advance(i) ==
  IF at[i] < Len(Statements(i))
  THEN /\ at' = [at EXCEPT ![i] = @ + 1] /\ half' = [half EXCEPT ![i] = FALSE]
       /\ UNCHANGED <<ended, installed, settled, ingesting>>
  ELSE /\ Stop(i, "done")
       /\ installed' = (installed \/ i # "touch")
       /\ settled' = IF i = "touch" THEN settled ELSE alone[i]
       /\ ingesting' = (ingesting \/ i = "run")

\* SQLite refuses it: the rest of the script is not executed.
Refused(i) == Stop(i, "failed") /\ UNCHANGED <<objects, cut, installed, settled, ingesting>>

With(added, text) == [n \in DOMAIN objects \cup added |-> IF n \in added THEN text ELSE objects[n]]
Without(n)        == [m \in DOMAIN objects \ {n} |-> objects[m]]

CreateTable(i, s) ==
  /\ s.op = "table"
  /\ objects' = IF s.name \in DOMAIN objects THEN objects
           ELSE LET cols == IF s.name \in DOMAIN Schema.late THEN {Schema.late[s.name]} \cap scope ELSE {}
                IN  [n \in DOMAIN objects \cup {s.name} \cup cols |->
                       IF n = s.name THEN "table" ELSE IF n \in cols THEN "columns" ELSE objects[n]]
  /\ Advance(i) /\ UNCHANGED cut

CreateIndex(i, s) ==
  /\ s.op = "index"
  /\ IF s.reads \subseteq DOMAIN objects
     THEN objects' = With({s.name}, "index") /\ Advance(i) /\ UNCHANGED cut
     ELSE Refused(i)

\* ensureColumn: PRAGMA table_info, then ALTER TABLE if the column is not listed.
EnsureColumn(i, s) ==
  /\ s.op = "ensure"
  /\ \/ /\ ~half[i] /\ s.name \in DOMAIN objects
        /\ Advance(i) /\ UNCHANGED <<objects, cut>>
     \/ /\ ~half[i] /\ s.name \notin DOMAIN objects
        /\ half' = [half EXCEPT ![i] = TRUE]
        /\ UNCHANGED <<objects, cut, at, ended, installed, settled, ingesting>>
     \/ /\ half[i] /\ s.name \notin DOMAIN objects
        /\ objects' = With({s.name}, "columns") /\ Advance(i) /\ UNCHANGED cut
     \/ half[i] /\ s.name \in DOMAIN objects /\ Refused(i)

\* Faulty: a script without the DROP VIEW IF EXISTS in front of its CREATE VIEW.
CreateOnly(i, s) ==
  /\ s.op \in {"view", "absent view"} /\ ~half[i]
  /\ half' = [half EXCEPT ![i] = TRUE]
  /\ UNCHANGED <<objects, cut, at, ended, installed, settled, ingesting>>

DropView(i, s) ==
  /\ s.op \in {"view", "absent view"} /\ ~half[i]
  /\ objects' = Without(s.name)
  /\ cut' = cut \cup ({s.name} \cap DOMAIN objects)
  /\ half' = [half EXCEPT ![i] = TRUE]
  /\ UNCHANGED <<at, ended, installed, settled, ingesting>>

CreateView(i, s) ==
  /\ s.op \in {"view", "absent view"} /\ half[i]
  /\ \/ /\ s.name \notin DOMAIN objects
        /\ objects' = With({s.name}, s.text) /\ cut' = cut \ {s.name} /\ Advance(i)
     \/ s.name \in DOMAIN objects /\ s.op = "view" /\ Refused(i)
     \/ s.name \in DOMAIN objects /\ s.op = "absent view" /\ Advance(i) /\ UNCHANGED <<objects, cut>>

\* The next statement of i; only its own process gets past the lock a run holds.
Execute(i) ==
  /\ ~Idle(i) /\ ~writing
  /\ LET s == Statements(i)[at[i]] IN
       \/ CreateTable(i, s) \/ CreateIndex(i, s) \/ EnsureColumn(i, s)
       \/ DropView(i, s) \/ CreateView(i, s)
  /\ UNCHANGED <<scope, alone, writing, apart, reviewed, installs>>

\* The run keeps the lock for longer than the window waits: exec throws, and
\* sqlite3_exec returns, at a statement in the middle of the script.
GiveUp(i) ==
  /\ i \in Window /\ ~Idle(i) /\ writing
  /\ Stop(i, "stopped")
  /\ UNCHANGED <<scope, objects, alone, installed, settled, ingesting, writing, apart, reviewed, cut, installs>>

BeginWrite == /\ ingesting /\ ~writing /\ scope = Slice /\ writing' = TRUE
              /\ UNCHANGED <<scope, objects, at, half, alone, ended, installed, settled, ingesting,
                             apart, reviewed, cut, installs>>
EndWrite   == /\ writing /\ writing' = FALSE
              /\ UNCHANGED <<scope, objects, at, half, alone, ended, installed, settled, ingesting,
                             apart, reviewed, cut, installs>>
\* A run of the window makes its case the open one.
EndRun     == /\ ingesting /\ ~writing /\ ingesting' = FALSE
              /\ reviewed' = (reviewed \/ ~apart)
              /\ UNCHANGED <<scope, objects, at, half, alone, ended, installed, settled, writing,
                             apart, cut, installs>>

\* A process ends: the window, with the run if it is its own, or the run alone.
EndProcess ==
  /\ scope = Slice
  /\ \E gone \in {Window \cup (IF apart THEN {} ELSE {"run"})} \cup (IF apart THEN {{"run"}} ELSE {}) :
       /\ (\E i \in gone : ~Idle(i)) \/ ("run" \in gone /\ ingesting)
       /\ at' = [i \in Installer |-> IF i \in gone THEN 0 ELSE at[i]]
       /\ half' = [i \in Installer |-> half[i] /\ i \notin gone]
       /\ ended' = [i \in Installer |-> IF i \in gone /\ ~Idle(i) THEN "stopped" ELSE ended[i]]
       /\ ingesting' = (ingesting /\ "run" \notin gone)
       /\ writing' = (writing /\ "run" \notin gone)
       /\ reviewed' = (reviewed /\ "open" \notin gone)
  /\ UNCHANGED <<scope, objects, alone, installed, settled, apart, cut, installs>>

ViewsNext == \/ BeginRun \/ BeginOpen \/ BeginTouch
        \/ \E i \in Installer : Execute(i) \/ GiveUp(i)
        \/ BeginWrite \/ EndWrite \/ EndRun \/ EndProcess

ViewsSpec == ViewsInit /\ [][ViewsNext]_viewsVars

----------------------------------------------------------------------------
\* What can be queried, if those in known can: SQLite resolves the views a view
\* reads, and what these read, only now.
Answering[known \in SUBSET Schema.names] ==
  LET Resolved(n) == <<n, objects[n]>> \in DOMAIN Schema.reads
                       => Schema.reads[<<n, objects[n]>>] \subseteq known
      more == {n \in DOMAIN objects \ known : Resolved(n)}
  IN  IF more = {} THEN known ELSE Answering[known \cup more]

(* Once a run or an opening has come to the end of its script, and nothing *)
(* is being installed, every view and table that is offered can be queried *)
(* but for two, whose texts name no column of theirs, and for those that   *)
(* read a view some installer was stopped at after dropping it.            *)
OffersAnswer ==
  AllIdle /\ installed =>
    Schema.offered \cap scope \subseteq Answering[cut \cup Schema.misnamed]

(* What a script installs under way, to replace it further down, is gone   *)
(* when it has ended, whatever texts the case had before.                  *)
NoFormerText ==
  settled => \A n \in DOMAIN objects : objects[n] # "former"

SettledViews == OffersAnswer /\ NoFormerText

(* Whatever earlier scripts have left, cut off where they were, one that   *)
(* nothing else disturbs comes to its end, unless a table lacks columns.   *)
NoNeedlessFailure ==
  \A i \in Installer :
    ended'[i] = "failed" /\ ended[i] # "failed" /\ alone[i]
      => \E c \in Schema.columns \cap scope : c \notin DOMAIN objects

AloneSucceeds == [][NoNeedlessFailure]_viewsVars

(* win32_gui.cpp:3940: opening an older case makes newly added views       *)
(* available without another ingest.                                       *)
OpeningAddsViews ==
  AllIdle /\ alone["open"] /\ ended["open"] \in {"done", "failed"}
    => Schema.offered \cap scope \subseteq DOMAIN objects
=============================================================================
