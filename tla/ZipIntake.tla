------------------------------ MODULE ZipIntake ------------------------------
(***************************************************************************)
(* A ZIP of an iPhone on its way into a case: 7-Zip lists it and extracts  *)
(* its databases into the case folder, or .NET does where 7-Zip is missing,*)
(* or both are taken over from an earlier case folder, the cache.  The     *)
(* listing is then imported, in full or as a lookup of the paths that      *)
(* Spotlight refers to, and what Spotlight tells of is compared with it.   *)
(* Runs follow each other into the same folders.                           *)
(*                                                                         *)
(* A ZIP is a set of paths, some of them databases; what lies in a file is *)
(* told apart only by the ZIP it came from.                                *)
(***************************************************************************)
EXTENDS Naturals, Sequences

CONSTANTS Zips,        \* the ZIPs, by name
          Entries,     \* the paths in each of them
          Databases,   \* the paths that are databases
          Indexed,     \* the ZIPs that hold CoreSpotlight stores
          References,  \* the paths Spotlight's values refer to
          Artifacts,   \* the paths given to artifacts
          Folders,     \* the case folders
          Wishes,      \* the options runs are started with
          MaxRuns,     \* runs considered
          Faults       \* what may go wrong

VARIABLES stage,       \* where the run is
          runs,        \* how many runs there have been
          run,         \* the run: its ZIP, folder, cache and options
          disk,        \* what each case folder holds
          cases,       \* the sources in each folder's case database
          told,        \* what became of the import and of the lookup
          past         \* the ZIPs that were ever staged in a folder

intakeVars == <<stage, runs, run, disk, cases, told, past>>

None        == "none"
NoListing   == [of |-> None, paths |-> {}]
EmptyFolder == [listed |-> FALSE, raw |-> NoListing, files |-> NoListing, databases |-> {},
                extracted |-> [p \in Databases |-> None]]
Untold      == [import |-> None, lookup |-> None]

IntakeAssumption ==
  /\ Databases \subseteq UNION {Entries[z] : z \in Zips} /\ Indexed \subseteq Zips
  /\ None \notin Zips \cup Folders /\ MaxRuns \in Nat
  /\ Wishes \subseteq [profile : {"ios", "auto"}, materialize : BOOLEAN, support : BOOLEAN,
                       sevenZip : BOOLEAN, cached : BOOLEAN]
  /\ Faults \subseteq {"script", "listing", "extract", "import", "stop"}

Init == /\ stage = "idle" /\ runs = 0 /\ run = None
        /\ disk = [f \in Folders |-> EmptyFolder] /\ cases = [f \in Folders |-> <<>>]
        /\ told = Untold /\ past = [f \in Folders |-> {}]

Here           == disk[run.folder]
Source         == cases[run.folder][Len(cases[run.folder])]
Allowed(fault) == fault \in Faults
PutDisk(new)   == disk' = [disk EXCEPT ![run.folder] = new]
PutSource(new) == cases' = [cases EXCEPT ![run.folder] = [@ EXCEPT ![Len(@)] = new]]

(* A run is started; a cache is another folder than its own.               *)
StartRun ==
  /\ stage \in {"idle", "compared"} /\ runs < MaxRuns
  /\ \E z \in Zips, f \in Folders, c \in Folders \cup {None}, w \in Wishes :
       /\ c # f /\ (c # None <=> w.cached)
       /\ run' = [zip |-> z, folder |-> f, cache |-> c, profile |-> w.profile, sevenZip |-> w.sevenZip,
                  materialize |-> w.materialize, full |-> w.materialize \/ w.support]
       /\ stage' = IF c = None THEN "script" ELSE "cache"
  /\ runs' = runs + 1 /\ told' = Untold
  /\ UNCHANGED <<disk, cases, past>>

----------------------------------------------------------------------------
(* Staging.  The script writes the headers of both inventories.  7-Zip     *)
(* extracts the databases next to those that are there, and leaves its raw *)
(* listing for later; .NET writes the inventories itself and extracts no   *)
(* database.  How 7-Zip ended is written to a log only.                    *)
Listings(z) == {[of |-> z, paths |-> Entries[z]]}
               \cup (IF Allowed("listing") THEN {[of |-> z, paths |-> s] : s \in SUBSET Entries[z]} ELSE {})
Extractions(z, old) ==
  LET found == Entries[z] \cap Databases
  IN  {[p \in Databases |-> IF p \in took THEN z ELSE old[p]] :
         took \in IF Allowed("extract") THEN SUBSET found ELSE {found}}

\* Faulty: a listing that is there is not made anew.
rawLeftAlone(z, old) == IF old # NoListing THEN {old} ELSE Listings(z)
rawLeft(z, old)      == Listings(z)

(* The databases of a listing, told to be extracted if there is such a file.*)
found(listing, extracted) == {p \in listing.paths \cap Databases : extracted[p] # None}
WithFiles(folder, listing) ==
  [folder EXCEPT !.listed = TRUE, !.files = listing, !.databases = found(listing, folder.extracted)]

RunScript ==
  /\ stage = "script"
  /\ IF run.sevenZip
       THEN \E raw \in rawLeft(run.zip, Here.raw), x \in Extractions(run.zip, Here.extracted) :
              PutDisk([WithFiles(Here, NoListing) EXCEPT !.raw = raw, !.extracted = x])
       ELSE PutDisk(WithFiles(Here, [of |-> run.zip, paths |-> Entries[run.zip]]))
  /\ past' = [past EXCEPT ![run.folder] = @ \cup {run.zip}]
  /\ stage' = "listing"
  /\ UNCHANGED <<runs, run, cases, told>>

(* A raw listing in the folder, whichever run left it, becomes the files.  *)
(* An automatic profile is iOS when there are stores.                      *)
Parsed(folder) == IF folder.raw # NoListing THEN WithFiles(folder, folder.raw) ELSE folder
ParseListing ==
  /\ stage = "listing"
  /\ PutDisk(Parsed(Here))
  /\ run' = [run EXCEPT !.profile = IF @ = "auto" /\ run.zip \in Indexed THEN "ios" ELSE @]
  /\ stage' = "register"
  /\ UNCHANGED <<runs, cases, told, past>>

(* A script that fails, with or without inventories, ends the run of an    *)
(* explicit iOS profile; an automatic one goes on without iOS.             *)
ScriptFails ==
  /\ stage = "script" /\ Allowed("script")
  /\ \E half \in {Here, WithFiles(Here, NoListing)} : PutDisk(Parsed(half))
  /\ past' = [past EXCEPT ![run.folder] = @ \cup {run.zip}]
  /\ IF run.profile = "auto" THEN stage' = "register" /\ UNCHANGED run
                             ELSE stage' = "idle" /\ run' = None
  /\ UNCHANGED <<runs, cases, told>>

(* A cache is usable when something was staged there and its inventories   *)
(* exist; which ZIP it was, and whether all of it, is not looked at.       *)
usableCache(f) == past[f] # {} /\ disk[f].listed
StageFromCache ==
  /\ stage = "cache"
  /\ IF usableCache(run.cache)
       THEN stage' = "register" /\ run' = [run EXCEPT !.profile = "ios"]
       ELSE stage' = "idle" /\ run' = None
  /\ UNCHANGED <<runs, disk, cases, told, past>>

----------------------------------------------------------------------------
(* The source enters the case; without iOS there is nothing to import.     *)
Register ==
  /\ stage = "register"
  /\ cases' = [cases EXCEPT ![run.folder] =
       Append(@, [zip |-> run.zip, cache |-> run.cache, files |-> {}, lookup |-> {}, sentinel |-> FALSE,
                  apps |-> {}, compared |-> FALSE, missing |-> {}])]
  /\ stage' = IF run.profile = "ios" THEN "import" ELSE "compare"
  /\ UNCHANGED <<runs, run, disk, told, past>>

(* What the case database of the cache lists, of whichever of its sources. *)
sourcesOf(f)   == {cases[f][i] : i \in DOMAIN cases[f]}
cachedFiles(f) == UNION {s.files : s \in sourcesOf(f)}
cachedApps(f)  == UNION {s.apps : s \in sourcesOf(f)}

(* A database record: the path, the folder its extracted file is in, and   *)
(* the ZIP that file came from when it is read.                            *)
appIn(p, f)    == [path |-> p, in |-> f, content |-> disk[f].extracted[p]]
reread(apps)   == {appIn(a.path, a.in) : a \in apps}

(* The import from the case database of the cache: all of its files, or a  *)
(* sentinel that says that paths will be looked up.                        *)
ImportFromCache ==
  /\ stage = "import" /\ run.cache # None /\ cases[run.cache] # <<>>
  /\ PutSource([Source EXCEPT !.files = IF run.full THEN cachedFiles(run.cache) ELSE {},
                              !.lookup = {}, !.sentinel = ~run.full,
                              !.apps = reread(cachedApps(run.cache))])
  /\ told' = [told EXCEPT !.import = "cache"]
  /\ stage' = "lookup"
  /\ UNCHANGED <<runs, run, disk, past>>

(* The import from the inventories, the folder's own if it has them, when  *)
(* there is no such database or it cannot be read.                         *)
listingFolder == IF Here.listed \/ run.cache = None THEN run.folder ELSE run.cache
csvImported(s) ==
  LET from == disk[listingFolder]
  IN  [s EXCEPT !.files = IF run.full THEN from.files.paths ELSE {},
                !.lookup = IF run.full THEN {} ELSE from.files.paths, !.sentinel = FALSE,
                !.apps = {appIn(p, listingFolder) : p \in from.databases}]
ImportFromLists ==
  /\ stage = "import"
  /\ run.cache # None => cases[run.cache] = <<>> \/ Allowed("import")
  /\ PutSource(csvImported(Source))
  /\ told' = [told EXCEPT !.import = "lists"]
  /\ stage' = "lookup"
  /\ UNCHANGED <<runs, run, disk, past>>

\* Faulty: what was inserted stays.
notRolledBack(s) == csvImported(s)

(* An import that fails is rolled back, and the run goes on with a warning.*)
rolledBack(s) == s
ImportFails ==
  /\ stage = "import" /\ Allowed("import")
  /\ PutSource(rolledBack(Source))
  /\ told' = [told EXCEPT !.import = "warning"]
  /\ stage' = "lookup"
  /\ UNCHANGED <<runs, run, disk, past>>

(* After parsing, a run that has a cache looks up the paths referred to    *)
(* among the files the cache's case database has.                          *)
LooksUp == run.cache # None /\ ~run.materialize
LookUp ==
  /\ stage = "lookup"
  /\ IF LooksUp /\ cases[run.cache] # <<>>
       THEN /\ PutSource([Source EXCEPT !.lookup = @ \cup (References \cap cachedFiles(run.cache))])
            /\ told' = [told EXCEPT !.lookup = "complete"]
       ELSE UNCHANGED <<cases, told>>
  /\ stage' = "compare"
  /\ UNCHANGED <<runs, run, disk, past>>
LookupFails ==
  /\ stage = "lookup" /\ LooksUp /\ Allowed("import")
  /\ told' = [told EXCEPT !.lookup = "warning"]
  /\ stage' = "compare"
  /\ UNCHANGED <<runs, run, disk, cases, past>>

(* What Spotlight tells of is compared with the files, or else with the    *)
(* lookup; without either, nothing is compared.                            *)
available(s) == s.files # {} \/ s.lookup # {} \/ s.sentinel
known(s)     == IF s.files # {} THEN s.files ELSE s.lookup
Compare ==
  /\ stage = "compare"
  /\ PutSource(IF available(Source)
                 THEN [Source EXCEPT !.compared = TRUE, !.missing = (References \cup Artifacts) \ known(Source)]
                 ELSE Source)
  /\ stage' = "compared"
  /\ UNCHANGED <<runs, run, disk, told, past>>

(* The run is cancelled, fails or is killed.                               *)
Stop == /\ stage \notin {"idle", "compared"} /\ Allowed("stop")
        /\ stage' = "idle" /\ run' = None /\ told' = Untold
        /\ UNCHANGED <<runs, disk, cases, past>>

Next == \/ StartRun \/ RunScript \/ ParseListing \/ ScriptFails \/ StageFromCache \/ Register
        \/ ImportFromCache \/ ImportFromLists \/ ImportFails \/ LookUp \/ LookupFails \/ Compare \/ Stop

Spec == Init /\ [][Next]_intakeVars

----------------------------------------------------------------------------
(* A folder in which no other ZIP was ever staged, and a case into which   *)
(* every run of that ZIP was made without a cache.                         *)
OnlyZip(f)  == past[f] \subseteq {run.zip}
OnlyCase(f) == OnlyZip(f) /\ \A s \in sourcesOf(f) : s.zip = run.zip /\ s.cache = None

(* The files a source is given, and the databases read for it, are those   *)
(* of its own ZIP, provided no other ZIP was staged in the same folder, or *)
(* in the cache; and where 7-Zip lists the ZIP anew, even then for files.  *)
ListingBelongs ==
  stage = "compared" =>
    /\ \/ run.cache = None /\ (run.sevenZip \/ OnlyZip(run.folder))
       \/ run.cache # None /\ OnlyCase(run.cache) /\ OnlyZip(run.folder)
       => Source.files \cup Source.lookup \subseteq Entries[run.zip]
    /\ \/ run.cache = None /\ OnlyZip(run.folder)
       \/ run.cache # None /\ OnlyCase(run.cache) /\ OnlyZip(run.folder)
       => \A a \in Source.apps : a.content = run.zip

(* No path is told missing that the inventories imported for the source    *)
(* list; nor one that is referred to and that the case database of the     *)
(* cache lists, when it was looked up; and an import that failed has told  *)
(* nothing missing, unless paths were looked up nevertheless.              *)
AbsentIsAbsent ==
  stage = "compared" /\ run.profile = "ios" =>
    /\ told.import = "lists" => Source.missing \cap disk[listingFolder].files.paths = {}
    /\ (told.lookup = "complete" /\ Source.files = {}) \/ (told.import = "cache" /\ run.full) =>
         Source.missing \cap References \cap cachedFiles(run.cache) = {}
    /\ told.import = "warning" /\ told.lookup # "complete" => Source.missing = {} /\ Source.apps = {}

(* A path the comparison with the ZIP tells to be absent is not in the ZIP,*)
(* when no other ZIP was ever staged.                                      *)
absentFromZip(s) == References \ known(s)
AbsentFromZip ==
  stage = "compared" /\ run.profile = "ios" /\ (\A f \in Folders : OnlyZip(f)) =>
    absentFromZip(Source) \cap Entries[run.zip] = {}
===============================================================================
