----------------------------- MODULE MCIngestData -----------------------------
(***************************************************************************)
(* How evidence becomes artifacts, side by side: copying the stores out of *)
(* an image by either of the two readers, taking a ZIP into a case, parsing the stores and the          *)
(* application databases, and enriching what was parsed, each in a small   *)
(* instance.  They hand each other files and tables and share no variable, *)
(* so each is checked on its own: "side" says whose behaviour it is, and   *)
(* the variables of the others are Unused.                                 *)
(***************************************************************************)
EXTENDS MCGuidedReader, TLC

CONSTANTS Unused, Tasks, Batch,
          Sources, Slash, NoName, Plist, Label, VolumesName, Known,
          MaxChain, FewWeak, Plenty, FewOpen,
          GuidedImages, Listed, CacheNames, DataVolume, RootRecords, SampleRecords, GuideDepth, Probes,
          Devices, MaxTables, MaxSpecial, PageRows, AppFaults,
          Zips, InZip, Databases, Indexed, References, InSpotlight, Folders, Wishes, MaxRuns, ZipFaults

VARIABLES side,
          task, store, block, item, blocks, parsed, limited, txn, poisoned, saved,
          source, db, kept, chain,
          device, at, reader, draft, stuck, warned, cut,
          runs, run, disk, cases, past,
          xattrs, facts

P == INSTANCE NativeParse WITH s <- store, b <- block, i <- item
N == INSTANCE Enrichment WITH Volumes <- VolumesName, stage <- pc
S == INSTANCE EnrichmentSources WITH Volumes <- VolumesName
A == INSTANCE IosAppParse WITH stage <- pc, Faults <- AppFaults
G == INSTANCE GuidedReader
Z == INSTANCE ZipIntake WITH stage <- pc, Faults <- ZipFaults, Entries <- InZip, Artifacts <- InSpotlight

ASSUME ParserAssumptions == P!TaskAssumption /\ P!BatchAssumption
ASSUME N!EnrichmentAssumption
ASSUME AppAssumptions == A!ParseAssumption
ASSUME ZipAssumptions == Z!IntakeAssumption
ASSUME G!GuidedAssumption

----------------------------------------------------------------------------
(* Two stores of up to two blocks of up to three items; with the database  *)
(* locked at any time, fewer kinds of block and of limit.                  *)
BadBlocks == [read : {"badHeader", "badPacking"}, items : {<<>>}]
TasksOf(blks, records, faults) ==
  [stores : SeqOf([kind : {"invalid", "badHeader", "unopened"}, blocks : {<<>>}]
                  \cup [kind : {"ok"}, blocks : SeqOf(blks, 2)], 2),
   maxRecords : records, maxBlocks : {0, 1}, faults : {faults}]
MCTasks == TasksOf(BadBlocks \cup [read : {"ok"}, items : {<<"good">>, <<"bad", "good">>, <<"good", "good", "good">>}],
                   {0, 2, 3}, {"guardrail"})
           \cup TasksOf([read : {"badPacking"}, items : {<<>>}]
                        \cup [read : {"ok"}, items : {<<"good">>, <<"bad", "good", "good">>}], {0, 2}, {"reader", "writer", "guardrail"})

MCSources == S!SmallSources
MCKnown   == {"private"}

(* Databases of the applications: messages with attachments and deleted    *)
(* ones, streams of which some rows are skipped, tables without rowids and *)
(* with rowids below zero, longer than a page and than a parser's limit.   *)
ARow(kind, negative, dated, joined) ==
  [kind |-> kind, negative |-> negative, dated |-> dated, joined |-> joined]
Plain    == ARow("plain", FALSE, TRUE, 0)
Undated  == ARow("plain", FALSE, FALSE, 0)
Below    == ARow("plain", TRUE, TRUE, 0)
Attached == ARow("deleted", FALSE, TRUE, 2)
Intent   == ARow("intent", FALSE, TRUE, 0)
OnDevice == ARow("device", FALSE, TRUE, 0)
Skipped  == ARow("skipped", FALSE, TRUE, 0)
ATable(family, name, ids, content) == [family |-> family, name |-> name, rows |-> content, rowid |-> ids]
Good(tables) == [file |-> "ok", tables |-> tables]
Bad(how)     == [file |-> how, tables |-> <<>>]
MCDevices ==
  {<<Good(<<ATable("messages", "message", TRUE, <<Plain, Attached>>), ATable("messages", "handle", TRUE, <<Plain>>)>>),
     Bad("unopened")>>,
   <<Bad("missing"), Good(<<ATable("messages", "recoverable", TRUE, <<Plain, Undated, Plain>>),
                            ATable("messages", "message", FALSE, <<Attached, Attached>>)>>)>>,
   <<Good(<<ATable("knowledgec", "zobject", TRUE, <<Skipped, Intent, OnDevice>>),
            ATable("knowledgec", "zobject", FALSE, <<Skipped, OnDevice, Plain>>)>>)>>,
   <<Good(<<ATable("knowledgec", "zstream", TRUE, <<OnDevice, Plain, OnDevice>>),
            ATable("knowledgec", "zstructuredmetadata", TRUE, <<Plain>>),
            ATable("knowledgec", "zinteractions", TRUE, <<Plain>>)>>), Bad("noMaster")>>,
   <<Good(<<ATable("whatsapp", "zdated", TRUE, <<Below, Plain, Plain>>), ATable("contacts", "abperson", TRUE, <<Plain>>)>>)>>,
   <<Good(<<ATable("whatsapp", "zwamessage", FALSE, <<Below, Attached, Plain>>)>>),
     Good(<<ATable("notes", "znote", TRUE, <<>>), ATable("notes", "znote", FALSE, <<Plain, Plain, Plain>>)>>)>>}
MCAppFaults == {"insert", "engine", "read", "promote", "stop"}

(* Two ZIPs of which one holds stores; runs with 7-Zip or without, of      *)
(* either profile, from the ZIP or from a cache.                           *)
MCInZip == ("old" :> {"photo", "sms"}) @@ ("new" :> {"photo", "note"})
Wish(profile, materialize, support, sevenZip, cached) ==
  [profile |-> profile, materialize |-> materialize, support |-> support, sevenZip |-> sevenZip, cached |-> cached]
MCWishes == {Wish("ios", FALSE, FALSE, TRUE, FALSE), Wish("auto", TRUE, FALSE, FALSE, FALSE),
             Wish("ios", FALSE, FALSE, TRUE, TRUE), Wish("ios", FALSE, TRUE, TRUE, TRUE)}
MCZipFaults == {"script", "listing", "import", "stop"}

----------------------------------------------------------------------------
readerOnly == <<image, lost, cancel, mounted, seen, dirs, inodes, extents, attempts,
                walk, walked, rows, staged>>
parserOnly == <<task, store, block, item, blocks, parsed, limited, poisoned, saved>>
enrichOnly == <<source, db, chain>>
appsOnly   == <<device, at, reader, draft, stuck, warned, cut>>
zipOnly    == <<runs, run, disk, cases, past>>
guidedOnly == <<xattrs, facts>>

NoReader == /\ image = Unused /\ lost = Unused /\ cancel = Unused /\ mounted = Unused
            /\ seen = Unused /\ dirs = Unused /\ inodes = Unused /\ extents = Unused
            /\ attempts = Unused /\ walk = Unused /\ walked = Unused /\ rows = Unused
            /\ staged = Unused
NoParser == /\ task = Unused /\ store = Unused /\ block = Unused /\ item = Unused
            /\ blocks = Unused /\ parsed = Unused /\ limited = Unused
            /\ poisoned = Unused /\ saved = Unused
NoEnrich == source = Unused /\ db = Unused /\ chain = Unused
NoApps   == /\ device = Unused /\ at = Unused /\ reader = Unused /\ draft = Unused
            /\ stuck = Unused /\ warned = Unused /\ cut = Unused
NoZip    == runs = Unused /\ run = Unused /\ disk = Unused /\ cases = Unused /\ past = Unused
NoGuided == xattrs = Unused /\ facts = Unused

DataInit ==
  \/ /\ side = "reader" /\ Init /\ NoGuided /\ NoParser /\ NoEnrich /\ NoApps /\ NoZip
     /\ txn = Unused /\ kept = Unused
  \/ /\ side = "guided" /\ G!GuidedInit /\ NoParser /\ NoEnrich /\ NoApps /\ NoZip
     /\ txn = Unused /\ kept = Unused
  \/ /\ side = "parser" /\ P!Init /\ NoReader /\ NoGuided /\ NoEnrich /\ NoApps /\ NoZip
     /\ told = Unused /\ kept = Unused
  \/ /\ side = "enrichment" /\ N!Init /\ NoReader /\ NoGuided /\ NoParser /\ NoApps /\ NoZip
     /\ told = Unused /\ txn = Unused /\ pending = Unused
  \/ /\ side = "apps" /\ A!Init /\ NoReader /\ NoGuided /\ NoParser /\ NoEnrich /\ NoZip
     /\ pending = Unused
  \/ /\ side = "zip" /\ Z!Init /\ NoReader /\ NoGuided /\ NoParser /\ NoEnrich /\ NoApps
     /\ txn = Unused /\ kept = Unused /\ pending = Unused

ReaderStep == /\ side = "reader" /\ Next
              /\ UNCHANGED <<side, guidedOnly, parserOnly, enrichOnly, appsOnly, zipOnly, txn, kept>>
GuidedStep == /\ side = "guided" /\ G!GuidedNext
              /\ UNCHANGED <<side, parserOnly, enrichOnly, appsOnly, zipOnly, txn, kept>>
ParserStep == /\ side = "parser" /\ P!Next
              /\ UNCHANGED <<side, readerOnly, guidedOnly, enrichOnly, appsOnly, zipOnly, told, kept>>
EnrichStep == /\ side = "enrichment" /\ N!Next
              /\ UNCHANGED <<side, readerOnly, guidedOnly, parserOnly, appsOnly, zipOnly, told, txn, pending>>
AppsStep   == /\ side = "apps" /\ A!Next
              /\ UNCHANGED <<side, readerOnly, guidedOnly, parserOnly, enrichOnly, zipOnly, pending>>
ZipStep    == /\ side = "zip" /\ Z!Next
              /\ UNCHANGED <<side, readerOnly, guidedOnly, parserOnly, enrichOnly, appsOnly, txn, kept, pending>>

DataNext == ReaderStep \/ GuidedStep \/ ParserStep \/ EnrichStep \/ AppsStep \/ ZipStep

dataVars == <<side, readerOnly, guidedOnly, parserOnly, enrichOnly, appsOnly, zipOnly, pc, told, txn, kept, pending>>

DataSpec == DataInit /\ [][DataNext]_dataVars

----------------------------------------------------------------------------
(* The properties, each about its own side.                                *)

(* What an object map is asked for is the newest version there is, as far  *)
(* as its nodes can be read.                                               *)
LookupExact == side = "reader" => LookupIsExact

(* A copied file has its own bytes, or zeros under the status that says    *)
(* so, however blocks are lost, missing or cancelled, and whichever of the *)
(* two readers copied it; and a file rebuilt from a resource fork is what  *)
(* its own fork holds.                                                     *)
CopiesTrue == /\ side = "reader" => CopiesAreTrue
              /\ side = "guided" => G!GuidedCopiesAreTrue

(* What lies below a Store-V2 directory is copied, and tried once, the     *)
(* list of staged files tells what lies in the staging directory, and no   *)
(* raw fork or half of a rebuilt file lies there.                          *)
StoresWhole == /\ side = "reader" => NothingMissed /\ StagedIsTold
               /\ side = "guided" => G!GuidedNothingMissed /\ StagedIsTold /\ G!ForksStayOut

(* parseStores returns only with all it could decode committed, counts     *)
(* nothing it has not kept and gives a store one verdict, and a crash      *)
(* costs a batch at most.                                                  *)
ParserSaves == side = "parser" => P!ReturnMeansSaved /\ P!OneVerdict /\ P!BatchAtRisk

(* Every path an artifact is given reads up its line of parents, and none  *)
(* is left without the path of a parent whose path is known.               *)
PathsTrue == side = "enrichment" => N!PathsFollowParents /\ N!NoPathLeftBehind

(* After any failure the tables of the case agree with each other.         *)
CaseTablesAgree == side = "enrichment" => N!TablesAgree

(* The rows of the applications' tables are recorded once, or accounted    *)
(* for, and an import that is warned of leaves nothing half done.          *)
RowsAccounted == side = "apps" => A!RowsAccounted

(* The events of applications are those of their records, told once.       *)
EventsTellRecords == side = "apps" => A!EventsTellRecords

(* What a source of a case lists is in its own ZIP, and nothing that the   *)
(* inventories list is told to be missing from them.                       *)
ListingBelongs == side = "zip" => Z!ListingBelongs /\ Z!AbsentIsAbsent
===============================================================================
