----------------------------- MODULE ReportExport -----------------------------
(***************************************************************************)
(* The review package of a run (SqliteExporter::exportReviewPackage and    *)
(* exportQuery in src/src/export_sql/sqlite_exporter.cpp): a list of       *)
(* queries, each written to one CSV file or, past ChunkRows rows, to       *)
(* numbered parts, with a manifest per query; then the upload samples, the *)
(* case summary and EXPORT_INDEX.csv.  The folder outlives the run: the    *)
(* next run into the same case writes over what it finds.  Each query runs *)
(* under a progress handler whose context is on the stack of exportQuery.  *)
(***************************************************************************)
EXTENDS Integers, Sequences, SequencesExt, Ascending

CONSTANTS Name,      \* the queries, by the name of their CSV file
          Thin,      \* queries of the profiles other than full, in order
          Full,      \* queries of the full profile
          SupportOnly, \* those of Thin left out unless the profile is for support
          Ios,       \* those whose file name begins with ios_
          Samples,   \* the upload samples, in order
          Reused,    \* samples copied from an export of that name if there is one
          ChunkRows, \* DefaultExportChunkRows
          Packages,  \* bound: profile, source and how many rows each query has, per run
          MaxRows,   \* bound: the largest of these numbers
          MaxRuns,   \* bound: runs into the case
          MaxTimeouts \* bound: queries of a run that exceed the guardrail

Profile == {"thin", "support", "full"}
Source  == {"ios", "macos"}

NameAssumption ==
  /\ {Thin, Full, Samples} \subseteq Seq(Name) /\ Samples # <<>>
  /\ SupportOnly \cup Ios \cup Reused \subseteq Name
\* No list names a query twice: every export, and every sample, has a file name of
\* its own (those that occur twice in the code are the two branches of an if).
ListAssumption == \A list \in {Thin, Full, Samples} :
                    \A i, j \in DOMAIN list : list[i] = list[j] => i = j
\* Every profile but full exports what reuseFullExportAsSample looks for.
ReusedAssumption == Reused \cap ToSet(Samples) \subseteq ToSet(Thin) \ SupportOnly
SizeAssumption ==
  /\ ChunkRows \in Nat \ {0} /\ Packages \subseteq Profile \X Source \X (0..MaxRows)
  /\ {MaxRows, MaxRuns, MaxTimeouts} \subseteq Nat

Query   == {"export", "sample"} \X Name
Part    == 0..MaxRows + 1          \* part 0 is <name>.csv, part k <name>_part000k.csv
File    == Query \X Part

VARIABLES run,      \* the runs so far; the last one is the current one
          profile, source, \* of the current run
          size,     \* rows each query has in the current run
          cancel,   \* *cancelToken
          locked,   \* CSV files and manifests another program keeps open
          handler,  \* the progress handler on the connection: "none", the
                    \* one of the call running, or of one that has returned
          pc,       \* where the run is
          step,     \* position in Plan
          split,    \* multipleParts
          part, inPart, total, \* part, rowsInPart, totalRows
          listed,   \* manifestRows
          timeouts, \* queries of this run stopped by the guardrail
          ended,    \* how each query of this run ended
          files,    \* the CSV files: the run and the rows they are from
          manifests, \* <name>_manifest.csv: <<part, row count>>s
          notices,  \* the queries with a <name>_TIMEOUT_NOTICE.csv
          index,    \* exports/EXPORT_INDEX.csv: total row count by query
          caseIndex, \* the EXPORT_INDEX.csv of the case folder
          outcome   \* of the newest run

setting == <<run, profile, source, size, locked>>
call    == <<split, part, inPart, total, listed>>
disk    == <<files, manifests, notices>>
report  == <<index, caseIndex>>
vars    == <<setting, cancel, handler, pc, step, call, timeouts, ended, disk,
             report, outcome>>

Content == [run : 1..MaxRuns, first : 1..MaxRows + 1, rows : 0..MaxRows]
Row     == Part \X (0..MaxRows)

TypeOK == /\ run \in 0..MaxRuns /\ profile \in Profile /\ source \in Source
          /\ size \in 0..MaxRows /\ cancel \in BOOLEAN
          /\ locked \in SUBSET ({"csv"} \X File \cup {"manifest"} \X Query)
          /\ handler \in {"none", "live", "dead"}
          /\ pc \in {"idle", "next", "open", "rows", "roll", "finish"}
          /\ step \in 1..Len(Thin \o Full \o Samples) + 1
          /\ split \in BOOLEAN /\ part \in 1..MaxRows + 1
          /\ {inPart, total} \subseteq 0..MaxRows /\ inPart <= ChunkRows
          /\ listed \in Seq(Row)
          /\ timeouts \in 0..MaxTimeouts
          /\ DOMAIN ended \subseteq Query
          /\ \A q \in DOMAIN ended : ended[q] \in {"written", "timed out", "cancelled", "skipped", "reused"}
          /\ DOMAIN files \subseteq File
          /\ \A f \in DOMAIN files : files[f] \in Content
          /\ DOMAIN manifests \subseteq Query
          /\ \A q \in DOMAIN manifests : manifests[q] \in Seq(Row)
          /\ notices \subseteq Query
          /\ DOMAIN index \subseteq Name /\ DOMAIN caseIndex \subseteq Name
          /\ outcome \in {"none", "running", "ok", "suppressed", "cancelled", "failed", "crashed"}
          /\ handler = "live" => pc \in {"open", "rows", "roll"}

Init == /\ run = 0 /\ profile = "thin" /\ source = "ios" /\ size = 0
        /\ cancel = FALSE /\ locked = {} /\ handler = "none"
        /\ pc = "idle" /\ step = 1
        /\ split = FALSE /\ part = 1 /\ inPart = 0 /\ total = 0 /\ listed = <<>>
        /\ timeouts = 0 /\ ended = <<>>
        /\ files = <<>> /\ manifests = <<>> /\ notices = {}
        /\ index = <<>> /\ caseIndex = <<>>
        /\ outcome = "none"

----------------------------------------------------------------------------
(* What a run exports.                                                     *)

\* supportDataExport
Supporting == profile \in {"support", "full"}

Included == {n \in ToSet(Thin) : n \in SupportOnly => Supporting}

Main == IF profile = "full" THEN Full ELSE Kept(Thin, Included)

Plan == [i \in DOMAIN Main |-> <<"export", Main[i]>>]
          \o [i \in DOMAIN Samples |-> <<"sample", Samples[i]>>]

Current == Plan[step]
Out     == <<Current, IF split THEN part ELSE 0>>

\* Set one entry of a partial function.
Put(f, x, y) == [z \in DOMAIN f \cup {x} |-> IF z = x THEN y ELSE f[z]]

\* What the file that the call is writing to holds.
Holding == [run |-> run, first |-> total - inPart + 1, rows |-> inPart]

----------------------------------------------------------------------------
(* The run.                                                                *)

Lockable == {<<"csv", f>> : f \in DOMAIN files}
              \cup {<<"manifest", q>> : q \in DOMAIN manifests}

\* A run reaches its export stage; meanwhile at most one sheet of an earlier
\* run is open in another program.
StartRun(p, s, n, l) ==
  /\ pc = "idle" /\ run < MaxRuns
  /\ l \subseteq Lockable
  /\ run' = run + 1 /\ profile' = p /\ source' = s /\ size' = n /\ locked' = l
  /\ cancel' = FALSE /\ handler' = "none"
  /\ pc' = "next" /\ step' = 1
  /\ timeouts' = 0 /\ ended' = <<>> /\ outcome' = "running"
  /\ UNCHANGED <<call, disk, report>>

\* suppressCsvExports: an index that lists no export, in the exports folder only;
\* the sheets and the index of the case folder stay as they were.
SuppressedRun ==
  /\ pc = "idle" /\ run < MaxRuns
  /\ run' = run + 1
  /\ index' = <<>> /\ ended' = <<>>
  /\ outcome' = "suppressed"
  /\ UNCHANGED <<profile, source, size, locked, cancel, handler, pc, step, call,
                 timeouts, disk, caseIndex>>

RequestCancel == /\ pc # "idle" /\ ~cancel
                 /\ cancel' = TRUE
                 /\ UNCHANGED <<setting, handler, pc, step, call, timeouts, ended,
                                disk, report, outcome>>

\* The variables of a call.
Reset == split' = FALSE /\ part' = 1 /\ inPart' = 0 /\ total' = 0 /\ listed' = <<>>

\* The connection goes with the run.
Die(how) == /\ pc' = "idle" /\ outcome' = how /\ handler' = "none"
            /\ Reset
            /\ UNCHANGED <<setting, cancel, step, timeouts, ended, report>>

\* The process dies, and what it knew of the run with it.
Crash == /\ pc # "idle"
         /\ pc' = "idle" /\ outcome' = "crashed" /\ handler' = "none"
         /\ cancel' = FALSE /\ step' = 1 /\ timeouts' = 0 /\ ended' = <<>>
         /\ Reset
         /\ UNCHANGED <<setting, disk, report>>

\* Faulty: the samples are taken for optional in every profile.
ThrowOptional(h) == IF Current[1] = "sample"
                    THEN /\ pc' = "finish" /\ handler' = h
                         /\ Reset
                         /\ UNCHANGED <<setting, cancel, step, timeouts, ended,
                                        report, outcome>>
                    ELSE Die("failed")

\* An exception leaves exportQuery.  The full profile catches those of the
\* samples and goes on to the summary; any other ends the run.
Throw(h) == IF Current[1] = "sample" /\ profile = "full"
            THEN /\ pc' = "finish" /\ handler' = h
                 /\ Reset
                 /\ UNCHANGED <<setting, cancel, step, timeouts, ended, report, outcome>>
            ELSE Die("failed")

----------------------------------------------------------------------------
(* exportQuery.                                                            *)

\* End of a call: the handler is removed and the package goes on.
Return(how) == /\ ended' = Put(ended, Current, how)
               /\ handler' = "none"
               /\ pc' = IF step < Len(Plan) THEN "next" ELSE "finish"
               /\ step' = step + 1
               /\ Reset

\* A cancelled run exports nothing more, and a macOS source has no iOS sheets.
Excluded == cancel \/ (source = "macos" /\ Current[2] \in Ios)

\* The sheet of that name in the exports folder.
Unsplit(n) == <<<<"export", n>>, 0>>

\* reuseFullExportAsSample finds a sheet and can copy it.
Copyable == /\ Current[1] = "sample" /\ Current[2] \in Reused
            /\ Unsplit(Current[2]) \in DOMAIN files
            /\ <<"csv", <<Current, 0>>>> \notin locked

Skip == /\ pc = "next" /\ ~Copyable /\ Excluded
        /\ Return("skipped")
        /\ UNCHANGED <<setting, cancel, timeouts, disk, report, outcome>>

\* The copy is made whatever run the sheet is from, and cancelled or not.
ReuseExport == /\ pc = "next" /\ Copyable
               /\ files' = Put(files, <<Current, 0>>, files[Unsplit(Current[2])])
               /\ Return("reused")
               /\ UNCHANGED <<setting, cancel, timeouts, manifests, notices,
                              report, outcome>>

\* The handler is installed before the statement is prepared and the file opened.
Begin == /\ pc = "next" /\ ~Copyable /\ ~Excluded
         /\ handler' = "live"
         /\ pc' = "open"
         /\ UNCHANGED <<setting, cancel, step, call, timeouts, ended, disk, report, outcome>>

\* openCsvPart throws before the try: nothing takes the handler back.
Open == /\ pc = "open"
        /\ IF <<"csv", Out>> \in locked
           THEN Throw("dead") /\ UNCHANGED disk
           ELSE /\ files' = Put(files, Out, Holding)
                /\ pc' = "rows"
                /\ UNCHANGED <<setting, cancel, handler, step, call, timeouts,
                               ended, manifests, notices, report, outcome>>

\* A row that fits into the part.
WriteRow == /\ pc = "rows" /\ ~cancel /\ total < size /\ inPart < ChunkRows
            /\ files' = Put(files, Out, [Holding EXCEPT !.rows = @ + 1])
            /\ total' = total + 1 /\ inPart' = inPart + 1
            /\ UNCHANGED <<setting, cancel, handler, pc, step, split, part, listed,
                           timeouts, ended, manifests, notices, report, outcome>>

\* A row that does not: cancelToken_ has been asked for the last time.
Fill == /\ pc = "rows" /\ ~cancel /\ total < size /\ inPart = ChunkRows
        /\ pc' = "roll"
        /\ UNCHANGED <<setting, cancel, handler, step, call, timeouts, ended, disk,
                       report, outcome>>

FirstPart == <<Current, 1>>
NewPart   == <<Current, part + 1>>

\* Faulty: the rows of all parts so far.
PartRowOfAll == <<part, total>>

PartRow == <<part, inPart>>

\* Faulty: the first file is copied to part 1, and stays.
CopiedFirst == IF split THEN files ELSE Put(files, FirstPart, files[<<Current, 0>>])

\* The first file becomes part 1, in place of an old part 1.
Renamed == IF split THEN files
           ELSE Put([f \in DOMAIN files \ {<<Current, 0>>} |-> files[f]],
                    FirstPart, files[<<Current, 0>>])

RenameFails == ~split /\ <<"csv", FirstPart>> \in locked
OpenFails   == <<"csv", NewPart>> \in locked

\* The full part is listed, the first one after being renamed, and the row
\* begins another.
NextPart == /\ pc = "roll" /\ ~RenameFails /\ ~OpenFails
            /\ files' = Put(Renamed, NewPart,
                            [run |-> run, first |-> total + 1, rows |-> 1])
            /\ listed' = Append(listed, PartRow)
            /\ split' = TRUE /\ part' = part + 1 /\ inPart' = 1 /\ total' = total + 1
            /\ pc' = "rows"
            /\ UNCHANGED <<setting, cancel, handler, step, timeouts, ended,
                           manifests, notices, report, outcome>>

\* An old part is open in another program.  The exception is rethrown, the
\* handler removed first; but it is the cancellation's if there was one
\* meanwhile, and then the part that could not be opened is listed too.
NextPartFails ==
  /\ pc = "roll" /\ (RenameFails \/ OpenFails)
  /\ files' = IF RenameFails THEN files ELSE Renamed
  /\ IF cancel
     THEN LET rows == IF RenameFails THEN <<<<0, total>>>>
                      ELSE listed \o <<PartRow, <<part + 1, 0>>>>
          IN /\ manifests' = IF <<"manifest", Current>> \in locked THEN manifests
                             ELSE Put(manifests, Current, rows)
             /\ Return("cancelled")
             /\ UNCHANGED <<setting, cancel, timeouts, notices, report, outcome>>
     ELSE Throw("none") /\ UNCHANGED <<manifests, notices>>

\* The rows that are listed when the call ends.
Listed == Append(listed, IF split THEN PartRow ELSE <<0, total>>)

Close(how) == /\ manifests' = IF <<"manifest", Current>> \in locked THEN manifests
                              ELSE Put(manifests, Current, Listed)
              /\ Return(how)
              /\ UNCHANGED <<setting, cancel, report, outcome, files>>

\* The guardrail, in the progress handler: the statement is interrupted.
TimeOut == /\ pc = "rows" /\ timeouts < MaxTimeouts
           /\ timeouts' = timeouts + 1
           /\ notices' = notices \cup {Current}
           /\ Close("timed out")

\* A cancelled query ends like a finished one, but for the log.
Cancelled == /\ pc = "rows" /\ cancel
             /\ Close("cancelled")
             /\ UNCHANGED <<timeouts, notices>>

Done == /\ pc = "rows" /\ total = size
        /\ Close("written")
        /\ UNCHANGED <<timeouts, notices>>

----------------------------------------------------------------------------
(* The end of the package.                                                 *)

\* How many rows the entries of a manifest count together.
RowsOf(m) == Cardinality({p \in (DOMAIN m) \X (1..MaxRows) : p[2] <= m[p[1]][2]})

\* writeExportIndexFile adds up every manifest of the exports folder.
Indexed == [n \in {m \in Name : <<"export", m>> \in DOMAIN manifests} |->
              RowsOf(manifests[<<"export", n>>])]

\* Faulty: only the index beside the exports is written.
FinishOneIndex == /\ pc = "finish" /\ handler # "live"
                  /\ index' = Indexed
                  /\ pc' = "idle" /\ handler' = "none"
                  /\ outcome' = IF cancel THEN "cancelled" ELSE "ok"
                  /\ UNCHANGED <<setting, cancel, step, call, timeouts, ended,
                                 disk, caseIndex>>

\* The summary, the dashboard, and both indexes; only then is the cancel token
\* looked at again.
Finish == /\ pc = "finish" /\ handler # "live"
          /\ index' = Indexed /\ caseIndex' = Indexed
          /\ pc' = "idle" /\ handler' = "none"
          /\ outcome' = IF cancel THEN "cancelled" ELSE "ok"
          /\ UNCHANGED <<setting, cancel, step, call, timeouts, ended, disk>>

\* A summary query calls the handler of a call that has returned: what it reads
\* is no longer its context, and it may interrupt the query.
FinishInterrupted == /\ pc = "finish" /\ handler = "dead"
                     /\ Die("failed")
                     /\ UNCHANGED disk

Next == \/ \E k \in Packages, l \in {{}} \cup {{x} : x \in Lockable} :
             StartRun(k[1], k[2], k[3], l)
        \/ SuppressedRun \/ RequestCancel \/ Crash
        \/ Skip \/ ReuseExport \/ Begin \/ Open \/ WriteRow \/ Fill \/ NextPart
        \/ NextPartFails \/ TimeOut \/ Cancelled \/ Done
        \/ Finish \/ FinishInterrupted

Spec == Init /\ [][Next]_vars
----------------------------------------------------------------------------
(* Properties.                                                             *)

\* The queries this run has finished and listed.
Finished == {q \in DOMAIN ended :
               /\ ended[q] \in {"written", "timed out", "cancelled"}
               /\ <<"manifest", q>> \notin locked}

\* The files that the manifest of q lists hold the first rows of the query's
\* result in this run, in order, each as many as it says.
Described(q) ==
  \A i \in DOMAIN manifests[q] :
    LET entry == manifests[q][i]
        file  == <<q, entry[1]>>
    IN entry[2] > 0 =>
         /\ file \in DOMAIN files
         /\ files[file] = [run   |-> run,
                           first |-> RowsOf(SubSeq(manifests[q], 1, i - 1)) + 1,
                           rows  |-> entry[2]]

\* After a run that reports success both indexes agree and count, for every query
\* it finished, what the sheets hold; of the first run they list nothing else.
IndexAgrees ==
  outcome = "ok" =>
    /\ index = caseIndex
    /\ \A n \in Name : <<"export", n>> \in Finished =>
         /\ n \in DOMAIN index
         /\ index[n] = size \/ <<"export", n>> \in notices \/ cancel
    /\ run = 1 => \A n \in DOMAIN index : <<"export", n>> \in DOMAIN ended

\* Whatever earlier runs, finished, cancelled or crashed, left in the folder, the
\* manifest of a query this run has finished describes what lies beside it, across
\* the renaming of the first part (lines 3357-3418).  (A manifest that another
\* program keeps open is left as it was, in silence.)  A result that is cut short
\* can be told: there is a notice, or the run was cancelled; and a folder that one
\* run wrote has no notice of a complete result.  The indexes agree with the manifests.
ManifestTells ==
  /\ TypeOK
  /\ \A q \in Finished : Described(q)
  /\ \A q \in Finished : RowsOf(manifests[q]) < size => q \in notices \/ cancel
  /\ run = 1 => \A q \in Finished \cap notices : ended[q] = "timed out"
  /\ IndexAgrees

\* An upload sample that was copied from an export is this run's, as complete as
\* the export's own notice says, unless this run does not export the query: as
\* the full profile, a macOS source or a cancelled run does not.
SamplesAreCurrent ==
  \A n \in Name :
    LET q == <<"sample", n>>
    IN (q \in DOMAIN ended /\ ended[q] = "reused") =>
         LET copy == files[<<q, 0>>]
         IN \/ copy.run = run /\ (copy.rows = size \/ <<"export", n>> \in notices)
            \/ profile = "full" \/ cancel
            \/ source = "macos" /\ n \in Ios

\* SQL runs under the handler of a call that has returned in one case only: the
\* full profile, which calls the failure of a sample non-fatal (line 2764), could
\* not open the sheet of one.
NoCallOnDeadFrame ==
  handler = "dead" =>
    profile = "full" /\ \E n \in Name : <<"csv", <<<<"sample", n>>, 0>>>> \in locked
=============================================================================
