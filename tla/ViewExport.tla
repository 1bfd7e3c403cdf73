------------------------------ MODULE ViewExport ------------------------------
(***************************************************************************)
(* Exporting review views to CSV (src/src/gui/gui_export_worker.cpp): the  *)
(* current page, a filtered view, or every visible view with a manifest.   *)
(* A query is text with one placeholder per search column and one for the  *)
(* column filter (buildWhere); the texts are bound in a second pass over   *)
(* the same conditions (bindViewSearch), before LIMIT and OFFSET.  A       *)
(* placeholder nothing was bound to is NULL, and LIKE NULL selects no row. *)
(***************************************************************************)
EXTENDS Integers, Sequences, SequencesExt, Ascending

CONSTANTS View,      \* the visible views
          Columns,   \* how many search columns each view has
          HasText,  \* HasText[v][r][i]: search column i of row r has the search
                     \* text; HasText[v][r][0]: the filter column has the filter text
          Page,      \* page numbers
          PageSize

ViewAssumption ==
  /\ Columns \in [View -> Nat]
  /\ \A v \in View : HasText[v] \in Seq([0..Columns[v] -> BOOLEAN])
PageAssumption == Page \subseteq Nat /\ PageSize \in Nat \ {0}

ExportKind == {"page", "filtered", "visible"}

VARIABLES request,  \* what was asked for
          todo,     \* views still to be exported
          files,    \* the rows written for each view
          pending,  \* rows the current statement has still to step over
          counts,   \* manifestRows: the row count of each finished view
          manifest, \* EXPORT_VISIBLE_VIEWS_MANIFEST.csv, <<>> if absent
          stop,     \* gShuttingDown
          pc        \* "scan", or how the export ended

vars == <<request, todo, files, pending, counts, manifest, stop, pc>>

Request == [kind : ExportKind, search : BOOLEAN, filter : BOOLEAN, page : Page]
Rows(v) == DOMAIN HasText[v]      \* row numbers, in the order of ORDER BY

TypeOK == /\ request \in Request
          /\ todo \in SUBSET View
          /\ DOMAIN files \subseteq View \ todo
          /\ \A v \in DOMAIN files : files[v] \in Seq(Rows(v))
          /\ pending \in Seq(UNION {Rows(v) : v \in View})
          /\ DOMAIN counts \subseteq DOMAIN files
          /\ manifest \in {<<>>, counts}
          /\ stop \in BOOLEAN
          /\ pc \in {"open", "scan", "ok", "failed"}

\* exportVisibleViews takes every view, the others the selected one.
Init == /\ request \in Request
        /\ IF request.kind = "visible" THEN todo = View
           ELSE \E v \in View : todo = {v}
        /\ files = <<>> /\ pending = <<>> /\ counts = <<>> /\ manifest = <<>>
        /\ stop = FALSE
        /\ pc = "open"

----------------------------------------------------------------------------
(* The query.                                                              *)

\* The column filter is for one view only.
Filtering == request.filter /\ request.kind # "visible"

\* buildWhere: the placeholders, each with the column it is compared with.
Placeholders(v) ==
  (IF request.search THEN [i \in 1..Columns[v] |-> i] ELSE <<>>)
    \o (IF Filtering THEN <<0>> ELSE <<>>)

\* Faulty: the search text is bound once, whatever the number of columns.
BoundOnce(v) ==
  IF request.kind = "visible" THEN <<>>
  ELSE (IF request.search THEN <<"search">> ELSE <<>>)
         \o (IF Filtering THEN <<"filter">> ELSE <<>>)

\* bindViewSearch; exportVisibleViews, which goes through writeSqlCsv, binds nothing.
Bound(v) ==
  IF request.kind = "visible" THEN <<>>
  ELSE (IF request.search THEN [i \in 1..Columns[v] |-> "search"] ELSE <<>>)
         \o (IF Filtering THEN <<"filter">> ELSE <<>>)

\* Placeholder i is bound to the text its column is meant to be compared with,
\* and the column of row r contains it.
Like(v, r, i) == /\ i <= Len(Bound(v))
                 /\ Bound(v)[i] = IF Placeholders(v)[i] = 0 THEN "filter" ELSE "search"
                 /\ HasText[v][r][Placeholders(v)[i]]

\* WHERE (column 1 LIKE ? OR column 2 LIKE ? ...) AND filter column LIKE ?
Where(v, r) ==
  LET searched == {i \in DOMAIN Placeholders(v) : Placeholders(v)[i] # 0}
      filtered == DOMAIN Placeholders(v) \ searched
  IN /\ searched # {} => \E i \in searched : Like(v, r, i)
     /\ \A i \in filtered : Like(v, r, i)

FirstRow == request.page * PageSize

\* The rows of the statement: LIMIT and OFFSET for the current page.
Selected(v) ==
  LET all == Ascending({r \in Rows(v) : Where(v, r)})
  IN IF request.kind # "page" THEN all
     ELSE SubSeq(all, FirstRow + 1,
                 Min({FirstRow + PageSize, Len(all)}))

----------------------------------------------------------------------------
(* The export thread.                                                      *)

\* The file is created and the statement started.
OpenFile(v) == /\ pc = "open" /\ v \in todo
               /\ request.kind = "visible" => ~stop
               /\ files' = [w \in DOMAIN files \cup {v} |->
                              IF w = v THEN <<>> ELSE files[w]]
               /\ pending' = Selected(v)
               /\ todo' = todo \ {v}
               /\ pc' = "scan"
               /\ UNCHANGED <<request, counts, manifest, stop>>

\* The view whose statement is being stepped over.
Scanned == CHOOSE v \in DOMAIN files : v \notin DOMAIN counts

WriteRow == /\ pc = "scan" /\ ~stop /\ pending # <<>>
            /\ files' = [files EXCEPT ![Scanned] = Append(@, Head(pending))]
            /\ pending' = Tail(pending)
            /\ UNCHANGED <<request, todo, counts, manifest, stop, pc>>

\* The statement is done; after the last view the manifest is written.
EndFile == /\ pc = "scan" /\ ~stop /\ pending = <<>>
           /\ counts' = [v \in DOMAIN files |-> Len(files[v])]
           /\ IF todo # {} THEN pc' = "open" /\ UNCHANGED manifest
              ELSE /\ pc' = "ok"
                   /\ manifest' = IF request.kind = "visible" THEN counts' ELSE <<>>
           /\ UNCHANGED <<request, todo, files, pending, stop>>

\* shouldCancel is asked before each row, and before each visible view.
Cancel == /\ stop
          /\ pc = "scan" \/ (pc = "open" /\ request.kind = "visible")
          /\ pc' = "failed"
          /\ UNCHANGED <<request, todo, files, pending, counts, manifest, stop>>

\* The window is closed.
Close == /\ ~stop
         /\ stop' = TRUE
         /\ UNCHANGED <<request, todo, files, pending, counts, manifest, pc>>

Next == (\E v \in View : OpenFile(v)) \/ WriteRow \/ EndFile \/ Cancel \/ Close

Spec == Init /\ [][Next]_vars

----------------------------------------------------------------------------
(* Properties.                                                             *)

\* The rows of view v the investigator asked for: some search column has the
\* search text (a view without search columns is not searched), and the filter
\* column the filter text.
Wanted(v) ==
  {r \in Rows(v) :
     /\ request.search /\ Columns[v] > 0 => \E i \in 1..Columns[v] : HasText[v][r][i]
     /\ Filtering => HasText[v][r][0]}

\* Position of row r among the rows asked for, from 0.
Position(v, r) == Cardinality({s \in Wanted(v) : s < r})

OnPage(v, r) == request.kind = "page" =>
                  Position(v, r) \div PageSize = request.page

\* A finished export of view v has exactly the rows asked for, in order.
Faithful(v) == /\ ToSet(files[v]) = {r \in Wanted(v) : OnPage(v, r)}
               /\ \A i, j \in DOMAIN files[v] : i < j => files[v][i] < files[v][j]

\* The manifest appears only when every visible view is complete, and says how
\* many rows each file has.
ManifestComplete ==
  manifest # <<>> =>
    /\ DOMAIN manifest = View
    /\ \A v \in View : manifest[v] = Len(files[v])

\* The current page, a filtered view, and the visible views when nothing is
\* searched for, are exported as the panel shows them, and the manifest of the
\* visible views tells the truth.
ExportsWhatIsShown ==
  /\ pc = "ok" /\ (request.kind = "visible" => ~request.search)
       => \A v \in DOMAIN files : Faithful(v)
  /\ ManifestComplete

\* "Active search text will be applied to each view."
SearchApplied ==
  pc = "ok" /\ request.kind = "visible" => \A v \in DOMAIN files : Faithful(v)
=============================================================================
