----------------------------- MODULE IosAppParse -----------------------------
(***************************************************************************)
(* The records of an iPhone's application databases: IosAppDbParser reads  *)
(* every extracted database, table by table, inside one transaction, and   *)
(* promotes the dated records to the timeline and to the usage evidence;   *)
(* enrichment clears both, so runApplication promotes a second time, then  *)
(* without a transaction.                                                  *)
(*                                                                         *)
(* A table's rows are numbered in the order of their rowids, those below   *)
(* zero first.  A row's kind says what its text or its stream makes of it; *)
(* the text itself, names of columns and the formatting are left out.      *)
(***************************************************************************)
EXTENDS Ascending

CONSTANTS Devices,     \* the sequences of databases there may be
          MaxTables,   \* tables read of one database (250)
          MaxSpecial,  \* rows a special parser reads of a table (100000)
          PageRows,    \* rows the generic reader asks for at a time (50000)
          Faults       \* what may go wrong

VARIABLES device,      \* the extracted databases
          stage,       \* where the run is
          at,          \* the database and the table being read
          reader,      \* the query open on the table
          txn,         \* "none", "open", or "lost": rolled back by the engine
          kept,        \* what is committed in the case database
          draft,       \* what the open transaction sees
          stuck,       \* insert statements left unreset by an exception
          warned,      \* tables whose parsing ended in a warning
          cut,         \* tables whose rows could not be read to the end
          told         \* the last word on the import and on the promotion

vars == <<device, stage, at, reader, txn, kept, draft, stuck, warned, cut, told>>

Kinds    == {"plain", "deleted", "intent", "device", "skipped"}
Empty    == [tables |-> {}, flagged |-> {}, records |-> <<>>, status |-> <<>>,
             timeline |-> <<>>, usage |-> <<>>]
NoReader == [how |-> "none", todo |-> <<>>, taken |-> 0, last |-> 0]

(* A row: its kind, whether its rowid is below zero, whether it carries a  *)
(* date, and how many attachments it is joined with.                       *)
Row         == [kind : Kinds, negative : BOOLEAN, dated : BOOLEAN, joined : 0..2]
AppTable    == [family : STRING, name : STRING, rows : Seq(Row), rowid : BOOLEAN]
AppDatabase == [file : {"missing", "unopened", "noMaster", "ok"}, tables : Seq(AppTable)]

ParseAssumption == /\ MaxTables \in Nat \ {0} /\ MaxSpecial \in Nat \ {0} /\ PageRows \in Nat \ {0}
                   /\ Devices \subseteq Seq(AppDatabase)
                   /\ Faults \subseteq {"insert", "engine", "read", "promote", "stop"}

----------------------------------------------------------------------------
(* What a table is taken for, by the application and the table's name.     *)
Categories ==
  {<<"knowledgec", "zobject", "KNOWLEDGEC_EVENTS">>, <<"knowledgec", "zstream", "KNOWLEDGEC_EVENTS">>,
   <<"knowledgec", "zstructuredmetadata", "KNOWLEDGEC_METADATA">>,
   <<"knowledgec", "zinteractions", "COREDUET_INTERACTIONS">>, <<"knowledgec", "zcontacts", "COREDUET_CONTACTS">>,
   <<"messages", "message", "MESSAGE_RECORDS">>, <<"messages", "attachment", "MESSAGE_ATTACHMENTS">>,
   <<"messages", "handle", "MESSAGE_PARTICIPANTS">>, <<"messages", "chat", "MESSAGE_PARTICIPANTS">>,
   <<"messages", "recoverable", "MESSAGE_DELETED_OR_RECOVERABLE">>,
   <<"whatsapp", "zwamessage", "MESSAGE_RECORDS">>, <<"whatsapp", "zdated", "MESSAGE_RECORDS">>,
   <<"whatsapp", "zwachatsession", "CHAT_RECORDS">>,
   <<"contacts", "abperson", "CONTACT_RECORDS">>, <<"notes", "znote", "NOTES_RECORDS">>}

iosAppDbRecordCategory(t) ==
  LET named == {c \in Categories : c[1] = t.family /\ c[2] = t.name}
  IN  IF named = {} THEN "SUPPORT_TABLE" ELSE (CHOOSE c \in named : TRUE)[3]

isTargetRecordCategory(category) ==
  category \in {"MESSAGE_RECORDS", "MESSAGE_ATTACHMENTS", "MESSAGE_PARTICIPANTS",
                "MESSAGE_DELETED_OR_RECOVERABLE", "CALL_RECORDS", "CALL_PARTICIPANTS", "WEB_HISTORY",
                "WEB_VISITS", "WEB_CACHE", "WEB_DOWNLOADS", "MAIL_RECORDS", "CALENDAR_RECORDS",
                "CONTACT_RECORDS", "CHAT_RECORDS", "KNOWLEDGEC_EVENTS", "COREDUET_INTERACTIONS",
                "NOTES_RECORDS", "LOCATION_RECORDS"}

(* The parser a table is given to first.                                   *)
parserFamily(t) ==
  LET category == iosAppDbRecordCategory(t)
  IN  CASE t.family = "whatsapp" /\ category = "MESSAGE_RECORDS" -> "whatsapp"
        [] t.family = "messages" /\ (\/ t.name \in {"message", "attachment", "handle", "chat"}
                                     \/ category = "MESSAGE_DELETED_OR_RECOVERABLE") -> "messages"
        [] category = "KNOWLEDGEC_EVENTS" -> "knowledgec"
        [] OTHER -> "generic"

(* Only rows of some streams are activity worth recording.                 *)
Skips(t, i) == iosAppDbRecordCategory(t) = "KNOWLEDGEC_EVENTS" /\ t.rows[i].kind = "skipped"

(* A message is read once for each attachment it is joined with.           *)
Copies(t, i) == IF t.family = "messages" /\ t.name = "message" /\ t.rows[i].joined > 1
                THEN t.rows[i].joined ELSE 1

(* The rows a special parser's query yields: those of the one table it is  *)
(* written for, which must have rowids unless the parser can do without.   *)
(* A joined row has a place for each of its copies.                        *)
places(t, rows) == Ascending(UNION {{3 * i + c : c \in 1..Copies(t, i)} : i \in rows})
Joined(t, rows) == [k \in DOMAIN places(t, rows) |-> places(t, rows)[k] \div 3]
specialQuery(t) ==
  CASE parserFamily(t) = "whatsapp" /\ t.name = "zwamessage" -> Joined(t, DOMAIN t.rows)
    [] parserFamily(t) = "messages" /\ t.name # "recoverable" /\ t.rowid -> Joined(t, DOMAIN t.rows)
    [] parserFamily(t) = "knowledgec" /\ t.name = "zobject" /\ t.rowid ->
         Joined(t, {i \in DOMAIN t.rows : ~Skips(t, i)})
    [] OTHER -> <<>>

FirstOf(s, n)     == SubSeq(s, 1, IF Len(s) < n THEN Len(s) ELSE n)
readable(t, from) == {i \in DOMAIN t.rows : i >= from /\ (t.rowid => ~t.rows[i].negative)}

\* Faulty: the next page begins with the last row of this one.
pageQueryFromLast(t, last) == FirstOf(Ascending(readable(t, last)), PageRows)

(* The next page of the generic reader: the rows after the last one, those *)
(* with a rowid from zero on; without rowids, by offset.                   *)
pageQuery(t, last) == FirstOf(Ascending(readable(t, last + 1)), PageRows)

(* What a row becomes: its category in the end, and its date if it has one.*)
recordOf(where, t, i, how) ==
  LET category == iosAppDbRecordCategory(t)
      kind == t.rows[i].kind
  IN [at |-> where, row |-> i,
      category |-> CASE category = "KNOWLEDGEC_EVENTS" /\ kind = "device" -> "KNOWLEDGEC_DEVICE_OR_APP_ACTIVITY"
                     [] category = "KNOWLEDGEC_EVENTS" /\ kind = "intent" /\ how = "special" ->
                          "KNOWLEDGEC_COMMUNICATION_INTENT"
                     [] category \in {"MESSAGE_RECORDS", "CHAT_RECORDS", "MAIL_RECORDS"} /\ kind = "deleted" ->
                          "MESSAGE_DELETED_OR_RECOVERABLE"
                     [] OTHER -> category,
      dated |-> t.rows[i].dated /\ t.name # "handle"]

(* Dated records are events; some of them, by category, are usage too, and *)
(* the second promotion takes more of them than the first.                 *)
Items(list)       == {list[n] : n \in DOMAIN list}
eventsOf(records) == Kept(records, {r \in Items(records) : r.dated})
usageCategories(again) ==
  {"KNOWLEDGEC_EVENTS", "KNOWLEDGEC_COMMUNICATION_INTENT", "WEB_HISTORY", "WEB_VISITS", "WEB_DOWNLOADS",
   "CALL_RECORDS", "MESSAGE_RECORDS", "CHAT_RECORDS", "MAIL_RECORDS", "NOTES_RECORDS", "LOCATION_RECORDS"}
  \cup (IF again THEN {"CALL_PARTICIPANTS", "MESSAGE_PARTICIPANTS", "CONTACT_RECORDS", "CALENDAR_RECORDS"} ELSE {})
usageOf(records, again) ==
  Kept(eventsOf(records), {r \in Items(eventsOf(records)) : r.category \in usageCategories(again)})

----------------------------------------------------------------------------
Current     == IF txn = "open" THEN draft ELSE kept
Write(new)  == IF txn = "open" THEN draft' = new /\ UNCHANGED kept
                               ELSE kept' = new /\ UNCHANGED draft
Database    == device[at[1]]
Table       == Database.tables[at[2]]
Here        == <<at[1], at[2]>>
Allowed(f)  == f \in Faults

(* A statement that fails leaves the transaction open, or the engine has   *)
(* rolled it back: what follows is then committed statement by statement.  *)
Fails == \/ Allowed("insert") /\ UNCHANGED <<txn, draft, kept>>
         \/ Allowed("engine") /\ txn = "open" /\ txn' = "lost" /\ draft' = Empty /\ UNCHANGED kept

Init == /\ device \in Devices /\ stage = "begin" /\ at = <<1, 0>> /\ reader = NoReader
        /\ txn = "none" /\ kept = Empty /\ draft = Empty
        /\ stuck = {} /\ warned = {} /\ cut = {}
        /\ told = [records |-> "none", promotion |-> "none"]

(* The transaction is opened, and what the source had is deleted in it.    *)
Begin == /\ stage = "begin"
         /\ stage' = "database" /\ txn' = "open" /\ draft' = kept
         /\ UNCHANGED <<device, at, reader, kept, stuck, warned, cut, told>>

(* A database that is gone, cannot be opened or cannot be listed is told   *)
(* so, and the next one is taken.                                          *)
SkipDatabase ==
  /\ stage = "database" /\ at[1] <= Len(device) /\ Database.file # "ok"
  /\ Write([Current EXCEPT !.status = Append(@, Database.file)])
  /\ at' = <<at[1] + 1, 0>>
  /\ UNCHANGED <<device, stage, reader, txn, stuck, warned, cut, told>>

(* Each table is counted and entered in the inventory.                     *)
NextTable ==
  /\ stage = "database" /\ at[1] <= Len(device) /\ Database.file = "ok"
  /\ at[2] < Len(Database.tables) /\ at[2] < MaxTables
  /\ at' = <<at[1], at[2] + 1>>
  /\ Write([Current EXCEPT !.tables = @ \cup {at'}])
  /\ stage' = IF Database.tables[at'[2]].rows = <<>> THEN "database" ELSE "flags"
  /\ UNCHANGED <<device, reader, txn, stuck, warned, cut, told>>

CloseDatabase ==
  /\ stage = "database" /\ at[1] <= Len(device) /\ Database.file = "ok"
  /\ at[2] = Len(Database.tables) \/ at[2] = MaxTables
  /\ Write([Current EXCEPT !.status = Append(@, at[2])])
  /\ at' = <<at[1] + 1, 0>>
  /\ UNCHANGED <<device, stage, reader, txn, stuck, warned, cut, told>>

(* A transaction that cannot be opened, an inventory row or a status that  *)
(* cannot be written ends the import: it is rolled back, and told so.      *)
Closed == IF txn = "lost" THEN "lost" ELSE "none"
InventoryFails ==
  /\ stage \in {"begin", "database"} /\ Allowed("insert")
  /\ txn' = Closed /\ draft' = Empty
  /\ stage' = "enrich" /\ told' = [told EXCEPT !.records = "warning"]
  /\ UNCHANGED <<device, at, reader, kept, stuck, warned, cut>>

(* The table is scanned for flags; what goes wrong there is told and       *)
(* passed over, but the statement stays as the exception left it.          *)
parseNext == IF isTargetRecordCategory(iosAppDbRecordCategory(Table)) THEN "parse" ELSE "database"
ScanFlags ==
  /\ stage = "flags" /\ "flags" \notin stuck
  /\ Write([Current EXCEPT !.flagged = @ \cup {Here}])
  /\ stage' = parseNext
  /\ UNCHANGED <<device, at, reader, txn, stuck, warned, cut, told>>
FlagsFail ==
  /\ stage = "flags"
  /\ \/ "flags" \in stuck /\ UNCHANGED <<txn, draft, kept>>
     \/ "flags" \notin stuck /\ Fails
  /\ stuck' = stuck \cup {"flags"} /\ stage' = parseNext
  /\ UNCHANGED <<device, at, reader, warned, cut, told>>

(* parseTable: the special parser first, and the generic reader when that  *)
(* yields nothing.                                                         *)
OpenReader ==
  /\ stage = "parse" /\ reader.how = "none"
  /\ LET special == FirstOf(specialQuery(Table), MaxSpecial)
     IN  reader' = IF special # <<>> THEN [NoReader EXCEPT !.how = "special", !.todo = special]
                                     ELSE [NoReader EXCEPT !.how = "generic", !.todo = pageQuery(Table, 0)]
  /\ UNCHANGED <<device, stage, at, txn, kept, draft, stuck, warned, cut, told>>

(* One row is read; a row of no interest does not count for the page.      *)
next == Head(reader.todo)
SkipRow ==
  /\ stage = "parse" /\ reader.todo # <<>> /\ Skips(Table, next)
  /\ reader' = [reader EXCEPT !.todo = Tail(@), !.last = next]
  /\ UNCHANGED <<device, stage, at, txn, kept, draft, stuck, warned, cut, told>>

RecordRow ==
  /\ stage = "parse" /\ reader.todo # <<>> /\ ~Skips(Table, next) /\ "records" \notin stuck
  /\ Write([Current EXCEPT !.records = Append(@, recordOf(Here, Table, next, reader.how))])
  /\ reader' = [reader EXCEPT !.todo = Tail(@), !.last = next, !.taken = @ + 1]
  /\ UNCHANGED <<device, stage, at, txn, stuck, warned, cut, told>>

(* A row that cannot be inserted ends its table with a warning, and leaves *)
(* the statement so that no later row can be bound to it.                  *)
RowFails ==
  /\ stage = "parse" /\ reader.todo # <<>> /\ ~Skips(Table, next)
  /\ \/ "records" \in stuck /\ UNCHANGED <<txn, draft, kept>>
     \/ "records" \notin stuck /\ Fails
  /\ stuck' = stuck \cup {"records"} /\ warned' = warned \cup {Here}
  /\ stage' = "database" /\ reader' = NoReader
  /\ UNCHANGED <<device, at, cut, told>>

(* A table that cannot be read on is taken to end there.  When that leaves *)
(* a special parser with nothing, the generic reader starts over.          *)
ReadFails ==
  /\ stage = "parse" /\ reader.todo # <<>> /\ Allowed("read") /\ Here \notin cut
  /\ cut' = cut \cup {Here}
  /\ reader' = [reader EXCEPT !.todo = <<>>]
  /\ UNCHANGED <<device, stage, at, txn, kept, draft, stuck, warned, told>>

(* A page with fewer records than it asked for is the last one.            *)
EndPage ==
  /\ stage = "parse" /\ reader.how # "none" /\ reader.todo = <<>>
  /\ IF reader.how = "special" /\ reader.taken = 0
       THEN stage' = stage /\ reader' = [NoReader EXCEPT !.how = "generic", !.todo = pageQuery(Table, 0)]
     ELSE IF reader.how = "generic" /\ reader.taken = PageRows
       THEN stage' = stage /\ reader' = [reader EXCEPT !.todo = pageQuery(Table, reader.last), !.taken = 0]
       ELSE stage' = "database" /\ reader' = NoReader
  /\ UNCHANGED <<device, at, txn, kept, draft, stuck, warned, cut, told>>

----------------------------------------------------------------------------
(* The first promotion and the commit.                                     *)
promoted(state, again) == [state EXCEPT !.timeline = eventsOf(state.records), !.usage = usageOf(state.records, again)]

Commit ==
  /\ stage = "database" /\ at[1] > Len(device)
  /\ stage' = "enrich"
  /\ \/ txn = "open" /\ kept' = promoted(draft, FALSE) /\ told' = [records |-> "complete", promotion |-> "first"]
     \/ /\ txn = "open" /\ Allowed("promote") /\ kept' = kept
        /\ told' \in {[told EXCEPT !.records = "warning"], [records |-> "warning", promotion |-> "first"]}
     \/ txn = "lost" /\ kept' = promoted(kept, FALSE) /\ told' = [records |-> "warning", promotion |-> "first"]
     \/ /\ txn = "lost" /\ Allowed("promote") /\ told' = [told EXCEPT !.records = "warning"]
        /\ kept' \in {kept, [kept EXCEPT !.timeline = eventsOf(kept.records)]}
  /\ txn' = Closed /\ draft' = Empty
  /\ UNCHANGED <<device, at, reader, stuck, warned, cut>>

(* Enrichment clears the timeline and the usage of the source, and the     *)
(* records are promoted again, one statement after the other.              *)
untouched == <<device, at, reader, txn, draft, stuck, warned, cut>>
Enrich == /\ stage = "enrich"
          /\ kept' = [kept EXCEPT !.timeline = <<>>, !.usage = <<>>]
          /\ stage' = "clearTimeline" /\ told' = [told EXCEPT !.promotion = "none"]
          /\ UNCHANGED untouched
ClearTimeline == /\ stage = "clearTimeline" /\ stage' = "clearUsage"
                 /\ kept' = [kept EXCEPT !.timeline = <<>>]
                 /\ UNCHANGED <<told, untouched>>
ClearUsage == /\ stage = "clearUsage" /\ stage' = "addTimeline"
              /\ kept' = [kept EXCEPT !.usage = <<>>]
              /\ UNCHANGED <<told, untouched>>
AddTimeline == /\ stage = "addTimeline" /\ stage' = "addUsage"
               /\ kept' = [kept EXCEPT !.timeline = @ \o eventsOf(kept.records)]
               /\ UNCHANGED <<told, untouched>>
\* Faulty: with the categories of the first promotion.
AddUsageAsFirst == /\ stage = "addUsage" /\ stage' = "ended"
                   /\ kept' = [kept EXCEPT !.usage = @ \o usageOf(kept.records, FALSE)]
                   /\ told' = [told EXCEPT !.promotion = "second"]
                   /\ UNCHANGED untouched
AddUsage == /\ stage = "addUsage" /\ stage' = "ended"
            /\ kept' = [kept EXCEPT !.usage = @ \o usageOf(kept.records, TRUE)]
            /\ told' = [told EXCEPT !.promotion = "second"]
            /\ UNCHANGED untouched
PromotionFails == /\ stage \in {"clearTimeline", "clearUsage", "addTimeline", "addUsage"} /\ Allowed("promote")
                  /\ stage' = "ended" /\ told' = [told EXCEPT !.promotion = "warning"]
                  /\ UNCHANGED <<kept, untouched>>

(* The run is cancelled, fails or is killed: what is not committed is gone.*)
Stop == /\ stage # "ended" /\ Allowed("stop")
        /\ stage' = "ended" /\ draft' = Empty /\ txn' = Closed
        /\ UNCHANGED <<device, at, reader, kept, stuck, warned, cut, told>>

Done == stage = "ended" /\ UNCHANGED vars

Next == \/ Begin \/ SkipDatabase \/ NextTable \/ CloseDatabase \/ InventoryFails
        \/ ScanFlags \/ FlagsFail \/ OpenReader \/ SkipRow \/ RecordRow \/ RowFails \/ ReadFails \/ EndPage
        \/ Commit \/ Enrich \/ ClearTimeline \/ ClearUsage \/ AddTimeline \/ AddUsage
        \/ PromotionFails \/ Stop \/ Done

Spec == Init /\ [][Next]_vars

----------------------------------------------------------------------------
(* What the case says of an application's rows.                            *)
Count(records, d, t, i) == Cardinality({n \in DOMAIN records : records[n].at = <<d, t>> /\ records[n].row = i})
TablesOf(d) == IF device[d].file = "ok" THEN 1..Len(device[d].tables) ELSE {}

(* The tables whose parser reads every row: a special parser is held to    *)
(* its limit, the generic reader passes over rowids below zero, and stops  *)
(* at the first page on which it skipped a row.                            *)
ReadWhole(t) ==
  LET special == specialQuery(t)
      rows    == DOMAIN t.rows
  IN IF special # <<>> THEN Len(special) <= MaxSpecial
     ELSE /\ t.rowid => \A i \in rows : ~t.rows[i].negative
          /\ (\E i \in rows : Skips(t, i)) => Len(t.rows) <= PageRows

RowsOnce ==
  \A d \in DOMAIN device : \A t \in TablesOf(d) : \A i \in DOMAIN device[d].tables[t].rows :
    LET table == device[d].tables[t]
        count == Count(kept.records, d, t, i)
    IN  /\ count <= Copies(table, i)
        /\ /\ told.records = "complete" /\ t <= MaxTables
           /\ isTargetRecordCategory(iosAppDbRecordCategory(table)) /\ ~Skips(table, i)
           /\ <<d, t>> \notin warned \cup cut /\ ReadWhole(table)
           => count = IF specialQuery(table) # <<>> THEN Copies(table, i) ELSE 1

StatusTells ==
  told.records = "complete" =>
    \A d \in DOMAIN device :
      /\ kept.status[d] = IF device[d].file = "ok" THEN Cardinality({e \in kept.tables : e[1] = d}) ELSE device[d].file
      /\ \A t \in TablesOf(d) : t <= MaxTables <=> <<d, t>> \in kept.tables

NothingHalfKept ==
  told.records = "warning" /\ txn # "lost" => kept = Empty

(* A committed import has every row of every table it read exactly once,   *)
(* or once for each attachment of a message, unless the table is warned of *)
(* or could not be read to the end; its statuses tell the tables it has;   *)
(* and an import that is warned of has left nothing, unless the engine     *)
(* took the transaction away.                                              *)
RowsAccounted == RowsOnce /\ StatusTells /\ NothingHalfKept

(* However promotion, enrichment and promotion again are cut short, an     *)
(* event of an application is that of a committed dated record and is told *)
(* once, what is told as usage is told as an event, and a promotion told   *)
(* complete has left none out.                                             *)
Within(events, records) == \A e \in DOMAIN events : Cardinality({n \in DOMAIN events : events[n] = events[e]})
                                                     <= Cardinality({n \in DOMAIN records : records[n] = events[e]})
EventsTellRecords ==
  /\ Within(kept.timeline, eventsOf(kept.records))
  /\ Within(kept.usage, kept.timeline)
  /\ told.promotion \in {"first", "second"} =>
       kept = promoted(kept, told.promotion = "second")
===============================================================================
