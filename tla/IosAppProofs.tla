----------------------------- MODULE IosAppProofs -----------------------------
(***************************************************************************)
(* Proofs about the applications' side of MCIngestData, for any databases, *)
(* limits and faults: what a committed import has of every row, what its   *)
(* statuses tell, and what becomes of the events.                          *)
(***************************************************************************)
EXTENDS MCIngestData, AscendingProofs

----------------------------------------------------------------------------
(* The applications.  What their records, and a case, are made of.         *)
Category == {c[3] : c \in A!Categories}
            \cup {"SUPPORT_TABLE", "KNOWLEDGEC_DEVICE_OR_APP_ACTIVITY", "KNOWLEDGEC_COMMUNICATION_INTENT",
                  "MESSAGE_DELETED_OR_RECOVERABLE"}
TableAt   == (Nat \ {0}) \X Nat
AppRecord == [at : TableAt, row : Nat, category : Category, dated : BOOLEAN]
CaseState == [tables : SUBSET TableAt, flagged : SUBSET TableAt, records : Seq(AppRecord),
              status : Seq({"missing", "unopened", "noMaster"} \cup Nat),
              timeline : Seq(AppRecord), usage : Seq(AppRecord)]
AppReader == [how : {"none", "special", "generic"}, todo : Seq(Nat), taken : Nat, last : Nat]

Importing == {"begin", "database", "flags", "parse"}
Promoting == {"clearTimeline", "clearUsage", "addTimeline", "addUsage"}
AppTypes ==
  /\ device \in Devices /\ txn \in {"none", "open", "lost"}
  /\ pc \in Importing \cup Promoting \cup {"enrich", "ended"}
  /\ kept \in CaseState /\ draft \in CaseState
  /\ reader \in AppReader
  /\ told \in [records : {"none", "warning", "complete"}, promotion : {"none", "first", "second", "warning"}]

\* Where the parser is: at a table there is, of a database it can read.
AtInv ==
  /\ at \in TableAt /\ at[1] <= Len(device) + 1
  /\ pc = "begin" => at = <<1, 0>>
  /\ pc \in {"flags", "parse"} => at[1] <= Len(device) /\ A!Database.file = "ok" /\ at[2] > 0
  /\ at[2] > 0 => at[1] <= Len(device) /\ A!Database.file = "ok" /\ at[2] <= Len(A!Database.tables) /\ at[2] <= MaxTables
  /\ told.records = "complete" => at[1] > Len(device)
  /\ pc = "parse" => A!isTargetRecordCategory(A!iosAppDbRecordCategory(A!Table))

\* The reader is open on a table only while that is parsed, and reads its rows.
ReaderInv ==
  /\ pc \in {"begin", "database", "flags"} \/ (pc = "parse" /\ reader.how = "none") => reader = A!NoReader
  /\ pc = "parse" => /\ \A n \in DOMAIN reader.todo : reader.todo[n] \in DOMAIN A!Table.rows
                     /\ reader.last <= Len(A!Table.rows)

\* Nothing is kept before the commit, unless the engine has taken the transaction
\* away.
CommitInv ==
  /\ pc = "begin" => txn = "none" /\ kept = A!Empty
  /\ pc \in {"database", "flags", "parse"} => txn # "none"
  /\ txn = "open" => pc \in {"database", "flags", "parse"} /\ kept = A!Empty
  /\ txn # "open" => draft = A!Empty
  /\ pc \in Importing => told = [records |-> "none", promotion |-> "none"]
  /\ A!NothingHalfKept

\* What is told of the events, between the statements of the promotions.
EventsInv ==
  /\ draft.timeline = <<>> /\ draft.usage = <<>>
  /\ pc \in Importing \cup {"clearTimeline", "clearUsage", "addTimeline"} => kept.timeline = <<>> /\ kept.usage = <<>>
  /\ pc = "addUsage" => kept.timeline = A!eventsOf(kept.records) /\ kept.usage = <<>>
  /\ pc \in Promoting => told.promotion = "none"
  /\ A!EventsTellRecords

\* The import as it would be committed, or was: who is told of a table is behind it.
AllKept    == txn = "open" \/ told.records = "complete"
PastTable(d, t) == d < at[1] \/ (d = at[1] /\ (t < at[2] \/ (t = at[2] /\ pc \notin {"flags", "parse"})))
StatusInv ==
  AllKept =>
    /\ Len(A!Current.status) = at[1] - 1
    /\ \A d \in 1..Len(device) : d < at[1] =>
         A!Current.status[d] = IF device[d].file # "ok" THEN device[d].file
                               ELSE IF Len(device[d].tables) <= MaxTables THEN Len(device[d].tables) ELSE MaxTables
    /\ A!Current.tables = {e \in TableAt : /\ e[1] <= Len(device) /\ e[2] \in A!TablesOf(e[1]) /\ e[2] <= MaxTables
                                           /\ (e[1] < at[1] \/ (e[1] = at[1] /\ e[2] <= at[2]))}

\* How often a row was recorded, and how often it is still ahead of the reader.
Of(e, i)        == {r \in AppRecord : r.at = e /\ r.row = i}
Times(e, i)     == Cardinality(Hits(A!Current.records, Of(e, i)))
Waiting(i)      == Cardinality(Hits(reader.todo, {i}))
TheTable(e)     == device[e[1]].tables[e[2]]
IsRow(e, i)     == e[1] \in DOMAIN device /\ e[2] \in A!TablesOf(e[1]) /\ i \in DOMAIN TheTable(e).rows
Reading         == pc = "parse" /\ reader.how # "none"

\* No row of a table ahead is recorded, and none more often than it should be.
OnceInv ==
  /\ \A n \in DOMAIN A!Current.records :
       LET e == A!Current.records[n].at IN PastTable(e[1], e[2]) \/ (e = A!Here /\ Reading)
  /\ \A e \in TableAt, i \in Nat : IsRow(e, i) => Times(e, i) <= A!Copies(TheTable(e), i)

\* Every row of a table behind is recorded as often as it should be.
Trusted(e) == /\ e \notin warned \cup cut /\ A!ReadWhole(TheTable(e))
              /\ A!isTargetRecordCategory(A!iosAppDbRecordCategory(TheTable(e)))
AllKeptInv ==
  AllKept => \A e \in TableAt, i \in Nat :
    IsRow(e, i) /\ PastTable(e[1], e[2]) /\ e[2] <= MaxTables /\ Trusted(e) /\ ~A!Skips(TheTable(e), i) =>
      Times(e, i) = IF A!specialQuery(TheTable(e)) # <<>> THEN A!Copies(TheTable(e), i) ELSE 1

\* A special parser has the rest of its rows ahead.
SpecialInv ==
  pc = "parse" /\ reader.how = "special" =>
    /\ A!specialQuery(A!Table) # <<>>
    /\ \A n \in DOMAIN reader.todo : ~A!Skips(A!Table, reader.todo[n])
    /\ \A i \in DOMAIN A!Table.rows : Times(A!Here, i) + Waiting(i) <= A!Copies(A!Table, i)
    /\ AllKept /\ A!Here \notin warned \cup cut /\ Len(A!specialQuery(A!Table)) <= MaxSpecial =>
         \A i \in DOMAIN A!Table.rows : ~A!Skips(A!Table, i) => Times(A!Here, i) + Waiting(i) = A!Copies(A!Table, i)
    /\ reader.taken = 0 => \A i \in DOMAIN A!Table.rows : Times(A!Here, i) = 0
    /\ A!Here \notin cut => reader.taken > 0 \/ reader.todo # <<>>

\* The generic reader is past a row for good, and has the next ones ahead: up to the
\* last, or to the end of a page of which it will have recorded each.
GenericInv ==
  pc = "parse" /\ reader.how = "generic" =>
    /\ \A n \in DOMAIN reader.todo : reader.todo[n] > reader.last
    /\ \A m, n \in DOMAIN reader.todo : m < n => reader.todo[m] < reader.todo[n]
    /\ \A i \in DOMAIN A!Table.rows : Times(A!Here, i) <= IF i <= reader.last THEN 1 ELSE 0
    /\ A!Here \notin cut => A!specialQuery(A!Table) = <<>>
    /\ AllKept /\ Trusted(A!Here) =>
         /\ \A i \in DOMAIN A!Table.rows : i <= reader.last /\ ~A!Skips(A!Table, i) => Times(A!Here, i) = 1
         /\ \A n \in DOMAIN reader.todo : reader.todo[n] = reader.last + n
         /\ \/ reader.last + Len(reader.todo) = Len(A!Table.rows)
            \/ /\ reader.taken + Len(reader.todo) = PageRows
               /\ \A i \in DOMAIN A!Table.rows : ~A!Skips(A!Table, i)

\* The instance counts, sorts and keeps as this module does.
LEMMA SameSequences ==
  /\ \A R : A!Cardinality(R) = Cardinality(R)
  /\ \A R : A!Ascending(R) = Ascending(R)
  /\ \A list, R : A!Kept(list, R) = Kept(list, R)
<1>0. \A R : A!Cardinality(R) = Cardinality(R)
  BY DEF A!Cardinality, Cardinality
<1>1. \A R, n : A!Rank(R, n) = Rank(R, n)
  BY <1>0 DEF A!Rank, Rank
<1>2. \A R : A!Ascending(R) = Ascending(R)
  BY <1>0, <1>1 DEF A!Ascending, Ascending
<1>3. \A list, R : A!Kept(list, R) = Kept(list, R)
  BY <1>2 DEF A!Kept, Kept
<1> QED BY <1>0, <1>2, <1>3

\* A row is read once or twice.
LEMMA CopiesRange ==
  ASSUME NEW t \in A!AppTable, NEW i \in DOMAIN t.rows
  PROVE  A!Copies(t, i) \in {1, 2}
<1>1. t.rows[i] \in A!Row
  BY DEF A!AppTable
<1> QED BY <1>1 DEF A!Copies, A!Row

\* A row is joined once for each of its copies, and the others are not.
LEMMA JoinedCopies ==
  ASSUME NEW t \in A!AppTable, NEW R \in SUBSET DOMAIN t.rows
  PROVE  /\ A!Joined(t, R) \in Seq(R)
         /\ \A i \in R : Cardinality(Hits(A!Joined(t, R), {i})) = A!Copies(t, i)
         /\ \A i \in (DOMAIN t.rows) \ R : Cardinality(Hits(A!Joined(t, R), {i})) = 0
<1> DEFINE of(i) == {3 * i + c : c \in 1..A!Copies(t, i)}
           all == UNION {of(i) : i \in R}
           joined == A!Joined(t, R)
<1>1. Len(t.rows) \in Nat /\ DOMAIN t.rows = 1..Len(t.rows) /\ \A i \in R : i \in 1..Len(t.rows)
  BY DEF A!AppTable
<1>2. \A i \in R : A!Copies(t, i) \in {1, 2}
  BY CopiesRange
<1>3. \A i \in R : \A p \in of(i) : p \in Nat /\ p \div 3 = i /\ p \in 1..3 * Len(t.rows) + 2
  <2> SUFFICES ASSUME NEW i \in R, NEW c \in 1..A!Copies(t, i)
               PROVE  3 * i + c \in Nat /\ (3 * i + c) \div 3 = i /\ 3 * i + c \in 1..3 * Len(t.rows) + 2
    OBVIOUS
  <2>1. i \in 1..Len(t.rows) /\ c \in {1, 2}
    BY <1>1, <1>2
  <2> QED BY <1>1, <2>1
<1> HIDE DEF of
<1>4. all \in SUBSET Int /\ all \in SUBSET (1..3 * Len(t.rows) + 2)
  BY <1>3
<1>5. \A p \in all : p \div 3 \in R /\ p \in of(p \div 3)
  BY <1>3
<1>6. IsFiniteSet(all) /\ Cardinality(all) \in Nat
  <2>1. IsFiniteSet(1..3 * Len(t.rows) + 2)
    BY <1>1, FS_Interval
  <2> HIDE DEF all
  <2> QED BY <1>4, <2>1, FS_Subset, FS_CardinalityType
<1>7. A!places(t, R) = Ascending(all)
  BY SameSequences DEF A!places, of
<1> HIDE DEF all
<1>8. /\ Ascending(all) \in Seq(all) /\ Len(Ascending(all)) = Cardinality(all)
      /\ \A k \in 1..Cardinality(all) : Ascending(all)[k] \in all /\ Rank(all, Ascending(all)[k]) = k
      /\ \A p \in all : Rank(all, p) \in 1..Cardinality(all) /\ Ascending(all)[Rank(all, p)] = p
  BY <1>4, <1>6, AscendingRanks
<1>9. joined = [k \in 1..Cardinality(all) |-> Ascending(all)[k] \div 3]
  <2>1. DOMAIN Ascending(all) = 1..Cardinality(all)
    BY <1>6, <1>8
  <2> QED BY <1>7, <2>1 DEF A!Joined
<1> HIDE DEF joined
<1>10. joined \in Seq(R)
  <2>1. \A k \in 1..Cardinality(all) : joined[k] \in R
    BY <1>5, <1>8, <1>9
  <2>2. joined \in [1..Cardinality(all) -> R]
    BY <1>9, <2>1
  <2> QED BY <1>6, <2>2
<1>11. DOMAIN joined = 1..Cardinality(all) /\ \A k \in 1..Cardinality(all) : joined[k] = Ascending(all)[k] \div 3
  BY <1>9
<1>12. ASSUME NEW i \in R
       PROVE  Cardinality(Hits(joined, {i})) = A!Copies(t, i)
  <2> DEFINE rank == [p \in of(i) |-> Rank(all, p)]
  <2>1. of(i) \subseteq all
    BY DEF all
  <2>2. rank \in [of(i) -> Hits(joined, {i})]
    BY <1>3, <1>8, <1>11, <2>1 DEF Hits
  <2>3. \A p, q \in of(i) : rank[p] = rank[q] => p = q
    BY <1>8, <2>1
  <2>4. ASSUME NEW k \in Hits(joined, {i})
        PROVE  \E p \in of(i) : rank[p] = k
    <3>1. k \in 1..Cardinality(all) /\ joined[k] = i
      BY <1>11 DEF Hits
    <3>2. Ascending(all)[k] \in of(i) /\ Rank(all, Ascending(all)[k]) = k
      BY <1>5, <1>8, <1>11, <3>1
    <3> QED BY <3>2
  <2> HIDE DEF rank
  <2>5. rank \in Bijection(of(i), Hits(joined, {i}))
    BY <2>2, <2>3, <2>4 DEF Bijection, Injection, Surjection, IsInjective
  <2>6. IsFiniteSet(of(i))
    BY <1>6, <2>1, FS_Subset
  <2>7. Cardinality(of(i)) = A!Copies(t, i)
    <3>1. i \in Nat
      BY <1>1
    <3>2. CASE A!Copies(t, i) = 1
      <4>1. of(i) = {3 * i + 1}
        BY <3>1, <3>2 DEF of
      <4> QED BY <3>2, <4>1, FS_Singleton
    <3>3. CASE A!Copies(t, i) = 2
      <4>1. PICK x, y : x = 3 * i + 1 /\ y = 3 * i + 2
        OBVIOUS
      <4>2. of(i) = {x} \cup {y} /\ y \notin {x}
        BY <3>1, <3>3, <4>1 DEF of
      <4>3. IsFiniteSet({x}) /\ Cardinality({x}) = 1
        BY FS_Singleton
      <4>4. Cardinality({x} \cup {y}) = 1 + 1
        BY <4>2, <4>3, FS_AddElement
      <4> QED BY <3>3, <4>2, <4>4
    <3> QED BY <1>2, <3>2, <3>3
  <2> QED BY <2>5, <2>6, <2>7, FS_Bijection DEF ExistsBijection
<1>13. ASSUME NEW i \in (DOMAIN t.rows) \ R
       PROVE  Cardinality(Hits(joined, {i})) = 0
  <2>1. Hits(joined, {i}) = {}
    BY <1>10 DEF Hits
  <2> QED BY <2>1, FS_EmptySet
<1> QED BY <1>10, <1>12, <1>13 DEF joined

\* The first items of a sequence.
LEMMA FirstItems ==
  ASSUME NEW T, NEW list \in Seq(T), NEW n \in Nat
  PROVE  /\ A!FirstOf(list, n) \in Seq(T)
         /\ Len(A!FirstOf(list, n)) = (IF Len(list) < n THEN Len(list) ELSE n)
         /\ \A k \in 1..Len(A!FirstOf(list, n)) : k \in 1..Len(list) /\ A!FirstOf(list, n)[k] = list[k]
         /\ Len(list) <= n => A!FirstOf(list, n) = list
<1> DEFINE end == IF Len(list) < n THEN Len(list) ELSE n
<1>1. Len(list) \in Nat /\ end \in Nat /\ end <= Len(list)
  OBVIOUS
<1>2. A!FirstOf(list, n) = SubSeq(list, 1, end)
  BY DEF A!FirstOf
<1> DEFINE piece == SubSeq(list, 0 + 1, end)
<1>3. /\ piece \in Seq(T) /\ Len(piece) = IF 0 < end THEN end - 0 ELSE 0
      /\ \A k \in 1..Len(piece) : 0 + k \in 1..end /\ piece[k] = list[0 + k]
  <2> HIDE DEF end
  <2> QED BY <1>1, SubSeqPiece
<1>4. piece = A!FirstOf(list, n)
  BY <1>2
<1> HIDE DEF piece
<1>5. /\ A!FirstOf(list, n) \in Seq(T) /\ Len(A!FirstOf(list, n)) = end
      /\ \A k \in 1..Len(A!FirstOf(list, n)) : k \in 1..Len(list) /\ A!FirstOf(list, n)[k] = list[k]
  BY <1>1, <1>3, <1>4
<1>6. ASSUME Len(list) <= n
      PROVE  A!FirstOf(list, n) = list
  <2>1. end = Len(list)
    BY <1>1, <1>6
  <2> QED BY <1>5, <2>1
<1> QED BY <1>5, <1>6

\* See FirstItems.
LEMMA FirstHits ==
  ASSUME NEW T, NEW list \in Seq(T), NEW n \in Nat, NEW R
  PROVE  Cardinality(Hits(A!FirstOf(list, n), R)) <= Cardinality(Hits(list, R))
<1>1. Hits(A!FirstOf(list, n), R) \in SUBSET Hits(list, R)
  <2>1. /\ A!FirstOf(list, n) \in Seq(T)
        /\ \A k \in 1..Len(A!FirstOf(list, n)) : k \in 1..Len(list) /\ A!FirstOf(list, n)[k] = list[k]
    BY FirstItems
  <2>2. DOMAIN A!FirstOf(list, n) = 1..Len(A!FirstOf(list, n)) /\ DOMAIN list = 1..Len(list)
    BY <2>1
  <2> QED BY <2>1, <2>2 DEF Hits
<1> QED BY <1>1, HitsFinite, FS_Subset

\* The category a table is taken for.
LEMMA CategoryFacts ==
  ASSUME NEW t \in A!AppTable
  PROVE  /\ A!iosAppDbRecordCategory(t) \in Category
         /\ t.family # "knowledgec" => A!iosAppDbRecordCategory(t) # "KNOWLEDGEC_EVENTS"
<1> DEFINE named == {c \in A!Categories : c[1] = t.family /\ c[2] = t.name}
<1>1. A!iosAppDbRecordCategory(t) = IF named = {} THEN "SUPPORT_TABLE" ELSE (CHOOSE c \in named : TRUE)[3]
  BY DEF A!iosAppDbRecordCategory
<1>2. CASE named = {}
  BY <1>1, <1>2 DEF Category
<1>3. CASE named # {}
  <2>1. PICK c \in named : A!iosAppDbRecordCategory(t) = c[3]
    BY <1>1, <1>3
  <2>2. c[3] \in Category
    BY DEF Category
  <2>3. c \in A!Categories /\ c[1] = t.family
    OBVIOUS
  <2>4. c[1] # "knowledgec" => c[3] # "KNOWLEDGEC_EVENTS"
    BY <2>3 DEF A!Categories
  <2> QED BY <2>1, <2>2, <2>3, <2>4
<1> QED BY <1>2, <1>3

\* A special parser reads rows that count, and each as often as it is joined.
LEMMA SpecialFacts ==
  ASSUME NEW t \in A!AppTable
  PROVE  /\ A!specialQuery(t) \in Seq({i \in DOMAIN t.rows : ~A!Skips(t, i)})
         /\ \A i \in DOMAIN t.rows : Cardinality(Hits(A!specialQuery(t), {i})) <= A!Copies(t, i)
         /\ A!specialQuery(t) # <<>> =>
              \A i \in DOMAIN t.rows : ~A!Skips(t, i) =>
                Cardinality(Hits(A!specialQuery(t), {i})) = A!Copies(t, i)
<1> DEFINE good == {i \in DOMAIN t.rows : ~A!Skips(t, i)}
<1>1. A!specialQuery(t) = <<>> \/ A!specialQuery(t) = A!Joined(t, good)
  <2>1. CASE t.family # "knowledgec"
    <3>1. \A i \in DOMAIN t.rows : ~A!Skips(t, i)
      BY <2>1, CategoryFacts DEF A!Skips
    <3>2. good = DOMAIN t.rows
      BY <3>1
    <3>3. A!parserFamily(t) # "knowledgec"
      BY <2>1, CategoryFacts DEF A!parserFamily
    <3> HIDE DEF good
    <3> QED BY <3>2, <3>3 DEF A!specialQuery
  <2>2. CASE t.family = "knowledgec"
    <3>1. A!parserFamily(t) \notin {"whatsapp", "messages"}
      BY <2>2 DEF A!parserFamily
    <3> HIDE DEF good
    <3>2. \/ A!specialQuery(t) = <<>>
          \/ A!specialQuery(t) = A!Joined(t, {i \in DOMAIN t.rows : ~A!Skips(t, i)})
      BY <3>1 DEF A!specialQuery
    <3> QED BY <3>2 DEF good
  <2> QED BY <2>1, <2>2
<1>2. CASE A!specialQuery(t) = <<>>
  <2>1. \A i : Cardinality(Hits(<<>>, {i})) = 0
    <3>1. \A i : Hits(<<>>, {i}) = {}
      BY DEF Hits
    <3> QED BY <3>1, FS_EmptySet
  <2>2. \A i \in DOMAIN t.rows : 0 <= A!Copies(t, i)
    <3>1. \A i \in DOMAIN t.rows : A!Copies(t, i) \in {1, 2}
      BY CopiesRange
    <3> QED BY <3>1
  <2>3. <<>> \in Seq(good)
    OBVIOUS
  <2> HIDE DEF good
  <2> QED BY <1>2, <2>1, <2>2, <2>3 DEF good
<1>3. CASE A!specialQuery(t) = A!Joined(t, good)
  <2>1. \A i \in DOMAIN t.rows : A!Copies(t, i) \in {1, 2}
    BY CopiesRange
  <2>2. good \in SUBSET DOMAIN t.rows
    OBVIOUS
  <2>3. /\ A!Joined(t, good) \in Seq(good)
        /\ \A i \in good : Cardinality(Hits(A!Joined(t, good), {i})) = A!Copies(t, i)
        /\ \A i \in (DOMAIN t.rows) \ good : Cardinality(Hits(A!Joined(t, good), {i})) = 0
    <3> HIDE DEF good
    <3> QED BY <2>2, JoinedCopies
  <2>4. \A i \in DOMAIN t.rows : Cardinality(Hits(A!Joined(t, good), {i})) <= A!Copies(t, i)
    <3> HIDE DEF good
    <3> SUFFICES ASSUME NEW i \in DOMAIN t.rows
                 PROVE  Cardinality(Hits(A!Joined(t, good), {i})) <= A!Copies(t, i)
      OBVIOUS
    <3>1. A!Copies(t, i) \in {1, 2}
      BY <2>1
    <3>2. Cardinality(Hits(A!Joined(t, good), {i})) \in {0, A!Copies(t, i)}
      BY <2>3
    <3> QED BY <3>1, <3>2
  <2>5. \A i \in DOMAIN t.rows : ~A!Skips(t, i) => i \in good
    OBVIOUS
  <2> QED BY <1>3, <2>3, <2>4, <2>5
<1> QED BY <1>1, <1>2, <1>3

\* What ranks are in an interval.
LEMMA IntervalAscending ==
  ASSUME NEW a \in Nat, NEW b \in Nat, a <= b + 1
  PROVE  Len(Ascending(a..b)) = b + 1 - a /\ \A k \in 1..b + 1 - a : Ascending(a..b)[k] = a + k - 1
<1>1. IsFiniteSet(a..b) /\ Cardinality(a..b) = b + 1 - a
  BY FS_Interval
<1>2. a..b \in SUBSET Int
  OBVIOUS
<1>3. ASSUME NEW n \in a..b
      PROVE  Rank(a..b, n) = n + 1 - a
  <2>1. {m \in a..b : m <= n} = a..n
    OBVIOUS
  <2>2. Cardinality(a..n) = n + 1 - a
    BY FS_Interval
  <2> QED BY <2>1, <2>2 DEF Rank
<1>4. \A n \in a..b : Ascending(a..b)[Rank(a..b, n)] = n
  BY <1>1, <1>2, AscendingRanks
<1>5. Len(Ascending(a..b)) = b + 1 - a
  BY <1>1, <1>2, AscendingRanks
<1>6. ASSUME NEW k \in 1..b + 1 - a
      PROVE  Ascending(a..b)[k] = a + k - 1
  <2>1. a + k - 1 \in a..b /\ (a + k - 1) + 1 - a = k
    OBVIOUS
  <2> QED BY <1>3, <1>4, <2>1
<1> QED BY <1>5, <1>6

\* A page of the generic reader: rows behind the last one in their order, and where
\* every row can be read the next ones.
LEMMA PageFacts ==
  ASSUME NEW t \in A!AppTable, NEW last \in Nat, last <= Len(t.rows)
  PROVE  /\ A!pageQuery(t, last) \in Seq(Nat)
         /\ \A n \in DOMAIN A!pageQuery(t, last) :
              A!pageQuery(t, last)[n] \in DOMAIN t.rows /\ A!pageQuery(t, last)[n] > last
         /\ \A m, n \in DOMAIN A!pageQuery(t, last) : m < n => A!pageQuery(t, last)[m] < A!pageQuery(t, last)[n]
         /\ (t.rowid => \A i \in DOMAIN t.rows : ~t.rows[i].negative) =>
              /\ Len(A!pageQuery(t, last)) = (IF Len(t.rows) - last < PageRows THEN Len(t.rows) - last ELSE PageRows)
              /\ \A n \in DOMAIN A!pageQuery(t, last) : A!pageQuery(t, last)[n] = last + n
<1> DEFINE ahead == A!readable(t, last + 1)
           page  == A!pageQuery(t, last)
<1>1. Len(t.rows) \in Nat /\ DOMAIN t.rows = 1..Len(t.rows) /\ PageRows \in Nat
  BY AppAssumptions DEF A!AppTable, A!ParseAssumption
<1>2. ahead \subseteq DOMAIN t.rows /\ \A i \in ahead : i > last
  BY <1>1 DEF A!readable
<1>3. (t.rowid => \A i \in DOMAIN t.rows : ~t.rows[i].negative) => ahead = last + 1..Len(t.rows)
  BY <1>1 DEF A!readable
<1>4. page = A!FirstOf(Ascending(ahead), PageRows)
  BY SameSequences DEF A!pageQuery
<1> HIDE DEF ahead
<1>5. ahead \in SUBSET Int /\ IsFiniteSet(ahead)
  <2>1. IsFiniteSet(1..Len(t.rows)) /\ ahead \in SUBSET (1..Len(t.rows))
    BY <1>1, <1>2, FS_Interval
  <2>2. IsFiniteSet(ahead)
    BY <2>1, FS_Subset
  <2> QED BY <2>1, <2>2
<1>6. /\ Ascending(ahead) \in Seq(ahead) /\ Len(Ascending(ahead)) = Cardinality(ahead)
      /\ \A i, j \in 1..Cardinality(ahead) : i < j <=> Ascending(ahead)[i] < Ascending(ahead)[j]
  BY <1>5, AscendingRanks, AscendingOrder
<1>7. /\ page \in Seq(ahead)
      /\ Len(page) = (IF Len(Ascending(ahead)) < PageRows THEN Len(Ascending(ahead)) ELSE PageRows)
      /\ \A k \in 1..Len(page) : k \in 1..Cardinality(ahead) /\ page[k] = Ascending(ahead)[k]
  BY <1>1, <1>4, <1>6, FirstItems
<1> HIDE DEF page
<1>8. DOMAIN page = 1..Len(page) /\ \A n \in DOMAIN page : page[n] \in ahead
  BY <1>7
<1>9. page \in Seq(Nat)
  BY <1>1, <1>2, <1>7
<1>10. \A m, n \in DOMAIN page : m < n => page[m] < page[n]
  BY <1>6, <1>7, <1>8
<1>11. ASSUME t.rowid => \A i \in DOMAIN t.rows : ~t.rows[i].negative
       PROVE  /\ Len(page) = (IF Len(t.rows) - last < PageRows THEN Len(t.rows) - last ELSE PageRows)
              /\ \A n \in DOMAIN page : page[n] = last + n
  <2>1. PICK a \in Nat, b \in Nat : a = last + 1 /\ b = Len(t.rows) /\ ahead = a..b /\ a <= b + 1
    BY <1>1, <1>3, <1>11
  <2>2. /\ Len(Ascending(ahead)) = b + 1 - a
        /\ \A k \in 1..b + 1 - a : Ascending(ahead)[k] = a + k - 1
    BY <2>1, IntervalAscending
  <2>3. Cardinality(ahead) = b + 1 - a
    BY <1>6, <2>2
  <2>4. Len(Ascending(ahead)) = Len(t.rows) - last
    <3>0. PICK total \in Nat : total = Len(t.rows)
      BY <1>1
    <3>3. a = last + 1 /\ b = total
      BY <2>1, <3>0
    <3>2. b + 1 - a = total - last
      <4> HIDE DEF ahead, page
      <4> QED BY <3>3
    <3>1. b + 1 - a = Len(t.rows) - last
      BY <3>2, <3>0
    <3> QED BY <2>2, <3>1
  <2>5. Len(page) = (IF Len(t.rows) - last < PageRows THEN Len(t.rows) - last ELSE PageRows)
    BY <1>7, <2>4
  <2>6. ASSUME NEW n \in DOMAIN page
        PROVE  page[n] = last + n
    <3>1. n \in 1..b + 1 - a /\ page[n] = Ascending(ahead)[n]
      BY <1>7, <1>8, <2>3
    <3>2. page[n] = a + n - 1
      BY <2>2, <3>1
    <3> QED BY <2>1, <3>1, <3>2
  <2> QED BY <2>5, <2>6
<1> QED BY <1>2, <1>8, <1>9, <1>10, <1>11 DEF page

\* The record made of a row tells which row it was.
LEMMA RecordFacts ==
  ASSUME NEW e \in TableAt, NEW t \in A!AppTable, NEW i \in DOMAIN t.rows, NEW how
  PROVE  A!recordOf(e, t, i, how) \in AppRecord /\ A!recordOf(e, t, i, how).at = e /\ A!recordOf(e, t, i, how).row = i
<1> DEFINE record == A!recordOf(e, t, i, how)
<1>1. i \in Nat /\ t.rows[i].dated \in BOOLEAN
  <2>1. t.rows \in Seq(A!Row)
    BY DEF A!AppTable
  <2>2. t.rows[i] \in A!Row /\ i \in Nat
    BY <2>1
  <2> QED BY <2>2 DEF A!Row
<1>2. record.category \in Category
  <2> DEFINE category == A!iosAppDbRecordCategory(t)
  <2>1. category \in Category
    BY CategoryFacts
  <2>2. record.category \in {category, "KNOWLEDGEC_DEVICE_OR_APP_ACTIVITY", "KNOWLEDGEC_COMMUNICATION_INTENT",
                             "MESSAGE_DELETED_OR_RECOVERABLE"}
    BY DEF A!recordOf
  <2> QED BY <2>1, <2>2 DEF Category
<1>3. record.at = e /\ record.row = i /\ record.dated = (t.rows[i].dated /\ t.name # "handle")
  BY DEF A!recordOf
<1>4. record = [at |-> e, row |-> i, category |-> record.category, dated |-> record.dated]
  BY DEF A!recordOf
<1> HIDE DEF record
<1> QED BY <1>1, <1>2, <1>3, <1>4 DEF AppRecord, record

\* The events of records are records, and none more often than it is there.
LEMMA EventFacts ==
  ASSUME NEW records \in Seq(AppRecord), NEW again
  PROVE  /\ A!eventsOf(records) \in Seq(AppRecord) /\ A!usageOf(records, again) \in Seq(AppRecord)
         /\ A!Within(A!eventsOf(records), A!eventsOf(records)) /\ A!Within(<<>>, A!eventsOf(records))
         /\ A!Within(A!usageOf(records, again), A!eventsOf(records))
         /\ records = <<>> => A!eventsOf(records) = <<>> /\ A!usageOf(records, again) = <<>>
<1> DEFINE events == A!eventsOf(records)
           usage  == A!usageOf(records, again)
           used   == {r \in A!Items(events) : r.category \in A!usageCategories(again)}
<1>1. events = Kept(records, {r \in A!Items(records) : r.dated}) /\ usage = Kept(events, used)
  BY SameSequences DEF A!eventsOf, A!usageOf
<1> HIDE DEF used
<1>2. events \in Seq(AppRecord)
  <2>1. PICK dated : dated = {r \in A!Items(records) : r.dated}
    OBVIOUS
  <2>2. events \in Seq(AppRecord \cap dated)
    BY <1>1, <2>1, KeptPlaces
  <2> QED BY <2>2
<1>3. usage \in Seq(AppRecord)
  <2> HIDE DEF events
  <2>1. usage \in Seq(AppRecord \cap used)
    BY <1>1, <1>2, KeptPlaces
  <2> QED BY <2>1
<1> HIDE DEF events, usage
<1>4. \A list, e : Cardinality({n \in DOMAIN list : list[n] = e}) = Cardinality(Hits(list, {e}))
  BY DEF Hits
<1>5. \A few, many : A!Within(few, many) <=> \A n \in DOMAIN few : Cardinality(Hits(few, {few[n]})) <= Cardinality(Hits(many, {few[n]}))
  BY <1>4, SameSequences DEF A!Within
<1>6. A!Within(events, events)
  <2>1. \A e : Cardinality(Hits(events, {e})) <= Cardinality(Hits(events, {e}))
    <3>1. ASSUME NEW e PROVE Cardinality(Hits(events, {e})) \in Nat
      <4>1. Cardinality(Hits(events, {e})) \in 0..Len(events) /\ Len(events) \in Nat
        BY <1>2, HitsFinite
      <4> QED BY <4>1
    <3> QED BY <3>1
  <2> QED BY <1>5, <2>1
<1>7. A!Within(usage, events)
  <2>1. \A e : Cardinality(Hits(usage, {e})) <= Cardinality(Hits(events, {e}))
    BY <1>1, <1>2, HitsKept
  <2> QED BY <1>5, <2>1
<1>8. A!Within(<<>>, events)
  BY <1>5
<1>9. \A list \in Seq(AppRecord) : \A R : list = <<>> => Kept(list, R) = <<>>
  <2>1. ASSUME NEW R
        PROVE  Kept(<<>>, R) = <<>>
    <3>1. /\ Kept(<<>>, R) \in Seq({} \cap R)
      <4>1. <<>> \in Seq({})
        OBVIOUS
      <4> QED BY <4>1, KeptPlaces
    <3> QED BY <3>1
  <2> QED BY <2>1
<1>10. records = <<>> => events = <<>> /\ usage = <<>>
  BY <1>1, <1>2, <1>9
<1> QED BY <1>2, <1>3, <1>6, <1>7, <1>8, <1>10 DEF events, usage

\* The databases there are, and the table being read.
LEMMA TableFacts ==
  ASSUME AppTypes, AtInv
  PROVE  /\ Len(device) \in Nat /\ DOMAIN device = 1..Len(device)
         /\ \A d \in DOMAIN device :
              /\ device[d] \in A!AppDatabase /\ Len(device[d].tables) \in Nat
              /\ DOMAIN device[d].tables = 1..Len(device[d].tables)
              /\ \A n \in DOMAIN device[d].tables : device[d].tables[n] \in A!AppTable
         /\ at[1] \in Nat \ {0} /\ at[2] \in Nat /\ at = <<at[1], at[2]>> /\ A!Here = at
         /\ at[2] > 0 => /\ at[1] \in DOMAIN device /\ at[2] \in DOMAIN device[at[1]].tables /\ at[2] \in A!TablesOf(at[1])
                         /\ A!Table = TheTable(at) /\ A!Table \in A!AppTable
         /\ pc \in {"flags", "parse"} => at[2] > 0
<1>1. device \in Seq(A!AppDatabase)
  BY AppAssumptions DEF AppTypes, A!ParseAssumption
<1>2. Len(device) \in Nat /\ DOMAIN device = 1..Len(device)
  BY <1>1
<1>3. ASSUME NEW d \in DOMAIN device
      PROVE  /\ device[d] \in A!AppDatabase /\ Len(device[d].tables) \in Nat
             /\ DOMAIN device[d].tables = 1..Len(device[d].tables)
             /\ \A n \in DOMAIN device[d].tables : device[d].tables[n] \in A!AppTable
  <2>1. device[d] \in A!AppDatabase
    BY <1>1
  <2>2. device[d].tables \in Seq(A!AppTable)
    BY <2>1 DEF A!AppDatabase
  <2> QED BY <2>1, <2>2
<1>4. at[1] \in Nat \ {0} /\ at[2] \in Nat /\ at = <<at[1], at[2]>>
  BY DEF AtInv, TableAt
<1>5. at[2] > 0 => at[1] \in DOMAIN device /\ at[2] \in DOMAIN device[at[1]].tables /\ at[2] \in A!TablesOf(at[1])
  <2> SUFFICES ASSUME at[2] > 0
               PROVE  at[1] \in DOMAIN device /\ at[2] \in DOMAIN device[at[1]].tables /\ at[2] \in A!TablesOf(at[1])
    OBVIOUS
  <2>1. at[1] <= Len(device) /\ device[at[1]].file = "ok" /\ at[2] <= Len(device[at[1]].tables)
    BY DEF AtInv, A!Database
  <2>2. at[1] \in DOMAIN device
    BY <1>2, <1>4, <2>1
  <2>3. at[2] \in 1..Len(device[at[1]].tables)
    BY <1>3, <1>4, <2>1, <2>2
  <2> QED BY <1>3, <2>1, <2>2, <2>3 DEF A!TablesOf
<1>6. at[2] > 0 => A!Table = TheTable(at) /\ A!Table \in A!AppTable
  BY <1>3, <1>5 DEF A!Table, A!Database, TheTable
<1>7. pc \in {"flags", "parse"} => at[2] > 0
  BY DEF AtInv
<1> QED BY <1>2, <1>3, <1>4, <1>5, <1>6, <1>7 DEF A!Here

\* The rows ahead, when there are some.
LEMMA AheadFacts ==
  ASSUME AppTypes, AtInv, ReaderInv, pc = "parse"
  PROVE  /\ A!Table \in A!AppTable /\ Len(A!Table.rows) \in Nat /\ DOMAIN A!Table.rows = 1..Len(A!Table.rows)
         /\ reader.todo \in Seq(Nat) /\ Len(reader.todo) \in Nat /\ DOMAIN reader.todo = 1..Len(reader.todo)
         /\ reader.last \in 0..Len(A!Table.rows) /\ reader.taken \in Nat
         /\ reader.todo # <<>> =>
              /\ reader.how \in {"special", "generic"}
              /\ 1 \in DOMAIN reader.todo /\ A!next = reader.todo[1] /\ A!next \in DOMAIN A!Table.rows
              /\ Tail(reader.todo) \in Seq(Nat) /\ Len(Tail(reader.todo)) = Len(reader.todo) - 1
              /\ DOMAIN Tail(reader.todo) = 1..Len(reader.todo) - 1
              /\ \A n \in 1..Len(reader.todo) - 1 : Tail(reader.todo)[n] = reader.todo[n + 1] /\ n + 1 \in DOMAIN reader.todo
<1>1. A!Table \in A!AppTable
  BY TableFacts
<1>2. A!Table.rows \in Seq(A!Row)
  BY <1>1 DEF A!AppTable
<1>3. Len(A!Table.rows) \in Nat /\ DOMAIN A!Table.rows = 1..Len(A!Table.rows)
  BY <1>2
<1>4. reader \in AppReader
  BY DEF AppTypes
<1>5. reader.how \in {"none", "special", "generic"} /\ reader.todo \in Seq(Nat) /\ reader.last \in Nat /\ reader.taken \in Nat
  BY <1>4 DEF AppReader
<1>6. reader.last <= Len(A!Table.rows) /\ \A n \in DOMAIN reader.todo : reader.todo[n] \in DOMAIN A!Table.rows
  BY DEF ReaderInv
<1>7. Len(reader.todo) \in Nat /\ DOMAIN reader.todo = 1..Len(reader.todo)
  BY <1>5
<1>8. ASSUME reader.todo # <<>>
      PROVE  /\ reader.how \in {"special", "generic"}
             /\ 1 \in DOMAIN reader.todo /\ A!next = reader.todo[1] /\ A!next \in DOMAIN A!Table.rows
             /\ Tail(reader.todo) \in Seq(Nat) /\ Len(Tail(reader.todo)) = Len(reader.todo) - 1
             /\ DOMAIN Tail(reader.todo) = 1..Len(reader.todo) - 1
             /\ \A n \in 1..Len(reader.todo) - 1 : Tail(reader.todo)[n] = reader.todo[n + 1] /\ n + 1 \in DOMAIN reader.todo
  <2>1. reader.how # "none"
    BY <1>8 DEF ReaderInv, A!NoReader
  <2>2. 1 \in DOMAIN reader.todo /\ A!next = reader.todo[1]
    BY <1>5, <1>8 DEF A!next
  <2>3. Tail(reader.todo) \in Seq(Nat) /\ Len(Tail(reader.todo)) = Len(reader.todo) - 1
    BY <1>5, <1>8
  <2>4. DOMAIN Tail(reader.todo) = 1..Len(reader.todo) - 1
    BY <2>3
  <2>5. \A n \in 1..Len(reader.todo) - 1 : Tail(reader.todo)[n] = reader.todo[n + 1] /\ n + 1 \in DOMAIN reader.todo
    BY <1>5, <1>7, <1>8
  <2> QED BY <1>5, <1>6, <2>1, <2>2, <2>3, <2>4, <2>5
<1> QED BY <1>1, <1>3, <1>5, <1>6, <1>7, <1>8

\* What a special parser would read, up to its limit.
LEMMA OpenedFacts ==
  ASSUME NEW t \in A!AppTable
  PROVE  LET special == A!FirstOf(A!specialQuery(t), MaxSpecial)
         IN  /\ special \in Seq(Nat)
             /\ \A n \in DOMAIN special : special[n] \in DOMAIN t.rows /\ ~A!Skips(t, special[n])
             /\ special # <<>> => A!specialQuery(t) # <<>>
             /\ special = <<>> => A!specialQuery(t) = <<>>
<1> DEFINE query == A!specialQuery(t)
           special == A!FirstOf(query, MaxSpecial)
           good == {i \in DOMAIN t.rows : ~A!Skips(t, i)}
<1>1. MaxSpecial \in Nat \ {0}
  BY AppAssumptions DEF A!ParseAssumption
<1>2. DOMAIN t.rows \subseteq Nat
  <2>1. t.rows \in Seq(A!Row)
    BY DEF A!AppTable
  <2> QED BY <2>1
<1>3. query \in Seq(good)
  BY SpecialFacts
<1> HIDE DEF query, good
<1>4. special \in Seq(good) /\ Len(special) = (IF Len(query) < MaxSpecial THEN Len(query) ELSE MaxSpecial)
  BY <1>1, <1>3, FirstItems
<1> HIDE DEF special
<1>5. special \in Seq(Nat) /\ \A n \in DOMAIN special : special[n] \in good
  BY <1>2, <1>4 DEF good
<1>6. special = <<>> <=> query = <<>>
  BY <1>1, <1>3, <1>4
<1> QED BY <1>5, <1>6 DEF special, query, good

\* The reader after any step.
LEMMA ReaderMoves ==
  ASSUME AppTypes, AtInv, ReaderInv, A!Next
  PROVE  reader' \in AppReader /\ ReaderInv'
<1>1. reader \in AppReader /\ A!NoReader \in AppReader /\ pc \in Importing \cup Promoting \cup {"enrich", "ended"}
  <2>1. <<>> \in Seq(Nat)
    OBVIOUS
  <2> QED BY <2>1 DEF AppTypes, AppReader, A!NoReader
<1>2. A!NoReader.how = "none" /\ A!NoReader.last = 0 /\ A!NoReader.taken = 0 /\ A!NoReader.todo = <<>>
  BY DEF A!NoReader
<1>3. CASE reader' = A!NoReader /\ pc' # "parse"
  BY <1>1, <1>3 DEF ReaderInv
<1>4. CASE UNCHANGED reader /\ pc' \notin {"begin", "database", "flags", "parse"}
  BY <1>1, <1>4 DEF ReaderInv
<1>5. CASE /\ pc = "parse" /\ pc' = "parse" /\ A!Table' = A!Table /\ reader' \in AppReader
           /\ reader'.how # "none" /\ reader'.last <= Len(A!Table.rows)
           /\ \A n \in DOMAIN reader'.todo : reader'.todo[n] \in DOMAIN A!Table.rows
  BY <1>5 DEF ReaderInv
<1>6. ASSUME pc = "parse", UNCHANGED <<device, at>>, pc' = "parse",
             reader' = [A!NoReader EXCEPT !.how = "generic", !.todo = A!pageQuery(A!Table, 0)]
      PROVE  reader' \in AppReader /\ ReaderInv'
  <2>1. A!Table' = A!Table /\ A!Table \in A!AppTable /\ Len(A!Table.rows) \in Nat
    BY <1>6, AheadFacts DEF A!Table, A!Database
  <2>2. /\ A!pageQuery(A!Table, 0) \in Seq(Nat)
        /\ \A n \in DOMAIN A!pageQuery(A!Table, 0) : A!pageQuery(A!Table, 0)[n] \in DOMAIN A!Table.rows
    BY <2>1, PageFacts
  <2>3. /\ reader' = [how |-> "generic", todo |-> A!pageQuery(A!Table, 0), taken |-> 0, last |-> 0]
    BY <1>6 DEF A!NoReader
  <2>4. reader' \in AppReader
    BY <2>2, <2>3 DEF AppReader
  <2>5. reader'.how # "none" /\ reader'.last <= Len(A!Table.rows) /\ reader'.todo = A!pageQuery(A!Table, 0)
    BY <2>1, <2>3
  <2> QED BY <1>5, <1>6, <2>1, <2>2, <2>4, <2>5
<1>7. ASSUME A!NextTable \/ A!ScanFlags \/ A!FlagsFail
      PROVE  reader' \in AppReader /\ ReaderInv'
  <2>1. reader = A!NoReader /\ reader' = reader /\ pc' \in {"database", "flags", "parse"}
    BY <1>7 DEF ReaderInv, A!NextTable, A!ScanFlags, A!FlagsFail, A!parseNext
  <2>2. CASE pc' # "parse"
    BY <1>3, <2>1, <2>2
  <2>3. CASE pc' = "parse"
    <3>1. at' = at /\ device' = device /\ pc = "flags"
      BY <1>7, <2>3 DEF A!NextTable, A!ScanFlags, A!FlagsFail
    <3>2. A!Table' = A!Table
      BY <3>1 DEF A!Table, A!Database
    <3>3. A!Table.rows \in Seq(A!Row)
      BY <3>1, TableFacts DEF A!AppTable
    <3>4. 0 <= Len(A!Table.rows)
      BY <3>3
    <3> QED BY <1>1, <1>2, <2>1, <2>3, <3>2, <3>4 DEF ReaderInv
  <2> QED BY <2>2, <2>3
<1>8. ASSUME A!OpenReader
      PROVE  reader' \in AppReader /\ ReaderInv'
  <2> DEFINE special == A!FirstOf(A!specialQuery(A!Table), MaxSpecial)
  <2>1. UNCHANGED <<pc, device, at>> /\ pc = "parse"
    BY <1>8 DEF A!OpenReader
  <2>2. A!Table' = A!Table /\ A!Table \in A!AppTable /\ Len(A!Table.rows) \in Nat
    BY <2>1, AheadFacts DEF A!Table, A!Database
  <2>3. special \in Seq(Nat) /\ \A n \in DOMAIN special : special[n] \in DOMAIN A!Table.rows
    BY <2>2, OpenedFacts
  <2>4. reader' = IF special # <<>> THEN [A!NoReader EXCEPT !.how = "special", !.todo = special]
                                    ELSE [A!NoReader EXCEPT !.how = "generic", !.todo = A!pageQuery(A!Table, 0)]
    BY <1>8 DEF A!OpenReader
  <2> HIDE DEF special
  <2>5. CASE special # <<>>
    <3>1. reader' = [how |-> "special", todo |-> special, taken |-> 0, last |-> 0]
      BY <2>4, <2>5 DEF A!NoReader
    <3> QED BY <1>5, <2>1, <2>2, <2>3, <3>1 DEF AppReader
  <2>6. CASE special = <<>>
    BY <1>6, <2>1, <2>4, <2>6
  <2> QED BY <2>5, <2>6
<1>9. ASSUME A!SkipRow \/ A!RecordRow \/ A!ReadFails
      PROVE  reader' \in AppReader /\ ReaderInv'
  <2>1. UNCHANGED <<pc, device, at>> /\ pc = "parse" /\ reader.todo # <<>>
    BY <1>9 DEF A!SkipRow, A!RecordRow, A!ReadFails
  <2>2. A!Table' = A!Table
    BY <2>1 DEF A!Table, A!Database
  <2>3. /\ reader.how \in {"special", "generic"} /\ reader.taken \in Nat
        /\ A!next \in DOMAIN A!Table.rows /\ Len(A!Table.rows) \in Nat /\ DOMAIN A!Table.rows = 1..Len(A!Table.rows)
        /\ Tail(reader.todo) \in Seq(Nat)
        /\ DOMAIN Tail(reader.todo) = 1..Len(reader.todo) - 1 /\ reader.last \in 0..Len(A!Table.rows)
        /\ \A n \in 1..Len(reader.todo) - 1 : Tail(reader.todo)[n] = reader.todo[n + 1] /\ n + 1 \in DOMAIN reader.todo
    BY <2>1, AheadFacts
  <2>4. \A n \in DOMAIN Tail(reader.todo) : Tail(reader.todo)[n] \in DOMAIN A!Table.rows
    BY <2>1, <2>3 DEF ReaderInv
  <2>5. CASE A!SkipRow \/ A!RecordRow
    <3>1. \/ reader' = [reader EXCEPT !.todo = Tail(@), !.last = A!next]
          \/ reader' = [reader EXCEPT !.todo = Tail(@), !.last = A!next, !.taken = @ + 1]
      BY <2>5 DEF A!SkipRow, A!RecordRow
    <3>2. reader' \in AppReader
      <4>1. A!next \in Nat
        BY <2>3
      <4>2. reader = [how |-> reader.how, todo |-> reader.todo, taken |-> reader.taken, last |-> reader.last]
        BY <1>1 DEF AppReader
      <4>3. \/ reader' = [how |-> reader.how, todo |-> Tail(reader.todo), taken |-> reader.taken, last |-> A!next]
            \/ reader' = [how |-> reader.how, todo |-> Tail(reader.todo), taken |-> reader.taken + 1, last |-> A!next]
        BY <3>1, <4>2
      <4>4. reader.taken + 1 \in Nat
        BY <2>3
      <4>5. PICK k \in Nat :
              reader' = [how |-> reader.how, todo |-> Tail(reader.todo), taken |-> k, last |-> A!next]
        BY <2>3, <4>3, <4>4
      <4>6. reader.how \in {"none", "special", "generic"}
        BY <2>3
      <4> QED BY <2>3, <4>1, <4>5, <4>6 DEF AppReader
    <3>3. reader'.how = reader.how /\ reader'.last = A!next /\ reader'.todo = Tail(reader.todo)
      BY <1>1, <3>1 DEF AppReader
    <3>4. A!next <= Len(A!Table.rows)
      BY <2>3
    <3> QED BY <1>5, <2>1, <2>2, <2>3, <2>4, <3>2, <3>3, <3>4
  <2>6. CASE A!ReadFails
    <3>1. reader' = [reader EXCEPT !.todo = <<>>]
      BY <2>6 DEF A!ReadFails
    <3>2. reader' \in AppReader /\ reader'.how = reader.how /\ reader'.last = reader.last /\ reader'.todo = <<>>
      <4>1. <<>> \in Seq(Nat)
        OBVIOUS
      <4>2. reader' = [how |-> reader.how, todo |-> <<>>, taken |-> reader.taken, last |-> reader.last]
        BY <1>1, <3>1 DEF AppReader
      <4>3. reader.last \in Nat
        BY <2>3
      <4> QED BY <2>3, <4>1, <4>2, <4>3 DEF AppReader
    <3>3. reader.last <= Len(A!Table.rows) /\ DOMAIN reader'.todo = {}
      BY <2>3, <3>2
    <3> QED BY <1>5, <2>1, <2>2, <2>3, <3>2, <3>3
  <2> QED BY <1>9, <2>5, <2>6
<1>10. ASSUME A!EndPage
       PROVE  reader' \in AppReader /\ ReaderInv'
  <2>1. UNCHANGED <<device, at>> /\ pc = "parse"
    BY <1>10 DEF A!EndPage
  <2>2. A!Table' = A!Table /\ A!Table \in A!AppTable
    BY <2>1, AheadFacts DEF A!Table, A!Database
  <2>3. CASE pc' = "database" /\ reader' = A!NoReader
    BY <1>3, <2>3
  <2>4. CASE pc' = "parse" /\ reader' = [A!NoReader EXCEPT !.how = "generic", !.todo = A!pageQuery(A!Table, 0)]
    BY <1>6, <2>1, <2>4
  <2>5. CASE /\ pc' = "parse" /\ reader.how = "generic"
             /\ reader' = [reader EXCEPT !.todo = A!pageQuery(A!Table, reader.last), !.taken = 0]
    <3>1. reader.last \in Nat /\ reader.last <= Len(A!Table.rows)
      BY <2>1, AheadFacts
    <3>2. /\ A!pageQuery(A!Table, reader.last) \in Seq(Nat)
          /\ \A n \in DOMAIN A!pageQuery(A!Table, reader.last) : A!pageQuery(A!Table, reader.last)[n] \in DOMAIN A!Table.rows
      BY <2>2, <3>1, PageFacts
    <3>3. /\ reader'.how = "generic" /\ reader'.last = reader.last /\ reader'.todo = A!pageQuery(A!Table, reader.last)
          /\ reader' \in AppReader
      BY <1>1, <2>5, <3>2 DEF AppReader
    <3> QED BY <1>5, <2>1, <2>2, <2>5, <3>1, <3>2, <3>3
  <2> QED BY <1>10, <2>1, <2>3, <2>4, <2>5 DEF A!EndPage
<1>11. CASE A!Begin \/ A!SkipDatabase \/ A!CloseDatabase
  <2>1. reader' = A!NoReader /\ pc' = "database"
    BY <1>11 DEF ReaderInv, A!Begin, A!SkipDatabase, A!CloseDatabase
  <2> QED BY <1>3, <2>1
<1>12. CASE A!RowFails
  BY <1>3, <1>12 DEF A!RowFails
<1>13. CASE A!InventoryFails \/ A!Commit
  BY <1>4, <1>13 DEF A!InventoryFails, A!Commit
<1>14. CASE \/ A!Enrich \/ A!ClearTimeline \/ A!ClearUsage \/ A!AddTimeline \/ A!AddUsage \/ A!PromotionFails \/ A!Stop
            \/ A!Done
  BY <1>4, <1>14 DEF A!Enrich, A!ClearTimeline, A!ClearUsage, A!AddTimeline, A!AddUsage, A!PromotionFails, A!Stop,
                     A!Done, A!vars, A!untouched
<1> QED BY <1>7, <1>8, <1>9, <1>10, <1>11, <1>12, <1>13, <1>14 DEF A!Next

\* A case with one thing more is a case, and nothing else of it is changed.
LEMMA CaseMoves ==
  ASSUME NEW c \in CaseState
  PROVE  /\ \A r \in AppRecord : LET new == [c EXCEPT !.records = Append(@, r)] IN
              /\ new \in CaseState /\ new.records = Append(c.records, r) /\ new.tables = c.tables /\ new.status = c.status
              /\ new.timeline = c.timeline /\ new.usage = c.usage
         /\ \A e \in TableAt : LET new == [c EXCEPT !.tables = @ \cup {e}] IN
              /\ new \in CaseState /\ new.records = c.records /\ new.tables = c.tables \cup {e} /\ new.status = c.status
              /\ new.timeline = c.timeline /\ new.usage = c.usage
         /\ \A e \in TableAt : LET new == [c EXCEPT !.flagged = @ \cup {e}] IN
              /\ new \in CaseState /\ new.records = c.records /\ new.tables = c.tables /\ new.status = c.status
              /\ new.timeline = c.timeline /\ new.usage = c.usage
         /\ \A word \in {"missing", "unopened", "noMaster"} \cup Nat : LET new == [c EXCEPT !.status = Append(@, word)] IN
              /\ new \in CaseState /\ new.records = c.records /\ new.tables = c.tables /\ new.status = Append(c.status, word)
              /\ new.timeline = c.timeline /\ new.usage = c.usage
<1>1. /\ c.tables \in SUBSET TableAt /\ c.flagged \in SUBSET TableAt /\ c.records \in Seq(AppRecord)
      /\ c.status \in Seq({"missing", "unopened", "noMaster"} \cup Nat)
      /\ c.timeline \in Seq(AppRecord) /\ c.usage \in Seq(AppRecord)
  BY DEF CaseState
<1>0. c = [tables |-> c.tables, flagged |-> c.flagged, records |-> c.records, status |-> c.status,
           timeline |-> c.timeline, usage |-> c.usage]
  BY DEF CaseState
<1>2. ASSUME NEW r \in AppRecord
      PROVE  Append(c.records, r) \in Seq(AppRecord)
  BY <1>1
<1>3. ASSUME NEW word \in {"missing", "unopened", "noMaster"} \cup Nat
      PROVE  Append(c.status, word) \in Seq({"missing", "unopened", "noMaster"} \cup Nat)
  <2>1. PICK words : words = {"missing", "unopened", "noMaster"} \cup Nat
    OBVIOUS
  <2> QED BY <1>1, <2>1
<1>4. ASSUME NEW r \in AppRecord
      PROVE  LET new == [c EXCEPT !.records = Append(@, r)] IN
              /\ new \in CaseState /\ new.records = Append(c.records, r) /\ new.tables = c.tables /\ new.status = c.status
              /\ new.timeline = c.timeline /\ new.usage = c.usage
  <2> DEFINE new == [c EXCEPT !.records = Append(@, r)]
  <2>1. new = [tables |-> c.tables, flagged |-> c.flagged, records |-> Append(c.records, r), status |-> c.status,
               timeline |-> c.timeline, usage |-> c.usage]
    BY <1>0
  <2> HIDE DEF new
  <2>2. new \in CaseState
    BY <1>1, <1>2, <2>1 DEF CaseState
  <2> QED BY <2>1, <2>2 DEF new
<1>5. ASSUME NEW e \in TableAt
      PROVE  /\ LET new == [c EXCEPT !.tables = @ \cup {e}] IN
                 /\ new \in CaseState /\ new.records = c.records /\ new.tables = c.tables \cup {e} /\ new.status = c.status
                 /\ new.timeline = c.timeline /\ new.usage = c.usage
             /\ LET new == [c EXCEPT !.flagged = @ \cup {e}] IN
                 /\ new \in CaseState /\ new.records = c.records /\ new.tables = c.tables /\ new.status = c.status
                 /\ new.timeline = c.timeline /\ new.usage = c.usage
  BY <1>1 DEF CaseState
<1>6. ASSUME NEW word \in {"missing", "unopened", "noMaster"} \cup Nat
      PROVE  LET new == [c EXCEPT !.status = Append(@, word)] IN
              /\ new \in CaseState /\ new.records = c.records /\ new.tables = c.tables /\ new.status = Append(c.status, word)
              /\ new.timeline = c.timeline /\ new.usage = c.usage
  <2> DEFINE new == [c EXCEPT !.status = Append(@, word)]
  <2>1. new = [tables |-> c.tables, flagged |-> c.flagged, records |-> c.records, status |-> Append(c.status, word),
               timeline |-> c.timeline, usage |-> c.usage]
    BY <1>0
  <2> HIDE DEF new
  <2>2. new \in CaseState
    BY <1>1, <1>3, <2>1 DEF CaseState
  <2> QED BY <2>1, <2>2 DEF new
<1> QED BY <1>4, <1>5, <1>6

\* A case without records is a case.
LEMMA EmptyCase ==
  /\ A!Empty \in CaseState /\ A!Empty.records = <<>> /\ A!Empty.status = <<>> /\ A!Empty.tables = {}
  /\ A!Empty.timeline = <<>> /\ A!Empty.usage = <<>>
<1>1. <<>> \in Seq(AppRecord) /\ <<>> \in Seq({"missing", "unopened", "noMaster"} \cup Nat)
  OBVIOUS
<1> QED BY <1>1 DEF A!Empty, CaseState

\* Events are told of a case as a whole.
LEMMA PromotedFacts ==
  ASSUME NEW c \in CaseState, NEW again
  PROVE  LET new == A!promoted(c, again) IN
           /\ new \in CaseState /\ new.records = c.records /\ new.tables = c.tables /\ new.status = c.status
           /\ new.timeline = A!eventsOf(c.records) /\ new.usage = A!usageOf(c.records, again)
           /\ new = A!promoted(new, again)
           /\ \A part \in CaseState :
                /\ part.records = c.records
                /\ part.timeline = A!eventsOf(c.records) /\ part.usage = A!usageOf(c.records, again)
                => part = A!promoted(part, again)
<1> DEFINE new == A!promoted(c, again)
<1>1. PICK events, usage : events = A!eventsOf(c.records) /\ usage = A!usageOf(c.records, again)
  OBVIOUS
<1>2. events \in Seq(AppRecord) /\ usage \in Seq(AppRecord)
  <2>1. c.records \in Seq(AppRecord)
    BY DEF CaseState
  <2> QED BY <1>1, <2>1, EventFacts
<1>3. new = [c EXCEPT !.timeline = events, !.usage = usage]
  BY <1>1 DEF A!promoted
<1>4. c = [tables |-> c.tables, flagged |-> c.flagged, records |-> c.records, status |-> c.status,
           timeline |-> c.timeline, usage |-> c.usage]
  BY DEF CaseState
<1>5. new = [tables |-> c.tables, flagged |-> c.flagged, records |-> c.records, status |-> c.status,
             timeline |-> events, usage |-> usage]
  BY <1>3, <1>4
<1> HIDE DEF new
<1>6. new \in CaseState
  BY <1>2, <1>5 DEF CaseState
<1>7. ASSUME NEW part \in CaseState, part.records = c.records, part.timeline = events, part.usage = usage
      PROVE  part = A!promoted(part, again)
  <2>1. A!promoted(part, again) = [part EXCEPT !.timeline = events, !.usage = usage]
    BY <1>1, <1>7 DEF A!promoted
  <2>2. part = [tables |-> part.tables, flagged |-> part.flagged, records |-> part.records, status |-> part.status,
                timeline |-> part.timeline, usage |-> part.usage]
    BY DEF CaseState
  <2> QED BY <1>7, <2>1, <2>2
<1>8. new.records = c.records /\ new.timeline = events /\ new.usage = usage /\ new.tables = c.tables /\ new.status = c.status
  BY <1>5
<1> QED BY <1>1, <1>6, <1>7, <1>8 DEF new

\* A statement changes what the import sees, and nothing else.
LEMMA Written ==
  ASSUME AppTypes, NEW new \in CaseState, A!Write(new), UNCHANGED txn
  PROVE  /\ A!Current' = new /\ kept' \in CaseState /\ draft' \in CaseState
         /\ IF txn = "open" THEN UNCHANGED kept ELSE UNCHANGED draft
BY DEF A!Write, A!Current, AppTypes

\* What the import sees is a case.
LEMMA CurrentCase ==
  ASSUME AppTypes
  PROVE  A!Current \in CaseState
BY DEF A!Current, AppTypes

\* What the steps of the import write.
LEMMA WriteSteps ==
  ASSUME AppTypes, AtInv, ReaderInv,
         A!SkipDatabase \/ A!NextTable \/ A!CloseDatabase \/ A!ScanFlags \/ A!RecordRow
  PROVE  /\ pc \in {"database", "flags", "parse"} /\ pc' \in {"database", "flags", "parse"} /\ UNCHANGED <<txn, told>>
         /\ kept' \in CaseState /\ draft' \in CaseState /\ A!Current' \in CaseState
         /\ IF txn = "open" THEN UNCHANGED kept ELSE UNCHANGED draft
         /\ A!Current'.timeline = A!Current.timeline /\ A!Current'.usage = A!Current.usage
         /\ A!Current'.records = (IF A!RecordRow THEN Append(A!Current.records, A!recordOf(A!Here, A!Table, A!next, reader.how))
                                  ELSE A!Current.records)
         /\ A!Current'.tables = (IF A!NextTable THEN A!Current.tables \cup {at'} ELSE A!Current.tables)
         /\ A!Current'.status = (IF A!SkipDatabase THEN Append(A!Current.status, A!Database.file)
                                 ELSE IF A!CloseDatabase THEN Append(A!Current.status, at[2])
                                 ELSE A!Current.status)
<1>1. A!Current \in CaseState
  BY CurrentCase
<1>2. at[1] \in Nat \ {0} /\ at[2] \in Nat /\ at \in TableAt
  BY TableFacts DEF AtInv
<1>3. CASE A!SkipDatabase
  <2>1. /\ pc = "database" /\ pc' = pc /\ UNCHANGED <<txn, told>> /\ ~A!RecordRow /\ ~A!NextTable /\ ~A!CloseDatabase
        /\ A!Write([A!Current EXCEPT !.status = Append(@, A!Database.file)])
    BY <1>3 DEF A!SkipDatabase, A!RecordRow, A!NextTable, A!CloseDatabase
  <2>2. A!Database.file \in {"missing", "unopened", "noMaster"}
    <3>1. at[1] \in DOMAIN device
      BY <1>2, <1>3, TableFacts DEF A!SkipDatabase
    <3>2. A!Database \in A!AppDatabase
      BY <3>1, TableFacts DEF A!Database
    <3>3. A!Database.file # "ok"
      BY <1>3 DEF A!SkipDatabase
    <3> QED BY <3>2, <3>3 DEF A!AppDatabase
  <2>3. PICK new \in CaseState : /\ A!Write(new) /\ new.records = A!Current.records /\ new.tables = A!Current.tables
                                 /\ new.status = Append(A!Current.status, A!Database.file)
                                 /\ new.timeline = A!Current.timeline /\ new.usage = A!Current.usage
    BY <1>1, <2>1, <2>2, CaseMoves
  <2>4. /\ A!Current' = new /\ kept' \in CaseState /\ draft' \in CaseState
        /\ IF txn = "open" THEN UNCHANGED kept ELSE UNCHANGED draft
    BY <2>1, <2>3, Written
  <2> QED BY <1>3, <2>1, <2>3, <2>4
<1>4. CASE A!NextTable
  <2>1. /\ pc = "database" /\ pc' \in {"database", "flags"} /\ UNCHANGED <<txn, told>>
        /\ ~A!RecordRow /\ ~A!SkipDatabase /\ ~A!CloseDatabase
        /\ A!Write([A!Current EXCEPT !.tables = @ \cup {at'}]) /\ at' = <<at[1], at[2] + 1>>
    <3>1. at'[2] = at[2] + 1
      BY <1>4 DEF A!NextTable
    <3>2. pc = "database" /\ pc' \in {"database", "flags"} /\ UNCHANGED <<txn, told>>
          /\ A!Write([A!Current EXCEPT !.tables = @ \cup {at'}]) /\ at' = <<at[1], at[2] + 1>>
      BY <1>4 DEF A!NextTable
    <3>3. ~A!SkipDatabase
      BY <1>4 DEF A!NextTable, A!SkipDatabase
    <3>4. ~A!CloseDatabase
      <4>1. at'[2] # 0
        BY <1>2, <3>1
      <4> QED BY <4>1 DEF A!CloseDatabase
    <3>5. ~A!RecordRow
      BY <3>2 DEF A!RecordRow
    <3> QED BY <3>2, <3>3, <3>4, <3>5
  <2>2. at' \in TableAt
    BY <1>2, <2>1 DEF TableAt
  <2>3. PICK new \in CaseState : /\ A!Write(new) /\ new.records = A!Current.records
                                 /\ new.tables = A!Current.tables \cup {at'}
                                 /\ new.status = A!Current.status
                                 /\ new.timeline = A!Current.timeline /\ new.usage = A!Current.usage
    BY <1>1, <2>1, <2>2, CaseMoves
  <2>4. /\ A!Current' = new /\ kept' \in CaseState /\ draft' \in CaseState
        /\ IF txn = "open" THEN UNCHANGED kept ELSE UNCHANGED draft
    BY <2>1, <2>3, Written
  <2> QED BY <1>4, <2>1, <2>3, <2>4
<1>5. CASE A!CloseDatabase
  <2>1. /\ pc = "database" /\ pc' = pc /\ UNCHANGED <<txn, told>> /\ ~A!RecordRow /\ ~A!SkipDatabase
        /\ A!Write([A!Current EXCEPT !.status = Append(@, at[2])]) /\ at' = <<at[1] + 1, 0>>
    BY <1>5 DEF A!SkipDatabase, A!RecordRow, A!CloseDatabase
  <2>2. ~A!NextTable
    <3>1. at'[2] = 0
      BY <2>1
    <3>2. at[2] + 1 # 0
      BY <1>2
    <3> QED BY <3>1, <3>2 DEF A!NextTable
  <2>3. PICK new \in CaseState : /\ A!Write(new) /\ new.records = A!Current.records /\ new.tables = A!Current.tables
                                 /\ new.status = Append(A!Current.status, at[2])
                                 /\ new.timeline = A!Current.timeline /\ new.usage = A!Current.usage
    BY <1>1, <1>2, <2>1, CaseMoves
  <2>4. /\ A!Current' = new /\ kept' \in CaseState /\ draft' \in CaseState
        /\ IF txn = "open" THEN UNCHANGED kept ELSE UNCHANGED draft
    BY <2>1, <2>3, Written
  <2> QED BY <1>5, <2>1, <2>2, <2>3, <2>4
<1>6. CASE A!ScanFlags
  <2>1. /\ pc = "flags" /\ pc' \in {"database", "parse"} /\ UNCHANGED <<txn, told>>
        /\ ~A!RecordRow /\ ~A!SkipDatabase /\ ~A!CloseDatabase /\ ~A!NextTable
        /\ A!Write([A!Current EXCEPT !.flagged = @ \cup {A!Here}])
    BY <1>6 DEF A!SkipDatabase, A!RecordRow, A!CloseDatabase, A!NextTable, A!ScanFlags, A!parseNext
  <2>2. A!Here \in TableAt
    BY <1>2, TableFacts
  <2>3. PICK new \in CaseState : /\ A!Write(new) /\ new.records = A!Current.records /\ new.tables = A!Current.tables
                                 /\ new.status = A!Current.status
                                 /\ new.timeline = A!Current.timeline /\ new.usage = A!Current.usage
    BY <1>1, <2>1, <2>2, CaseMoves
  <2>4. /\ A!Current' = new /\ kept' \in CaseState /\ draft' \in CaseState
        /\ IF txn = "open" THEN UNCHANGED kept ELSE UNCHANGED draft
    BY <2>1, <2>3, Written
  <2> QED BY <1>6, <2>1, <2>3, <2>4
<1>7. CASE A!RecordRow
  <2> DEFINE record == A!recordOf(A!Here, A!Table, A!next, reader.how)
  <2>1. /\ pc = "parse" /\ pc' = pc /\ UNCHANGED <<txn, told>> /\ reader.todo # <<>>
        /\ ~A!NextTable /\ ~A!SkipDatabase /\ ~A!CloseDatabase
        /\ A!Write([A!Current EXCEPT !.records = Append(@, record)])
    BY <1>7 DEF A!SkipDatabase, A!RecordRow, A!CloseDatabase, A!NextTable
  <2>2. record \in AppRecord
    <3>1. A!Here \in TableAt /\ A!Table \in A!AppTable
      BY <1>2, <2>1, TableFacts
    <3>2. A!next \in DOMAIN A!Table.rows
      BY <2>1, AheadFacts
    <3> QED BY <3>1, <3>2, RecordFacts
  <2> HIDE DEF record
  <2>3. PICK new \in CaseState : /\ A!Write(new) /\ new.records = Append(A!Current.records, record)
                                 /\ new.tables = A!Current.tables
                                 /\ new.status = A!Current.status
                                 /\ new.timeline = A!Current.timeline /\ new.usage = A!Current.usage
    BY <1>1, <2>1, <2>2, CaseMoves
  <2>4. /\ A!Current' = new /\ kept' \in CaseState /\ draft' \in CaseState
        /\ IF txn = "open" THEN UNCHANGED kept ELSE UNCHANGED draft
    BY <2>1, <2>3, Written
  <2> QED BY <1>7, <2>1, <2>3, <2>4 DEF record
<1> QED BY <1>3, <1>4, <1>5, <1>6, <1>7

\* A case with other events is a case, and nothing else of it is changed.
LEMMA CaseEvents ==
  ASSUME NEW c \in CaseState, NEW timeline \in Seq(AppRecord), NEW usage \in Seq(AppRecord)
  PROVE  /\ LET new == [c EXCEPT !.timeline = timeline] IN
              /\ new \in CaseState /\ new.records = c.records /\ new.tables = c.tables /\ new.flagged = c.flagged /\ new.status = c.status
              /\ new.timeline = timeline /\ new.usage = c.usage
         /\ LET new == [c EXCEPT !.usage = usage] IN
              /\ new \in CaseState /\ new.records = c.records /\ new.tables = c.tables /\ new.flagged = c.flagged /\ new.status = c.status
              /\ new.timeline = c.timeline /\ new.usage = usage
<1>1. c = [tables |-> c.tables, flagged |-> c.flagged, records |-> c.records, status |-> c.status,
           timeline |-> c.timeline, usage |-> c.usage]
  BY DEF CaseState
<1>2. ASSUME NEW l \in Seq(AppRecord), NEW u \in Seq(AppRecord), NEW new,
             new = [tables |-> c.tables, flagged |-> c.flagged, records |-> c.records, status |-> c.status,
                    timeline |-> l, usage |-> u]
      PROVE  /\ new \in CaseState /\ new.records = c.records /\ new.tables = c.tables /\ new.flagged = c.flagged /\ new.status = c.status
             /\ new.timeline = l /\ new.usage = u
  BY <1>2 DEF CaseState
<1>3. c.timeline \in Seq(AppRecord) /\ c.usage \in Seq(AppRecord)
  BY DEF CaseState
<1>4. [c EXCEPT !.timeline = timeline]
        = [tables |-> c.tables, flagged |-> c.flagged, records |-> c.records, status |-> c.status,
           timeline |-> timeline, usage |-> c.usage]
  BY <1>1
<1>5. [c EXCEPT !.usage = usage]
        = [tables |-> c.tables, flagged |-> c.flagged, records |-> c.records, status |-> c.status,
           timeline |-> c.timeline, usage |-> usage]
  BY <1>1
<1> QED BY <1>2, <1>3, <1>4, <1>5

\* The second promotion empties the events, and adds them again.
LEMMA PromotionSteps ==
  ASSUME AppTypes, EventsInv,
         A!Enrich \/ A!ClearTimeline \/ A!ClearUsage \/ A!AddTimeline \/ A!AddUsage
  PROVE  /\ kept' \in CaseState /\ kept'.records = kept.records /\ kept'.tables = kept.tables
         /\ kept'.flagged = kept.flagged /\ kept'.status = kept.status
         /\ ~A!AddUsage => kept'.usage = <<>> /\ told'.promotion = "none"
         /\ kept'.timeline = (IF A!AddTimeline \/ A!AddUsage THEN A!eventsOf(kept.records) ELSE <<>>)
         /\ A!AddUsage => kept'.usage = A!usageOf(kept.records, TRUE)
         /\ pc' = (IF A!Enrich THEN "clearTimeline" ELSE IF A!ClearTimeline THEN "clearUsage"
                   ELSE IF A!ClearUsage THEN "addTimeline" ELSE IF A!AddTimeline THEN "addUsage" ELSE "ended")
         /\ UNCHANGED <<device, at, reader, txn, draft, warned, cut>> /\ pc \in Promoting \cup {"enrich"}
         /\ told' = [told EXCEPT !.promotion = IF A!AddUsage THEN "second" ELSE IF A!Enrich THEN "none" ELSE @]
<1>1. kept \in CaseState /\ kept.records \in Seq(AppRecord) /\ <<>> \in Seq(AppRecord)
  BY DEF AppTypes, CaseState
<1>2. PICK events, usage : events = A!eventsOf(kept.records) /\ usage = A!usageOf(kept.records, TRUE)
  OBVIOUS
<1>3. events \in Seq(AppRecord) /\ usage \in Seq(AppRecord)
  BY <1>1, <1>2, EventFacts
<1>4. told = [records |-> told.records, promotion |-> told.promotion]
  BY DEF AppTypes
<1>5. told.promotion \in {"none", "first", "second", "warning"} /\ (pc \in Promoting => told.promotion = "none")
  BY DEF AppTypes, EventsInv
<1>6. CASE A!Enrich
  <2>1. /\ kept' = [kept EXCEPT !.timeline = <<>>, !.usage = <<>>] /\ told' = [told EXCEPT !.promotion = "none"]
        /\ pc = "enrich" /\ pc' = "clearTimeline" /\ UNCHANGED <<device, at, reader, txn, draft, warned, cut>>
    BY <1>6 DEF A!Enrich, A!untouched
  <2>2. ~A!AddTimeline /\ ~A!AddUsage
    BY <2>1 DEF A!AddTimeline, A!AddUsage
  <2>3. told'.promotion = "none"
    BY <1>4, <2>1
  <2>4. /\ kept' \in CaseState /\ kept'.records = kept.records /\ kept'.tables = kept.tables
        /\ kept'.flagged = kept.flagged /\ kept'.status = kept.status
        /\ kept'.timeline = <<>> /\ kept'.usage = <<>>
    <3>1. PICK none \in Seq(AppRecord) : none = <<>>
      BY <1>1
    <3>2. kept' = [kept EXCEPT !.timeline = none, !.usage = none]
      BY <2>1, <3>1
    <3>3. /\ kept' \in CaseState /\ kept'.records = kept.records /\ kept'.tables = kept.tables
          /\ kept'.flagged = kept.flagged /\ kept'.status = kept.status
          /\ kept'.timeline = none /\ kept'.usage = none
      <4>1. kept = [tables |-> kept.tables, flagged |-> kept.flagged, records |-> kept.records, status |-> kept.status,
                    timeline |-> kept.timeline, usage |-> kept.usage]
        BY <1>1 DEF CaseState
      <4>2. kept' = [tables |-> kept.tables, flagged |-> kept.flagged, records |-> kept.records, status |-> kept.status,
                     timeline |-> none, usage |-> none]
        BY <3>2, <4>1
      <4> QED BY <1>1, <3>1, <4>2 DEF CaseState
    <3> QED BY <3>1, <3>3
  <2> QED BY <1>6, <2>1, <2>2, <2>3, <2>4
<1>7. CASE A!ClearTimeline
  <2>1. /\ kept' = [kept EXCEPT !.timeline = <<>>] /\ told' = told
        /\ pc = "clearTimeline" /\ pc' = "clearUsage" /\ UNCHANGED <<device, at, reader, txn, draft, warned, cut>>
    BY <1>7 DEF A!ClearTimeline, A!untouched
  <2>2. ~A!AddTimeline /\ ~A!AddUsage /\ ~A!Enrich
    BY <2>1 DEF A!AddTimeline, A!AddUsage, A!Enrich
  <2>3. kept.usage = <<>> /\ told.promotion = "none"
    BY <1>5, <2>1 DEF EventsInv, Promoting
  <2>4. told' = [told EXCEPT !.promotion = @] /\ told'.promotion = told.promotion
    BY <1>4, <2>1
  <2>5. /\ kept' \in CaseState /\ kept'.records = kept.records /\ kept'.tables = kept.tables
        /\ kept'.flagged = kept.flagged /\ kept'.status = kept.status
        /\ kept'.timeline = <<>> /\ kept'.usage = <<>>
    BY <1>1, <2>1, <2>3, CaseEvents
  <2> QED BY <1>7, <2>1, <2>2, <2>3, <2>4, <2>5 DEF Promoting
<1>8. CASE A!ClearUsage
  <2>1. /\ kept' = [kept EXCEPT !.usage = <<>>] /\ told' = told
        /\ pc = "clearUsage" /\ pc' = "addTimeline" /\ UNCHANGED <<device, at, reader, txn, draft, warned, cut>>
    BY <1>8 DEF A!ClearUsage, A!untouched
  <2>2. ~A!AddTimeline /\ ~A!AddUsage /\ ~A!Enrich /\ ~A!ClearTimeline
    BY <2>1 DEF A!AddTimeline, A!AddUsage, A!Enrich, A!ClearTimeline
  <2>3. kept.timeline = <<>> /\ kept.usage = <<>> /\ told.promotion = "none"
    BY <1>5, <2>1 DEF EventsInv, Promoting
  <2>4. told' = [told EXCEPT !.promotion = @] /\ told'.promotion = told.promotion
    BY <1>4, <2>1
  <2>5. /\ kept' \in CaseState /\ kept'.records = kept.records /\ kept'.tables = kept.tables
        /\ kept'.flagged = kept.flagged /\ kept'.status = kept.status
        /\ kept'.timeline = <<>> /\ kept'.usage = <<>>
    BY <1>1, <2>1, <2>3, CaseEvents
  <2> QED BY <1>8, <2>1, <2>2, <2>3, <2>4, <2>5 DEF Promoting
<1>9. CASE A!AddTimeline
  <2>1. /\ kept' = [kept EXCEPT !.timeline = @ \o events] /\ told' = told
        /\ pc = "addTimeline" /\ pc' = "addUsage" /\ UNCHANGED <<device, at, reader, txn, draft, warned, cut>>
    BY <1>2, <1>9 DEF A!AddTimeline, A!untouched
  <2>2. ~A!AddUsage /\ ~A!Enrich /\ ~A!ClearTimeline /\ ~A!ClearUsage
    BY <2>1 DEF A!AddUsage, A!Enrich, A!ClearTimeline, A!ClearUsage
  <2>3. kept.timeline = <<>> /\ kept.usage = <<>> /\ told.promotion = "none"
    BY <1>5, <2>1 DEF EventsInv, Promoting
  <2>4. told' = [told EXCEPT !.promotion = @] /\ told'.promotion = told.promotion
    BY <1>4, <2>1
  <2>5. <<>> \o events = events
    BY <1>3
  <2>6. kept' = [kept EXCEPT !.timeline = events]
    BY <2>1, <2>3, <2>5
  <2>7. /\ kept' \in CaseState /\ kept'.records = kept.records /\ kept'.tables = kept.tables
        /\ kept'.flagged = kept.flagged /\ kept'.status = kept.status
        /\ kept'.timeline = events /\ kept'.usage = <<>>
    BY <1>1, <1>3, <2>3, <2>6, CaseEvents
  <2> QED BY <1>2, <1>9, <2>1, <2>2, <2>3, <2>4, <2>7 DEF Promoting
<1>10. CASE A!AddUsage
  <2>1. /\ kept' = [kept EXCEPT !.usage = @ \o usage] /\ told' = [told EXCEPT !.promotion = "second"]
        /\ pc = "addUsage" /\ pc' = "ended" /\ UNCHANGED <<device, at, reader, txn, draft, warned, cut>>
    BY <1>2, <1>10 DEF A!AddUsage, A!untouched
  <2>2. ~A!AddTimeline /\ ~A!Enrich /\ ~A!ClearTimeline /\ ~A!ClearUsage
    BY <2>1 DEF A!AddTimeline, A!Enrich, A!ClearTimeline, A!ClearUsage
  <2>3. kept.timeline = events /\ kept.usage = <<>>
    BY <1>2, <2>1 DEF EventsInv
  <2>4. <<>> \o usage = usage
    BY <1>3
  <2>5. kept' = [kept EXCEPT !.usage = usage]
    BY <2>1, <2>3, <2>4
  <2>6. /\ kept' \in CaseState /\ kept'.records = kept.records /\ kept'.tables = kept.tables
        /\ kept'.flagged = kept.flagged /\ kept'.status = kept.status
        /\ kept'.timeline = events /\ kept'.usage = usage
    BY <1>1, <1>3, <2>3, <2>5, CaseEvents
  <2> QED BY <1>2, <1>10, <2>1, <2>2, <2>6 DEF Promoting
<1> QED BY <1>6, <1>7, <1>8, <1>9, <1>10

\* Where the parser is after any step.
LEMMA AtStep ==
  ASSUME AppTypes, AtInv, CommitInv, A!Next
  PROVE  AtInv' /\ UNCHANGED device
<1>1. at \in TableAt /\ at[1] \in Nat \ {0} /\ at[2] \in Nat /\ at[1] <= Len(device) + 1 /\ Len(device) \in Nat
  BY TableFacts DEF AtInv
<1>2. CASE UNCHANGED <<at, device>> /\ pc' \notin {"begin", "flags", "parse"} /\ told'.records # "complete"
  BY <1>2 DEF AtInv, A!Database
<1>3. CASE UNCHANGED <<at, device, told>> /\ pc' \notin {"begin", "flags", "parse"}
  BY <1>3 DEF AtInv, A!Database
<1>4. CASE UNCHANGED <<at, device, told, pc>>
  BY <1>4 DEF AtInv, A!Database, A!Table
<1>5. CASE A!Begin \/ A!Stop
  BY <1>3, <1>5 DEF A!Begin, A!Stop
<1>6. CASE A!SkipDatabase \/ A!CloseDatabase
  <2>1. UNCHANGED <<device, told, pc>> /\ pc = "database" /\ at' = <<at[1] + 1, 0>> /\ at[1] <= Len(device)
    BY <1>6 DEF A!SkipDatabase, A!CloseDatabase
  <2>2. at' \in TableAt /\ at'[1] = at[1] + 1 /\ at'[2] = 0 /\ ~(at'[2] > 0)
    BY <1>1, <2>1 DEF TableAt
  <2>3. told.records # "complete"
    BY <2>1 DEF CommitInv, Importing
  <2> QED BY <1>1, <2>1, <2>2, <2>3 DEF AtInv
<1>7. CASE A!NextTable
  <2>1. /\ UNCHANGED <<device, told>> /\ pc = "database" /\ pc' \in {"database", "flags"} /\ at' = <<at[1], at[2] + 1>>
        /\ at[1] <= Len(device) /\ A!Database.file = "ok" /\ at[2] < Len(A!Database.tables) /\ at[2] < MaxTables
    BY <1>7 DEF A!NextTable
  <2>2. at' \in TableAt /\ at'[1] = at[1] /\ at'[2] = at[2] + 1 /\ at'[2] > 0
    BY <1>1, <2>1 DEF TableAt
  <2>3. told.records # "complete"
    BY <2>1 DEF CommitInv, Importing
  <2>4. A!Database' = A!Database
    BY <2>1, <2>2 DEF A!Database
  <2>5. Len(A!Database.tables) \in Nat /\ MaxTables \in Nat
    BY <1>1, <2>1, TableFacts, AppAssumptions DEF A!Database, A!ParseAssumption
  <2>6. at'[2] <= Len(A!Database.tables) /\ at'[2] <= MaxTables
    BY <1>1, <2>1, <2>2, <2>5
  <2> QED BY <1>1, <2>1, <2>2, <2>3, <2>4, <2>6 DEF AtInv
<1>8. CASE A!InventoryFails
  <2>1. UNCHANGED <<at, device>> /\ pc' = "enrich" /\ told' = [told EXCEPT !.records = "warning"]
    BY <1>8 DEF A!InventoryFails
  <2>2. told'.records = "warning"
    BY <2>1 DEF AppTypes
  <2> QED BY <1>2, <2>1, <2>2
<1>9. CASE A!ScanFlags \/ A!FlagsFail
  <2>1. UNCHANGED <<at, device, told>> /\ pc = "flags" /\ pc' = A!parseNext
    BY <1>9 DEF A!ScanFlags, A!FlagsFail
  <2>2. CASE pc' = "database"
    BY <1>3, <2>1, <2>2
  <2>3. CASE pc' = "parse" /\ A!isTargetRecordCategory(A!iosAppDbRecordCategory(A!Table))
    BY <2>1, <2>3 DEF AtInv, A!Table, A!Database
  <2> QED BY <2>1, <2>2, <2>3 DEF A!parseNext
<1>10. CASE A!OpenReader \/ A!SkipRow \/ A!RecordRow \/ A!ReadFails \/ A!Done
  BY <1>4, <1>10 DEF A!OpenReader, A!SkipRow, A!RecordRow, A!ReadFails, A!Done, A!vars
<1>11. CASE A!RowFails \/ A!EndPage
  BY <1>3, <1>4, <1>11 DEF A!RowFails, A!EndPage
<1>12. CASE A!Commit
  <2>1. UNCHANGED <<at, device>> /\ pc' = "enrich" /\ at[1] > Len(device)
    BY <1>12 DEF A!Commit
  <2> QED BY <2>1 DEF AtInv, A!Database
<1>13. CASE A!Enrich \/ A!AddUsage \/ A!PromotionFails
  <2>1. /\ UNCHANGED <<at, device>> /\ pc' \notin {"begin", "flags", "parse"}
        /\ \E word : told' = [told EXCEPT !.promotion = word]
    BY <1>13 DEF A!Enrich, A!AddUsage, A!PromotionFails, A!untouched
  <2>2. told'.records = told.records
    BY <2>1 DEF AppTypes
  <2> QED BY <2>1, <2>2 DEF AtInv, A!Database
<1>14. CASE A!ClearTimeline \/ A!ClearUsage \/ A!AddTimeline
  BY <1>3, <1>14 DEF A!ClearTimeline, A!ClearUsage, A!AddTimeline, A!untouched
<1> QED BY <1>5, <1>6, <1>7, <1>8, <1>9, <1>10, <1>11, <1>12, <1>13, <1>14 
        DEF A!Next, A!Begin, A!SkipDatabase, A!NextTable, A!CloseDatabase, A!InventoryFails, A!ScanFlags, A!FlagsFail,
            A!OpenReader, A!SkipRow, A!RecordRow, A!RowFails, A!ReadFails, A!EndPage, A!Commit, A!Enrich, A!ClearTimeline,
            A!ClearUsage, A!AddTimeline, A!AddUsage, A!PromotionFails, A!Stop, A!Done, A!untouched, A!vars

\* Cases, words and events after any step.
LEMMA EventsStep ==
  ASSUME AppTypes, AtInv, ReaderInv, CommitInv, EventsInv, A!Next
  PROVE  AppTypes' /\ CommitInv' /\ EventsInv'
<1> DEFINE untold == [records |-> "none", promotion |-> "none"]
<1>1. /\ reader' \in AppReader /\ UNCHANGED device /\ device \in Devices
      /\ pc \in Importing \cup Promoting \cup {"enrich", "ended"}
      /\ kept \in CaseState /\ draft \in CaseState /\ txn \in {"none", "open", "lost"}
      /\ told = [records |-> told.records, promotion |-> told.promotion]
      /\ told.records \in {"none", "warning", "complete"} /\ told.promotion \in {"none", "first", "second", "warning"}
  BY ReaderMoves, AtStep DEF AppTypes
<1>2. /\ A!Empty \in CaseState /\ A!Empty.records = <<>> /\ A!Empty.timeline = <<>> /\ A!Empty.usage = <<>>
      /\ draft.timeline = <<>> /\ draft.usage = <<>>
  BY EmptyCase DEF EventsInv
<1>3. \A list : A!Within(<<>>, list)
  BY DEF A!Within
<1>4. ASSUME kept'.timeline = <<>>, kept'.usage = <<>>, draft'.timeline = <<>>, draft'.usage = <<>>,
             pc' # "addUsage", told'.promotion \notin {"first", "second"}, pc' \in Promoting => told'.promotion = "none"
      PROVE  EventsInv'
  BY <1>3, <1>4 DEF EventsInv, A!EventsTellRecords
<1>5. pc \in Importing => kept.timeline = <<>> /\ kept.usage = <<>> /\ told = untold
  BY DEF CommitInv, EventsInv
<1>6. ASSUME pc \in {"database", "flags", "parse"}, pc' \in {"database", "flags", "parse"}, UNCHANGED told,
             kept' \in CaseState, kept'.timeline = <<>>, kept'.usage = <<>>,
             draft' \in CaseState, draft'.timeline = <<>>, draft'.usage = <<>>,
             txn' \in {"open", "lost"}, txn' = "open" => kept' = A!Empty, txn' = "lost" => draft' = A!Empty
      PROVE  AppTypes' /\ CommitInv' /\ EventsInv'
  <2>1. told' = untold /\ told'.records = "none" /\ told'.promotion = "none" /\ pc' \in Importing /\ pc' \notin {"begin", "addUsage"}
    BY <1>5, <1>6 DEF Importing
  <2>2. AppTypes'
    <3>1. pc' \in Importing \cup Promoting \cup {"enrich", "ended"} /\ txn' \in {"none", "open", "lost"}
      BY <1>6, <2>1
    <3>2. told' \in [records : {"none", "warning", "complete"}, promotion : {"none", "first", "second", "warning"}]
      BY <2>1
    <3> QED BY <1>1, <1>6, <3>1, <3>2 DEF AppTypes
  <2>3. CommitInv'
    BY <1>6, <2>1 DEF CommitInv, A!NothingHalfKept, Importing
  <2> QED BY <1>4, <1>6, <2>1, <2>2, <2>3
<1>7. pc \in {"database", "flags", "parse"} =>
        txn \in {"open", "lost"} /\ (txn = "open" => kept = A!Empty) /\ (txn = "lost" => draft = A!Empty)
  BY <1>1 DEF CommitInv
<1>8. CASE A!SkipDatabase \/ A!NextTable \/ A!CloseDatabase \/ A!ScanFlags \/ A!RecordRow
  <2>1. /\ pc \in {"database", "flags", "parse"} /\ pc' \in {"database", "flags", "parse"} /\ UNCHANGED <<txn, told>>
        /\ kept' \in CaseState /\ draft' \in CaseState
        /\ IF txn = "open" THEN UNCHANGED kept ELSE UNCHANGED draft
        /\ A!Current'.timeline = A!Current.timeline /\ A!Current'.usage = A!Current.usage
    BY <1>8, WriteSteps
  <2>2. kept.timeline = <<>> /\ kept.usage = <<>>
    BY <1>5, <2>1 DEF Importing
  <2>3. kept'.timeline = <<>> /\ kept'.usage = <<>> /\ draft'.timeline = <<>> /\ draft'.usage = <<>>
    BY <1>2, <2>1, <2>2 DEF A!Current
  <2> QED BY <1>6, <1>7, <2>1, <2>3
<1>9. CASE A!OpenReader \/ A!SkipRow \/ A!ReadFails \/ A!EndPage
  <2>1. pc = "parse" /\ pc' \in {"database", "parse"} /\ UNCHANGED <<txn, told, kept, draft>>
    BY <1>9 DEF A!OpenReader, A!SkipRow, A!ReadFails, A!EndPage
  <2>2. kept.timeline = <<>> /\ kept.usage = <<>>
    BY <1>5, <2>1 DEF Importing
  <2> QED BY <1>1, <1>2, <1>6, <1>7, <2>1, <2>2
<1>10. CASE A!FlagsFail \/ A!RowFails
  <2>1. /\ pc \in {"flags", "parse"} /\ pc' \in {"database", "parse"} /\ UNCHANGED told
        /\ \/ UNCHANGED <<txn, kept, draft>>
           \/ txn' = "lost" /\ draft' = A!Empty /\ UNCHANGED kept
    BY <1>10 DEF A!FlagsFail, A!RowFails, A!Fails, A!parseNext
  <2>2. kept.timeline = <<>> /\ kept.usage = <<>>
    BY <1>5, <2>1 DEF Importing
  <2> QED BY <1>1, <1>2, <1>6, <1>7, <2>1, <2>2
<1>11. CASE A!Begin
  <2>1. pc = "begin" /\ pc' = "database" /\ txn' = "open" /\ draft' = kept /\ kept' = kept /\ told' = told /\ kept = A!Empty
    BY <1>11 DEF A!Begin, CommitInv
  <2>2. told' = untold /\ told'.promotion = "none"
    BY <1>5, <2>1 DEF Importing
  <2>3. AppTypes'
    BY <1>1, <2>1 DEF AppTypes, Importing
  <2>4. CommitInv'
    BY <2>1, <2>2 DEF CommitInv, A!NothingHalfKept, Importing
  <2>5. EventsInv'
    BY <1>2, <1>4, <2>1, <2>2
  <2> QED BY <2>3, <2>4, <2>5
<1>12. ASSUME pc \in Importing, pc' = "enrich", draft' = A!Empty, txn' = A!Closed, kept' \in CaseState,
              told' \in [records : {"warning", "complete"}, promotion : {"none", "first"}],
              told'.records = "warning" /\ txn # "lost" => kept' = A!Empty
       PROVE  AppTypes' /\ CommitInv'
  <2>1. txn' \in {"none", "lost"} /\ (txn' = "lost" <=> txn = "lost")
    BY <1>1, <1>12 DEF A!Closed
  <2>2. AppTypes'
    <3>1. pc' \in Importing \cup Promoting \cup {"enrich", "ended"} /\ txn' \in {"none", "open", "lost"}
      BY <1>12, <2>1
    <3>2. told' \in [records : {"none", "warning", "complete"}, promotion : {"none", "first", "second", "warning"}]
      BY <1>12
    <3> QED BY <1>1, <1>2, <1>12, <3>1, <3>2 DEF AppTypes
  <2>3. CommitInv'
    BY <1>12, <2>1 DEF CommitInv, A!NothingHalfKept, Importing
  <2> QED BY <2>2, <2>3
<1>13. CASE A!InventoryFails
  <2>1. /\ pc \in {"begin", "database"} /\ pc' = "enrich" /\ draft' = A!Empty /\ txn' = A!Closed /\ kept' = kept
        /\ told' = [told EXCEPT !.records = "warning"]
    BY <1>13 DEF A!InventoryFails
  <2>2. told' = [records |-> "warning", promotion |-> "none"]
    BY <1>5, <2>1 DEF Importing
  <2>3. told'.records = "warning" /\ told'.promotion = "none"
        /\ told' \in [records : {"warning", "complete"}, promotion : {"none", "first"}]
    BY <2>2
  <2>4. txn # "lost" => kept = A!Empty
    BY <1>7, <2>1 DEF CommitInv
  <2>5. AppTypes' /\ CommitInv'
    BY <1>1, <1>12, <2>1, <2>3, <2>4 DEF Importing
  <2>6. kept.timeline = <<>> /\ kept.usage = <<>>
    BY <1>5, <2>1 DEF Importing
  <2>7. EventsInv'
    BY <1>2, <1>4, <2>1, <2>3, <2>6
  <2> QED BY <2>5, <2>7
<1>14. ASSUME NEW c \in CaseState, kept' = A!promoted(c, FALSE), told'.promotion \in {"none", "first"},
              draft' = A!Empty, pc' = "enrich"
       PROVE  EventsInv' /\ kept' \in CaseState
  <2>1. /\ kept' \in CaseState /\ kept'.records = c.records
        /\ kept'.timeline = A!eventsOf(c.records) /\ kept'.usage = A!usageOf(c.records, FALSE)
        /\ kept' = A!promoted(kept', FALSE)
    BY <1>14, PromotedFacts
  <2>2. c.records \in Seq(AppRecord)
    BY DEF CaseState
  <2>3. A!Within(kept'.timeline, A!eventsOf(kept'.records)) /\ A!Within(kept'.usage, kept'.timeline)
    BY <2>1, <2>2, EventFacts
  <2>4. A!EventsTellRecords'
    BY <1>14, <2>1, <2>3 DEF A!EventsTellRecords
  <2> QED BY <1>2, <1>14, <2>1, <2>4 DEF EventsInv, Importing, Promoting
<1>15. CASE A!Commit
  <2>1. pc = "database" /\ pc' = "enrich" /\ draft' = A!Empty /\ txn' = A!Closed
    BY <1>15 DEF A!Commit
  <2>2. told = untold /\ kept.timeline = <<>> /\ kept.usage = <<>> /\ pc \in Importing
    BY <1>5, <2>1 DEF Importing
  <2>3. CASE kept' = A!promoted(draft, FALSE) /\ told' = [records |-> "complete", promotion |-> "first"]
    <3>1. told'.promotion = "first" /\ told'.records = "complete"
          /\ told' \in [records : {"warning", "complete"}, promotion : {"none", "first"}]
      BY <2>3
    <3>2. EventsInv' /\ kept' \in CaseState
      BY <1>1, <1>14, <2>1, <2>3, <3>1
    <3> QED BY <1>12, <2>1, <2>2, <3>1, <3>2
  <2>4. CASE txn = "open" /\ kept' = kept /\ told' \in {[told EXCEPT !.records = "warning"], [records |-> "warning", promotion |-> "first"]}
    <3>1. told'.promotion \in {"none", "first"} /\ told'.records = "warning"
          /\ told' \in [records : {"warning", "complete"}, promotion : {"none", "first"}]
      BY <2>2, <2>4
    <3>2. kept' = A!Empty /\ kept' \in CaseState
      BY <1>2, <1>7, <2>1, <2>4
    <3>3. kept' = A!promoted(A!Empty, FALSE)
      <4>1. <<>> \in Seq(AppRecord)
        OBVIOUS
      <4>2. A!eventsOf(<<>>) = <<>> /\ A!usageOf(<<>>, FALSE) = <<>>
        BY <4>1, EventFacts
      <4>3. PICK c \in CaseState : c = A!Empty
        BY <1>2
      <4>4. c.timeline = A!eventsOf(c.records) /\ c.usage = A!usageOf(c.records, FALSE)
        BY <1>2, <4>2, <4>3
      <4>5. c = A!promoted(c, FALSE)
        BY <4>4, PromotedFacts
      <4> QED BY <3>2, <4>3, <4>5
    <3>4. EventsInv'
      BY <1>2, <1>14, <2>1, <3>1, <3>3
    <3> QED BY <1>12, <2>1, <2>2, <3>1, <3>2, <3>4
  <2>5. CASE txn = "lost" /\ kept' = A!promoted(kept, FALSE) /\ told' = [records |-> "warning", promotion |-> "first"]
    <3>1. told'.promotion = "first" /\ told'.records = "warning"
          /\ told' \in [records : {"warning", "complete"}, promotion : {"none", "first"}]
      BY <2>5
    <3>2. EventsInv' /\ kept' \in CaseState
      BY <1>1, <1>14, <2>1, <2>5, <3>1
    <3> QED BY <1>12, <2>1, <2>2, <2>5, <3>1, <3>2
  <2>6. CASE txn = "lost" /\ told' = [told EXCEPT !.records = "warning"]
             /\ kept' \in {kept, [kept EXCEPT !.timeline = A!eventsOf(kept.records)]}
    <3>1. told' = [records |-> "warning", promotion |-> "none"]
      BY <2>2, <2>6
    <3>2. told'.promotion = "none" /\ told'.records = "warning"
          /\ told' \in [records : {"warning", "complete"}, promotion : {"none", "first"}]
      BY <3>1
    <3>3. CASE kept' = kept
      <4>1. EventsInv'
        BY <1>2, <1>4, <2>1, <2>2, <3>2, <3>3
      <4> QED BY <1>1, <1>12, <2>1, <2>2, <2>6, <3>2, <3>3, <4>1
    <3>4. CASE kept' = [kept EXCEPT !.timeline = A!eventsOf(kept.records)]
      <4>1. PICK events : events = A!eventsOf(kept.records)
        OBVIOUS
      <4>2. kept.records \in Seq(AppRecord)
        BY <1>1 DEF CaseState
      <4>3. events \in Seq(AppRecord) /\ A!Within(events, events)
        BY <4>1, <4>2, EventFacts
      <4>4. kept.usage \in Seq(AppRecord)
        BY <1>1 DEF CaseState
      <4>5. kept' \in CaseState /\ kept'.records = kept.records /\ kept'.timeline = events /\ kept'.usage = <<>>
        BY <1>1, <2>2, <3>4, <4>1, <4>3, <4>4, CaseEvents
      <4>6. A!Within(kept'.timeline, A!eventsOf(kept'.records)) /\ A!Within(kept'.usage, kept'.timeline)
        BY <1>3, <4>1, <4>3, <4>5
      <4>7. A!EventsTellRecords'
        BY <3>2, <4>6 DEF A!EventsTellRecords
      <4>8. EventsInv'
        BY <1>2, <2>1, <4>7 DEF EventsInv, Importing, Promoting
      <4> QED BY <1>12, <2>1, <2>2, <2>6, <3>2, <4>5, <4>8
    <3> QED BY <2>6, <3>3, <3>4
  <2> QED BY <1>15, <2>3, <2>4, <2>5, <2>6 DEF A!Commit
<1>16. pc \in Promoting \cup {"enrich", "ended"} => pc \notin Importing /\ txn # "open" /\ draft = A!Empty /\ txn \in {"none", "lost"}
  BY <1>1 DEF CommitInv, Importing, Promoting
<1>17. CASE A!Enrich \/ A!ClearTimeline \/ A!ClearUsage \/ A!AddTimeline \/ A!AddUsage
  <2>1. /\ kept' \in CaseState /\ kept'.records = kept.records /\ kept'.tables = kept.tables
        /\ kept'.flagged = kept.flagged /\ kept'.status = kept.status
        /\ ~A!AddUsage => kept'.usage = <<>> /\ told'.promotion = "none"
        /\ kept'.timeline = (IF A!AddTimeline \/ A!AddUsage THEN A!eventsOf(kept.records) ELSE <<>>)
        /\ A!AddUsage => kept'.usage = A!usageOf(kept.records, TRUE)
        /\ pc' = (IF A!Enrich THEN "clearTimeline" ELSE IF A!ClearTimeline THEN "clearUsage"
                   ELSE IF A!ClearUsage THEN "addTimeline" ELSE IF A!AddTimeline THEN "addUsage" ELSE "ended")
        /\ UNCHANGED <<txn, draft>> /\ pc \in Promoting \cup {"enrich"}
        /\ told' = [told EXCEPT !.promotion = IF A!AddUsage THEN "second" ELSE IF A!Enrich THEN "none" ELSE @]
    BY <1>17, PromotionSteps
  <2>2. /\ told'.records = told.records /\ told'.promotion = (IF A!AddUsage THEN "second" ELSE "none")
        /\ told' \in [records : {"none", "warning", "complete"}, promotion : {"none", "first", "second", "warning"}]
    <3>1. told' = [records |-> told.records, promotion |-> IF A!AddUsage THEN "second" ELSE IF A!Enrich THEN "none" ELSE told.promotion]
      BY <1>1, <2>1
    <3>2. told'.records = told.records /\ told'.promotion = (IF A!AddUsage THEN "second" ELSE "none")
      BY <2>1, <3>1
    <3> QED BY <1>1, <3>1, <3>2
  <2>3. AppTypes'
    BY <1>1, <2>1, <2>2 DEF AppTypes, Promoting
  <2>4. kept.records \in Seq(AppRecord)
    BY <1>1 DEF CaseState
  <2>5. A!eventsOf(<<>>) = <<>> /\ A!usageOf(<<>>, TRUE) = <<>>
    <3>1. <<>> \in Seq(AppRecord)
      OBVIOUS
    <3> QED BY <3>1, EventFacts
  <2>6. kept = A!Empty => kept' = A!Empty
    <3> SUFFICES ASSUME kept = A!Empty
                 PROVE  kept' = A!Empty
      OBVIOUS
    <3>1. kept'.timeline = <<>> /\ kept'.usage = <<>>
      BY <1>2, <2>1, <2>5
    <3>2. kept' = [tables |-> kept'.tables, flagged |-> kept'.flagged, records |-> kept'.records, status |-> kept'.status,
                   timeline |-> kept'.timeline, usage |-> kept'.usage]
      BY <2>1 DEF CaseState
    <3> QED BY <2>1, <3>1, <3>2 DEF A!Empty
  <2>7. pc' \in Promoting \cup {"ended"} /\ pc' \notin Importing /\ (pc' = "addUsage" => A!AddTimeline /\ ~A!AddUsage)
    <3>1. A!AddTimeline => ~A!AddUsage
      BY DEF A!AddTimeline, A!AddUsage
    <3> QED BY <2>1, <3>1 DEF Promoting, Importing
  <2>8. CommitInv'
    BY <1>16, <2>1, <2>2, <2>6, <2>7 DEF CommitInv, A!NothingHalfKept, Importing, Promoting
  <2>9. CASE A!AddUsage
    <3>1. kept' = A!promoted(kept', TRUE)
      BY <1>1, <2>1, <2>9, PromotedFacts
    <3>2. A!Within(kept'.timeline, A!eventsOf(kept'.records)) /\ A!Within(kept'.usage, kept'.timeline)
      BY <2>1, <2>4, <2>9, EventFacts
    <3>3. told'.promotion = "second"
      BY <2>2, <2>9
    <3>4. A!EventsTellRecords'
      BY <3>1, <3>2, <3>3 DEF A!EventsTellRecords
    <3>5. pc' = "ended"
      BY <2>9, <2>1 DEF A!AddUsage
    <3> QED BY <1>2, <2>1, <2>3, <2>8, <3>4, <3>5 DEF EventsInv, Importing, Promoting
  <2>10. CASE ~A!AddUsage /\ A!AddTimeline
    <3>1. kept'.usage = <<>> /\ kept'.timeline = A!eventsOf(kept'.records) /\ told'.promotion = "none"
      BY <2>1, <2>10
    <3>2. A!Within(kept'.timeline, A!eventsOf(kept'.records)) /\ A!Within(kept'.usage, kept'.timeline)
      BY <1>3, <2>1, <2>4, <3>1, EventFacts
    <3>3. A!EventsTellRecords'
      BY <3>1, <3>2 DEF A!EventsTellRecords
    <3>4. pc' = "addUsage"
      BY <2>10 DEF A!AddTimeline
    <3> QED BY <1>2, <2>1, <2>3, <2>8, <3>1, <3>3, <3>4 DEF EventsInv, Importing, Promoting
  <2>11. CASE ~A!AddUsage /\ ~A!AddTimeline
    <3>1. kept'.usage = <<>> /\ kept'.timeline = <<>> /\ told'.promotion = "none" /\ pc' # "addUsage"
      BY <2>1, <2>7, <2>11
    <3>2. EventsInv'
      BY <1>2, <1>4, <2>1, <3>1
    <3> QED BY <2>3, <2>8, <3>2
  <2> QED BY <2>9, <2>10, <2>11
<1>18. CASE A!PromotionFails
  <2>1. /\ pc \in Promoting /\ pc' = "ended" /\ told' = [told EXCEPT !.promotion = "warning"]
        /\ UNCHANGED <<kept, draft, txn>>
    BY <1>18 DEF A!PromotionFails, A!untouched, Promoting
  <2>2. told' = [records |-> told.records, promotion |-> "warning"]
    BY <1>1, <2>1
  <2>3. told'.records = told.records /\ told'.promotion = "warning"
        /\ told' \in [records : {"none", "warning", "complete"}, promotion : {"none", "first", "second", "warning"}]
    BY <1>1, <2>2
  <2>4. AppTypes'
    BY <1>1, <2>1, <2>3 DEF AppTypes
  <2>5. CommitInv'
    BY <1>16, <2>1, <2>3 DEF CommitInv, A!NothingHalfKept, Importing
  <2>6. EventsInv'
    BY <2>1, <2>3 DEF EventsInv, Importing, Promoting, A!EventsTellRecords
  <2> QED BY <2>4, <2>5, <2>6
<1>19. CASE A!Stop
  <2>1. pc' = "ended" /\ draft' = A!Empty /\ txn' = A!Closed /\ UNCHANGED <<kept, told>>
    BY <1>19 DEF A!Stop
  <2>2. txn' \in {"none", "lost"} /\ (txn' = "lost" <=> txn = "lost")
    BY <1>1, <2>1 DEF A!Closed
  <2>3. AppTypes'
    BY <1>1, <1>2, <2>1, <2>2 DEF AppTypes
  <2>4. CommitInv'
    BY <2>1, <2>2 DEF CommitInv, A!NothingHalfKept, Importing
  <2>5. EventsInv'
    BY <1>2, <2>1 DEF EventsInv, Importing, Promoting, A!EventsTellRecords
  <2> QED BY <2>3, <2>4, <2>5
<1>20. CASE A!Done
  BY <1>1, <1>20 DEF A!Done, A!vars, AppTypes, CommitInv, EventsInv, A!NothingHalfKept, A!EventsTellRecords
<1> QED BY <1>8, <1>9, <1>10, <1>11, <1>13, <1>15, <1>17, <1>18, <1>19, <1>20 DEF A!Next

\* What a step does to what the import sees: a row is recorded, or tables and
\* statuses are told, or it is as it was, or it is gone with the transaction.
LEMMA CurrentMoves ==
  ASSUME AppTypes, AtInv, ReaderInv, CommitInv, EventsInv, A!Next
  PROVE  /\ \/ /\ A!RecordRow
               /\ A!Current'.records = Append(A!Current.records, A!recordOf(A!Here, A!Table, A!next, reader.how))
            \/ ~A!RecordRow /\ A!Current'.records = A!Current.records
            \/ ~A!RecordRow /\ A!Current'.records = <<>> /\ ~AllKept'
         /\ AllKept' =>
              /\ AllKept \/ A!Begin
              /\ A!Current'.tables = (IF A!NextTable THEN A!Current.tables \cup {at'} ELSE A!Current.tables)
              /\ A!Current'.status = (IF A!SkipDatabase THEN Append(A!Current.status, A!Database.file)
                                      ELSE IF A!CloseDatabase THEN Append(A!Current.status, at[2])
                                      ELSE A!Current.status)
<1>1. /\ pc \in Importing \cup Promoting \cup {"enrich", "ended"}
      /\ kept \in CaseState /\ draft \in CaseState /\ txn \in {"none", "open", "lost"}
      /\ told = [records |-> told.records, promotion |-> told.promotion]
  BY DEF AppTypes
<1>2. /\ pc \in {"begin", "database", "flags", "parse"} => told.records = "none"
      /\ txn = "open" => kept = A!Empty /\ pc \in {"database", "flags", "parse"}
      /\ A!Empty.records = <<>>
  BY EmptyCase DEF CommitInv, Importing
<1>3. CASE A!SkipDatabase \/ A!NextTable \/ A!CloseDatabase \/ A!ScanFlags \/ A!RecordRow
  <2>1. /\ UNCHANGED <<txn, told>>
        /\ A!Current'.records = (IF A!RecordRow THEN Append(A!Current.records, A!recordOf(A!Here, A!Table, A!next, reader.how))
                                 ELSE A!Current.records)
        /\ A!Current'.tables = (IF A!NextTable THEN A!Current.tables \cup {at'} ELSE A!Current.tables)
        /\ A!Current'.status = (IF A!SkipDatabase THEN Append(A!Current.status, A!Database.file)
                                ELSE IF A!CloseDatabase THEN Append(A!Current.status, at[2])
                                ELSE A!Current.status)
    BY <1>3, WriteSteps
  <2>2. AllKept' => AllKept
    BY <2>1 DEF AllKept
  <2> QED BY <2>1, <2>2
<1>4. ASSUME ~A!RecordRow, ~A!SkipDatabase, ~A!CloseDatabase, ~A!NextTable,
             AllKept' => AllKept \/ A!Begin,
             \/ /\ A!Current'.records = A!Current.records
                /\ AllKept' => A!Current'.tables = A!Current.tables /\ A!Current'.status = A!Current.status
             \/ A!Current'.records = <<>> /\ ~AllKept'
      PROVE  /\ \/ /\ A!RecordRow
                   /\ A!Current'.records = Append(A!Current.records, A!recordOf(A!Here, A!Table, A!next, reader.how))
                \/ ~A!RecordRow /\ A!Current'.records = A!Current.records
                \/ ~A!RecordRow /\ A!Current'.records = <<>> /\ ~AllKept'
             /\ AllKept' =>
                  /\ AllKept \/ A!Begin
                  /\ A!Current'.tables = (IF A!NextTable THEN A!Current.tables \cup {at'} ELSE A!Current.tables)
                  /\ A!Current'.status = (IF A!SkipDatabase THEN Append(A!Current.status, A!Database.file)
                                          ELSE IF A!CloseDatabase THEN Append(A!Current.status, at[2])
                                          ELSE A!Current.status)
  BY <1>4
<1>5. CASE A!Begin
  <2>1. pc = "begin" /\ txn' = "open" /\ draft' = kept /\ kept' = kept
    BY <1>5 DEF A!Begin
  <2>2. ~A!RecordRow /\ ~A!SkipDatabase /\ ~A!CloseDatabase /\ ~A!NextTable
    BY <2>1 DEF A!RecordRow, A!SkipDatabase, A!CloseDatabase, A!NextTable
  <2>3. A!Current' = A!Current
    BY <1>2, <2>1 DEF A!Current
  <2> QED BY <1>4, <1>5, <2>2, <2>3
<1>6. CASE A!OpenReader \/ A!SkipRow \/ A!ReadFails \/ A!EndPage
  <2>1. pc = "parse" /\ UNCHANGED <<txn, told, kept, draft>>
    BY <1>6 DEF A!OpenReader, A!SkipRow, A!ReadFails, A!EndPage
  <2>2. ~A!SkipDatabase /\ ~A!CloseDatabase /\ ~A!NextTable
    BY <2>1 DEF A!SkipDatabase, A!CloseDatabase, A!NextTable
  <2>3. A!Current' = A!Current /\ (AllKept' => AllKept)
    BY <2>1 DEF A!Current, AllKept
  <2>4. ~A!RecordRow
    <3>1. CASE A!SkipRow
      BY <3>1 DEF A!SkipRow, A!RecordRow
    <3>2. CASE A!OpenReader
      <4>1. reader.todo = <<>>
        BY <2>1, <3>2 DEF A!OpenReader, ReaderInv, A!NoReader
      <4> QED BY <4>1 DEF A!RecordRow
    <3>3. CASE A!EndPage
      BY <3>3 DEF A!EndPage, A!RecordRow
    <3>4. CASE A!ReadFails
      BY <3>4 DEF A!ReadFails, A!RecordRow
    <3> QED BY <1>6, <3>1, <3>2, <3>3, <3>4
  <2> QED BY <1>4, <2>2, <2>3, <2>4
<1>7. CASE A!FlagsFail \/ A!RowFails
  <2>1. /\ pc \in {"flags", "parse"} /\ UNCHANGED told
        /\ \/ UNCHANGED <<txn, kept, draft>>
           \/ txn = "open" /\ txn' = "lost" /\ draft' = A!Empty /\ UNCHANGED kept
    BY <1>7 DEF A!FlagsFail, A!RowFails, A!Fails
  <2>2. ~A!SkipDatabase /\ ~A!CloseDatabase /\ ~A!NextTable
    BY <2>1 DEF A!SkipDatabase, A!CloseDatabase, A!NextTable
  <2>3. ~A!RecordRow
    <3>1. CASE A!FlagsFail
      BY <3>1 DEF A!FlagsFail, A!RecordRow
    <3>2. CASE A!RowFails
      BY <3>2 DEF A!RowFails, A!RecordRow
    <3> QED BY <1>7, <3>1, <3>2
  <2>4. CASE UNCHANGED <<txn, kept, draft>>
    <3>1. A!Current' = A!Current /\ (AllKept' => AllKept)
      BY <2>1, <2>4 DEF A!Current, AllKept
    <3> QED BY <1>4, <2>2, <2>3, <3>1
  <2>5. CASE txn = "open" /\ txn' = "lost" /\ UNCHANGED kept
    <3>1. A!Current'.records = <<>> /\ ~AllKept'
      BY <1>2, <2>1, <2>5 DEF A!Current, AllKept
    <3> QED BY <1>4, <2>2, <2>3, <3>1
  <2> QED BY <2>1, <2>4, <2>5
<1>8. ASSUME ~A!RecordRow, ~A!SkipDatabase, ~A!CloseDatabase, ~A!NextTable,
             txn' \in {"none", "lost"}, UNCHANGED kept, told'.records # "complete"
      PROVE  /\ \/ ~A!RecordRow /\ A!Current'.records = A!Current.records
                \/ ~A!RecordRow /\ A!Current'.records = <<>> /\ ~AllKept'
             /\ ~AllKept'
  <2>1. ~AllKept' /\ A!Current' = kept
    BY <1>8 DEF AllKept, A!Current
  <2>2. CASE txn = "open"
    BY <1>2, <1>8, <2>1, <2>2
  <2>3. CASE txn # "open"
    BY <1>8, <2>1, <2>3 DEF A!Current
  <2> QED BY <2>2, <2>3
<1>9. CASE A!InventoryFails
  <2>1. pc \in {"begin", "database"} /\ pc' = "enrich" /\ txn' = A!Closed /\ kept' = kept /\ told' = [told EXCEPT !.records = "warning"]
    BY <1>9 DEF A!InventoryFails
  <2>2. told'.records = "warning"
    BY <1>1, <2>1
  <2>3. ~A!RecordRow /\ ~A!SkipDatabase /\ ~A!CloseDatabase /\ ~A!NextTable
    BY <2>1 DEF A!RecordRow, A!SkipDatabase, A!CloseDatabase, A!NextTable
  <2> QED BY <1>8, <2>1, <2>2, <2>3 DEF A!Closed
<1>10. CASE A!Stop
  <2>1. pc # "ended" /\ pc' = "ended" /\ txn' = A!Closed /\ kept' = kept /\ told' = told
    BY <1>10 DEF A!Stop
  <2>2. ~A!RecordRow /\ ~A!SkipDatabase /\ ~A!CloseDatabase /\ ~A!NextTable
    <3>1. ~A!RecordRow /\ ~A!SkipDatabase /\ ~A!CloseDatabase
      BY <2>1 DEF A!RecordRow, A!SkipDatabase, A!CloseDatabase
    <3>2. ~A!NextTable
      BY <2>1 DEF A!NextTable
    <3> QED BY <3>1, <3>2
  <2>3. CASE told.records # "complete"
    BY <1>8, <2>1, <2>2, <2>3 DEF A!Closed
  <2>4. CASE told.records = "complete"
    <3>1. txn # "open" /\ AllKept
      BY <1>2, <2>4 DEF AllKept
    <3>2. A!Current' = A!Current
      BY <2>1, <3>1 DEF A!Current, A!Closed
    <3> QED BY <1>4, <2>2, <3>1, <3>2
  <2> QED BY <2>3, <2>4
<1>11. CASE A!Commit
  <2>1. pc = "database" /\ pc' = "enrich" /\ txn' = A!Closed /\ txn' \in {"none", "lost"} /\ at[1] > Len(device)
    BY <1>11 DEF A!Commit, A!Closed
  <2>2. ~A!RecordRow /\ ~A!SkipDatabase /\ ~A!CloseDatabase /\ ~A!NextTable
    <3>1. ~(at[1] <= Len(device))
      BY <2>1, TableFacts
    <3> QED BY <2>1, <3>1 DEF A!RecordRow, A!SkipDatabase, A!CloseDatabase, A!NextTable
  <2>3. CASE txn = "open" /\ kept' = A!promoted(draft, FALSE)
    <3>1. AllKept /\ A!Current = draft /\ A!Current' = kept'
      BY <2>1, <2>3 DEF AllKept, A!Current
    <3>2. kept'.records = draft.records /\ kept'.tables = draft.tables /\ kept'.status = draft.status
      BY <1>1, <2>3, PromotedFacts
    <3> QED BY <1>4, <2>2, <3>1, <3>2
  <2>4. CASE txn = "open" /\ kept' = kept /\ told' \in {[told EXCEPT !.records = "warning"], [records |-> "warning", promotion |-> "first"]}
    <3>1. told'.records = "warning"
      BY <1>1, <2>4
    <3> QED BY <1>8, <2>1, <2>2, <2>4, <3>1
  <2>5. ASSUME txn = "lost", kept'.records = kept.records, told'.records = "warning"
        PROVE  A!Current'.records = A!Current.records /\ ~AllKept'
    BY <2>1, <2>5 DEF A!Current, AllKept
  <2>6. CASE txn = "lost" /\ kept' = A!promoted(kept, FALSE) /\ told' = [records |-> "warning", promotion |-> "first"]
    <3>1. kept'.records = kept.records /\ told'.records = "warning"
      BY <1>1, <2>6, PromotedFacts
    <3> QED BY <1>4, <2>2, <2>5, <2>6, <3>1
  <2>7. CASE txn = "lost" /\ told' = [told EXCEPT !.records = "warning"]
             /\ kept' \in {kept, [kept EXCEPT !.timeline = A!eventsOf(kept.records)]}
    <3>1. told'.records = "warning"
      BY <1>1, <2>7
    <3>2. kept'.records = kept.records
      BY <1>1, <2>7 DEF CaseState
    <3> QED BY <1>4, <2>2, <2>5, <2>7, <3>1, <3>2
  <2> QED BY <1>11, <2>3, <2>4, <2>6, <2>7 DEF A!Commit
<1>12. ASSUME pc \in Promoting \cup {"enrich", "ended"}, UNCHANGED txn, told'.records = told.records,
              kept'.records = kept.records, kept'.tables = kept.tables, kept'.status = kept.status
       PROVE  /\ ~A!RecordRow /\ ~A!SkipDatabase /\ ~A!CloseDatabase /\ ~A!NextTable
              /\ A!Current'.records = A!Current.records /\ A!Current'.tables = A!Current.tables
              /\ A!Current'.status = A!Current.status /\ (AllKept' => AllKept)
  <2>1. txn # "open" /\ pc # "parse" /\ pc # "database"
    BY <1>2, <1>12 DEF Promoting
  <2>2. A!Current' = kept' /\ A!Current = kept
    BY <1>12, <2>1 DEF A!Current
  <2> QED BY <1>12, <2>1, <2>2 DEF A!RecordRow, A!SkipDatabase, A!CloseDatabase, A!NextTable, AllKept
<1>13. CASE A!Enrich \/ A!ClearTimeline \/ A!ClearUsage \/ A!AddTimeline \/ A!AddUsage
  <2>1. /\ kept'.records = kept.records /\ kept'.tables = kept.tables /\ kept'.status = kept.status
        /\ UNCHANGED <<txn, draft>> /\ pc \in Promoting \cup {"enrich"}
        /\ told' = [told EXCEPT !.promotion = IF A!AddUsage THEN "second" ELSE IF A!Enrich THEN "none" ELSE @]
    BY <1>13, PromotionSteps
  <2>2. told'.records = told.records
    BY <1>1, <2>1
  <2> QED BY <1>4, <1>12, <2>1, <2>2
<1>14. CASE A!PromotionFails
  <2>1. pc \in Promoting /\ told' = [told EXCEPT !.promotion = "warning"] /\ UNCHANGED <<kept, draft, txn>>
    BY <1>14 DEF A!PromotionFails, A!untouched, Promoting
  <2>2. told'.records = told.records
    BY <1>1, <2>1
  <2> QED BY <1>4, <1>12, <2>1, <2>2
<1>15. CASE A!Done
  BY <1>4, <1>12, <1>15 DEF A!Done, A!vars
<1> QED BY <1>3, <1>5, <1>6, <1>7, <1>9, <1>10, <1>11, <1>13, <1>14, <1>15 DEF A!Next

\* How often a row is recorded after a step.
LEMMA TimesMoves ==
  ASSUME AppTypes, AtInv, ReaderInv, CommitInv, EventsInv, A!Next, NEW e, NEW i
  PROVE  /\ Times(e, i) \in Nat
         /\ \/ A!RecordRow /\ Times(e, i)' = Times(e, i) + (IF e = at /\ i = A!next THEN 1 ELSE 0)
            \/ ~A!RecordRow /\ Times(e, i)' = Times(e, i)
            \/ ~A!RecordRow /\ Times(e, i)' = 0 /\ ~AllKept'
<1>1. A!Current.records \in Seq(AppRecord)
  BY CurrentCase DEF CaseState
<1>2. Times(e, i) \in Nat
  <2>1. Cardinality(Hits(A!Current.records, Of(e, i))) \in 0..Len(A!Current.records)
    BY <1>1, HitsFinite
  <2> QED BY <1>1, <2>1 DEF Times
<1>3. Times(e, i)' = Cardinality(Hits(A!Current'.records, Of(e, i)))
  BY DEF Times
<1>4. CASE A!RecordRow /\ A!Current'.records = Append(A!Current.records, A!recordOf(A!Here, A!Table, A!next, reader.how))
  <2> DEFINE record == A!recordOf(A!Here, A!Table, A!next, reader.how)
  <2>1. pc = "parse" /\ reader.todo # <<>>
    BY <1>4 DEF A!RecordRow
  <2>2. record \in AppRecord /\ record.at = at /\ record.row = A!next
    <3>1. A!Here \in TableAt /\ A!Here = at /\ A!Table \in A!AppTable
      BY <2>1, TableFacts DEF AtInv
    <3>2. A!next \in DOMAIN A!Table.rows
      BY <2>1, AheadFacts
    <3> QED BY <3>1, <3>2, RecordFacts
  <2> HIDE DEF record
  <2>3. record \in Of(e, i) <=> e = at /\ i = A!next
    BY <2>2 DEF Of
  <2>4. Times(e, i)' = Times(e, i) + (IF record \in Of(e, i) THEN 1 ELSE 0)
    <3>1. A!Current'.records = Append(A!Current.records, record)
      BY <1>4 DEF record
    <3> QED BY <1>1, <1>3, <2>2, <3>1, HitsAppend DEF Times
  <2> QED BY <1>2, <1>4, <2>3, <2>4
<1>5. CASE ~A!RecordRow /\ A!Current'.records = A!Current.records
  BY <1>2, <1>3, <1>5 DEF Times
<1>6. CASE ~A!RecordRow /\ A!Current'.records = <<>> /\ ~AllKept'
  <2>1. Hits(<<>>, Of(e, i)) = {}
    BY DEF Hits
  <2>2. Times(e, i)' = 0
    BY <1>3, <1>6, <2>1, FS_EmptySet
  <2> QED BY <1>2, <1>6, <2>2
<1> QED BY <1>4, <1>5, <1>6, CurrentMoves

\* A table that is behind stays behind; one with rows that falls behind was being read.
LEMMA PastMoves ==
  ASSUME AppTypes, AtInv, CommitInv, A!Next, NEW e \in TableAt
  PROVE  /\ PastTable(e[1], e[2]) => PastTable(e[1], e[2])'
         /\ \A i : PastTable(e[1], e[2])' /\ ~PastTable(e[1], e[2]) /\ IsRow(e, i) /\ e[2] <= MaxTables =>
              e = at /\ pc \in {"flags", "parse"} /\ pc' \notin {"flags", "parse"}
<1>1. at[1] \in Nat \ {0} /\ at[2] \in Nat /\ at = <<at[1], at[2]>> /\ e[1] \in Nat \ {0} /\ e[2] \in Nat /\ e = <<e[1], e[2]>>
  BY TableFacts DEF TableAt
<1>2. \A i : IsRow(e, i) => /\ e[1] \in DOMAIN device /\ device[e[1]].file = "ok" /\ e[2] \in 1..Len(device[e[1]].tables)
                            /\ i \in DOMAIN device[e[1]].tables[e[2]].rows
  BY DEF IsRow, A!TablesOf, TheTable
<1>3. CASE A!SkipDatabase \/ A!CloseDatabase
  <2>1. /\ pc = "database" /\ pc' = pc /\ at' = <<at[1] + 1, 0>>
        /\ \/ A!Database.file # "ok"
           \/ at[2] = Len(A!Database.tables)
           \/ at[2] = MaxTables
    BY <1>3 DEF A!SkipDatabase, A!CloseDatabase
  <2>2. at'[1] = at[1] + 1 /\ at'[2] = 0
    BY <2>1
  <2>3. PastTable(e[1], e[2]) => PastTable(e[1], e[2])'
    BY <1>1, <2>1, <2>2 DEF PastTable
  <2>4. ASSUME PastTable(e[1], e[2])', ~PastTable(e[1], e[2]), NEW i, IsRow(e, i), e[2] <= MaxTables
        PROVE  FALSE
    <3>1. e[1] = at[1]
      <4>1. e[2] \in Nat \ {0}
        BY <1>1, <1>2, <2>4
      <4>2. e[1] <= at[1]
        BY <1>1, <2>1, <2>2, <2>4, <4>1 DEF PastTable
      <4> QED BY <1>1, <2>4, <4>2 DEF PastTable
    <3>2. e[2] > at[2]
      BY <1>1, <2>1, <2>4, <3>1 DEF PastTable
    <3>3. Len(A!Database.tables) \in Nat /\ e[2] <= Len(A!Database.tables) /\ A!Database.file = "ok"
      BY <1>1, <1>2, <2>4, <3>1, TableFacts DEF A!Database
    <3>4. MaxTables \in Nat
      BY AppAssumptions DEF A!ParseAssumption
    <3> QED BY <1>1, <2>1, <2>4, <3>2, <3>3, <3>4
  <2> QED BY <2>3, <2>4
<1>4. CASE A!NextTable
  <2>1. /\ pc = "database" /\ at' = <<at[1], at[2] + 1>>
        /\ pc' = IF A!Database.tables[at'[2]].rows = <<>> THEN "database" ELSE "flags"
    BY <1>4 DEF A!NextTable
  <2>2. at'[1] = at[1] /\ at'[2] = at[2] + 1
    BY <2>1
  <2>3. PastTable(e[1], e[2]) => PastTable(e[1], e[2])'
    BY <1>1, <2>1, <2>2 DEF PastTable
  <2>4. ASSUME PastTable(e[1], e[2])', ~PastTable(e[1], e[2]), NEW i, IsRow(e, i), e[2] <= MaxTables
        PROVE  FALSE
    <3>1. e[1] = at[1] /\ e[2] = at[2] + 1 /\ pc' = "database"
      BY <1>1, <2>1, <2>2, <2>4 DEF PastTable
    <3>2. A!Database.tables[e[2]].rows = <<>>
      BY <2>1, <2>2, <3>1
    <3>3. i \in DOMAIN A!Database.tables[e[2]].rows
      BY <1>2, <2>4, <3>1 DEF A!Database
    <3> QED BY <3>2, <3>3
  <2> QED BY <2>3, <2>4
<1>5. CASE UNCHANGED at
  <2>1. pc' \in {"flags", "parse"} => pc \in {"flags", "parse"}
    <3>1. ~A!NextTable
      <4>1. A!NextTable => at'[2] = at[2] + 1
        BY DEF A!NextTable
      <4> QED BY <1>1, <1>5, <4>1
    <3>2. A!Begin \/ A!SkipDatabase \/ A!CloseDatabase \/ A!InventoryFails \/ A!Commit => pc' \in {"database", "enrich"}
      BY DEF A!Begin, A!SkipDatabase, A!CloseDatabase, A!InventoryFails, A!Commit
    <3>3. \/ A!ScanFlags \/ A!FlagsFail \/ A!OpenReader \/ A!SkipRow \/ A!RecordRow \/ A!RowFails \/ A!ReadFails \/ A!EndPage
          => pc \in {"flags", "parse"}
      BY DEF A!ScanFlags, A!FlagsFail, A!OpenReader, A!SkipRow, A!RecordRow, A!RowFails, A!ReadFails, A!EndPage
    <3>4. A!Enrich \/ A!ClearTimeline \/ A!ClearUsage \/ A!AddTimeline \/ A!AddUsage \/ A!PromotionFails \/ A!Stop
          => pc' \in Promoting \cup {"ended"}
      BY DEF A!Enrich, A!ClearTimeline, A!ClearUsage, A!AddTimeline, A!AddUsage, A!PromotionFails, A!Stop, Promoting
    <3>5. A!Done => pc' = pc
      BY DEF A!Done, A!vars
    <3> QED BY <3>1, <3>2, <3>3, <3>4, <3>5 DEF A!Next, Promoting
  <2>2. PastTable(e[1], e[2]) => PastTable(e[1], e[2])'
    BY <1>1, <1>5, <2>1 DEF PastTable
  <2>3. ASSUME PastTable(e[1], e[2])', ~PastTable(e[1], e[2])
        PROVE  e[1] = at[1] /\ e[2] = at[2] /\ pc \in {"flags", "parse"} /\ pc' \notin {"flags", "parse"}
    BY <1>1, <1>5, <2>3 DEF PastTable
  <2> QED BY <1>1, <2>2, <2>3
<1> QED BY <1>3, <1>4, <1>5 DEF A!Next, A!Begin, A!InventoryFails, A!ScanFlags, A!FlagsFail,
            A!OpenReader, A!SkipRow, A!RecordRow, A!RowFails, A!ReadFails, A!EndPage, A!Commit, A!Enrich, A!ClearTimeline,
            A!ClearUsage, A!AddTimeline, A!AddUsage, A!PromotionFails, A!Stop, A!Done, A!vars, A!untouched

\* Statuses and tables after any step.
LEMMA StatusStep ==
  ASSUME AppTypes, AtInv, ReaderInv, CommitInv, EventsInv, StatusInv, A!Next
  PROVE  StatusInv'
<1> SUFFICES ASSUME AllKept'
             PROVE  /\ Len(A!Current'.status) = at'[1] - 1
                    /\ \A d \in 1..Len(device) : d < at'[1] =>
                         A!Current'.status[d] = IF device[d].file # "ok" THEN device[d].file
                                                ELSE IF Len(device[d].tables) <= MaxTables THEN Len(device[d].tables) ELSE MaxTables
                    /\ A!Current'.tables = {e \in TableAt : /\ e[1] <= Len(device) /\ e[2] \in A!TablesOf(e[1]) /\ e[2] <= MaxTables
                                                            /\ (e[1] < at'[1] \/ (e[1] = at'[1] /\ e[2] <= at'[2]))}
  <2>1. UNCHANGED device
    BY AtStep
  <2> QED BY <2>1 DEF StatusInv, A!TablesOf
<1> DEFINE status == A!Current.status
           word(d) == IF device[d].file # "ok" THEN device[d].file
                      ELSE IF Len(device[d].tables) <= MaxTables THEN Len(device[d].tables) ELSE MaxTables
           listed(a, b) == {e \in TableAt : /\ e[1] <= Len(device) /\ e[2] \in A!TablesOf(e[1]) /\ e[2] <= MaxTables
                                            /\ (e[1] < a \/ (e[1] = a /\ e[2] <= b))}
<1>1. at[1] \in Nat \ {0} /\ at[2] \in Nat /\ at = <<at[1], at[2]>> /\ Len(device) \in Nat /\ MaxTables \in Nat
  BY TableFacts, AppAssumptions DEF A!ParseAssumption
<1>2. /\ AllKept \/ A!Begin
      /\ A!Current'.tables = (IF A!NextTable THEN A!Current.tables \cup {at'} ELSE A!Current.tables)
      /\ A!Current'.status = (IF A!SkipDatabase THEN Append(status, A!Database.file)
                              ELSE IF A!CloseDatabase THEN Append(status, at[2])
                              ELSE status)
  BY CurrentMoves
<1>3. AllKept => /\ Len(status) = at[1] - 1 /\ \A d \in 1..Len(device) : d < at[1] => status[d] = word(d)
                 /\ A!Current.tables = listed(at[1], at[2])
  BY DEF StatusInv
<1>4. status \in Seq({"missing", "unopened", "noMaster"} \cup Nat)
  BY CurrentCase DEF CaseState
<1>5. \A e \in TableAt : e[1] \in Nat \ {0} /\ e[2] \in Nat
  BY DEF TableAt
<1>6. \A d \in 1..Len(device) : A!TablesOf(d) = (IF device[d].file = "ok" THEN 1..Len(device[d].tables) ELSE {})
                                /\ Len(device[d].tables) \in Nat
  BY TableFacts DEF A!TablesOf
<1> HIDE DEF status, word, listed
<1>7. CASE A!Begin
  <2>1. pc = "begin" /\ UNCHANGED at /\ kept' = kept /\ draft' = kept /\ kept = A!Empty /\ at = <<1, 0>>
    BY <1>7 DEF A!Begin, CommitInv, AtInv
  <2>2. A!Current' = A!Empty
    BY <2>1 DEF A!Current
  <2>3. at'[1] = 1 /\ at'[2] = 0
    BY <2>1
  <2>4. Len(A!Current'.status) = 0 /\ A!Current'.tables = {}
    BY <2>2, EmptyCase
  <2>5. listed(1, 0) = {}
    <3>1. \A e \in TableAt : e[1] <= Len(device) => (e[2] \in A!TablesOf(e[1]) => e[2] >= 1)
      BY <1>5, <1>6
    <3> QED BY <1>5, <3>1 DEF listed
  <2> QED BY <1>1, <2>3, <2>4, <2>5 DEF word, listed
<1>8. CASE A!SkipDatabase \/ A!CloseDatabase
  <2>1. /\ pc = "database" /\ at' = <<at[1] + 1, 0>> /\ at[1] <= Len(device)
    BY <1>8 DEF A!SkipDatabase, A!CloseDatabase
  <2>2. ~A!Begin /\ ~A!NextTable /\ at'[1] = at[1] + 1 /\ at'[2] = 0 /\ at[1] \in 1..Len(device)
    <3>1. at'[1] = at[1] + 1 /\ at'[2] = 0 /\ at[1] \in 1..Len(device)
      BY <1>1, <2>1
    <3>2. ~A!NextTable
      <4>1. at[1] + 1 # at[1]
        BY <1>1
      <4>2. A!NextTable => at' = <<at[1], at[2] + 1>>
        BY DEF A!NextTable
      <4>3. A!NextTable => at'[1] = at[1]
        BY <4>2
      <4> QED BY <3>1, <4>1, <4>3
    <3> QED BY <2>1, <3>1, <3>2 DEF A!Begin
  <2>3. AllKept /\ A!Current'.tables = A!Current.tables
    BY <1>2, <2>2
  <2>4. A!Current'.status = Append(status, word(at[1]))
    <3>1. CASE A!SkipDatabase
      <4>1. A!Database.file # "ok" /\ A!Database = device[at[1]]
        BY <3>1 DEF A!SkipDatabase, A!Database
      <4> QED BY <1>2, <3>1, <4>1 DEF word
    <3>2. CASE A!CloseDatabase
      <4>1. /\ A!Database.file = "ok" /\ A!Database = device[at[1]] /\ ~A!SkipDatabase
            /\ at[2] = Len(device[at[1]].tables) \/ at[2] = MaxTables
        BY <3>2 DEF A!SkipDatabase, A!CloseDatabase, A!Database
      <4>2. at[2] <= Len(device[at[1]].tables) /\ at[2] <= MaxTables
        <5>1. CASE at[2] = 0
          BY <1>1, <1>6, <2>2, <5>1
        <5>2. CASE at[2] > 0
          BY <5>2 DEF AtInv, A!Database
        <5> QED BY <1>1, <5>1, <5>2
      <4>3. at[2] = word(at[1])
        BY <1>1, <1>6, <2>2, <4>1, <4>2 DEF word
      <4> QED BY <1>2, <3>2, <4>1, <4>3
    <3> QED BY <1>8, <3>1, <3>2
  <2>5. /\ Len(A!Current'.status) = at'[1] - 1
        /\ \A d \in 1..Len(device) : d < at'[1] => A!Current'.status[d] = word(d)
    BY <1>1, <1>3, <1>4, <2>2, <2>3, <2>4
  <2>6. listed(at[1] + 1, 0) = listed(at[1], at[2])
    <3>1. ASSUME NEW e \in TableAt, e[1] <= Len(device), e[2] \in A!TablesOf(e[1]), e[2] <= MaxTables
          PROVE  (e[1] < at[1] + 1 \/ (e[1] = at[1] + 1 /\ e[2] <= 0)) <=> (e[1] < at[1] \/ (e[1] = at[1] /\ e[2] <= at[2]))
      <4>1. e[1] \in 1..Len(device) /\ e[2] >= 1 /\ e[2] \in Nat
        BY <1>1, <1>5, <1>6, <3>1
      <4>2. e[1] = at[1] => e[2] <= at[2]
        <5>1. CASE A!SkipDatabase
          BY <1>6, <3>1, <4>1, <5>1 DEF A!SkipDatabase, A!Database
        <5>2. CASE A!CloseDatabase
          <6>1. at[2] = Len(device[at[1]].tables) \/ at[2] = MaxTables
            BY <5>2 DEF A!CloseDatabase, A!Database
          <6>2. e[2] \in 1..Len(device[e[1]].tables) /\ Len(device[e[1]].tables) \in Nat
            BY <1>6, <3>1, <4>1
          <6> QED BY <1>1, <3>1, <6>1, <6>2
        <5> QED BY <1>8, <5>1, <5>2
      <4> QED BY <1>1, <4>1, <4>2
    <3> QED BY <3>1 DEF listed
  <2> QED BY <1>3, <2>2, <2>3, <2>5, <2>6 DEF word, listed
<1>9. CASE A!NextTable
  <2>1. /\ pc = "database" /\ at' = <<at[1], at[2] + 1>> /\ at[1] <= Len(device)
        /\ device[at[1]].file = "ok" /\ at[2] < Len(device[at[1]].tables) /\ at[2] < MaxTables
    BY <1>9 DEF A!NextTable, A!Database
  <2>2. at'[1] = at[1] /\ at'[2] = at[2] + 1 /\ at[1] \in 1..Len(device) /\ at' \in TableAt
    BY <1>1, <2>1 DEF TableAt
  <2>3. ~A!Begin /\ ~A!SkipDatabase /\ ~A!CloseDatabase
    <3>1. at[1] + 1 # at[1]
      BY <1>1
    <3>2. A!SkipDatabase \/ A!CloseDatabase => at' = <<at[1] + 1, 0>>
      BY DEF A!SkipDatabase, A!CloseDatabase
    <3>3. A!SkipDatabase \/ A!CloseDatabase => at'[1] = at[1] + 1
      BY <3>2
    <3> QED BY <2>1, <2>2, <3>1, <3>3 DEF A!Begin
  <2>4. AllKept /\ A!Current'.status = status /\ A!Current'.tables = A!Current.tables \cup {at'}
    BY <1>2, <1>9, <2>3
  <2>5. listed(at[1], at[2] + 1) = listed(at[1], at[2]) \cup {at'}
    <3>1. at' \in listed(at[1], at[2] + 1)
      <4>1. at[2] + 1 \in A!TablesOf(at[1]) /\ at[2] + 1 <= MaxTables
        BY <1>1, <1>6, <2>1, <2>2
      <4> QED BY <1>1, <2>1, <2>2, <4>1 DEF listed
    <3>2. ASSUME NEW e \in TableAt, e[1] = at[1], e[2] = at[2] + 1
          PROVE  e = at'
      BY <2>1, <3>2 DEF TableAt
    <3>3. \A e \in TableAt : (e[1] < at[1] \/ (e[1] = at[1] /\ e[2] <= at[2] + 1))
                             <=> (e[1] < at[1] \/ (e[1] = at[1] /\ e[2] <= at[2]) \/ e = at')
      BY <1>1, <1>5, <2>2, <3>2
    <3> QED BY <3>1, <3>3 DEF listed
  <2> QED BY <1>3, <2>2, <2>4, <2>5 DEF word, listed, status
<1>10. CASE ~A!Begin /\ ~A!SkipDatabase /\ ~A!CloseDatabase /\ ~A!NextTable
  <2>1. UNCHANGED at
    BY <1>10 DEF A!Next, A!InventoryFails, A!ScanFlags, A!FlagsFail,
            A!OpenReader, A!SkipRow, A!RecordRow, A!RowFails, A!ReadFails, A!EndPage, A!Commit, A!Enrich, A!ClearTimeline,
            A!ClearUsage, A!AddTimeline, A!AddUsage, A!PromotionFails, A!Stop, A!Done, A!vars, A!untouched
  <2> QED BY <1>2, <1>3, <1>10, <2>1 DEF word, listed, status
<1> QED BY <1>7, <1>8, <1>9, <1>10

\* Nothing is recorded of a table before its rows are read.
LEMMA NoneYet ==
  ASSUME AppTypes, AtInv, OnceInv, pc \in {"flags", "parse"}, ~Reading, NEW i
  PROVE  Times(at, i) = 0
<1>1. at[1] \in Nat /\ at[2] \in Nat /\ at = <<at[1], at[2]>>
  BY TableFacts
<1>2. ~PastTable(at[1], at[2])
  BY <1>1 DEF PastTable
<1>3. Hits(A!Current.records, Of(at, i)) = {}
  <2> SUFFICES ASSUME NEW n \in DOMAIN A!Current.records, A!Current.records[n] \in Of(at, i)
               PROVE  FALSE
    BY DEF Hits
  <2>1. A!Current.records[n].at = at
    BY DEF Of
  <2>2. PastTable(at[1], at[2]) \/ (at = A!Here /\ Reading)
    BY <2>1 DEF OnceInv
  <2> QED BY <1>2, <2>2
<1> QED BY <1>3, FS_EmptySet DEF Times

\* While a table is parsed it is the same table, and what is lost stays lost.
LEMMA ParseFrame ==
  ASSUME AppTypes, AtInv, ReaderInv, A!Next, pc = "parse" \/ pc' = "parse"
  PROVE  /\ UNCHANGED <<device, at>> /\ A!Table' = A!Table /\ A!Here = at /\ A!Here' = at
         /\ warned \subseteq warned' /\ cut \subseteq cut'
         /\ A!Table = TheTable(at) /\ A!Table \in A!AppTable /\ TheTable(at)' = TheTable(at)
         /\ \/ pc = "flags" /\ pc' = "parse" /\ reader' = A!NoReader
            \/ pc = "parse" /\ pc' = "parse" /\ (A!OpenReader \/ A!SkipRow \/ A!RecordRow \/ A!ReadFails \/ A!EndPage)
            \/ pc = "parse" /\ pc' = "database" /\ A!RowFails
            \/ pc = "parse" /\ pc' = "database" /\ reader.todo = <<>> /\ A!EndPage
            \/ pc = "parse" /\ pc' = "ended" /\ A!Stop
<1>1. \/ A!ScanFlags \/ A!FlagsFail \/ A!OpenReader \/ A!SkipRow \/ A!RecordRow \/ A!RowFails \/ A!ReadFails
      \/ A!EndPage \/ (A!Stop /\ pc = "parse") \/ (A!Done /\ pc = "parse")
  <2>1. \/ A!Begin \/ A!SkipDatabase \/ A!NextTable \/ A!CloseDatabase \/ A!InventoryFails \/ A!Commit
        => pc' # "parse" /\ pc # "parse"
    BY DEF A!Begin, A!SkipDatabase, A!NextTable, A!CloseDatabase, A!InventoryFails, A!Commit
  <2>2. A!Enrich \/ A!ClearTimeline \/ A!ClearUsage \/ A!AddTimeline \/ A!AddUsage \/ A!PromotionFails
        => pc' # "parse" /\ pc # "parse"
    BY DEF A!Enrich, A!ClearTimeline, A!ClearUsage, A!AddTimeline, A!AddUsage, A!PromotionFails
  <2>3. (A!Stop \/ A!Done) => pc' # "parse"
    BY DEF A!Stop, A!Done, A!vars
  <2> QED BY <2>1, <2>2, <2>3 DEF A!Next
<1>2. ~A!Done
  BY <1>1 DEF A!Done, A!ScanFlags, A!FlagsFail, A!OpenReader, A!SkipRow, A!RecordRow, A!RowFails, A!ReadFails, A!EndPage, A!Stop
<1>3. UNCHANGED <<device, at>> /\ warned \subseteq warned' /\ cut \subseteq cut'
  BY <1>1, <1>2 DEF A!ScanFlags, A!FlagsFail, A!OpenReader, A!SkipRow, A!RecordRow, A!RowFails, A!ReadFails, A!EndPage, A!Stop
<1>4. A!Here = at /\ A!Here' = at /\ A!Table' = A!Table /\ TheTable(at)' = TheTable(at)
  <2>1. A!Here = at
    BY TableFacts
  <2> QED BY <1>3, <2>1 DEF A!Here, A!Table, A!Database, TheTable
<1>5. pc \in {"flags", "parse"}
  BY <1>1 DEF A!ScanFlags, A!FlagsFail, A!OpenReader, A!SkipRow, A!RecordRow, A!RowFails, A!ReadFails, A!EndPage, A!Stop
<1>6. A!Table = TheTable(at) /\ A!Table \in A!AppTable
  BY <1>5, TableFacts
<1>7. CASE A!ScanFlags \/ A!FlagsFail
  BY <1>3, <1>4, <1>6, <1>7 DEF A!ScanFlags, A!FlagsFail, ReaderInv
<1>8. CASE A!OpenReader \/ A!SkipRow \/ A!RecordRow \/ A!ReadFails
  <2>1. pc = "parse" /\ pc' = "parse"
    BY <1>8 DEF A!OpenReader, A!SkipRow, A!RecordRow, A!ReadFails
  <2> QED BY <1>3, <1>4, <1>6, <1>8, <2>1
<1>9. CASE A!RowFails \/ A!EndPage \/ (A!Stop /\ pc = "parse")
  <2>1. CASE A!RowFails
    <3>1. pc = "parse" /\ pc' = "database"
      BY <2>1 DEF A!RowFails
    <3> QED BY <1>3, <1>4, <1>6, <2>1, <3>1
  <2>2. CASE A!EndPage
    <3>1. pc = "parse" /\ pc' \in {"database", "parse"} /\ reader.todo = <<>>
      BY <2>2 DEF A!EndPage
    <3> QED BY <1>3, <1>4, <1>6, <2>2, <3>1
  <2>3. CASE A!Stop /\ pc = "parse"
    <3>1. pc' = "ended"
      BY <2>3 DEF A!Stop
    <3> QED BY <1>3, <1>4, <1>6, <2>3, <3>1
  <2> QED BY <1>9, <2>1, <2>2, <2>3
<1> QED BY <1>1, <1>2, <1>7, <1>8, <1>9

\* A page of the generic reader goes on where the last one ended.
LEMMA PageOpened ==
  ASSUME AppTypes, AtInv, ReaderInv, pc = "parse", pc' = "parse", UNCHANGED <<device, at>>,
         A!Table' = A!Table, A!Here' = at, TheTable(at)' = A!Table,
         NEW last \in Nat, last <= Len(A!Table.rows),
         reader'.how = "generic", reader'.todo = A!pageQuery(A!Table, last), reader'.last = last, reader'.taken = 0,
         \A i \in DOMAIN A!Table.rows : Times(at, i)' <= IF i <= last THEN 1 ELSE 0,
         at \notin cut' => A!specialQuery(A!Table) = <<>>,
         AllKept' /\ Trusted(at)' =>
           \A i \in DOMAIN A!Table.rows : i <= last /\ ~A!Skips(A!Table, i) => Times(at, i)' = 1
  PROVE  GenericInv'
<1> DEFINE page == A!pageQuery(A!Table, last)
           content == A!Table.rows
<1>1. A!Table \in A!AppTable /\ Len(content) \in Nat /\ PageRows \in Nat
  BY AheadFacts, AppAssumptions DEF A!ParseAssumption
<1>2. /\ page \in Seq(Nat)
      /\ \A n \in DOMAIN page : page[n] \in DOMAIN content /\ page[n] > last
      /\ \A m, n \in DOMAIN page : m < n => page[m] < page[n]
      /\ (A!Table.rowid => \A i \in DOMAIN content : ~content[i].negative) =>
           /\ Len(page) = (IF Len(content) - last < PageRows THEN Len(content) - last ELSE PageRows)
           /\ \A n \in DOMAIN page : page[n] = last + n
  BY <1>1, PageFacts
<1>3. reader'.todo = page
  OBVIOUS
<1> HIDE DEF page
<1>4. ASSUME AllKept', Trusted(at)'
      PROVE  /\ \A i \in DOMAIN content : i <= last /\ ~A!Skips(A!Table, i) => Times(at, i)' = 1
             /\ \A n \in DOMAIN page : page[n] = last + n
             /\ \/ last + Len(page) = Len(content)
                \/ Len(page) = PageRows /\ \A i \in DOMAIN content : ~A!Skips(A!Table, i)
  <2>1. at \notin cut' /\ A!ReadWhole(A!Table)
    BY <1>4 DEF Trusted
  <2>2. A!specialQuery(A!Table) = <<>>
    BY <2>1
  <2>3. /\ A!Table.rowid => \A i \in DOMAIN content : ~content[i].negative
        /\ (\E i \in DOMAIN content : A!Skips(A!Table, i)) => Len(content) <= PageRows
    BY <2>1, <2>2 DEF A!ReadWhole
  <2>4. /\ Len(page) = (IF Len(content) - last < PageRows THEN Len(content) - last ELSE PageRows)
        /\ \A n \in DOMAIN page : page[n] = last + n
    BY <1>2, <2>3
  <2>5. CASE Len(content) <= PageRows
    BY <1>1, <1>4, <2>4, <2>5
  <2>6. CASE ~(Len(content) <= PageRows)
    BY <1>1, <1>4, <2>3, <2>4, <2>6
  <2> QED BY <2>5, <2>6
<1>5. \A n : Len(page) \in Nat /\ 0 + Len(page) = Len(page)
  BY <1>2
<1>6. /\ \A n \in DOMAIN reader'.todo : reader'.todo[n] > reader'.last
      /\ \A m, n \in DOMAIN reader'.todo : m < n => reader'.todo[m] < reader'.todo[n]
  BY <1>2, <1>3
<1>7. \A i : Times(A!Here, i)' = Times(at, i)'
  BY DEF Times
<1>8. Trusted(A!Here)' = Trusted(at)'
  BY DEF Trusted
<1>9. \A i \in DOMAIN content : Times(A!Here, i)' <= IF i <= reader'.last THEN 1 ELSE 0
  BY <1>7
<1>10. AllKept' /\ Trusted(A!Here)' =>
         /\ \A i \in DOMAIN content : i <= reader'.last /\ ~A!Skips(A!Table, i) => Times(A!Here, i)' = 1
         /\ \A n \in DOMAIN reader'.todo : reader'.todo[n] = reader'.last + n
         /\ \/ reader'.last + Len(reader'.todo) = Len(content)
            \/ /\ reader'.taken + Len(reader'.todo) = PageRows
               /\ \A i \in DOMAIN content : ~A!Skips(A!Table, i)
  BY <1>3, <1>4, <1>5, <1>7, <1>8
<1> QED BY <1>6, <1>9, <1>10 DEF GenericInv

\* A special parser after any step.
LEMMA SpecialStep ==
  ASSUME AppTypes, AtInv, ReaderInv, CommitInv, EventsInv, OnceInv, SpecialInv, A!Next
  PROVE  SpecialInv'
<1> SUFFICES ASSUME pc' = "parse", reader'.how = "special"
             PROVE  SpecialInv'
  BY DEF SpecialInv
<1> DEFINE content == A!Table.rows
<1>1. /\ UNCHANGED <<device, at>> /\ A!Table' = A!Table /\ A!Here = at /\ A!Here' = at
      /\ warned \subseteq warned' /\ cut \subseteq cut' /\ A!Table \in A!AppTable
  BY ParseFrame
<1>2. pc = "parse" /\ (A!OpenReader \/ A!SkipRow \/ A!RecordRow \/ A!ReadFails \/ A!EndPage)
  BY ParseFrame DEF A!NoReader
<1>3. reader \in AppReader /\ reader.todo \in Seq(Nat)
  BY <1>2, AheadFacts DEF AppTypes
<1>4. \A i : Times(A!Here, i)' = Times(at, i)' /\ Times(A!Here, i) = Times(at, i)
  BY <1>1 DEF Times
<1>5. \A i \in DOMAIN content : A!Copies(A!Table, i) \in Nat
  <2>1. \A i \in DOMAIN content : A!Copies(A!Table, i) \in {1, 2}
    BY <1>1, CopiesRange
  <2> QED BY <2>1
<1>6. SUFFICES
        /\ A!specialQuery(A!Table) # <<>>
        /\ \A n \in DOMAIN reader'.todo : ~A!Skips(A!Table, reader'.todo[n])
        /\ \A i \in DOMAIN content : Times(at, i)' + Waiting(i)' <= A!Copies(A!Table, i)
        /\ AllKept' /\ at \notin warned' \cup cut' /\ Len(A!specialQuery(A!Table)) <= MaxSpecial =>
             \A i \in DOMAIN content : ~A!Skips(A!Table, i) => Times(at, i)' + Waiting(i)' = A!Copies(A!Table, i)
        /\ reader'.taken = 0 => \A i \in DOMAIN content : Times(at, i)' = 0
        /\ at \notin cut' => reader'.taken > 0 \/ reader'.todo # <<>>
  BY <1>1, <1>4 DEF SpecialInv
<1>7. CASE A!OpenReader
  <2> DEFINE query == A!specialQuery(A!Table)
             special == A!FirstOf(query, MaxSpecial)
  <2>1. /\ pc = "parse" /\ reader.how = "none"
        /\ reader' = IF special # <<>> THEN [A!NoReader EXCEPT !.how = "special", !.todo = special]
                                       ELSE [A!NoReader EXCEPT !.how = "generic", !.todo = A!pageQuery(A!Table, 0)]
    BY <1>7 DEF A!OpenReader
  <2> HIDE DEF special
  <2>2. special # <<>>
    <3> SUFFICES ASSUME special = <<>> PROVE FALSE
      OBVIOUS
    <3>1. reader' = [A!NoReader EXCEPT !.how = "generic", !.todo = A!pageQuery(A!Table, 0)]
      BY <2>1
    <3>2. reader'.how = "generic"
      BY <3>1 DEF A!NoReader
    <3> QED BY <3>2
  <2>3. reader'.todo = special /\ reader'.taken = 0
    <3>1. reader' = [how |-> "special", todo |-> special, taken |-> 0, last |-> 0]
      BY <2>1, <2>2 DEF A!NoReader
    <3> QED BY <3>1
  <2>4. special \in Seq(Nat) /\ query # <<>> /\ \A n \in DOMAIN special : ~A!Skips(A!Table, special[n])
    BY <1>1, <2>2, OpenedFacts DEF special
  <2>5. \A i : Times(at, i)' = 0
    <3>1. ~Reading /\ ~A!RecordRow
      <4>1. reader.todo = <<>>
        BY <2>1 DEF ReaderInv, A!NoReader
      <4> QED BY <2>1, <4>1 DEF Reading, A!RecordRow
    <3>2. \A i : Times(at, i) = 0
      BY <1>2, <3>1, NoneYet
    <3> QED BY <1>1, <3>1, <3>2, TimesMoves
  <2>6. \A i : Waiting(i)' = Cardinality(Hits(special, {i}))
    BY <2>3 DEF Waiting
  <2>7. ASSUME NEW i
        PROVE  Waiting(i)' \in Nat
    <3>1. Cardinality(Hits(special, {i})) \in 0..Len(special)
      BY <2>4, HitsFinite
    <3>2. Len(special) \in Nat
      BY <2>4
    <3>3. Cardinality(Hits(special, {i})) \in Nat
      BY <3>1, <3>2
    <3> QED BY <2>6, <3>3
  <2>8. query \in Seq(Nat) /\ MaxSpecial \in Nat
    <3>1. query \in Seq({i \in DOMAIN content : ~A!Skips(A!Table, i)})
      BY <1>1, SpecialFacts
    <3>2. content \in Seq(A!Row)
      BY <1>1 DEF A!AppTable
    <3>3. PICK good : good = {i \in DOMAIN content : ~A!Skips(A!Table, i)}
      OBVIOUS
    <3>4. good \subseteq Nat
      BY <3>2, <3>3
    <3>5. query \in Seq(Nat)
      <4> HIDE DEF query
      <4> QED BY <3>1, <3>3, <3>4
    <3> QED BY <3>5, AppAssumptions DEF A!ParseAssumption
  <2>9. ASSUME NEW i \in DOMAIN content
        PROVE  Waiting(i)' <= A!Copies(A!Table, i)
    <3>1. Cardinality(Hits(query, {i})) <= A!Copies(A!Table, i)
      BY <1>1, SpecialFacts
    <3>2. Cardinality(Hits(special, {i})) <= Cardinality(Hits(query, {i}))
      BY <2>8, FirstHits DEF special
    <3>3. Cardinality(Hits(query, {i})) \in Nat
      <4> HIDE DEF query
      <4>1. Cardinality(Hits(query, {i})) \in 0..Len(query)
        BY <2>8, HitsFinite
      <4>2. Len(query) \in Nat
        BY <2>8
      <4> QED BY <4>1, <4>2
    <3>4. A!Copies(A!Table, i) \in Nat /\ Waiting(i)' \in Nat /\ Waiting(i)' = Cardinality(Hits(special, {i}))
      BY <1>5, <2>6, <2>7
    <3> HIDE DEF query
    <3> QED BY <3>1, <3>2, <3>3, <3>4
  <2>10. Len(query) <= MaxSpecial => \A i \in DOMAIN content : ~A!Skips(A!Table, i) => Waiting(i)' = A!Copies(A!Table, i)
    <3>1. Len(query) <= MaxSpecial => special = query
      BY <2>8, FirstItems DEF special
    <3>2. \A i \in DOMAIN content : ~A!Skips(A!Table, i) => Cardinality(Hits(query, {i})) = A!Copies(A!Table, i)
      BY <1>1, <2>4, SpecialFacts
    <3> HIDE DEF query
    <3> QED BY <2>6, <3>1, <3>2
  <2> QED BY <1>5, <2>2, <2>3, <2>4, <2>5, <2>7, <2>9, <2>10
<1>8. ASSUME A!RecordRow \/ A!SkipRow
      PROVE  /\ reader.how = "special" /\ A!RecordRow /\ reader'.taken > 0 /\ cut' = cut /\ warned' = warned
             /\ reader'.todo = Tail(reader.todo)
             /\ \A n \in DOMAIN reader'.todo : ~A!Skips(A!Table, reader'.todo[n])
             /\ \A i : Times(at, i)' + Waiting(i)' = Times(at, i) + Waiting(i)
             /\ AllKept' => AllKept
  <2>1. /\ pc = "parse" /\ reader.todo # <<>>
        /\ \/ reader' = [reader EXCEPT !.todo = Tail(@), !.last = A!next] /\ A!Skips(A!Table, A!next)
           \/ reader' = [reader EXCEPT !.todo = Tail(@), !.last = A!next, !.taken = @ + 1] /\ A!RecordRow
        /\ cut' = cut /\ warned' = warned
    BY <1>8 DEF A!RecordRow, A!SkipRow
  <2>2. reader'.how = reader.how /\ reader'.todo = Tail(reader.todo)
    BY <1>3, <2>1 DEF AppReader
  <2>3. SpecialInv /\ reader.how = "special"
    BY <2>2
  <2>4. \A n \in DOMAIN reader.todo : ~A!Skips(A!Table, reader.todo[n])
    BY <1>2, <2>3 DEF SpecialInv
  <2>5. /\ 1 \in DOMAIN reader.todo /\ A!next = reader.todo[1] /\ DOMAIN Tail(reader.todo) = 1..Len(reader.todo) - 1
        /\ \A n \in 1..Len(reader.todo) - 1 : Tail(reader.todo)[n] = reader.todo[n + 1] /\ n + 1 \in DOMAIN reader.todo
        /\ reader.taken \in Nat
    BY <1>2, <2>1, AheadFacts
  <2>6. ~A!Skips(A!Table, A!next)
    BY <2>4, <2>5
  <2>7. A!RecordRow /\ reader' = [reader EXCEPT !.todo = Tail(@), !.last = A!next, !.taken = @ + 1]
    BY <2>1, <2>6
  <2>8. reader'.taken = reader.taken + 1
    BY <1>3, <2>7 DEF AppReader
  <2>9. \A n \in DOMAIN reader'.todo : ~A!Skips(A!Table, reader'.todo[n])
    BY <2>2, <2>4, <2>5
  <2>10. ASSUME NEW i
         PROVE  Times(at, i)' + Waiting(i)' = Times(at, i) + Waiting(i)
    <3>1. Times(at, i) \in Nat /\ Times(at, i)' = Times(at, i) + (IF i = A!next THEN 1 ELSE 0)
      BY <1>1, <2>7, TimesMoves
    <3>2. Waiting(i)' = Cardinality(Hits(Tail(reader.todo), {i}))
      BY <2>2 DEF Waiting
    <3>3. Waiting(i) = Waiting(i)' + (IF A!next \in {i} THEN 1 ELSE 0)
      BY <1>3, <2>1, <3>2, HitsTail DEF Waiting, A!next
    <3>4. Waiting(i)' \in Nat
      <4>1. Tail(reader.todo) \in Seq(Nat)
        BY <1>3, <2>1
      <4>2. Waiting(i)' \in 0..Len(Tail(reader.todo))
        BY <3>2, <4>1, HitsFinite
      <4> QED BY <4>1, <4>2
    <3> QED BY <3>1, <3>3, <3>4
  <2>11. AllKept' => AllKept
    <3>1. ~A!Begin
      BY <2>1 DEF A!Begin
    <3> QED BY <3>1, CurrentMoves
  <2> QED BY <2>1, <2>2, <2>3, <2>5, <2>7, <2>8, <2>9, <2>10, <2>11
<1>9. CASE A!RecordRow \/ A!SkipRow
  <2>1. /\ reader.how = "special" /\ reader'.taken > 0 /\ cut' = cut /\ warned' = warned
        /\ \A n \in DOMAIN reader'.todo : ~A!Skips(A!Table, reader'.todo[n])
        /\ \A i : Times(at, i)' + Waiting(i)' = Times(at, i) + Waiting(i)
        /\ AllKept' => AllKept
    BY <1>8, <1>9
  <2>2. /\ A!specialQuery(A!Table) # <<>>
        /\ \A i \in DOMAIN content : Times(at, i) + Waiting(i) <= A!Copies(A!Table, i)
        /\ AllKept /\ at \notin warned \cup cut /\ Len(A!specialQuery(A!Table)) <= MaxSpecial =>
             \A i \in DOMAIN content : ~A!Skips(A!Table, i) => Times(at, i) + Waiting(i) = A!Copies(A!Table, i)
    BY <1>1, <1>2, <1>4, <2>1 DEF SpecialInv
  <2>3. reader'.taken # 0
    BY <2>1
  <2> QED BY <2>1, <2>2, <2>3
<1>10. CASE A!ReadFails
  <2>1. /\ reader' = [reader EXCEPT !.todo = <<>>] /\ cut' = cut \cup {A!Here} /\ ~A!RecordRow /\ ~A!Begin
    BY <1>2, <1>10 DEF A!ReadFails, A!RecordRow, A!Begin
  <2>2. reader'.how = reader.how /\ reader'.todo = <<>> /\ reader'.taken = reader.taken
    BY <1>3, <2>1 DEF AppReader
  <2>3. /\ A!specialQuery(A!Table) # <<>>
        /\ \A i \in DOMAIN content : Times(at, i) + Waiting(i) <= A!Copies(A!Table, i)
        /\ reader.taken = 0 => \A i \in DOMAIN content : Times(at, i) = 0
    BY <1>1, <1>2, <1>4, <2>2 DEF SpecialInv
  <2>4. \A i : Times(at, i) \in Nat /\ (Times(at, i)' = Times(at, i) \/ Times(at, i)' = 0)
    BY <1>1, <2>1, TimesMoves
  <2>5. \A i : Waiting(i)' = 0
    <3>1. \A i : Hits(<<>>, {i}) = {}
      BY DEF Hits
    <3> QED BY <2>2, <3>1, FS_EmptySet DEF Waiting
  <2>6. \A i : Waiting(i) \in Nat
    <3>1. \A i : Waiting(i) \in 0..Len(reader.todo)
      BY <1>3, HitsFinite DEF Waiting
    <3>2. Len(reader.todo) \in Nat
      BY <1>3
    <3> QED BY <3>1, <3>2
  <2>7. \A i \in DOMAIN content : Times(at, i)' + Waiting(i)' <= A!Copies(A!Table, i)
    BY <1>5, <2>3, <2>4, <2>5, <2>6
  <2>8. at \in cut'
    BY <1>1, <2>1
  <2>9. reader'.taken = 0 => \A i \in DOMAIN content : Times(at, i)' = 0
    BY <2>2, <2>3, <2>4
  <2>10. \A n \in DOMAIN reader'.todo : FALSE
    BY <2>2
  <2> QED BY <2>3, <2>7, <2>8, <2>9, <2>10
<1>11. CASE A!EndPage
  <2>1. \/ reader' = [A!NoReader EXCEPT !.how = "generic", !.todo = A!pageQuery(A!Table, 0)]
        \/ reader.how = "generic" /\ reader' = [reader EXCEPT !.todo = A!pageQuery(A!Table, reader.last), !.taken = 0]
        \/ pc' = "database"
    BY <1>11 DEF A!EndPage
  <2>2. reader'.how # "special"
    <3>1. CASE reader' = [A!NoReader EXCEPT !.how = "generic", !.todo = A!pageQuery(A!Table, 0)]
      BY <3>1 DEF A!NoReader
    <3>2. CASE reader.how = "generic" /\ reader' = [reader EXCEPT !.todo = A!pageQuery(A!Table, reader.last), !.taken = 0]
      BY <1>3, <3>2 DEF AppReader
    <3> QED BY <2>1, <3>1, <3>2
  <2> QED BY <2>2
<1> QED BY <1>2, <1>7, <1>9, <1>10, <1>11

\* The generic reader after any step.
LEMMA GenericStep ==
  ASSUME AppTypes, AtInv, ReaderInv, CommitInv, EventsInv, OnceInv, SpecialInv, GenericInv, A!Next
  PROVE  GenericInv'
<1> SUFFICES ASSUME pc' = "parse", reader'.how = "generic"
             PROVE  GenericInv'
  BY DEF GenericInv
<1> DEFINE content == A!Table.rows
<1>1. /\ UNCHANGED <<device, at>> /\ A!Table' = A!Table /\ A!Here = at /\ A!Here' = at
      /\ warned \subseteq warned' /\ cut \subseteq cut' /\ A!Table \in A!AppTable
      /\ A!Table = TheTable(at) /\ TheTable(at)' = TheTable(at)
  BY ParseFrame
<1>2. pc = "parse" /\ (A!OpenReader \/ A!SkipRow \/ A!RecordRow \/ A!ReadFails \/ A!EndPage)
  BY ParseFrame DEF A!NoReader
<1>3. /\ reader \in AppReader /\ reader.todo \in Seq(Nat) /\ Len(reader.todo) \in Nat /\ DOMAIN reader.todo = 1..Len(reader.todo)
      /\ Len(content) \in Nat /\ DOMAIN content = 1..Len(content)
      /\ reader.last \in 0..Len(content) /\ reader.taken \in Nat
  BY <1>2, AheadFacts DEF AppTypes
<1>4. /\ \A i : Times(A!Here, i)' = Times(at, i)' /\ Times(A!Here, i) = Times(at, i)
      /\ Trusted(A!Here)' = Trusted(at)' /\ Trusted(A!Here) = Trusted(at)
  BY <1>1 DEF Times, Trusted
<1>5. \A i : Times(at, i) \in Nat /\ (~A!RecordRow => Times(at, i)' = Times(at, i) \/ (Times(at, i)' = 0 /\ ~AllKept'))
  BY <1>1, TimesMoves
<1>6. AllKept' => AllKept
  <2>1. ~A!Begin
    BY <1>2 DEF A!Begin
  <2> QED BY <2>1, CurrentMoves
<1>7. Trusted(at)' => Trusted(at)
  BY <1>1 DEF Trusted
<1>8. reader.how = "generic" =>
        /\ \A n \in DOMAIN reader.todo : reader.todo[n] > reader.last
        /\ \A m, n \in DOMAIN reader.todo : m < n => reader.todo[m] < reader.todo[n]
        /\ \A i \in DOMAIN content : Times(at, i) <= IF i <= reader.last THEN 1 ELSE 0
        /\ at \notin cut => A!specialQuery(A!Table) = <<>>
        /\ AllKept /\ Trusted(at) =>
             /\ \A i \in DOMAIN content : i <= reader.last /\ ~A!Skips(A!Table, i) => Times(at, i) = 1
             /\ \A n \in DOMAIN reader.todo : reader.todo[n] = reader.last + n
             /\ \/ reader.last + Len(reader.todo) = Len(content)
                \/ /\ reader.taken + Len(reader.todo) = PageRows
                   /\ \A i \in DOMAIN content : ~A!Skips(A!Table, i)
  BY <1>1, <1>2, <1>4 DEF GenericInv
<1>9. ASSUME reader' = [A!NoReader EXCEPT !.how = "generic", !.todo = A!pageQuery(A!Table, 0)],
             \A i \in DOMAIN content : Times(at, i)' = 0,
             at \notin cut' => A!specialQuery(A!Table) = <<>>
      PROVE  GenericInv'
  <2>1. reader' = [how |-> "generic", todo |-> A!pageQuery(A!Table, 0), taken |-> 0, last |-> 0]
    BY <1>9 DEF A!NoReader
  <2>2. /\ reader'.how = "generic" /\ reader'.todo = A!pageQuery(A!Table, 0) /\ reader'.last = 0 /\ reader'.taken = 0
        /\ 0 \in Nat /\ 0 <= Len(content)
    BY <1>3, <2>1
  <2>3. \A i \in DOMAIN content : Times(at, i)' <= IF i <= 0 THEN 1 ELSE 0
    BY <1>9
  <2>4. \A i \in DOMAIN content : ~(i <= 0)
    BY <1>3
  <2> QED BY <1>1, <1>2, <1>9, <2>2, <2>3, <2>4, PageOpened
<1>10. CASE A!OpenReader
  <2> DEFINE special == A!FirstOf(A!specialQuery(A!Table), MaxSpecial)
  <2>1. /\ pc = "parse" /\ reader.how = "none" /\ UNCHANGED cut
        /\ reader' = IF special # <<>> THEN [A!NoReader EXCEPT !.how = "special", !.todo = special]
                                       ELSE [A!NoReader EXCEPT !.how = "generic", !.todo = A!pageQuery(A!Table, 0)]
    BY <1>10 DEF A!OpenReader
  <2>2. special = <<>> => A!specialQuery(A!Table) = <<>>
    BY <1>1, OpenedFacts
  <2> HIDE DEF special
  <2>3. special = <<>>
    <3> SUFFICES ASSUME special # <<>> PROVE FALSE
      OBVIOUS
    <3>1. reader' = [A!NoReader EXCEPT !.how = "special", !.todo = special]
      BY <2>1
    <3>2. reader'.how = "special"
      BY <3>1 DEF A!NoReader
    <3> QED BY <3>2
  <2>4. \A i : Times(at, i)' = 0
    <3>1. ~Reading /\ ~A!RecordRow
      <4>1. reader.todo = <<>>
        BY <2>1 DEF ReaderInv, A!NoReader
      <4> QED BY <2>1, <4>1 DEF Reading, A!RecordRow
    <3>2. \A i : Times(at, i) = 0
      BY <1>2, <3>1, NoneYet
    <3> QED BY <1>5, <3>1, <3>2
  <2> QED BY <1>9, <2>1, <2>2, <2>3, <2>4
<1>11. CASE A!EndPage
  <2>1. /\ ~A!RecordRow /\ UNCHANGED cut /\ reader.todo = <<>>
        /\ \/ /\ reader.how = "special" /\ reader.taken = 0
              /\ reader' = [A!NoReader EXCEPT !.how = "generic", !.todo = A!pageQuery(A!Table, 0)]
           \/ /\ reader.how = "generic" /\ reader.taken = PageRows
              /\ reader' = [reader EXCEPT !.todo = A!pageQuery(A!Table, reader.last), !.taken = 0]
    BY <1>11 DEF A!EndPage, A!RecordRow
  <2>2. CASE /\ reader.how = "special" /\ reader.taken = 0
             /\ reader' = [A!NoReader EXCEPT !.how = "generic", !.todo = A!pageQuery(A!Table, 0)]
    <3>1. /\ \A i \in DOMAIN content : Times(at, i) = 0
          /\ at \notin cut => reader.taken > 0 \/ reader.todo # <<>>
      BY <1>1, <1>2, <1>4, <2>2 DEF SpecialInv
    <3>2. at \in cut
      <4>1. ~(reader.taken > 0)
        BY <2>2
      <4> QED BY <2>1, <3>1, <4>1
    <3>3. \A i \in DOMAIN content : Times(at, i)' = 0
      BY <1>5, <2>1, <3>1
    <3> QED BY <1>9, <2>1, <2>2, <3>2, <3>3
  <2>3. CASE /\ reader.how = "generic" /\ reader.taken = PageRows
             /\ reader' = [reader EXCEPT !.todo = A!pageQuery(A!Table, reader.last), !.taken = 0]
    <3>1. reader'.todo = A!pageQuery(A!Table, reader.last) /\ reader'.last = reader.last /\ reader'.taken = 0
      <4>1. reader = [how |-> reader.how, todo |-> reader.todo, taken |-> reader.taken, last |-> reader.last]
        BY <1>3 DEF AppReader
      <4>2. reader' = [how |-> reader.how, todo |-> A!pageQuery(A!Table, reader.last), taken |-> 0, last |-> reader.last]
        BY <2>3, <4>1
      <4> QED BY <4>2
    <3>2. reader.last \in Nat /\ reader.last <= Len(content)
      BY <1>3
    <3>3. \A i \in DOMAIN content : Times(at, i)' <= IF i <= reader.last THEN 1 ELSE 0
      BY <1>5, <1>8, <2>1, <2>3
    <3>4. AllKept' /\ Trusted(at)' =>
            \A i \in DOMAIN content : i <= reader.last /\ ~A!Skips(A!Table, i) => Times(at, i)' = 1
      BY <1>5, <1>6, <1>7, <1>8, <2>1, <2>3
    <3>5. at \notin cut' => A!specialQuery(A!Table) = <<>>
      BY <1>8, <2>1, <2>3
    <3> QED BY <1>1, <1>2, <3>1, <3>2, <3>3, <3>4, <3>5, PageOpened
  <2> QED BY <2>1, <2>2, <2>3
<1>12. ASSUME A!ReadFails
       PROVE  GenericInv'
  <2>1. /\ reader' = [reader EXCEPT !.todo = <<>>] /\ cut' = cut \cup {A!Here} /\ ~A!RecordRow
    BY <1>2, <1>12 DEF A!ReadFails, A!RecordRow
  <2>2. reader'.how = reader.how /\ reader'.todo = <<>> /\ reader'.last = reader.last
    BY <1>3, <2>1 DEF AppReader
  <2>3. at \in cut' /\ ~Trusted(at)'
    BY <1>1, <2>1 DEF Trusted
  <2>4. \A i \in DOMAIN content : Times(at, i)' <= IF i <= reader.last THEN 1 ELSE 0
    BY <1>5, <1>8, <2>1, <2>2
  <2>5. \A n \in DOMAIN reader'.todo : FALSE
    BY <2>2
  <2>6. \A i \in DOMAIN content : Times(A!Here, i)' <= IF i <= reader'.last THEN 1 ELSE 0
    BY <1>4, <2>2, <2>4
  <2> QED BY <1>1, <1>4, <2>3, <2>5, <2>6 DEF GenericInv
<1>13. ASSUME A!SkipRow \/ A!RecordRow
       PROVE  GenericInv'
  <2>1. /\ reader.todo # <<>> /\ cut' = cut
        /\ \/ A!SkipRow /\ ~A!RecordRow /\ reader' = [reader EXCEPT !.todo = Tail(@), !.last = A!next] /\ A!Skips(A!Table, A!next)
           \/ A!RecordRow /\ reader' = [reader EXCEPT !.todo = Tail(@), !.last = A!next, !.taken = @ + 1] /\ ~A!Skips(A!Table, A!next)
    BY <1>13 DEF A!RecordRow, A!SkipRow
  <2>2. /\ 1 \in DOMAIN reader.todo /\ A!next = reader.todo[1] /\ A!next \in DOMAIN content
        /\ Len(Tail(reader.todo)) = Len(reader.todo) - 1 /\ DOMAIN Tail(reader.todo) = 1..Len(reader.todo) - 1
        /\ \A n \in 1..Len(reader.todo) - 1 : Tail(reader.todo)[n] = reader.todo[n + 1] /\ n + 1 \in DOMAIN reader.todo
    BY <1>2, <2>1, AheadFacts
  <2>3. /\ reader'.how = reader.how /\ reader'.todo = Tail(reader.todo) /\ reader'.last = A!next
        /\ reader'.taken = (IF A!RecordRow THEN reader.taken + 1 ELSE reader.taken)
    <3>1. reader = [how |-> reader.how, todo |-> reader.todo, taken |-> reader.taken, last |-> reader.last]
      BY <1>3 DEF AppReader
    <3> QED BY <2>1, <3>1
  <2>4. /\ \A n \in DOMAIN reader.todo : reader.todo[n] > reader.last
        /\ \A m, n \in DOMAIN reader.todo : m < n => reader.todo[m] < reader.todo[n]
        /\ \A i \in DOMAIN content : Times(at, i) <= IF i <= reader.last THEN 1 ELSE 0
        /\ at \notin cut => A!specialQuery(A!Table) = <<>>
    BY <1>8, <2>3
  <2>5. A!next > reader.last /\ A!next \in Nat
    BY <1>3, <2>2, <2>4
  <2>6. /\ \A n \in DOMAIN reader'.todo : reader'.todo[n] > reader'.last
        /\ \A m, n \in DOMAIN reader'.todo : m < n => reader'.todo[m] < reader'.todo[n]
    <3>1. ASSUME NEW n \in 1..Len(reader.todo) - 1
          PROVE  reader.todo[n + 1] > reader.todo[1]
      <4>1. n + 1 \in DOMAIN reader.todo /\ 1 \in DOMAIN reader.todo /\ 1 < n + 1
        BY <1>3, <2>2
      <4>2. reader.todo[1] < reader.todo[n + 1] /\ reader.todo[1] \in Nat /\ reader.todo[n + 1] \in Nat
        BY <1>3, <2>4, <4>1
      <4> QED BY <4>2
    <3>2. \A n \in DOMAIN reader'.todo : reader'.todo[n] > reader'.last
      BY <2>2, <2>3, <3>1
    <3>3. \A m, n \in DOMAIN reader'.todo : m < n => reader'.todo[m] < reader'.todo[n]
      BY <2>2, <2>3, <2>4
    <3> QED BY <3>2, <3>3
  <2>7. \A i : \/ A!RecordRow /\ Times(at, i)' = Times(at, i) + (IF i = A!next THEN 1 ELSE 0)
               \/ ~A!RecordRow /\ (Times(at, i)' = Times(at, i) \/ (Times(at, i)' = 0 /\ ~AllKept'))
    BY <1>1, TimesMoves
  <2>8. Times(at, A!next) = 0
    <3>1. ~(A!next <= reader.last)
      BY <1>3, <2>5
    <3>2. Times(at, A!next) <= 0
      BY <2>2, <2>4, <3>1
    <3> QED BY <1>5, <3>2
  <2>9. ASSUME NEW i \in DOMAIN content
        PROVE  Times(at, i)' <= IF i <= A!next THEN 1 ELSE 0
    <3>1. i \in Nat /\ Times(at, i) \in Nat /\ reader.last \in Nat /\ Times(at, i) <= IF i <= reader.last THEN 1 ELSE 0
      BY <1>3, <1>5, <2>4
    <3>2. CASE i = A!next
      <4>1. Times(at, i)' \in {0, 1}
        BY <2>7, <2>8, <3>2
      <4> QED BY <2>5, <3>2, <4>1
    <3>3. CASE i # A!next
      <4>1. Times(at, i)' \in {0, Times(at, i)}
        BY <2>7, <3>1, <3>3
      <4> QED BY <2>5, <3>1, <3>3, <4>1
    <3> QED BY <3>2, <3>3
  <2>10. ASSUME AllKept', Trusted(at)'
         PROVE  /\ \A i \in DOMAIN content : i <= A!next /\ ~A!Skips(A!Table, i) => Times(at, i)' = 1
                /\ \A n \in DOMAIN reader'.todo : reader'.todo[n] = A!next + n
                /\ \/ A!next + Len(reader'.todo) = Len(content)
                   \/ /\ reader'.taken + Len(reader'.todo) = PageRows
                      /\ \A i \in DOMAIN content : ~A!Skips(A!Table, i)
    <3>1. /\ \A i \in DOMAIN content : i <= reader.last /\ ~A!Skips(A!Table, i) => Times(at, i) = 1
          /\ \A n \in DOMAIN reader.todo : reader.todo[n] = reader.last + n
          /\ \/ reader.last + Len(reader.todo) = Len(content)
             \/ /\ reader.taken + Len(reader.todo) = PageRows
                /\ \A i \in DOMAIN content : ~A!Skips(A!Table, i)
      BY <1>6, <1>7, <1>8, <2>3, <2>10
    <3>2. A!next = reader.last + 1
      BY <2>2, <3>1
    <3>3. ASSUME NEW i \in DOMAIN content, i <= A!next, ~A!Skips(A!Table, i)
          PROVE  Times(at, i)' = 1
      <4>1. CASE i = A!next
        <5>1. A!RecordRow
          BY <2>1, <3>3, <4>1
        <5> QED BY <2>7, <2>8, <4>1, <5>1
      <4>2. CASE i # A!next
        <5>1. i <= reader.last
          BY <1>3, <3>2, <3>3, <4>2
        <5>2. Times(at, i) = 1
          BY <3>1, <3>3, <5>1
        <5> QED BY <2>7, <2>10, <4>2, <5>2
      <4> QED BY <4>1, <4>2
    <3>4. \A n \in DOMAIN reader'.todo : reader'.todo[n] = A!next + n
      <4> SUFFICES ASSUME NEW n \in 1..Len(reader.todo) - 1
                   PROVE  Tail(reader.todo)[n] = A!next + n
        BY <2>2, <2>3
      <4>1. Tail(reader.todo)[n] = reader.last + (n + 1)
        BY <2>2, <3>1
      <4>2. PICK a \in Nat : a = reader.last
        BY <1>3
      <4>3. n \in Nat
        BY <1>3
      <4>4. a + (n + 1) = (a + 1) + n
        BY <4>3
      <4> QED BY <3>2, <4>1, <4>2, <4>4
    <3>5. CASE reader.last + Len(reader.todo) = Len(content)
      <4>1. A!next + Len(reader'.todo) = Len(content)
        <5>1. Len(reader'.todo) = Len(reader.todo) - 1
          BY <2>2, <2>3
        <5>2. PICK a \in Nat, b \in Nat : a = reader.last /\ b = Len(reader.todo)
          BY <1>3
        <5>3. (a + 1) + (b - 1) = a + b
          OBVIOUS
        <5> QED BY <3>2, <3>5, <5>1, <5>2, <5>3
      <4> QED BY <3>3, <3>4, <4>1
    <3>6. CASE reader.taken + Len(reader.todo) = PageRows /\ \A i \in DOMAIN content : ~A!Skips(A!Table, i)
      <4>1. A!RecordRow
        BY <2>1, <2>2, <3>6
      <4>2. reader'.taken + Len(reader'.todo) = PageRows
        BY <1>3, <2>2, <2>3, <3>6, <4>1
      <4> QED BY <3>3, <3>4, <3>6, <4>2
    <3> QED BY <3>1, <3>5, <3>6
  <2>11. at \notin cut' => A!specialQuery(A!Table) = <<>>
    BY <2>1, <2>4
  <2>12. \A i \in DOMAIN content : Times(A!Here, i)' <= IF i <= reader'.last THEN 1 ELSE 0
    BY <1>4, <2>3, <2>9
  <2>13. AllKept' /\ Trusted(A!Here)' =>
         /\ \A i \in DOMAIN content : i <= reader'.last /\ ~A!Skips(A!Table, i) => Times(A!Here, i)' = 1
         /\ \A n \in DOMAIN reader'.todo : reader'.todo[n] = reader'.last + n
         /\ \/ reader'.last + Len(reader'.todo) = Len(content)
            \/ /\ reader'.taken + Len(reader'.todo) = PageRows
               /\ \A i \in DOMAIN content : ~A!Skips(A!Table, i)
    BY <1>4, <2>3, <2>10
  <2> QED BY <1>1, <2>6, <2>11, <2>12, <2>13 DEF GenericInv
<1> QED BY <1>2, <1>10, <1>11, <1>12, <1>13

\* Where rows were recorded, and how often, after any step.
LEMMA OnceStep ==
  ASSUME AppTypes, AtInv, ReaderInv, CommitInv, EventsInv, OnceInv, SpecialInv, GenericInv, A!Next
  PROVE  OnceInv'
<1>1. UNCHANGED device
  BY AtStep
<1>2. reader \in AppReader
  BY DEF AppTypes
<1>3. Reading /\ pc' = "parse" => reader'.how # "none"
  <2> SUFFICES ASSUME Reading, pc' = "parse"
               PROVE  reader'.how # "none"
    OBVIOUS
  <2>1. pc = "parse" /\ reader.how # "none"
    BY DEF Reading
  <2>2. A!SkipRow \/ A!RecordRow \/ A!ReadFails \/ A!EndPage
    BY <2>1, ParseFrame DEF A!OpenReader
  <2>3. CASE A!SkipRow \/ A!RecordRow \/ A!ReadFails
    <3>1. reader'.how = reader.how
      BY <1>2, <2>3 DEF A!SkipRow, A!RecordRow, A!ReadFails, AppReader
    <3> QED BY <2>1, <3>1
  <2>4. CASE A!EndPage
    <3>1. \/ reader' = [A!NoReader EXCEPT !.how = "generic", !.todo = A!pageQuery(A!Table, 0)]
          \/ reader.how = "generic" /\ reader' = [reader EXCEPT !.todo = A!pageQuery(A!Table, reader.last), !.taken = 0]
      BY <2>4 DEF A!EndPage
    <3>2. CASE reader' = [A!NoReader EXCEPT !.how = "generic", !.todo = A!pageQuery(A!Table, 0)]
      BY <3>2 DEF A!NoReader
    <3>3. CASE reader.how = "generic" /\ reader' = [reader EXCEPT !.todo = A!pageQuery(A!Table, reader.last), !.taken = 0]
      BY <1>2, <3>3 DEF AppReader
    <3> QED BY <3>1, <3>2, <3>3
  <2> QED BY <2>2, <2>3, <2>4
<1>4. Reading => A!Here' = A!Here /\ A!Here = at /\ (Reading' \/ PastTable(at[1], at[2])')
  <2> SUFFICES ASSUME Reading
               PROVE  A!Here' = A!Here /\ A!Here = at /\ (Reading' \/ PastTable(at[1], at[2])')
    OBVIOUS
  <2>1. pc = "parse"
    BY DEF Reading
  <2>2. at' = at /\ A!Here = at /\ A!Here' = at /\ pc' \in {"parse", "database", "ended"}
    BY <2>1, ParseFrame
  <2>3. CASE pc' = "parse"
    BY <1>3, <2>2, <2>3 DEF Reading
  <2>4. CASE pc' # "parse"
    <3>1. pc' \notin {"flags", "parse"}
      BY <2>2, <2>4
    <3> QED BY <2>2, <3>1 DEF PastTable
  <2> QED BY <2>2, <2>3, <2>4
<1>5. A!Current.records \in Seq(AppRecord)
  BY CurrentCase DEF CaseState
<1>6. ASSUME NEW n \in DOMAIN A!Current.records
      PROVE  \E e \in TableAt : e = A!Current.records[n].at /\ (PastTable(e[1], e[2])' \/ (e = at /\ Reading /\ Reading'))
  <2>1. A!Current.records[n] \in AppRecord
    BY <1>5
  <2>2. PICK e \in TableAt : e = A!Current.records[n].at
    BY <2>1 DEF AppRecord
  <2>3. PastTable(e[1], e[2]) \/ (e = A!Here /\ Reading)
    BY <2>2 DEF OnceInv
  <2>4. PastTable(e[1], e[2]) => PastTable(e[1], e[2])'
    BY PastMoves
  <2>5. e = A!Here /\ Reading => PastTable(e[1], e[2])' \/ (e = at /\ Reading /\ Reading')
    <3> SUFFICES ASSUME e = A!Here, Reading
                 PROVE  PastTable(e[1], e[2])' \/ (e = at /\ Reading /\ Reading')
      OBVIOUS
    <3>1. at' = at /\ e = at
      BY <1>4, ParseFrame DEF Reading
    <3>2. PastTable(at[1], at[2])' => PastTable(e[1], e[2])'
      BY <3>1 DEF PastTable
    <3> QED BY <1>4, <3>1, <3>2
  <2> QED BY <2>2, <2>3, <2>4, <2>5
<1>7. \A n \in DOMAIN A!Current'.records : \E e \in TableAt :
        e = A!Current'.records[n].at /\ (PastTable(e[1], e[2])' \/ (e = at /\ Reading /\ Reading'))
  <2>1. CASE A!Current'.records = A!Current.records
    BY <1>6, <2>1
  <2>2. CASE A!Current'.records = <<>>
    BY <2>2
  <2>3. CASE A!RecordRow /\ A!Current'.records = Append(A!Current.records, A!recordOf(A!Here, A!Table, A!next, reader.how))
    <3> DEFINE record == A!recordOf(A!Here, A!Table, A!next, reader.how)
    <3>1. pc = "parse" /\ reader.todo # <<>> /\ pc' = "parse"
      BY <2>3 DEF A!RecordRow
    <3>2. record.at = A!Here
      <4>1. A!Here \in TableAt /\ A!Table \in A!AppTable
        BY <3>1, TableFacts DEF AtInv
      <4>2. A!next \in DOMAIN A!Table.rows
        BY <3>1, AheadFacts
      <4> QED BY <4>1, <4>2, RecordFacts
    <3>3. Reading
      BY <3>1, AheadFacts DEF Reading
    <3>4. A!Here = at /\ at \in TableAt /\ Reading'
      BY <1>3, <1>4, <3>1, <3>3 DEF Reading, AtInv
    <3> HIDE DEF record
    <3>5. A!Current'.records = Append(A!Current.records, record)
      BY <2>3 DEF record
    <3>6. ASSUME NEW n \in DOMAIN A!Current'.records
          PROVE  \E e \in TableAt :
                   e = A!Current'.records[n].at /\ (PastTable(e[1], e[2])' \/ (e = at /\ Reading /\ Reading'))
      <4>1. \/ n \in DOMAIN A!Current.records /\ A!Current'.records[n] = A!Current.records[n]
            \/ A!Current'.records[n] = record
        <5>1. DOMAIN A!Current'.records = 1..Len(A!Current.records) + 1 /\ Len(A!Current.records) \in Nat
              /\ DOMAIN A!Current.records = 1..Len(A!Current.records)
          BY <1>5, <3>5
        <5>2. CASE n \in 1..Len(A!Current.records)
          BY <1>5, <3>5, <5>1, <5>2
        <5>3. CASE n = Len(A!Current.records) + 1
          BY <1>5, <3>5, <5>1, <5>3
        <5> QED BY <5>1, <5>2, <5>3
      <4>2. CASE n \in DOMAIN A!Current.records /\ A!Current'.records[n] = A!Current.records[n]
        BY <1>6, <4>2
      <4>3. CASE A!Current'.records[n] = record
        BY <3>2, <3>3, <3>4, <4>3
      <4> QED BY <4>1, <4>2, <4>3
    <3> QED BY <3>6
  <2> QED BY <2>1, <2>2, <2>3, CurrentMoves
<1>8. ASSUME NEW e \in TableAt, NEW i \in Nat, IsRow(e, i)
      PROVE  Times(e, i)' <= A!Copies(TheTable(e), i)
  <2>1. e[1] \in DOMAIN device /\ e[2] \in DOMAIN device[e[1]].tables /\ i \in DOMAIN TheTable(e).rows
    BY <1>8, TableFacts DEF IsRow, A!TablesOf
  <2>2. A!Copies(TheTable(e), i) \in {1, 2}
    <3>1. TheTable(e) \in A!AppTable
      BY <2>1, TableFacts DEF TheTable
    <3> QED BY <2>1, <3>1, CopiesRange
  <2>3. Times(e, i) \in Nat /\ Times(e, i) <= A!Copies(TheTable(e), i)
    BY <1>8, TimesMoves DEF OnceInv
  <2>4. CASE Times(e, i)' = Times(e, i) \/ Times(e, i)' = 0
    BY <2>2, <2>3, <2>4
  <2>5. CASE A!RecordRow /\ e = at /\ i = A!next /\ Times(e, i)' = Times(e, i) + 1
    <3>1. pc = "parse" /\ reader.todo # <<>>
      BY <2>5 DEF A!RecordRow
    <3>2. /\ A!Here = at /\ A!Table = TheTable(at) /\ reader.how \in {"special", "generic"}
          /\ A!next \in DOMAIN A!Table.rows /\ 1 \in DOMAIN reader.todo /\ A!next = reader.todo[1]
          /\ reader.last \in Nat /\ reader.todo \in Seq(Nat)
      BY <3>1, AheadFacts, ParseFrame
    <3>3. Times(A!Here, i) = Times(e, i)
      BY <2>5, <3>2
    <3>4. CASE reader.how = "special"
      <4>1. Times(e, i) + Waiting(i) <= A!Copies(TheTable(e), i)
        BY <2>5, <3>1, <3>2, <3>3, <3>4 DEF SpecialInv
      <4>2. Waiting(i) = Cardinality(Hits(Tail(reader.todo), {i})) + 1
        BY <2>5, <3>1, <3>2, HitsTail DEF Waiting, A!next
      <4>3. Cardinality(Hits(Tail(reader.todo), {i})) \in Nat
        <5>1. Tail(reader.todo) \in Seq(Nat)
          BY <3>1, <3>2
        <5>2. Cardinality(Hits(Tail(reader.todo), {i})) \in 0..Len(Tail(reader.todo))
          BY <5>1, HitsFinite
        <5> QED BY <5>1, <5>2
      <4> QED BY <2>2, <2>3, <2>5, <4>1, <4>2, <4>3
    <3>5. CASE reader.how = "generic"
      <4>1. Times(e, i) <= IF i <= reader.last THEN 1 ELSE 0
        BY <2>5, <3>1, <3>2, <3>3, <3>5 DEF GenericInv
      <4>2. reader.todo[1] > reader.last
        BY <3>1, <3>2, <3>5 DEF GenericInv
      <4>3. ~(i <= reader.last)
        BY <2>5, <3>2, <4>2
      <4> QED BY <2>2, <2>3, <2>5, <4>1, <4>3
    <3> QED BY <3>2, <3>4, <3>5
  <2> QED BY <2>3, <2>4, <2>5, TimesMoves
<1>9. \A e, i : (IsRow(e, i)' <=> IsRow(e, i)) /\ TheTable(e)' = TheTable(e)
  BY <1>1 DEF IsRow, TheTable, A!TablesOf
<1>10. \A e \in TableAt, i \in Nat : IsRow(e, i)' => Times(e, i)' <= A!Copies(TheTable(e), i)
  BY <1>8, <1>9
<1>11. Reading /\ Reading' => A!Here' = at
  BY <1>4
<1>12. \A n \in DOMAIN A!Current'.records : \E e \in TableAt :
         e = A!Current'.records[n].at /\ (PastTable(e[1], e[2])' \/ (e = A!Here' /\ Reading'))
  BY <1>7, <1>11
<1> QED BY <1>9, <1>10, <1>12 DEF OnceInv

\* What is recorded of the tables that are behind, after any step.
LEMMA AllKeptStep ==
  ASSUME AppTypes, AtInv, ReaderInv, CommitInv, EventsInv, OnceInv, AllKeptInv, SpecialInv, GenericInv, A!Next
  PROVE  AllKeptInv'
<1>1. UNCHANGED device
  BY AtStep
<1>2. \A e, i : (IsRow(e, i)' <=> IsRow(e, i)) /\ TheTable(e)' = TheTable(e)
  BY <1>1 DEF IsRow, TheTable, A!TablesOf
<1>3. warned \subseteq warned' /\ cut \subseteq cut'
  BY DEF A!Next, A!Begin, A!SkipDatabase, A!NextTable, A!CloseDatabase, A!InventoryFails, A!ScanFlags, A!FlagsFail,
            A!OpenReader, A!SkipRow, A!RecordRow, A!RowFails, A!ReadFails, A!EndPage, A!Commit, A!Enrich, A!ClearTimeline,
            A!ClearUsage, A!AddTimeline, A!AddUsage, A!PromotionFails, A!Stop, A!Done, A!vars, A!untouched
<1>4. ASSUME NEW e \in TableAt, NEW i \in Nat, AllKept', IsRow(e, i), PastTable(e[1], e[2])', e[2] <= MaxTables,
             Trusted(e)', ~A!Skips(TheTable(e), i)
      PROVE  Times(e, i)' = IF A!specialQuery(TheTable(e)) # <<>> THEN A!Copies(TheTable(e), i) ELSE 1
  <2>1. Trusted(e)
    BY <1>2, <1>3, <1>4 DEF Trusted
  <2>2. ~A!Begin
    <3> SUFFICES ASSUME A!Begin PROVE FALSE
      OBVIOUS
    <3>1. at' = <<1, 0>>
      BY DEF A!Begin, AtInv
    <3>2. at'[1] = 1 /\ at'[2] = 0 /\ e[1] \in Nat \ {0} /\ e[2] \in Nat
      BY <3>1 DEF TableAt
    <3>3. e[2] # 0
      BY <1>4, TableFacts DEF IsRow, A!TablesOf
    <3> QED BY <1>4, <3>2, <3>3 DEF PastTable
  <2>3. AllKept
    BY <1>4, <2>2, CurrentMoves
  <2>4. at = <<at[1], at[2]>> /\ at[1] \in Nat /\ at[2] \in Nat /\ e = <<e[1], e[2]>>
    BY TableFacts DEF TableAt
  <2>5. CASE PastTable(e[1], e[2])
    <3>1. Times(e, i) = IF A!specialQuery(TheTable(e)) # <<>> THEN A!Copies(TheTable(e), i) ELSE 1
      BY <1>4, <2>1, <2>3, <2>5 DEF AllKeptInv
    <3>2. A!RecordRow => e # at
      <4>1. A!RecordRow => pc = "parse"
        BY DEF A!RecordRow
      <4> QED BY <2>4, <2>5, <4>1 DEF PastTable
    <3>3. Times(e, i)' = Times(e, i)
      BY <1>4, <3>2, TimesMoves
    <3> QED BY <3>1, <3>3
  <2>6. CASE ~PastTable(e[1], e[2])
    <3>1. e = at /\ pc \in {"flags", "parse"} /\ pc' \notin {"flags", "parse"}
      BY <1>4, <2>6, PastMoves
    <3>2. ~A!Stop
      <4> SUFFICES ASSUME A!Stop PROVE FALSE
        OBVIOUS
      <4>1. txn' = A!Closed /\ told' = told
        BY DEF A!Stop
      <4>2. told.records = "none"
        BY <3>1 DEF CommitInv, Importing
      <4> QED BY <1>4, <4>1, <4>2 DEF AllKept, A!Closed
    <3>3. A!Table = TheTable(at) /\ A!Here = at
      BY <3>1, TableFacts
    <3>4. pc # "flags"
      <4> SUFFICES ASSUME pc = "flags" PROVE FALSE
        OBVIOUS
      <4>1. A!ScanFlags \/ A!FlagsFail
        BY <3>2 DEF A!Next, A!Begin, A!SkipDatabase, A!NextTable, A!CloseDatabase, A!InventoryFails, A!OpenReader, A!SkipRow,
            A!RecordRow, A!RowFails, A!ReadFails, A!EndPage, A!Commit, A!Enrich, A!ClearTimeline, A!ClearUsage, A!AddTimeline,
            A!AddUsage, A!PromotionFails, A!Done
      <4>2. pc' = A!parseNext
        BY <4>1 DEF A!ScanFlags, A!FlagsFail
      <4>3. A!isTargetRecordCategory(A!iosAppDbRecordCategory(A!Table))
        BY <2>1, <3>1, <3>3 DEF Trusted
      <4> QED BY <3>1, <4>2, <4>3 DEF A!parseNext
    <3>5. pc = "parse"
      BY <3>1, <3>4
    <3>6. A!EndPage /\ reader.todo = <<>>
      <4>1. A!RowFails \/ (A!EndPage /\ reader.todo = <<>>)
        BY <3>1, <3>2, <3>5, ParseFrame
      <4>2. ~A!RowFails
        <5>1. A!RowFails => at \in warned'
          BY <3>3 DEF A!RowFails
        <5> QED BY <1>4, <3>1, <5>1 DEF Trusted
      <4> QED BY <4>1, <4>2
    <3>7. /\ reader.how \in {"special", "generic"}
          /\ reader.how = "special" => reader.taken # 0
          /\ reader.how = "generic" => reader.taken # PageRows
      <4>1. reader.how # "none" /\ reader \in AppReader
        BY <3>6 DEF A!EndPage, AppTypes
      <4>2. reader.how \in {"special", "generic"}
        BY <4>1 DEF AppReader
      <4> QED BY <3>1, <3>5, <3>6, <4>2 DEF A!EndPage
    <3>8. i \in DOMAIN TheTable(at).rows /\ at \notin warned \cup cut /\ A!ReadWhole(TheTable(at)) /\ Trusted(at)
      BY <1>4, <2>1, <3>1 DEF Trusted, IsRow
    <3>9. Times(e, i)' = Times(e, i) /\ Times(e, i) = Times(at, i) /\ Times(at, i) \in Nat
      <4>1. ~A!RecordRow
        BY <3>6 DEF A!RecordRow
      <4>2. Times(e, i)' = Times(e, i) /\ Times(e, i) \in Nat
        BY <1>4, <4>1, TimesMoves
      <4>3. Times(e, i) = Times(at, i)
        BY <3>1
      <4> QED BY <4>2, <4>3
    <3>10. CASE reader.how = "special"
      <4>1. A!specialQuery(TheTable(at)) # <<>>
        BY <3>3, <3>5, <3>10 DEF SpecialInv
      <4>2. Len(A!specialQuery(TheTable(at))) <= MaxSpecial
        BY <3>8, <4>1 DEF A!ReadWhole
      <4>3. Times(at, i) + Waiting(i) = A!Copies(TheTable(at), i)
        BY <1>4, <2>3, <3>1, <3>3, <3>5, <3>8, <3>10, <4>2 DEF SpecialInv
      <4>4. Waiting(i) = 0
        <5>1. Hits(<<>>, {i}) = {}
          BY DEF Hits
        <5> QED BY <3>6, <5>1, FS_EmptySet DEF Waiting
      <4> QED BY <3>1, <3>9, <4>1, <4>3, <4>4
    <3>11. CASE reader.how = "generic"
      <4>1. /\ at \notin cut => A!specialQuery(TheTable(at)) = <<>>
            /\ \A j \in DOMAIN TheTable(at).rows : j <= reader.last /\ ~A!Skips(TheTable(at), j) => Times(at, j) = 1
            /\ \/ reader.last + Len(reader.todo) = Len(TheTable(at).rows)
               \/ reader.taken + Len(reader.todo) = PageRows
        BY <2>3, <3>3, <3>5, <3>8, <3>11 DEF GenericInv
      <4>2. Len(reader.todo) = 0 /\ reader.taken \in Nat /\ reader.last \in Nat
            /\ DOMAIN TheTable(at).rows = 1..Len(TheTable(at).rows) /\ Len(TheTable(at).rows) \in Nat
        BY <3>3, <3>5, <3>6, AheadFacts
      <4>3. reader.last = Len(TheTable(at).rows)
        BY <3>7, <3>11, <4>1, <4>2
      <4>4. i <= reader.last
        BY <3>8, <4>2, <4>3
      <4>5. Times(at, i) = 1
        BY <1>4, <3>1, <3>8, <4>1, <4>4
      <4>6. A!specialQuery(TheTable(at)) = <<>>
        BY <3>8, <4>1
      <4> QED BY <3>1, <3>9, <4>5, <4>6
    <3> QED BY <3>7, <3>10, <3>11
  <2> QED BY <2>5, <2>6
<1>5. \A e : TheTable(e)' = TheTable(e)
  BY <1>2
<1> QED BY <1>2, <1>4, <1>5 DEF AllKeptInv

\* Everything the proofs need to know of the applications' side.
AppsInv == /\ AppTypes /\ AtInv /\ ReaderInv /\ CommitInv /\ EventsInv
           /\ StatusInv /\ OnceInv /\ AllKeptInv /\ SpecialInv /\ GenericInv

\* Nothing is read, recorded or told at first.
LEMMA AppsBegin == ASSUME A!Init PROVE AppsInv
<1>1. /\ device \in Devices /\ pc = "begin" /\ at = <<1, 0>> /\ reader = A!NoReader
      /\ txn = "none" /\ kept = A!Empty /\ draft = A!Empty
      /\ told = [records |-> "none", promotion |-> "none"]
  BY DEF A!Init
<1>2. A!NoReader \in AppReader
  BY DEF A!NoReader, AppReader
<1>3. AppTypes
  BY <1>1, <1>2, EmptyCase DEF AppTypes, Importing
<1>4. device \in Seq(A!AppDatabase)
  BY <1>1, AppAssumptions DEF A!ParseAssumption
<1>5. at[1] = 1 /\ at[2] = 0 /\ at \in TableAt /\ Len(device) \in Nat
  BY <1>1, <1>4 DEF TableAt
<1>6. AtInv
  BY <1>1, <1>5 DEF AtInv
<1>7. ReaderInv
  BY <1>1 DEF ReaderInv
<1>8. CommitInv
  BY <1>1 DEF CommitInv, Importing, A!NothingHalfKept
<1>9. EventsInv
  <2>1. A!EventsTellRecords
    BY <1>1, EmptyCase DEF A!EventsTellRecords, A!Within
  <2> QED BY <1>1, <2>1, EmptyCase DEF EventsInv, Importing, Promoting
<1>10. ~AllKept
  BY <1>1 DEF AllKept
<1>11. A!Current.records = <<>>
  BY <1>1, EmptyCase DEF A!Current
<1>12. OnceInv
  <2>1. ASSUME NEW e \in TableAt, NEW i \in Nat, IsRow(e, i)
        PROVE  Times(e, i) <= A!Copies(TheTable(e), i)
    <3>1. Hits(<<>>, Of(e, i)) = {}
      BY DEF Hits
    <3>2. Times(e, i) = 0
      BY <1>11, <3>1, FS_EmptySet DEF Times
    <3>3. TheTable(e) \in A!AppTable
      BY <1>3, <1>6, <2>1, TableFacts DEF IsRow, TheTable, A!TablesOf
    <3>4. A!Copies(TheTable(e), i) \in {1, 2}
      BY <2>1, <3>3, CopiesRange DEF IsRow
    <3> QED BY <3>2, <3>4
  <2> QED BY <1>11, <2>1 DEF OnceInv
<1> QED BY <1>1, <1>3, <1>6, <1>7, <1>8, <1>9, <1>10, <1>12
        DEF AppsInv, StatusInv, AllKeptInv, SpecialInv, GenericInv

\* Nothing of the applications changes in the steps of the other sides.
LEMMA AppsStay ==
  ASSUME AppsInv, UNCHANGED <<pc, told, kept, txn, appsOnly>>
  PROVE  AppsInv'
<1>1. UNCHANGED <<pc, told, kept, txn, device, at, reader, draft, stuck, warned, cut>>
  BY DEF appsOnly
<1>2. A!Current' = A!Current /\ A!Table' = A!Table /\ A!Database' = A!Database /\ A!Here' = A!Here
  BY <1>1 DEF A!Current, A!Table, A!Database, A!Here
<1>3. AppTypes' /\ AtInv' /\ ReaderInv'
  BY <1>1, <1>2 DEF AppsInv, AppTypes, AtInv, ReaderInv
<1>4. CommitInv' /\ EventsInv'
  BY <1>1 DEF AppsInv, CommitInv, EventsInv, A!NothingHalfKept, A!EventsTellRecords
<1>5. /\ AllKept' <=> AllKept
      /\ Reading' <=> Reading
      /\ \A d, t : PastTable(d, t)' <=> PastTable(d, t)
      /\ \A e, i : Times(e, i)' = Times(e, i) /\ (IsRow(e, i)' <=> IsRow(e, i))
      /\ \A i : Waiting(i)' = Waiting(i)
      /\ \A e : TheTable(e)' = TheTable(e) /\ (Trusted(e)' <=> Trusted(e))
  BY <1>1, <1>2 DEF AllKept, Reading, PastTable, Times, IsRow, Waiting, TheTable, Trusted, A!TablesOf
<1>6. StatusInv'
  BY <1>1, <1>2, <1>5 DEF AppsInv, StatusInv, A!TablesOf
<1>7. OnceInv'
  BY <1>1, <1>2, <1>5 DEF AppsInv, OnceInv
<1>8. AllKeptInv'
  BY <1>1, <1>2, <1>5 DEF AppsInv, AllKeptInv
<1>9. SpecialInv'
  BY <1>1, <1>2, <1>5 DEF AppsInv, SpecialInv
<1>10. GenericInv'
  BY <1>1, <1>2, <1>5 DEF AppsInv, GenericInv
<1> QED BY <1>3, <1>4, <1>6, <1>7, <1>8, <1>9, <1>10 DEF AppsInv

\* It holds however the parser and the promotions go on, on any side.
LEMMA AppsAlways == DataSpec => [](side = "apps" => AppsInv)
<1> DEFINE AppsSide == side = "apps" => AppsInv
<1>1. DataInit => AppsSide
  BY AppsBegin DEF DataInit
<1>2. AppsSide /\ [DataNext]_dataVars => AppsSide'
  <2> SUFFICES ASSUME AppsSide, [DataNext]_dataVars, side' = "apps"
               PROVE  AppsInv'
    OBVIOUS
  <2>1. CASE AppsStep
    <3>1. AppsInv /\ A!Next
      BY <2>1 DEF AppsStep
    <3>2. AppTypes /\ AtInv /\ ReaderInv /\ CommitInv /\ EventsInv /\ StatusInv /\ OnceInv /\ AllKeptInv
          /\ SpecialInv /\ GenericInv
      BY <3>1 DEF AppsInv
    <3>3. AppTypes' /\ AtInv' /\ ReaderInv' /\ CommitInv' /\ EventsInv'
      BY <3>1, <3>2, AtStep, ReaderMoves, EventsStep
    <3>4. StatusInv' /\ OnceInv' /\ AllKeptInv' /\ SpecialInv' /\ GenericInv'
      BY <3>1, <3>2, StatusStep, OnceStep, AllKeptStep, SpecialStep, GenericStep
    <3> QED BY <3>3, <3>4 DEF AppsInv
  <2>2. CASE ReaderStep \/ GuidedStep \/ ParserStep \/ EnrichStep \/ ZipStep
    BY <2>2 DEF ReaderStep, GuidedStep, ParserStep, EnrichStep, ZipStep
  <2>3. CASE UNCHANGED dataVars
    <3>1. UNCHANGED <<side, pc, told, kept, txn, appsOnly>>
      BY <2>3 DEF dataVars
    <3> QED BY <3>1, AppsStay
  <2> QED BY <2>1, <2>2, <2>3 DEF DataNext
<1> QED BY <1>1, <1>2, PTL DEF DataSpec

\* The events of an application's records are told once each, and all of them where a
\* promotion is told complete: however the promotions and the enrichment are cut short.
THEOREM EventsAllTell == DataSpec => []EventsTellRecords
<1>1. (side = "apps" => AppsInv) => EventsTellRecords
  BY DEF AppsInv, EventsInv, EventsTellRecords
<1> QED BY <1>1, AppsAlways, PTL

\* The rows of an import that is told complete, from what the parser keeps to.
LEMMA RowsFollow == ASSUME AppsInv PROVE A!RowsOnce
<1> USE DEF AppsInv
<1> SUFFICES ASSUME NEW d \in DOMAIN device, NEW t \in A!TablesOf(d), NEW i \in DOMAIN device[d].tables[t].rows
             PROVE  LET table == device[d].tables[t]
                        count == A!Count(kept.records, d, t, i)
                    IN  /\ count <= A!Copies(table, i)
                        /\ /\ told.records = "complete" /\ t <= MaxTables
                           /\ A!isTargetRecordCategory(A!iosAppDbRecordCategory(table)) /\ ~A!Skips(table, i)
                           /\ <<d, t>> \notin warned \cup cut /\ A!ReadWhole(table)
                           => count = IF A!specialQuery(table) # <<>> THEN A!Copies(table, i) ELSE 1
  BY DEF A!RowsOnce
<1> DEFINE e == <<d, t>>
           table == device[d].tables[t]
<1>1. /\ e \in TableAt /\ e[1] = d /\ e[2] = t /\ t \in Nat /\ d \in Nat /\ d <= Len(device) /\ Len(device) \in Nat
      /\ table \in A!AppTable /\ TheTable(e) = table
  BY TableFacts DEF A!TablesOf, TableAt, TheTable
<1>2. i \in Nat /\ IsRow(e, i)
  <2>1. table.rows \in Seq(A!Row)
    BY <1>1 DEF A!AppTable
  <2>2. i \in 1..Len(table.rows) /\ Len(table.rows) \in Nat
    BY <2>1
  <2> QED BY <1>1, <2>2 DEF IsRow
<1>3. kept.records \in Seq(AppRecord)
  BY DEF AppTypes, CaseState
<1>4. A!Count(kept.records, d, t, i) = Cardinality(Hits(kept.records, Of(e, i)))
  <2>1. \A n \in DOMAIN kept.records : kept.records[n] \in AppRecord
    BY <1>3
  <2>2. {n \in DOMAIN kept.records : kept.records[n].at = <<d, t>> /\ kept.records[n].row = i}
          = Hits(kept.records, Of(e, i))
    BY <2>1 DEF Hits, Of
  <2> QED BY <2>2, SameSequences DEF A!Count
<1>5. A!Copies(table, i) \in {1, 2}
  BY <1>1, CopiesRange
<1>6. CASE txn = "open"
  <2>1. kept = A!Empty /\ told.records = "none"
    BY <1>6 DEF CommitInv, Importing
  <2>2. Hits(<<>>, Of(e, i)) = {}
    BY DEF Hits
  <2>3. A!Count(kept.records, d, t, i) = 0
    BY <1>4, <2>1, <2>2, EmptyCase, FS_EmptySet
  <2> QED BY <1>5, <2>1, <2>3
<1>7. CASE txn # "open"
  <2>1. A!Count(kept.records, d, t, i) = Times(e, i)
    BY <1>4, <1>7 DEF Times, A!Current
  <2>2. Times(e, i) <= A!Copies(table, i)
    BY <1>1, <1>2 DEF OnceInv
  <2>3. told.records = "complete" => AllKept /\ PastTable(d, t)
    <3>1. told.records = "complete" => at[1] > Len(device) /\ at[1] \in Nat
      BY TableFacts DEF AtInv
    <3> QED BY <1>1, <3>1 DEF AllKept, PastTable
  <2>4. /\ told.records = "complete" /\ t <= MaxTables
        /\ A!isTargetRecordCategory(A!iosAppDbRecordCategory(table)) /\ ~A!Skips(table, i)
        /\ <<d, t>> \notin warned \cup cut /\ A!ReadWhole(table)
        => Times(e, i) = IF A!specialQuery(table) # <<>> THEN A!Copies(table, i) ELSE 1
    BY <1>1, <1>2, <2>3 DEF AllKeptInv, Trusted
  <2> QED BY <2>1, <2>2, <2>4
<1> QED BY <1>6, <1>7

\* The statuses and the inventory of an import that is told complete.
LEMMA StatusFollows == ASSUME AppsInv PROVE A!StatusTells
<1> SUFFICES ASSUME told.records = "complete", NEW d \in DOMAIN device
             PROVE  /\ kept.status[d] = IF device[d].file = "ok" THEN A!Cardinality({e \in kept.tables : e[1] = d})
                                        ELSE device[d].file
                    /\ \A t \in A!TablesOf(d) : t <= MaxTables <=> <<d, t>> \in kept.tables
  BY DEF A!StatusTells
<1>1. AppTypes /\ AtInv /\ StatusInv /\ CommitInv
  BY DEF AppsInv
<1>2. txn # "open"
  BY <1>1 DEF CommitInv, Importing
<1>3. A!Current = kept /\ AllKept
  BY <1>2 DEF A!Current, AllKept
<1>4. /\ d \in 1..Len(device) /\ Len(device) \in Nat /\ at[1] \in Nat /\ d < at[1] /\ d \in Nat \ {0}
      /\ Len(device[d].tables) \in Nat /\ DOMAIN device[d].tables = 1..Len(device[d].tables)
  BY <1>1, TableFacts DEF AtInv
<1>5. MaxTables \in Nat \ {0}
  BY AppAssumptions DEF A!ParseAssumption
<1>6. kept.tables = {e \in TableAt : /\ e[1] <= Len(device) /\ e[2] \in A!TablesOf(e[1]) /\ e[2] <= MaxTables
                                     /\ (e[1] < at[1] \/ (e[1] = at[1] /\ e[2] <= at[2]))}
  BY <1>1, <1>3 DEF StatusInv
<1>7. kept.status[d] = IF device[d].file # "ok" THEN device[d].file
                       ELSE IF Len(device[d].tables) <= MaxTables THEN Len(device[d].tables) ELSE MaxTables
  BY <1>1, <1>3, <1>4 DEF StatusInv
<1>8. ASSUME NEW t \in A!TablesOf(d)
      PROVE  t <= MaxTables <=> <<d, t>> \in kept.tables
  <2>1. t \in Nat /\ <<d, t>> \in TableAt /\ <<d, t>>[1] = d /\ <<d, t>>[2] = t
    BY <1>4 DEF A!TablesOf, TableAt
  <2>2. <<d, t>> \in kept.tables <=> /\ d <= Len(device) /\ t \in A!TablesOf(d) /\ t <= MaxTables
                                     /\ (d < at[1] \/ (d = at[1] /\ t <= at[2]))
    BY <1>6, <2>1
  <2> QED BY <1>4, <1>8, <2>2
<1>9. ASSUME device[d].file = "ok"
      PROVE  kept.status[d] = A!Cardinality({e \in kept.tables : e[1] = d})
  <2> DEFINE most == IF Len(device[d].tables) <= MaxTables THEN Len(device[d].tables) ELSE MaxTables
             mine == {e \in kept.tables : e[1] = d}
             place == [t \in 1..most |-> <<d, t>>]
  <2>1. kept.status[d] = most
    BY <1>7, <1>9
  <2>2. most \in Nat /\ (\A t : t \in 1..most <=> t \in 1..Len(device[d].tables) /\ t <= MaxTables)
    BY <1>4, <1>5
  <2>3. A!TablesOf(d) = 1..Len(device[d].tables)
    BY <1>9 DEF A!TablesOf
  <2>4. ASSUME NEW e \in mine
        PROVE  \E t \in 1..most : e = <<d, t>>
    <3>1. e \in TableAt /\ e[1] = d /\ e[2] \in A!TablesOf(e[1]) /\ e[2] <= MaxTables
      BY <1>6, <2>4
    <3>2. e = <<e[1], e[2]>>
      BY <3>1 DEF TableAt
    <3> QED BY <2>2, <2>3, <3>1, <3>2
  <2>5. ASSUME NEW t \in 1..most
        PROVE  <<d, t>> \in mine
    <3>1. t \in A!TablesOf(d) /\ t <= MaxTables
      BY <2>2, <2>3
    <3>2. <<d, t>> \in kept.tables
      BY <1>8, <3>1
    <3> QED BY <3>2
  <2>6. IsFiniteSet(1..most) /\ Cardinality(1..most) = most
    <3> HIDE DEF most
    <3>1. most \in Int /\ (0 < most \/ most = 0)
      BY <2>2
    <3> QED BY <3>1, FS_Interval
  <2> HIDE DEF most, mine
  <2>7. place \in Bijection(1..most, mine)
    <3>1. place \in [1..most -> mine]
      BY <2>5
    <3>2. place \in Injection(1..most, mine)
      BY <3>1 DEF Injection, IsInjective
    <3>3. place \in Surjection(1..most, mine)
      BY <2>4, <3>1 DEF Surjection
    <3> QED BY <3>2, <3>3 DEF Bijection
  <2>8. Cardinality(mine) = most
    BY <2>6, <2>7, FS_Bijection DEF ExistsBijection
  <2> QED BY <2>1, <2>8, SameSequences DEF mine
<1> QED BY <1>7, <1>8, <1>9

\* A committed import has the rows of every table it read as often as it should, its
\* statuses tell the tables it has, and one that is warned of has left nothing unless
\* the engine took the transaction away: for any databases, limits and faults.
THEOREM RowsAllAccounted == DataSpec => []RowsAccounted
<1>1. (side = "apps" => AppsInv) => RowsAccounted
  <2>1. AppsInv => A!NothingHalfKept
    BY DEF AppsInv, CommitInv
  <2> QED BY <2>1, RowsFollow, StatusFollows DEF RowsAccounted, A!RowsAccounted
<1> QED BY <1>1, AppsAlways, PTL
=============================================================================
