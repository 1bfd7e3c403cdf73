------------------------------ MODULE Enrichment ------------------------------
(***************************************************************************)
(* From decoded items to the artifacts an examiner reviews:                *)
(* SqliteEnrichment::run and classifyFilesystem                            *)
(* (src/src/enrich_sql/sqlite_enrichment.cpp), and what runApplication     *)
(* does before and after them for an AFF4 image                            *)
(* (src/src/app/app_runner.cpp).  One source with one Store-V2 group.      *)
(* A path is a sequence of names, <<Slash>> the root and the head of every *)
(* absolute path, <<>> no path and <<n>> a bare name.  Whole transactions  *)
(* are durable in "kept"; any step may fail.                               *)
(***************************************************************************)
EXTENDS Integers, FiniteSets, SequencesExt, TLC

CONSTANTS Sources,          \* bound: what is decoded and known of the evidence
          Slash, NoName, Plist, \* '/', ------NONAME------, ------PLIST------
          Label,            \* UNRESOLVED_SPOTLIGHT_OBJECT_INODE_<inode>
          Volumes,          \* the directory of mounted volumes
          Data,             \* the volume name "Data"
          Known,            \* top-level directories of iOS
          MaxChain,         \* 20
          FewWeak, Plenty, FewOpen \* 25, 50000, 25000

EnrichmentAssumption ==
  /\ {MaxChain, FewWeak, Plenty, FewOpen} \subseteq Nat
  /\ Cardinality({Slash, NoName, Plist, Label, Volumes}) = 5

(***************************************************************************)
(* A source is [aff4, inserted, items, walk, index, cache, lookup]:        *)
(* the items in the order they are decoded, each [copy, inode, parent,     *)
(* name, hint, probe, dated]; the CSV files of the directory walk and of   *)
(* the directory records of an AFF4 image, rows [vol, child, parent, name, *)
(* path], with names and not in a circle; the files of the text cache,     *)
(* each [vol, id, mounted]; and the paths of the iOS inventory.            *)
(***************************************************************************)
VARIABLES source,
          stage,  \* what is done next
          db,     \* the tables as this connection sees them
          kept,   \* the tables as committed
          chain   \* temp_best_parent_inode_path

vars == <<source, stage, db, kept, chain>>

Items == source.items
Root  == <<Slash>>
IsAbs(p)    == p # <<>> /\ p[1] = Slash
HasSlash(p) == p = Root \/ Len(p) > 1
Named(n)    == n \notin {NoName, Plist, Label}

(***************************************************************************)
(* The rows of the parser.  The path of an item is read up the names seen  *)
(* so far; names of both copies of the store are in one table.             *)
(***************************************************************************)
Seen(n) == LET last(i) == Max({k \in 1..n : Items[k].inode = i})
           IN [i \in {Items[k].inode : k \in 1..n} |-> Items[last(i)]]

\* The inodes from i up to the last one known, bottom up.
LineUp(i, nodes) ==
  LET up[k \in 1..Cardinality(DOMAIN nodes)] ==
        IF k = 1 THEN <<i>>
        ELSE LET line == up[k - 1]
                 top  == nodes[Last(line)]
             IN IF Last(line) = 2 \/ top.parent \in {0, 2} \/ top.parent \notin DOMAIN nodes
                   \/ top.parent \in ToSet(line)
                THEN line ELSE Append(line, top.parent)
  IN up[Cardinality(DOMAIN nodes)]

ReconstructPath(i, nodes) ==
  LET line  == Reverse(LineUp(i, nodes))
      parts == SelectSeq([k \in DOMAIN line |-> nodes[line[k]].name], Named)
  IN IF i = 2 THEN Root ELSE IF parts = <<>> THEN <<>> ELSE Root \o parts

FullPath(k) ==
  LET path == ReconstructPath(Items[k].inode, Seen(k))
  IN IF source.inserted THEN (IF Items[k].inode = 2 THEN Root ELSE <<>>)
     ELSE IF path # <<>> THEN path ELSE Items[k].probe

----------------------------------------------------------------------------
(* The transaction of run.                                                 *)

Rows(i) == {k \in DOMAIN Items : Items[k].inode = i}

Preferred(i) == LET main == {k \in Rows(i) : Items[k].copy = "store"}
                IN Min(IF main # {} THEN main ELSE Rows(i))

ArtifactOf(i) ==
  LET r == Items[Preferred(i)]
      p == FullPath(Preferred(i))
      path == IF p = Root /\ r.parent # 0 THEN <<>> ELSE p
  IN [parent |-> r.parent,
      name   |-> IF r.name = NoName THEN Label ELSE r.name,
      path   |-> IF path # <<>> THEN path ELSE IF r.name # NoName THEN <<r.name>> ELSE <<>>,
      status |-> IF path = Root THEN "root" ELSE IF path # <<>> THEN "raw"
                 ELSE IF r.name # NoName THEN (IF r.parent # 0 THEN "pending" ELSE "noParent")
                 ELSE IF p = Root THEN "suppressed" ELSE "unresolved",
      existence |-> "", flagged |-> FALSE]

Artifacts == db.artifacts
Change(f(_)) == db' = [db EXCEPT !.artifacts = [i \in DOMAIN Artifacts |-> f(i)]]
Go(s) == stage' = s /\ UNCHANGED source

Build == /\ stage = "build"
         /\ db' = [db EXCEPT !.artifacts = [i \in {Items[k].inode : k \in DOMAIN Items} |-> ArtifactOf(i)]]
         /\ Go("probe") /\ UNCHANGED <<kept, chain>>

\* The longest absolute path probe of an object, if it has any.
ProbeOf(i) == LET rows == {k \in Rows(i) : IsAbs(Items[k].probe) /\ Items[k].probe # Root}
              IN {Items[k].probe : k \in {k \in rows : \A j \in rows :
                    \/ Len(Items[j].probe) < Len(Items[k].probe)
                    \/ Len(Items[j].probe) = Len(Items[k].probe) /\ k <= j}}

ProbeApplies(a, p) == \/ ~IsAbs(a.path) \/ a.path = Root
                      \/ a.name = Plist
                      \/ a.path = Root \o <<Last(p)>> /\ Len(p) > Len(a.path)

HintOf(i) == LET rows == {k \in Rows(i) : Items[k].hint # NoName}
             IN IF rows = {} THEN Plist ELSE Items[Min(rows)].hint

Probed(i) ==
  LET a == Artifacts[i]
      use == {p \in ProbeOf(i) : ProbeApplies(a, p)}
      p == CHOOSE p \in use : TRUE
      b == IF use = {} THEN a
           ELSE [a EXCEPT !.path = p, !.status = "probe",
                          !.name = IF a.name = Plist THEN Last(p) ELSE a.name]
  IN IF b.name = Plist THEN [b EXCEPT !.name = HintOf(i)] ELSE b

Probe == /\ stage = "probe"
         /\ Change(Probed)
         /\ Go("link") /\ UNCHANGED <<kept, chain>>

NoLink == [path |-> <<>>, by |-> "none"]
LinkOf(i) ==
  LET a == Artifacts[i]
      p == Artifacts[a.parent]
  IN IF a.parent \notin DOMAIN Artifacts \/ a.name = Label THEN NoLink
     ELSE IF HasSlash(p.path) THEN [path |-> Append(p.path, a.name), by |-> "parentPath"]
     ELSE IF p.name # Label THEN [path |-> <<p.name, a.name>>, by |-> "names"]
     ELSE NoLink

Link == /\ stage = "link"
        /\ db' = [db EXCEPT !.links = [i \in {i \in DOMAIN Artifacts : Artifacts[i].parent # 0} |-> LinkOf(i)]]
        /\ Go("chain") /\ UNCHANGED <<kept, chain>>

Existing(a) == IF a.path = <<Plist>> \/ (a.path = Root /\ a.parent # 0) THEN <<>> ELSE a.path

\* Faulty variant: the label of an object without a name is a name like any other.
ChainNameOrLabel(a) == a.name \notin {NoName, Plist}
ChainName(a) == Named(a.name)

Seeds(i) ==
  LET a == Artifacts[i]
  IN {[path |-> p, quality |-> 0, depth |-> 0, visited |-> {i}] : p \in {p \in {Existing(a)} : HasSlash(p)}}
     \cup (IF ChainName(a) /\ a.parent \in {0, 2}
           THEN {[path |-> Root \o <<a.name>>, quality |-> 1, depth |-> 0, visited |-> {i}]} ELSE {})

\* Faulty variant: the last step allowed is not taken.
CandidatesShort ==
  LET walk[d \in 0..MaxChain] == [i \in DOMAIN Artifacts |->
        LET a == Artifacts[i]
        IN IF d = 0 THEN Seeds(i)
           ELSE IF ~ChainName(a) \/ IsAbs(Existing(a)) \/ a.parent \notin DOMAIN Artifacts \/ d = MaxChain THEN {}
           ELSE {[path |-> Append(c.path, a.name), quality |-> IF IsAbs(c.path) THEN 1 ELSE 3,
                  depth |-> d, visited |-> c.visited \cup {i}] : c \in {x \in walk[d - 1][a.parent] : i \notin x.visited}}]
  IN [i \in DOMAIN Artifacts |-> UNION {walk[d][i] : d \in 0..MaxChain}]
Candidates ==
  LET walk[d \in 0..MaxChain] == [i \in DOMAIN Artifacts |->
        LET a == Artifacts[i]
        IN IF d = 0 THEN Seeds(i)
           ELSE IF ~ChainName(a) \/ IsAbs(Existing(a)) \/ a.parent \notin DOMAIN Artifacts THEN {}
           ELSE {[path |-> Append(c.path, a.name), quality |-> IF IsAbs(c.path) THEN 1 ELSE 3,
                  depth |-> d, visited |-> c.visited \cup {i}] : c \in {x \in walk[d - 1][a.parent] : i \notin x.visited}}]
  IN [i \in DOMAIN Artifacts |-> UNION {walk[d][i] : d \in 0..MaxChain}]

\* The order of temp_best_parent_inode_path; of equals, which differ in text only, any.
Rank(c) == <<c.quality, IF IsAbs(c.path) THEN 0 ELSE 1, -c.depth, -Len(c.path)>>
NotWorse(c, o) == \A k \in 1..4 : (\A j \in 1..k - 1 : Rank(c)[j] = Rank(o)[j]) => Rank(c)[k] <= Rank(o)[k]
Best(cs) == CHOOSE c \in cs : \A o \in cs : NotWorse(c, o)

Weak(a) == \/ a.path = <<>> \/ a.path = <<a.name>> \/ ~HasSlash(a.path)
           \/ a.status \in {"pending", "noParent"}

WeakLinks   == {i \in DOMAIN db.links : Weak(Artifacts[i])}
DirectLinks == {i \in DOMAIN db.links : db.links[i].path # <<>>}
OpenLinks   == {i \in DOMAIN db.links : ~IsAbs(db.links[i].path)}
SkipsChain  == LET many == Cardinality(DirectLinks) >= Plenty
               IN \/ WeakLinks = {}
                  \/ Cardinality(WeakLinks) <= FewWeak /\ many
                  \/ Cardinality(OpenLinks) <= FewOpen /\ many

Chain == /\ stage = "chain"
         /\ LET cands == Candidates
                found == {i \in DOMAIN Artifacts : cands[i] # {}}
                best  == [i \in found |-> Best(cands[i])]
                adopts(i) == /\ i \in found
                             /\ db.links[i].path = <<>> \/ (~IsAbs(db.links[i].path) /\ IsAbs(best[i].path))
            IN IF SkipsChain THEN chain' = <<>> /\ UNCHANGED db
               ELSE /\ chain' = best
                    /\ db' = [db EXCEPT !.links = [i \in DOMAIN db.links |->
                                 IF adopts(i) THEN [path |-> best[i].path, by |-> "chain"] ELSE db.links[i]]]
         /\ Go("apply") /\ UNCHANGED kept

Applied(i) ==
  LET a == Artifacts[i]
  IN IF i \in DirectLinks /\ Weak(a)
     THEN [a EXCEPT !.path = db.links[i].path,
                    !.status = IF i \in DOMAIN chain /\ IsAbs(chain[i].path) THEN "rebuilt" ELSE "relative"]
     ELSE a

\* Left out if every candidate is the path its artifact has.
Apply == /\ stage = "apply"
         /\ Change(Applied)
         /\ Go("derive") /\ UNCHANGED <<kept, chain>>

(***************************************************************************)
(* What is derived from the artifacts before the commit.  The hits of      *)
(* mounted-volume paths also take in the timeline, which is still empty.   *)
(***************************************************************************)
UnderVolumes(p) == IF IsAbs(p) THEN Len(p) > 2 /\ p[2] = Volumes ELSE Len(p) > 1 /\ p[1] = Volumes
NamesVolumes(p) == \E k \in 2..Len(p) - 1 : p[k] = Volumes
Dated(i)        == \E k \in Rows(i) : Items[k].dated
ProbesOf(i)     == {Items[k].probe : k \in Rows(i)}

Shown(i) == [name |-> Artifacts[i].name, path |-> Artifacts[i].path]
Hits(paths, texts) == [path |-> paths, cache |-> {c \in texts : c.mounted}]

Derive ==
  /\ stage = "derive"
  /\ LET hits == Hits({i \in DOMAIN Artifacts : NamesVolumes(Artifacts[i].path)}, db.texts)
     IN db' = [db EXCEPT
          !.dates    = [i \in DOMAIN Artifacts |-> Shown(i)],
          !.volumes  = UNION {{<<i, p>> : p \in {p \in {Artifacts[i].path} \cup ProbesOf(i) : UnderVolumes(p)}} :
                                i \in DOMAIN Artifacts},
          !.hits     = hits,
          !.tally    = {hits},
          !.timeline = [i \in {i \in DOMAIN Artifacts : Dated(i)} |->
                          [name |-> Artifacts[i].name, path |-> Artifacts[i].path,
                           existence |-> "", flagged |-> FALSE]]]
  /\ Go("commit") /\ UNCHANGED <<kept, chain>>

Commit == /\ stage = "commit"
          /\ kept' = db
          /\ Go("classify") /\ UNCHANGED <<db, chain>>

(***************************************************************************)
(* The inventory of an AFF4 image, each object of a volume once: the rows  *)
(* of the directory walk, then of the directory records, without paths.    *)
(***************************************************************************)
Inventory ==
  LET rows == SelectSeq(source.walk, LAMBDA r : r.path # <<>>) \o source.index
  IN {rows[k] : k \in {k \in DOMAIN rows : rows[k].child # 0 /\
        \A j \in 1..k - 1 : <<rows[j].vol, rows[j].child>> # <<rows[k].vol, rows[k].child>>}}

Materialize == /\ stage = "materialize"
               /\ db' = [db EXCEPT !.inventory = Inventory]
               /\ kept' = db'
               /\ Go("build") /\ UNCHANGED chain

(***************************************************************************)
(* The transaction of classifyFilesystem: the paths of an iOS inventory    *)
(* decide if there are any, else the inventory of the image.               *)
(***************************************************************************)
MatchesRow(i, a, f) == /\ a.parent \in {0, f.parent}
                       /\ f.child = i \/ f.name = a.name
InInventory(i, a) == \E f \in db.inventory : MatchesRow(i, a, f) \/ (a.path # <<>> /\ f.path = a.path)

Existence(i) ==
  LET a == Artifacts[i]
  IN IF source.lookup # {}
     THEN IF IsAbs(a.path) /\ a.path \in source.lookup THEN "present"
          ELSE IF IsAbs(a.path) /\ Len(a.path) > 2 /\ a.path[2] \in Known THEN "missing"
          ELSE "unchecked"
     ELSE IF db.inventory = {} THEN "unchecked"
     ELSE IF InInventory(i, a) THEN "present" ELSE "missing"

\* Faulty variant: the timeline keeps the status it had.
TimelineAsBefore(artifacts) == db.timeline
TimelineOf(artifacts) ==
  [i \in DOMAIN db.timeline |->
     [db.timeline[i] EXCEPT !.existence = artifacts[i].existence, !.flagged = artifacts[i].flagged]]

Classified == [i \in DOMAIN Artifacts |->
                 [Artifacts[i] EXCEPT !.existence = Existence(i), !.flagged = Existence(i) = "missing"]]

Classify ==
  /\ stage = "classify"
  /\ db' = [db EXCEPT !.artifacts = Classified,
                      !.leads     = [i \in {i \in DOMAIN Artifacts : Classified[i].flagged} |-> Shown(i)],
                      !.timeline  = TimelineOf(Classified)]
  /\ kept' = db'
  /\ Go(IF source.aff4 THEN "resolve" ELSE "done") /\ UNCHANGED chain

(***************************************************************************)
(* Objects without a name get one, and a path, from the image.  Records    *)
(* are looked up by file id alone, whatever their volume; those of Data    *)
(* come first.                                                             *)
(***************************************************************************)
RecordsOf(i) == SelectSeq(source.index, LAMBDA r : r.child = i)
DataFirst(s) == SelectSeq(s, LAMBDA r : r.vol = Data) \o SelectSeq(s, LAMBDA r : r.vol # Data)
FirstSome(s) == LET full == SelectSeq(s, LAMBDA p : p # <<>>)
                IN IF full = <<>> THEN <<>> ELSE full[1]

WalkPath(i) == FirstSome([k \in DOMAIN source.walk |->
                  IF source.walk[k].child = i THEN source.walk[k].path ELSE <<>>])

NameScanPath(i) ==
  LET scan[d \in 0..Len(source.index)] == [c \in {source.index[k].child : k \in DOMAIN source.index} |->
        LET via(r) == IF r.parent \in {0, 1, 2, c} THEN Root \o <<r.name>>
                      ELSE IF d = 0 \/ RecordsOf(r.parent) = <<>> THEN <<>>
                      ELSE LET up == scan[d - 1][r.parent] IN IF up = <<>> THEN <<>> ELSE Append(up, r.name)
            rs == DataFirst(RecordsOf(c))
        IN FirstSome([k \in DOMAIN rs |-> via(rs[k])])]
  IN scan[Len(source.index)][i]

Chosen(i) == LET rs == RecordsOf(i)
                 same == SelectSeq(rs, LAMBDA r : r.parent = Artifacts[i].parent)
             IN IF same # <<>> THEN same[1] ELSE DataFirst(rs)[1]

Resolved(i) ==
  LET a == Artifacts[i]
      r == Chosen(i)
      path == FirstSome(<<WalkPath(i), NameScanPath(i)>>)
  IN IF a.status # "unresolved" \/ RecordsOf(i) = <<>> THEN a
     ELSE IF path # <<>> THEN [a EXCEPT !.name = r.name, !.path = path, !.status = "imagePath"]
     ELSE IF r.parent = a.parent \/ Len(RecordsOf(i)) = 1
     THEN [a EXCEPT !.name = r.name, !.status = "imageName"]
     ELSE a

Resolve == /\ stage = "resolve"
           /\ Change(Resolved)
           /\ kept' = db'
           /\ Go("cache") /\ UNCHANGED chain

(***************************************************************************)
(* The files of the text cache are named by the object they are of.  One   *)
(* without an artifact gets it here; one without a path gets that of the   *)
(* directory records of its volume, as far up as they are known.           *)
(***************************************************************************)
CacheNodes(vol) ==
  LET rows == SelectSeq(source.index, LAMBDA r : r.vol = vol /\ r.child # 0)
      firstOf(c) == Min({k \in DOMAIN rows : rows[k].child = c})
  IN [c \in {rows[k].child : k \in DOMAIN rows} |-> rows[firstOf(c)]]

CachePath(vol, i) ==
  LET nodes == CacheNodes(vol)
      line  == Reverse(LineUp(i, nodes))
  IN IF i \notin DOMAIN nodes THEN <<>> ELSE Root \o [k \in DOMAIN line |-> nodes[line[k]].name]

\* Of several files of an object whichever is done first decides.
TextsOf(i) == {c \in source.cache : c.id = i /\ CachePath(c.vol, i) # <<>>}

WithText(i) ==
  LET a == Artifacts[i]
      c == CHOOSE c \in TextsOf(i) : TRUE
      p == CachePath(c.vol, i)
  IN IF i \notin DOMAIN Artifacts
     THEN [parent |-> CacheNodes(c.vol)[i].parent, name |-> CacheNodes(c.vol)[i].name,
           path |-> p, status |-> "cachePath", existence |-> "", flagged |-> FALSE]
     ELSE IF TextsOf(i) # {} /\ (a.path = <<>> \/ a.status = "unresolved")
     THEN [a EXCEPT !.path = p, !.status = "cachePath"]
     ELSE a

CacheText == /\ stage = "cache"
             /\ LET named == {i \in {c.id : c \in source.cache} : TextsOf(i) # {}}
                IN db' = [db EXCEPT !.artifacts = [i \in DOMAIN Artifacts \cup named |-> WithText(i)],
                                    !.texts     = source.cache]
             /\ kept' = db'
             /\ Go("clearHits") /\ UNCHANGED chain

(***************************************************************************)
(* The hits in the cached text and the summary over all hits are renewed,  *)
(* statement by statement outside a transaction.                           *)
(***************************************************************************)
ClearHits == /\ stage = "clearHits"
             /\ db' = [db EXCEPT !.hits.cache = {}, !.tally = {}]
             /\ kept' = db'
             /\ Go("renewHits") /\ UNCHANGED chain

RenewHits == /\ stage = "renewHits"
             /\ db' = [db EXCEPT !.hits = Hits(db.hits.path, db.texts)]
             /\ kept' = db'
             /\ Go("sumHits") /\ UNCHANGED chain

SumHits == /\ stage = "sumHits"
           /\ db' = [db EXCEPT !.tally = {db.hits}]
           /\ kept' = db'
           /\ Go("done") /\ UNCHANGED chain

----------------------------------------------------------------------------
Empty == [inventory |-> {}, artifacts |-> <<>>, links |-> <<>>, dates |-> <<>>, timeline |-> <<>>,
          volumes |-> {}, leads |-> <<>>, texts |-> {}, hits |-> [path |-> {}, cache |-> {}], tally |-> {}]

Init == /\ source \in Sources
        /\ stage = IF source.aff4 THEN "materialize" ELSE "build"
        /\ db = Empty /\ kept = Empty
        /\ chain = <<>>

(***************************************************************************)
(* A statement fails.  What is open is rolled back; the run of an AFF4     *)
(* image goes on with the next part, any other run ends.                   *)
(***************************************************************************)
InRun == {"build", "probe", "link", "chain", "apply", "derive", "commit", "classify"}
Fail == /\ stage \notin {"done", "failed"}
        /\ db' = kept
        /\ Go(CASE stage = "materialize" -> "build"
                [] stage \in InRun /\ ~source.aff4 -> "failed"
                [] stage \in InRun \cup {"resolve"} /\ source.aff4 -> "cache"
                [] stage = "cache" -> "clearHits"
                [] OTHER -> "done")
        /\ UNCHANGED <<kept, chain>>

Next == \/ Materialize \/ Build \/ Probe \/ Link \/ Chain \/ Apply \/ Derive \/ Commit \/ Classify
        \/ Resolve \/ CacheText \/ ClearHits \/ RenewHits \/ SumHits \/ Fail

Spec == Init /\ [][Next]_vars

----------------------------------------------------------------------------
(* A name of an object is one that a row, a hint, the end of a path probe  *)
(* or a directory record gives it, and its parents likewise.               *)
NamesOf(i) == {Items[k].name : k \in Rows(i)} \cup {Items[k].hint : k \in Rows(i)}
              \cup {Last(p) : p \in ProbesOf(i) \ {<<>>}}
              \cup {source.index[k].name : k \in {k \in DOMAIN source.index : source.index[k].child = i}}
ParentsOf(i) == {Items[k].parent : k \in Rows(i)}
                \cup {source.index[k].parent : k \in {k \in DOMAIN source.index : source.index[k].child = i}}
Objects == {Items[k].inode : k \in DOMAIN Items} \cup {source.index[k].child : k \in DOMAIN source.index}

\* The paths that can be read up the line of parents of each object, wherever it is cut.
Readable ==
  LET read[d \in 0..Cardinality(Objects)] == [i \in Objects |->
        LET names == NamesOf(i) \ {NoName}
            above == IF d = 0 THEN {} ELSE UNION {read[d - 1][p] : p \in ParentsOf(i) \cap Objects}
        IN {<<n>> : n \in names} \cup {Root \o <<n>> : n \in names} \cup ProbesOf(i)
           \cup {source.walk[k].path : k \in {k \in DOMAIN source.walk : source.walk[k].child = i}}
           \cup {Append(p, n) : p \in above, n \in names}
           \cup (IF names \ {Plist} = {} THEN above ELSE {})
           \cup (IF i = 2 THEN {Root} ELSE {})]
  IN read[Cardinality(Objects)]

(* Whatever pass gave it, the path of an artifact reads along its line of  *)
(* parents, from names the evidence gives them: no label made up for an    *)
(* object without a name becomes a directory of others.                    *)
PathsFollowParents ==
  \A i \in DOMAIN Artifacts : Artifacts[i].path # <<>> => Artifacts[i].path \in Readable[i]

(* Artifacts still without an absolute path although that of their parent  *)
(* is known, within the depth allowed.                                     *)
LeftBehind ==
  {i \in DOMAIN Artifacts :
     LET a == Artifacts[i]
     IN /\ Named(a.name) /\ ~IsAbs(a.path) /\ a.status # "probe"
        /\ a.parent \in DOMAIN Artifacts
        /\ LET p == Artifacts[a.parent]
           IN IsAbs(p.path) /\ p.path # Root
        /\ a.parent \in DOMAIN chain => chain[a.parent].depth < MaxChain}

(* The passes over parents leave no such artifact, and if the costly one   *)
(* is left out, no more than that decision tolerates.                      *)
NoPathLeftBehind ==
  stage \in {"derive", "commit"} =>
    IF chain = <<>> THEN Cardinality(LeftBehind) <= Max({FewWeak, FewOpen}) ELSE LeftBehind = {}

(* Artifacts whose name or path was changed after the dates were derived.  *)
ChangedLater(i) == kept.artifacts[i].status \in {"imagePath", "imageName", "cachePath"}

(* Whatever fails, the tables of a case agree: all of a run's are there or *)
(* none; the leads are the artifacts flagged as missing; timeline and      *)
(* dates tell what the artifacts tell, but for what was resolved later;    *)
(* and a summary of hits is of the hits that are there.                    *)
TablesAgree ==
  LET arts  == kept.artifacts
      built == {Items[k].inode : k \in DOMAIN Items}
  IN /\ DOMAIN kept.dates # {} =>
          /\ DOMAIN kept.dates = built /\ built \subseteq DOMAIN arts
          /\ DOMAIN kept.timeline = {i \in built : Dated(i)}
          /\ \A i \in built : ChangedLater(i) \/ kept.dates[i] = [name |-> arts[i].name, path |-> arts[i].path]
          /\ \A i \in built : UnderVolumes(kept.dates[i].path) => <<i, kept.dates[i].path>> \in kept.volumes
     /\ DOMAIN kept.dates = {} => DOMAIN kept.timeline = {} /\ kept.volumes = {} /\ kept.hits.path = {}
     /\ \A i \in DOMAIN arts : arts[i].flagged <=> i \in DOMAIN kept.leads
     /\ \A i \in DOMAIN kept.timeline : kept.timeline[i].flagged = arts[i].flagged
                                         /\ kept.timeline[i].existence = arts[i].existence
     /\ kept.tally \in {{}, {kept.hits}}

(* Once everything is decoded, the order in which it was decoded does not  *)
(* matter: the path of a named object is that of its line of parents.      *)
ParentChainsRebuilt ==
  \A i \in DOMAIN kept.artifacts :
     stage = "done" /\ ~source.inserted /\ i \in {Items[k].inode : k \in DOMAIN Items}
       /\ Named(kept.artifacts[i].name) /\ ProbesOf(i) = {<<>>}
     => kept.artifacts[i].path = ReconstructPath(i, Seen(Len(Items)))
=============================================================================
