----------------------------- MODULE DirectReader -----------------------------
(***************************************************************************)
(* Copying Spotlight stores out of an AFF4 image without mounting it       *)
(* (executeDirectMapReaderProbe in src/src/parsers/aff4_probe_worker.cpp   *)
(* and writeAff4ApfsExtractedStoreV2StageOutputs in                        *)
(* src/src/parsers/apfs_diagnostic_exporter.cpp): choose the newest        *)
(* container superblock, find the root tree of each volume, read every     *)
(* node of those trees, follow the directory entries below Store-V2,       *)
(* assemble each file from its extents and stage the files by store.       *)
(* Any block may be unreadable, and the user may cancel: from then on      *)
(* every read fails, but the reader works on with what it has.             *)
(***************************************************************************)
EXTENDS OmapLookup, SequencesExt

CONSTANTS Images,     \* bound: the images, [disk, map, supers, sound, omaps]
          MaxLost,    \* bound: unreadable chunks
          ChunkBlocks, \* blocks of a chunk of the image stream
          MaxHits,    \* superblock copies looked at
          Data,       \* the volume name "Data"
          SpotlightV100, StoreV2, \* directory names
          Component,  \* names known as top-level components of a store
          Group,      \* names of the form of a store's directory
          Ungrouped,  \* no group name
          Kinded,     \* names that tell a component's kind (storeV2ComponentKind)
          Near        \* the ids the reader derives from an id by shifting

ASSUME ReaderAssumption == /\ MaxLost \in Nat /\ {MaxHits, ChunkBlocks} \subseteq Nat \ {0}
                           /\ Ungrouped \notin Group
                           /\ \A img \in Images : NoBlock \notin DOMAIN img.disk

(***************************************************************************)
(* A node of a filesystem tree is [kind |-> "fs", level, recs].  A record  *)
(* of a leaf is a directory entry [type |-> "dir", parent, name, to], an   *)
(* inode [type |-> "inode", obj, private, dstream] or an extent            *)
(* [type |-> "extent", obj, at, len, block], in blocks; a record of a      *)
(* branch has the key of one of these and the child node in "to".          *)
(***************************************************************************)
VARIABLES image,    \* the image read
          lost,     \* its chunks that cannot be decoded
          cancel,   \* directProbeCancelled()
          pc,       \* where the reader is
          mounted,  \* volumes whose root has been looked up
          pending,  \* directPending from qi on: [vol, oid, block]
          seen,     \* directSeenNodes
          dirs,     \* directDirectoryRecordEntries: [vol, parent, child, name]
          inodes,   \* directIndexedInodeByObject
          extents,  \* directIndexedFileExtentsByObject
          attempts, \* directSpotlightCopyAttemptRows
          walk,     \* storeWalk from qi on
          walked,   \* queuedStoreDirs
          rows,     \* directSpotlightFileCopyOutRows, with what was written
          staged,   \* ExtractedSpotlight/StagedStoreV2: the row a file is from
          told      \* aff4_apfs_extracted_storev2_stage_files.csv

(***************************************************************************)
(* Reading: the entries of the map that lead into the image stream, looked *)
(* up by the last start not after the offset; a block is read if an entry  *)
(* covers it and its chunk can be decoded.                                 *)
(***************************************************************************)
Usable == {i \in DOMAIN image.map : image.map[i].stream = 0 /\ image.map[i].len > 0}

EntryFor(b) ==
  LET before == {i \in Usable : image.map[i].at <= b}
      last   == {i \in before : \A j \in before :
                   \/ image.map[j].at < image.map[i].at
                   \/ image.map[j].at = image.map[i].at /\ j <= i}
  IN {image.map[i] : i \in {j \in last : b - image.map[j].at < image.map[j].len}}

Mapped == {b \in DOMAIN image.disk : EntryFor(b) # {}}

ChunkOf(b) == LET e == CHOOSE e \in EntryFor(b) : TRUE
              IN (e.from + b - e.at) \div ChunkBlocks

readable == IF cancel THEN {} ELSE {b \in Mapped : ChunkOf(b) \notin lost}

vars == <<image, lost, cancel, pc, mounted, pending, seen, dirs, inodes, extents,
          attempts, walk, walked, rows, staged, told>>
index == <<dirs, inodes, extents>>
spool == <<walk, walked>>
stage == <<staged, told>>

Init == /\ image \in Images
        /\ \E n \in 0..MaxLost : lost \in kSubset(n, {ChunkOf(b) : b \in Mapped})
        /\ cancel = FALSE /\ pc = "mount" /\ mounted = 0
        /\ pending = <<>> /\ seen = {} /\ dirs = <<>> /\ inodes = <<>>
        /\ extents = {} /\ attempts = <<>> /\ walk = <<>> /\ walked = {}
        /\ rows = <<>> /\ staged = <<>> /\ told = {}

Cancel == /\ pc # "done" /\ ~cancel
          /\ cancel' = TRUE
          /\ UNCHANGED <<image, lost, pc, mounted, pending, seen, index, attempts,
                         spool, rows, stage>>

(***************************************************************************)
(* Superblock and volumes                                                  *)
(***************************************************************************)
Tried(img) == DOMAIN img.supers \cap 1..MaxHits

\* The first of the greatest transaction among the copies looked at.
BestSuper(img) ==
  CHOOSE i \in Tried(img) : \A j \in Tried(img) :
    \/ img.supers[j].xid < img.supers[i].xid
    \/ img.supers[j].xid = img.supers[i].xid /\ i <= j

\* The entries of the container's object map that are for one of its filesystems.
Volumes == IF image.supers = <<>> THEN <<>>
           ELSE image.supers[BestSuper(image)].volumes

\* A superblock is used once, if it can be read.
IsVolume(v) == /\ Volumes[v].block \in readable
               /\ \A w \in 1..v - 1 : Volumes[w].block # Volumes[v].block

Find(v, oid) ==
  LET map == Volumes[v].omap
  IN IF map \notin readable THEN NoBlock
     ELSE Resolve(image.disk, readable, image.disk[map].tree, oid, Volumes[v].xid)

RootBlock(v) == IF IsVolume(v) THEN Find(v, Volumes[v].root) ELSE NoBlock

\* Faulty variant: nodes are known by their id alone.
EnqueueById(queue, n) == IF \E v \in DOMAIN Volumes : <<v, n.oid>> \in queue.seen THEN queue
                         ELSE [list |-> Append(queue.list, n),
                               seen |-> queue.seen \cup {<<n.vol, n.oid>>}]

Enqueue(queue, n) == IF <<n.vol, n.oid>> \in queue.seen THEN queue
                     ELSE [list |-> Append(queue.list, n),
                           seen |-> queue.seen \cup {<<n.vol, n.oid>>}]

MountVolume ==
  LET v == mounted + 1
      n == [vol |-> v, oid |-> Volumes[v].root, block |-> RootBlock(v)]
      q == Enqueue([list |-> pending, seen |-> seen], n)
  IN /\ pc = "mount" /\ v <= Len(Volumes)
     /\ mounted' = v
     /\ IF n.block = NoBlock THEN UNCHANGED <<pending, seen>>
        ELSE IF Volumes[v].name = Data
             THEN pending' = <<n>> \o pending /\ UNCHANGED seen
             ELSE pending' = q.list /\ seen' = q.seen
     /\ UNCHANGED <<image, lost, cancel, pc, index, attempts, spool, rows, stage>>

StartScan == /\ pc = "mount" /\ mounted = Len(Volumes)
             /\ pc' = "scan"
             /\ UNCHANGED <<image, lost, cancel, mounted, pending, seen, index,
                            attempts, spool, rows, stage>>

(***************************************************************************)
(* The trees                                                               *)
(***************************************************************************)
IsTarget(name) == name \in {SpotlightV100, StoreV2} \cup Component

EntriesOf(v, recs) ==
  [i \in DOMAIN SelectSeq(recs, LAMBDA r : r.type = "dir") |->
     LET r == SelectSeq(recs, LAMBDA x : x.type = "dir")[i]
     IN [vol |-> v, parent |-> r.parent, child |-> r.to, name |-> r.name]]

Attempt(e, group, root, rel) == [vol |-> e.vol, parent |-> e.parent, child |-> e.child,
                                 name |-> e.name, group |-> group, root |-> root,
                                 rel |-> rel]

LeafAttempts(v, recs) ==
  LET found == SelectSeq(EntriesOf(v, recs), LAMBDA e : IsTarget(e.name))
  IN [i \in DOMAIN found |-> Attempt(found[i], Ungrouped, NoBlock, <<>>)]

IndexInodes(v, recs) ==
  LET add(ix, r) == IF r.type # "inode" THEN ix
                    ELSE [k \in DOMAIN ix \cup {<<v, r.obj>>} |->
                            IF k = <<v, r.obj>> THEN r ELSE ix[k]]
  IN FoldLeft(add, inodes, recs)

ExtentsIn(v, recs) == {[vol |-> v, rec |-> r] :
                         r \in {x \in ToSet(recs) : x.type = "extent"}}

Children(v, recs) ==
  LET add(q, r) == Enqueue(q, [vol |-> v, oid |-> r.to, block |-> NoBlock])
  IN FoldLeft(add, [list |-> Tail(pending), seen |-> seen], recs)

\* One turn of the loop over directPending.  A branch record whose key is that of
\* a directory entry is indexed as one, with the child node as its file.
ScanNode ==
  LET n    == Head(pending)
      b    == IF n.block # NoBlock THEN n.block ELSE Find(n.vol, n.oid)
      recs == image.disk[b].recs
      leaf == image.disk[b].level = 0
      q    == Children(n.vol, recs)
  IN /\ pc = "scan" /\ pending # <<>>
     /\ IF b \notin readable
        THEN pending' = Tail(pending) /\ UNCHANGED <<seen, index, attempts>>
        ELSE /\ dirs' = dirs \o EntriesOf(n.vol, recs)
             /\ IF leaf
                THEN /\ inodes' = IndexInodes(n.vol, recs)
                     /\ extents' = extents \cup ExtentsIn(n.vol, recs)
                     /\ attempts' = attempts \o LeafAttempts(n.vol, recs)
                     /\ pending' = Tail(pending) /\ UNCHANGED seen
                ELSE /\ pending' = q.list /\ seen' = q.seen
                     /\ UNCHANGED <<inodes, extents, attempts>>
     /\ UNCHANGED <<image, lost, cancel, pc, mounted, spool, rows, stage>>

(***************************************************************************)
(* The directories of the stores                                           *)
(***************************************************************************)
IsDir(v, obj) == \E i \in DOMAIN dirs : dirs[i].vol = v /\ dirs[i].parent = obj

\* nameByObject: the last entry read wins.
GroupNameOf(v, obj) ==
  LET named == {i \in DOMAIN dirs : dirs[i].vol = v /\ dirs[i].child = obj}
  IN IF named # {} /\ dirs[Max(named)].name \in Group THEN dirs[Max(named)].name
     ELSE Ungrouped

EnqueueDir(w, v, dir, root, group, rel) ==
  IF ~IsDir(v, dir) \/ <<v, dir>> \in w.walked THEN w
  ELSE [w EXCEPT !.list = Append(@, [vol |-> v, dir |-> dir, root |-> root,
                                     group |-> group, rel |-> rel]),
                 !.walked = @ \cup {<<v, dir>>}]

Seeds ==
  LET add(w, e) ==
        LET s == IF e.name # StoreV2 THEN w
                 ELSE EnqueueDir(w, e.vol, e.child, e.child, Ungrouped, <<>>)
        IN IF e.name \notin Component THEN s
           ELSE EnqueueDir(s, e.vol, e.parent, e.parent,
                           GroupNameOf(e.vol, e.parent), <<>>)
  IN FoldLeft(add, [list |-> <<>>, walked |-> {}], dirs)

StartWalk == /\ pc = "scan" /\ pending = <<>>
             /\ pc' = "walk" /\ walk' = Seeds.list /\ walked' = Seeds.walked
             /\ UNCHANGED <<image, lost, cancel, mounted, pending, seen, index,
                            attempts, rows, stage>>

SameTarget(a, e) == <<a.vol, a.parent, a.child, a.name>> = <<e.vol, e.parent, e.child, e.name>>

Visit(item, w, e) ==
  LET isDir == IsDir(e.vol, e.child)
      opens == item.group = Ungrouped /\ isDir /\ e.name \in Group
      group == IF opens THEN e.name ELSE item.group
      root  == IF opens THEN e.child ELSE item.root
      rel   == Append(IF opens THEN <<>> ELSE item.rel, e.name)
  IN IF e.name \in {SpotlightV100, StoreV2} THEN w
     ELSE IF isDir THEN EnqueueDir(w, e.vol, e.child, root, group, rel)
     ELSE IF \E i \in DOMAIN w.attempts : SameTarget(w.attempts[i], e) THEN w
     ELSE [w EXCEPT !.attempts = Append(@, Attempt(e, group, root, rel))]

WalkDir ==
  LET item     == Head(walk)
      inside   == SelectSeq(dirs, LAMBDA e : e.vol = item.vol /\ e.parent = item.dir)
      visit(w, e) == Visit(item, w, e)
      end      == FoldLeft(visit, [list |-> Tail(walk), walked |-> walked,
                                   attempts |-> attempts], inside)
  IN /\ pc = "walk" /\ walk # <<>>
     /\ walk' = end.list /\ walked' = end.walked /\ attempts' = end.attempts
     /\ UNCHANGED <<image, lost, cancel, pc, mounted, pending, seen, index, rows, stage>>

StartCopy == /\ pc = "walk" /\ walk = <<>>
             /\ pc' = "copy" /\ walk' = attempts  \* the attempts yet to be copied
             /\ UNCHANGED <<image, lost, cancel, mounted, pending, seen, index,
                            attempts, walked, rows, stage>>

(***************************************************************************)
(* The files                                                               *)
(***************************************************************************)
\* directObjectCandidatesForExtent
Candidates(a) ==
  LET private == IF <<a.vol, a.child>> \in DOMAIN inodes
                 THEN {inodes[<<a.vol, a.child>>].private} ELSE {}
  IN {a.child} \cup private \cup Near[a.child] \cup UNION {Near[p] : p \in private}

ExtentsFor(a) == {x.rec : x \in {y \in extents : y.vol = a.vol /\ y.rec.obj \in Candidates(a)}}

EndOf(xs)    == Max({x.at + x.len : x \in xs})
Overlap(xs)  == \E x, y \in xs : x # y /\ x.at <= y.at /\ y.at < x.at + x.len
\* Faulty variant: only extents without a block count as holes.
HasNullExtent(xs) == \E x \in xs : x.block = NoBlock

HasHole(xs)  == \/ \E x \in xs : x.block = NoBlock
                \/ \E i \in 0..EndOf(xs) - 1 : \A x \in xs : i \notin x.at..x.at + x.len - 1

\* directLogicalSize: the data stream's size, unless the extents end before it.
LogicalSize(a, xs) ==
  LET known == {s \in {inodes[k].dstream : k \in DOMAIN inodes \cap {<<a.vol, a.child>>}} :
                  s \in 1..EndOf(xs)}
  IN IF known = {} THEN EndOf(xs) ELSE CHOOSE s \in known : TRUE

\* What is written, block by block: a block of the image, or zeros.
Assemble(xs, size) ==
  [i \in 1..size |->
     LET over == {x \in xs : i - 1 \in x.at..x.at + x.len - 1 /\ x.block # NoBlock}
     IN IF over = {} THEN NoBlock
        ELSE LET x == CHOOSE x \in over : TRUE IN x.block + (i - 1 - x.at)]

CopyRow(a, xs) ==
  LET size  == LogicalSize(a, xs)
      bytes == Assemble(xs, size)
      row(status, written) == [at |-> a, status |-> status, bytes |-> written,
                               source |-> "other", trimmed |-> size < EndOf(xs)]
  IN IF Overlap(xs) THEN row("skipped", <<>>)
     ELSE IF ~(ToSet(bytes) \ {NoBlock} \subseteq readable) THEN row("failed", <<>>)
     ELSE row(IF HasHole(xs) THEN "zeros" ELSE "complete", bytes)

\* A directory target, and a file without extents, gets no row.
CopyFile ==
  LET a == Head(walk)
  IN /\ pc = "copy" /\ walk # <<>>
     /\ walk' = Tail(walk)
     /\ rows' = IF a.name \in {SpotlightV100, StoreV2} \/ ExtentsFor(a) = {} THEN rows
                ELSE Append(rows, CopyRow(a, ExtentsFor(a)))
     /\ UNCHANGED <<image, lost, cancel, pc, mounted, pending, seen, index, attempts,
                    walked, stage>>

(***************************************************************************)
(* The stores.  Rows of the guided reader may also be partial, or rebuilt  *)
(* from a resource fork, or decoded by the LZFSE codec, and have a source  *)
(* of their size.                                                          *)
(***************************************************************************)
\* apfsCopyStatusRepresentsCompleteFile
Copied(i) == rows[i].status \in {"complete", "zeros", "rebuilt", "decoded"}
RootOf(i) == IF rows[i].at.root = NoBlock THEN rows[i].at.parent ELSE rows[i].at.root
StoreOf(i) == <<rows[i].at.vol, RootOf(i)>>
RelOf(i)   == IF rows[i].at.rel = <<>> THEN <<rows[i].at.name>> ELSE rows[i].at.rel

\* A partial copy is passed over for a rebuilt one of its path.
Superseded(i) == \E j \in DOMAIN rows : /\ rows[j].status \in {"rebuilt", "decoded"}
                                       /\ <<StoreOf(j), RelOf(j)>> = <<StoreOf(i), RelOf(i)>>
Stageable(i) == /\ \/ Copied(i)
                   \/ rows[i].status = "partial" /\ ~Superseded(i)
                /\ rows[i].at.name \in Kinded \/ rows[i].at.root # NoBlock

InStore(s) == {i \in DOMAIN rows : Stageable(i) /\ StoreOf(i) = s}
Stores     == {StoreOf(i) : i \in {j \in DOMAIN rows : Stageable(j)}}

\* The last group name given wins; without one the directory is named for the ids.
DirOf(s) == LET named == {i \in InStore(s) : rows[i].at.group # Ungrouped}
            IN IF named = {} THEN s ELSE <<rows[Max(named)].at.group>>

StagePath(s, i) ==
  LET rel == RelOf(i)
  IN IF Len(DirOf(s)) = 1 /\ Head(rel) = Head(DirOf(s)) /\ Len(rel) > 1
     THEN Tail(rel) ELSE rel

\* apfsStoreV2StageCandidateScore, in thousands, and then the order of the rows.
Score(i) ==
  LET r == rows[i]
  IN (CASE r.status = "rebuilt"  -> 140 + 8
        [] r.status = "decoded"  -> 8
        [] r.status = "zeros"    -> 48 + 8
        [] r.status = "partial"  -> 10 - 2
        [] r.status = "complete" -> 50 + IF r.trimmed THEN 25 ELSE 8)
     + (IF r.source = "inode" THEN 22 ELSE IF r.source = "extents" THEN -18 ELSE 0)
Prefer(i, j) == \/ Score(i) > Score(j)
                \/ Score(i) = Score(j) /\ Len(rows[i].bytes) > Len(rows[j].bytes)
                \/ Score(i) = Score(j) /\ Len(rows[i].bytes) = Len(rows[j].bytes) /\ i >= j

\* Faulty variant: every row of a store is staged.
SelectAll(s) == InStore(s)

Selected(s) == {i \in InStore(s) : \A j \in InStore(s) :
                  StagePath(s, j) = StagePath(s, i) => Prefer(i, j)}

\* Stores are staged in the order of the keys of groups, here of volume and root.
Before(s, t) == s[1] < t[1] \/ (s[1] = t[1] /\ s[2] <= t[2])

Staging ==
  LET copy(s, acc) ==
        LET out == {<<DirOf(s) \o StagePath(s, i), i>> : i \in Selected(s)}
        IN [files |-> [p \in DOMAIN acc.files \cup {o[1] : o \in out} |->
                         IF \E o \in out : o[1] = p
                         THEN (CHOOSE o \in out : o[1] = p)[2] ELSE acc.files[p]],
            told |-> acc.told \cup out]
  IN FoldLeft(LAMBDA acc, s : copy(s, acc), [files |-> <<>>, told |-> {}],
              SetToSortSeq(Stores, Before))

StageStores ==
  /\ pc = "copy" /\ walk = <<>>
  /\ pc' = "done" /\ staged' = Staging.files /\ told' = Staging.told
  /\ UNCHANGED <<image, lost, cancel, mounted, pending, seen, index, attempts,
                 spool, rows>>

Next == \/ MountVolume \/ StartScan \/ ScanNode \/ StartWalk \/ WalkDir \/ StartCopy
        \/ CopyFile \/ StageStores \/ Cancel

Spec == Init /\ [][Next]_vars

(***************************************************************************)
(* What is on the image: the records of the leaves below a volume's root,  *)
(* each node in its newest version not after the volume's transaction.     *)
(***************************************************************************)
TrueNode(v, oid) == (CHOOSE e \in Newest(image.disk, image.disk[Volumes[v].omap].tree, oid, Volumes[v].xid) : TRUE).to

TrueRecs(v) ==
  LET below[b \in DOMAIN image.disk] ==
        LET recs == image.disk[b].recs
        IN IF image.disk[b].level = 0 THEN ToSet(recs)
           ELSE UNION {below[TrueNode(v, recs[i].to)] : i \in DOMAIN recs}
  IN below[TrueNode(v, Volumes[v].root)]

TrueEntries(v) == {r \in TrueRecs(v) : r.type = "dir"}
TrueInode(v, obj) == CHOOSE r \in TrueRecs(v) : r.type = "inode" /\ r.obj = obj
TrueExtents(v, obj) == {r \in TrueRecs(v) : r.type = "extent" /\ r.obj = obj}
TrueSize(v, obj) == TrueInode(v, obj).dstream
TrueBytes(v, obj) == Assemble(TrueExtents(v, TrueInode(v, obj).private), TrueSize(v, obj))

HasBytes(v, obj) == /\ \E r \in TrueRecs(v) : r.type = "inode" /\ r.obj = obj
                    /\ TrueExtents(v, TrueInode(v, obj).private) # {}

\* No id derived from the file's own is that of another object with extents.
OwnOnly(v, obj) ==
  LET own == TrueInode(v, obj).private
  IN \A o \in ({obj} \cup Near[obj] \cup Near[own]) \ {own} : TrueExtents(v, o) = {}

BelowStore(v) ==
  LET top == {r.to : r \in {x \in TrueEntries(v) : x.name = StoreV2}}
      grow[n \in 0..Cardinality(TrueEntries(v))] ==
        LET known == grow[n - 1]
        IN IF n = 0 THEN top
           ELSE known \cup {r.to : r \in {x \in TrueEntries(v) : x.parent \in known}}
  IN grow[Cardinality(TrueEntries(v))] \ top

Untouched == readable = DOMAIN image.disk

(* A lookup in a sound object map never answers with a version that is not *)
(* the newest one at the transaction asked for, whichever of its nodes are *)
(* unreadable, and finds that one if it can read the map.                  *)
LookupIsExact ==
  image.sound =>
    \A m \in image.omaps : \A oid, xid \in 1..3 :
      LET got  == MatchedEntry(image.disk, readable, m, oid, xid)
          want == Newest(image.disk, m, oid, xid)
      IN got \subseteq want /\ (Untouched => got = want)

(* A copied file has, at each place, the file's own block or zeros, and it *)
(* has zeros in place of a block only under the status that tells so: no   *)
(* lost node, cancel or hole shifts its bytes, cuts into them or mixes in  *)
(* those of an older version.                                              *)
CopiesAreTrue ==
  image.sound =>
    \A i \in DOMAIN rows :
      LET a == rows[i].at
      IN Copied(i) /\ HasBytes(a.vol, a.child) /\ OwnOnly(a.vol, a.child) =>
           \A k \in DOMAIN rows[i].bytes :
             \/ k \in DOMAIN TrueBytes(a.vol, a.child)
                /\ rows[i].bytes[k] = TrueBytes(a.vol, a.child)[k]
             \/ rows[i].bytes[k] = NoBlock /\ rows[i].status = "zeros"

(* If every block can be read to the end, each file below a Store-V2       *)
(* directory of any volume of the container is copied up to the end of its *)
(* extents; and the same directory entry is never tried twice, however the *)
(* nodes of a damaged tree point at each other and whether the scan or the *)
(* walk of the stores finds it.                                            *)
NothingMissed ==
  /\ pc = "done" /\ image.sound /\ Untouched =>
       \A v \in DOMAIN Volumes : \A obj \in BelowStore(v) :
         HasBytes(v, obj) /\ OwnOnly(v, obj) =>
           \E i \in DOMAIN rows :
             /\ Copied(i) /\ rows[i].at.vol = v /\ rows[i].at.child = obj
             /\ Len(rows[i].bytes) = Min({TrueSize(v, obj),
                                          EndOf(TrueExtents(v, TrueInode(v, obj).private))})
  /\ \A i, j \in DOMAIN attempts : SameTarget(attempts[i], attempts[j]) => i = j

(* The list of staged files tells for each path what lies there, unless    *)
(* the stores of two volumes have the same name: within a store the best   *)
(* row of a path is the only one staged.                                   *)
StagedIsTold ==
  /\ \A t \in told : staged[t[1]] # t[2] => StoreOf(staged[t[1]]) # StoreOf(t[2])
  /\ {staged[p] : p \in DOMAIN staged} \subseteq {t[2] : t \in told}

(* Every file tried below a store is one of that directory's entries: the  *)
(* note of such a row says that the file is under a Store-V2 directory     *)
(* (aff4_probe_worker.cpp:2977).                                           *)
EntriesAreReal ==
  image.sound =>
    \A i \in DOMAIN attempts :
      LET a == attempts[i]
      IN \E r \in TrueEntries(a.vol) : <<r.parent, r.to, r.name>> = <<a.parent, a.child, a.name>>
===============================================================================
