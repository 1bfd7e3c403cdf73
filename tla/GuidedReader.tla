----------------------------- MODULE GuidedReader -----------------------------
(***************************************************************************)
(* Copying Spotlight stores out of an image read through the AFF4 library  *)
(* (executeDynamicLoadProbe in src/src/parsers/aff4_probe_worker.cpp).  It *)
(* scans the trees as the direct reader does, but files are only promised  *)
(* by the scan: their inodes and extents are looked up by descending the   *)
(* tree again by key, under the file's id, its stream's id and ids derived *)
(* from them; extents that are still missing are asked for one after the   *)
(* other; and a compressed file is rebuilt from its resource fork.         *)
(***************************************************************************)
EXTENDS DirectReader

CONSTANTS GuidedImages,  \* bound: the images, of at most one superblock
          Listed,        \* names of components only this reader looks for
          CacheNames,     \* names of cached texts, a number and .txt
          ForkName,      \* names ending in .__RESOURCEFORK_STREAM
          DataVolume,    \* the volume scanned first (sequence 4 in the code)
          RootRecords,   \* records of a root that lead anywhere (32)
          SampleRecords, \* records of the nodes below sampled for the scan (16)
          GuideDepth,    \* levels a lookup descends (16)
          Probes         \* further extents asked for (8192)

GuidedAssumption == /\ {RootRecords, SampleRecords, GuideDepth, Probes} \subseteq Nat \ {0}
                    /\ \A img \in GuidedImages : Len(img.supers) <= 1

(***************************************************************************)
(* Besides the records of DirectReader there are extended attributes       *)
(* [type |-> "xattr", obj, attr |-> "fork", stream, size] and              *)
(* [type |-> "xattr", obj, attr |-> "decmpfs", codec, size]; an inode also *)
(* has its parent and a packed size, 0 for none.  The first block of a     *)
(* fork is [kind |-> "fork", codec, blocks, plain].                        *)
(***************************************************************************)
VARIABLES xattrs,   \* apfsSpotlightXattrProbeRows
          facts     \* of each attempt: private id, size and source, parent

guidedVars == <<vars, xattrs, facts>>

\* A read through the library fails for good where the image is damaged.
lib == {b \in Mapped : ChunkOf(b) \notin lost}

GuidedInit == /\ image \in GuidedImages
              /\ \E n \in 0..MaxLost : lost \in kSubset(n, {ChunkOf(b) : b \in Mapped})
              /\ cancel = FALSE /\ pc = "open" /\ mounted = <<>>
              /\ pending = <<>> /\ seen = {} /\ dirs = <<>> /\ inodes = <<>>
              /\ extents = <<>> /\ attempts = <<>> /\ walk = <<>> /\ walked = {}
              /\ rows = <<>> /\ staged = <<>> /\ told = {} /\ xattrs = <<>> /\ facts = <<>>

\* A cancel ends the searches of object maps, and nothing else.
GuidedCancel == Cancel /\ UNCHANGED <<xattrs, facts>>

(***************************************************************************)
(* Volumes, each under its number; where the scan starts.  Object maps are *)
(* searched as in OmapLookup, by a copy of that code.                      *)
(***************************************************************************)
Locate(v, oid) == Find(v, oid)

\* decodeVolumeOmapRootTreeLookup
VolumeRoot(v) == IF Volumes[v].block \in lib THEN Find(v, Volumes[v].root) ELSE NoBlock

OpenVolume ==
  LET v == Len(mounted) + 1
  IN /\ pc = "open" /\ v <= Len(Volumes)
     /\ mounted' = Append(mounted, VolumeRoot(v))
     /\ UNCHANGED <<image, lost, cancel, pc, pending, seen, index, attempts, spool,
                    rows, stage, xattrs, facts>>

\* The children named by the first records of a branch; a leaf has none.
FirstChildren(b, n) ==
  IF b \notin lib \/ image.disk[b].level = 0 THEN <<>>
  ELSE LET recs == image.disk[b].recs
       IN [i \in 1..Min({n, Len(recs)}) |-> recs[i].to]

ChildrenOf(v, oids) ==
  FlattenSeq([i \in DOMAIN oids |-> FirstChildren(Locate(v, oids[i]), SampleRecords)])

SeedsOf(v) ==
  LET top  == FirstChildren(mounted[v], RootRecords)
      next == ChildrenOf(v, top)
      oids == top \o next \o ChildrenOf(v, next)
  IN [i \in DOMAIN oids |-> [vol |-> v, oid |-> oids[i], block |-> NoBlock]]

SeedScan ==
  LET vols   == [v \in DOMAIN mounted |-> v]
      order  == SelectSeq(vols, LAMBDA v : v = DataVolume)
                  \o SelectSeq(vols, LAMBDA v : v # DataVolume)
      queued == FoldLeft(Enqueue, [list |-> <<>>, seen |-> {}],
                         FlattenSeq([i \in DOMAIN order |-> SeedsOf(order[i])]))
  IN /\ pc = "open" /\ Len(mounted) = Len(Volumes)
     /\ pc' = "scan" /\ pending' = queued.list /\ seen' = queued.seen
     /\ UNCHANGED <<image, lost, cancel, mounted, index, attempts, spool, rows, stage,
                    xattrs, facts>>

(***************************************************************************)
(* The scan                                                                *)
(***************************************************************************)
IsGuidedTarget(name) == IsTarget(name) \/ name \in Listed \cup CacheNames

IsFork(a)    == a.name = ForkName
IsDirName(a) == a.name \in {SpotlightV100, StoreV2}

\* The value of a branch's record is a node's id: read as an inode, its parent.
AsInode(r) == IF "to" \in DOMAIN r
              THEN [obj |-> r.obj, parent |-> r.to, private |-> 0, dstream |-> 0, packed |-> 0]
              ELSE r

\* scannedInodeByTargetKey: the first one read stays.
FirstInodes(v, recs) ==
  LET add(ix, r) == IF r.type # "inode" \/ <<v, r.obj>> \in DOMAIN ix THEN ix
                    ELSE [k \in DOMAIN ix \cup {<<v, r.obj>>} |->
                            IF k = <<v, r.obj>> THEN AsInode(r) ELSE ix[k]]
  IN FoldLeft(add, inodes, recs)

\* An extent is kept under the file it was found for, with how it was found.
Filed(v, file, how, x) == [vol |-> v, file |-> file, how |-> how, at |-> x.at,
                           len |-> x.len, block |-> x.block]

ScannedExtents(v, recs) ==
  LET xs == SelectSeq(recs, LAMBDA r : r.type = "extent")
  IN [i \in DOMAIN xs |-> Filed(v, xs[i].obj, "scan", xs[i])]

Xattrs(recs) == SelectSeq(recs, LAMBDA r : r.type = "xattr")

GuidedTargets(v, recs) ==
  LET found == SelectSeq(EntriesOf(v, recs), LAMBDA e : IsGuidedTarget(e.name))
  IN [i \in DOMAIN found |-> Attempt(found[i], Ungrouped, NoBlock, <<>>)]

\* One turn of the loop over spotlightQueue: names and inodes are taken from the
\* records of branches too.
ScanTreeNode ==
  LET n    == Head(pending)
      b    == Locate(n.vol, n.oid)
      recs == image.disk[b].recs
      leaf == image.disk[b].level = 0
      q    == Children(n.vol, recs)
  IN /\ pc = "scan" /\ pending # <<>>
     /\ IF b \notin lib
        THEN pending' = Tail(pending) /\ UNCHANGED <<seen, index, attempts, xattrs>>
        ELSE /\ dirs' = dirs \o EntriesOf(n.vol, recs)
             /\ inodes' = FirstInodes(n.vol, recs)
             /\ attempts' = attempts \o GuidedTargets(n.vol, recs)
             /\ IF leaf
                THEN /\ extents' = extents \o ScannedExtents(n.vol, recs)
                     /\ xattrs' = xattrs \o Xattrs(recs)
                     /\ pending' = Tail(pending) /\ UNCHANGED seen
                ELSE pending' = q.list /\ seen' = q.seen /\ UNCHANGED <<extents, xattrs>>
     /\ UNCHANGED <<image, lost, cancel, pc, mounted, spool, rows, stage, facts>>

(***************************************************************************)
(* The directories of the stores                                           *)
(***************************************************************************)
\* directoryNameByObject: the first name given, but a group's name replaces it.
GuidedGroupOf(v, obj) ==
  LET named == {i \in DOMAIN dirs : dirs[i].vol = v /\ dirs[i].child = obj
                                   /\ dirs[i].name \in Group}
  IN IF named = {} THEN Ungrouped ELSE dirs[Max(named)].name

WalkSeeds ==
  LET add(w, e) ==
        LET s == IF e.name # StoreV2 THEN w
                 ELSE EnqueueDir(w, e.vol, e.child, e.child, Ungrouped, <<>>)
        IN IF e.name \notin Component \cup Listed THEN s
           ELSE EnqueueDir(s, e.vol, e.parent, e.parent, GuidedGroupOf(e.vol, e.parent), <<>>)
  IN FoldLeft(add, [list |-> <<>>, walked |-> {}], dirs)

StartGuidedWalk == /\ pc = "scan" /\ pending = <<>>
                   /\ pc' = "walk" /\ walk' = WalkSeeds.list /\ walked' = WalkSeeds.walked
                   /\ UNCHANGED <<image, lost, cancel, mounted, pending, seen, index,
                                  attempts, rows, stage, xattrs, facts>>

\* Only where the walk starts does a directory's name open a group.
GuidedVisit(item, w, e) ==
  LET isDir == IsDir(e.vol, e.child)
      top   == item.group = Ungrouped /\ item.rel = <<>>
      own   == GuidedGroupOf(item.vol, item.dir)
      here  == top /\ own # Ungrouped
      opens == top /\ ~here /\ isDir /\ e.name \in Group
      group == IF here THEN own ELSE IF opens THEN e.name ELSE item.group
      root  == IF here THEN item.dir ELSE IF opens THEN e.child ELSE item.root
      rel   == Append(item.rel, e.name)
  IN IF e.name \in {SpotlightV100, StoreV2} THEN w
     ELSE IF isDir THEN EnqueueDir(w, e.vol, e.child, root, group, rel)
     ELSE IF \E i \in DOMAIN w.attempts : SameTarget(w.attempts[i], e) THEN w
     ELSE [w EXCEPT !.attempts = Append(@, Attempt(e, group, root, rel))]

WalkStoreDir ==
  LET item        == Head(walk)
      inside      == SelectSeq(dirs, LAMBDA e : e.vol = item.vol /\ e.parent = item.dir)
      visit(w, e) == GuidedVisit(item, w, e)
      end         == FoldLeft(visit, [list |-> Tail(walk), walked |-> walked,
                                      attempts |-> attempts], inside)
  IN /\ pc = "walk" /\ walk # <<>>
     /\ walk' = end.list /\ walked' = end.walked /\ attempts' = end.attempts
     /\ UNCHANGED <<image, lost, cancel, pc, mounted, pending, seen, index, rows, stage,
                    xattrs, facts>>

(***************************************************************************)
(* What the scan knows of each file, and the forks of compressed files:    *)
(* the attributes are known by the file's id, whatever their volume.       *)
(***************************************************************************)
Sized(f, r, how) == IF r.dstream # 0 THEN [f EXCEPT !.size = r.dstream, !.source = how]
                    ELSE IF r.packed # 0 THEN [f EXCEPT !.size = r.packed, !.source = "packed"]
                    ELSE f

WithInode(f, r, how) ==
  Sized([f EXCEPT !.private = IF r.private # 0 THEN r.private ELSE @], r, how)

NoFacts == [private |-> 0, size |-> 0, source |-> "extents", parent |-> "unknown"]

ScannedFacts(a) == IF <<a.vol, a.child>> \notin DOMAIN inodes THEN NoFacts
                   ELSE WithInode(NoFacts, inodes[<<a.vol, a.child>>], "scan")

\* The last attribute of the kind read for an id, as a set of at most one.
LastXattr(obj, attr) ==
  LET named == {i \in DOMAIN xattrs : xattrs[i].obj = obj /\ xattrs[i].attr = attr}
  IN IF named = {} THEN {} ELSE {xattrs[Max(named)]}

\* storeV2AttemptIndexByFileId: the first attempt at the id with a path in a store.
StoreAttempt(obj) ==
  LET known == {i \in DOMAIN attempts : attempts[i].child = obj /\ attempts[i].rel # <<>>}
  IN IF known = {} THEN {} ELSE {Min(known)}

Forked == {obj \in {xattrs[i].obj : i \in DOMAIN xattrs} :
             {} \notin {LastXattr(obj, "fork"), LastXattr(obj, "decmpfs"), StoreAttempt(obj)}}

ForkAttempts ==
  LET ids     == SetToSortSeq(Forked, <)
      fork(o) == CHOOSE x \in LastXattr(o, "fork") : TRUE
      vol(o)  == attempts[CHOOSE i \in StoreAttempt(o) : TRUE].vol
  IN [k \in DOMAIN ids |->
        [try  |-> Attempt([vol |-> vol(ids[k]), parent |-> ids[k],
                           child |-> fork(ids[k]).stream, name |-> ForkName],
                          Ungrouped, NoBlock, <<>>),
         fact |-> [NoFacts EXCEPT !.size = fork(ids[k]).size, !.source = "fork"]]]

Correlate ==
  LET forks == ForkAttempts
      known == [i \in DOMAIN attempts |-> ScannedFacts(attempts[i])]
  IN /\ pc = "walk" /\ walk = <<>>
     /\ attempts' = attempts \o [k \in DOMAIN forks |-> forks[k].try]
     /\ facts' = known \o [k \in DOMAIN forks |-> forks[k].fact]
     /\ pc' = "inode" /\ walk' = [i \in DOMAIN facts' |-> i]
     /\ UNCHANGED <<image, lost, cancel, mounted, pending, seen, index, walked, rows,
                    stage, xattrs>>

(***************************************************************************)
(* Looking up a key in the tree of a volume                                *)
(***************************************************************************)
InodeKey(obj)      == <<obj, 3, 0>>
ExtentKey(obj, at) == <<obj, 8, at>>

KeyOf(r) == IF r.type = "inode" THEN InodeKey(r.obj)
            ELSE IF r.type = "extent" THEN ExtentKey(r.obj, r.at)
            ELSE IF r.type = "xattr" THEN <<r.obj, 4, 0>> ELSE <<r.parent, 9, 0>>

UpTo(k, key) == \/ k[1] < key[1]
                \/ k[1] = key[1] /\ k[2] < key[2]
                \/ k[1] = key[1] /\ k[2] = key[2] /\ k[3] <= key[3]

\* Faulty variant: the first child is taken.
FirstChild(recs, key) == recs[1].to

\* The last separator not above the key of those leading the node, else the first.
ChildOf(recs, key) ==
  LET leading == {i \in DOMAIN recs : \A j \in 1..i : UpTo(KeyOf(recs[j]), key)}
  IN recs[IF leading = {} THEN 1 ELSE Max(leading)].to

LeafFor(v, key) ==
  LET down[n \in 1..GuideDepth] ==
        IF n = 1 THEN mounted[v]
        ELSE LET b == down[n - 1]
             IN IF b \notin lib \/ image.disk[b].level = 0 THEN b
                ELSE Locate(v, ChildOf(image.disk[b].recs, key))
      b == down[GuideDepth]
  IN IF b \in lib /\ image.disk[b].level = 0 THEN image.disk[b].recs ELSE <<>>

\* guidedObjectCandidatesForChild: the id, its stream's and the ids derived by shifting,
\* the least of them plainly; an id is tried once.
Derived(obj) == IF Near[obj] = {} THEN <<>> ELSE <<Min(Near[obj])>>

Guesses(child, private) ==
  LET stream == IF private = 0 THEN <<>> ELSE <<private>> \o Derived(private)
      all    == <<child>> \o stream \o SetToSortSeq(Near[child], <)
      once   == {i \in DOMAIN all : \A j \in 1..i - 1 : all[j] # all[i]}
  IN [k \in 1..Cardinality(once) |-> all[SetToSortSeq(once, <)[k]]]

HowFound(a, private, obj) == IF IsFork(a) THEN "stream"
                             ELSE IF obj = a.child THEN "raw"
                             ELSE IF obj = private THEN "private" ELSE "near"

InodesAt(v, obj) == SelectSeq(LeafFor(v, InodeKey(obj)),
                              LAMBDA r : r.type = "inode" /\ r.obj = obj)

\* The parent is told of the file's own inode only, and of the first attempt never.
Enriched(i, r) ==
  LET f == WithInode(facts[i], r, "inode")
  IN IF r.obj # attempts[i].child \/ i = 1 THEN f
     ELSE [f EXCEPT !.parent = IF r.parent = attempts[i].parent THEN "match" ELSE "mismatch"]

\* The inode of the first guess that has one.
LookedUp(i) ==
  LET a    == attempts[i]
      hits == FlattenSeq([k \in DOMAIN Guesses(a.child, 0) |->
                            InodesAt(a.vol, Guesses(a.child, 0)[k])])
  IN IF hits = <<>> THEN facts[i] ELSE Enriched(i, Head(hits))

LookupInode ==
  LET i == Head(walk)
  IN /\ pc = "inode" /\ walk # <<>>
     /\ facts' = IF IsFork(attempts[i]) \/ IsDirName(attempts[i]) THEN facts
                 ELSE [facts EXCEPT ![i] = LookedUp(i)]
     /\ walk' = Tail(walk)
     /\ UNCHANGED <<image, lost, cancel, pc, mounted, pending, seen, index, attempts,
                    walked, rows, stage, xattrs>>

StartExtents == /\ pc = "inode" /\ walk = <<>>
                /\ pc' = "extents" /\ walk' = [i \in DOMAIN attempts |-> i]
                /\ UNCHANGED <<image, lost, cancel, mounted, pending, seen, index, attempts,
                               walked, rows, stage, xattrs, facts>>

\* All extents of each guess that lie in the leaf its key at the offset leads to.
FoundExtents(i, at) ==
  LET a       == attempts[i]
      guesses == IF IsFork(a) THEN <<a.child>> ELSE Guesses(a.child, facts[i].private)
      of(obj) == LET xs == SelectSeq(LeafFor(a.vol, ExtentKey(obj, at)),
                                     LAMBDA r : r.type = "extent" /\ r.obj = obj)
                 IN [k \in DOMAIN xs |->
                       Filed(a.vol, a.child, HowFound(a, facts[i].private, obj), xs[k])]
  IN FlattenSeq([k \in DOMAIN guesses |-> of(guesses[k])])

LookupExtents ==
  LET i == Head(walk)
  IN /\ pc = "extents" /\ walk # <<>>
     /\ extents' = IF IsDirName(attempts[i]) THEN extents ELSE extents \o FoundExtents(i, 0)
     /\ walk' = Tail(walk)
     /\ UNCHANGED <<image, lost, cancel, pc, mounted, pending, seen, dirs, inodes, attempts,
                    walked, rows, stage, xattrs, facts>>

StartGuidedCopy == /\ pc = "extents" /\ walk = <<>>
                   /\ pc' = "copy" /\ walk' = [i \in DOMAIN attempts |-> i]
                   /\ UNCHANGED <<image, lost, cancel, mounted, pending, seen, index,
                                  attempts, walked, rows, stage, xattrs, facts>>

(***************************************************************************)
(* The files                                                               *)
(***************************************************************************)
\* extentCandidateScore, in thousands and blocks
Worth(x) == (IF x.block = NoBlock THEN 0 ELSE 25000) + x.len
            + (IF x.how = "stream" THEN 12000 ELSE IF x.how = "raw" THEN 7000
               ELSE IF x.how = "private" THEN 2500 ELSE IF x.how = "near" THEN -7000 ELSE 0)

\* normalizeExtentsForCopyAttempt: of those at one offset the first of the best.
BestExtents(xs) ==
  {[at |-> x.at, len |-> x.len, block |-> x.block] :
     x \in {xs[i] : i \in {i \in DOMAIN xs : \A j \in DOMAIN xs :
       xs[j].at = xs[i].at =>
         \/ Worth(xs[j]) < Worth(xs[i])
         \/ Worth(xs[j]) = Worth(xs[i]) /\ xs[j].len < xs[i].len
         \/ Worth(xs[j]) = Worth(xs[i]) /\ xs[j].len = xs[i].len /\ i <= j}}}

\* The extents that follow each other from the start of the file.
Gapless(xs) ==
  LET s       == SetToSortSeq(xs, LAMBDA x, y : x.at < y.at)
      fits(n) == \A k \in 1..n : s[k].at = IF k = 1 THEN 0 ELSE s[k - 1].at + s[k - 1].len
  IN {s[k] : k \in {n \in DOMAIN s : fits(n)}}

Covered(xs) == IF Gapless(xs) = {} THEN 0 ELSE EndOf(Gapless(xs))

\* The extents of an attempt: those filed under its file, and while they cover a part
\* of its known size from the start on, those a lookup at the first gap finds.
ExtentsOf(i) ==
  LET a    == attempts[i]
      mine == SelectSeq(extents, LAMBDA x : x.vol = a.vol /\ x.file = a.child)
      more[n \in 0..Probes] ==
        IF n = 0 THEN mine
        ELSE LET at == Covered(BestExtents(more[n - 1]))
             IN IF at = 0 \/ at >= facts[i].size THEN more[n - 1]
                ELSE more[n - 1] \o FoundExtents(i, at)
  IN BestExtents(more[Probes])

\* Of a file of known size, what covers it from its start, if anything does.
Needed(xs, size) ==
  LET start == {x \in Gapless(xs) : x.at < size}
  IN IF size = 0 \/ start = {} THEN xs ELSE start

\* The row of attempt i, whose extents are xs.
RowFrom(i, xs) ==
  LET f     == facts[i]
      short == f.size > EndOf(xs)
      size  == IF f.size = 0 \/ short THEN EndOf(xs) ELSE f.size
      bytes == Assemble(xs, size)
      row(status, written) ==
        [at |-> attempts[i], status |-> status, bytes |-> written,
         source |-> IF short THEN "other" ELSE f.source,
         trimmed |-> status = "complete" /\ size < EndOf(xs)]
  IN IF f.parent = "mismatch" \/ Overlap(xs) THEN row("skipped", <<>>)
     ELSE IF ~(ToSet(bytes) \ {NoBlock} \subseteq lib) THEN row("failed", <<>>)
     ELSE row(IF short THEN "partial" ELSE IF HasHole(xs) THEN "zeros" ELSE "complete", bytes)

GuidedRow(i) == RowFrom(i, Needed(ExtentsOf(i), facts[i].size))

CopyTarget ==
  LET i == Head(walk)
  IN /\ pc = "copy" /\ walk # <<>>
     /\ rows' = IF IsDirName(attempts[i])
                   \/ \A k \in DOMAIN extents :
                        <<extents[k].vol, extents[k].file>> # <<attempts[i].vol, attempts[i].child>>
                THEN rows ELSE Append(rows, GuidedRow(i))
     /\ walk' = Tail(walk)
     /\ UNCHANGED <<image, lost, cancel, pc, mounted, pending, seen, index, attempts,
                    walked, stage, xattrs, facts>>

(***************************************************************************)
(* Compressed files, from their attribute and the copy of their fork       *)
(***************************************************************************)
\* bestResourceForkRowByOriginalFileId: the first of the longest, as a set of at most one.
ForkRow(obj) ==
  LET of == {i \in DOMAIN rows : IsFork(rows[i].at) /\ rows[i].status = "complete"
                                 /\ rows[i].at.parent = obj}
  IN {i \in of : \A j \in of : \/ Len(rows[j].bytes) < Len(rows[i].bytes)
                               \/ Len(rows[j].bytes) = Len(rows[i].bytes) /\ i <= j}

\* Faulty variant: a fork is taken as it is.
RawFork(bytes, info) == bytes

\* reconstructDecmpfsResourceForkDissectStyle: what a whole fork unpacks to, if that is
\* as much as the attribute says; a table of chunks bears more blocks behind them.
Unpacked(bytes, info) ==
  LET fork  == image.disk[Head(bytes)]
      whole == IF info.codec = "zlib" THEN IsPrefix(fork.blocks, bytes) ELSE fork.blocks = bytes
  IN IF fork.kind = "fork" /\ fork.codec = info.codec /\ whole /\ Len(fork.plain) = info.size
     THEN fork.plain ELSE <<>>

RebuiltRow(a, i) ==
  LET info  == CHOOSE x \in LastXattr(a.child, "decmpfs") : TRUE
      plain == Unpacked(rows[i].bytes, info)
  IN [at |-> a, bytes |-> plain, source |-> "other", trimmed |-> FALSE,
      status |-> IF plain = <<>> THEN "unbuilt"
                 ELSE IF info.codec = "zlib" THEN "rebuilt" ELSE "decoded"]

CanRebuild(obj) == LastXattr(obj, "decmpfs") # {} /\ ForkRow(obj) # {}

\* From rows that are known to be partial, and then from the attempts at other files:
\* the first one, or the last whose inode confirms the directory.
FromPartial ==
  LET some == SelectSeq(rows, LAMBDA r : /\ r.status = "partial" /\ r.at.rel # <<>>
                                         /\ CanRebuild(r.at.child))
  IN [k \in DOMAIN some |-> RebuiltRow(some[k].at, CHOOSE i \in ForkRow(some[k].at.child) : TRUE)]

OriginalAttempt(obj) ==
  LET all    == {i \in DOMAIN attempts : attempts[i].child = obj /\ attempts[i].rel # <<>>
                                         /\ ~IsFork(attempts[i])}
      proven == {i \in all : facts[i].parent = "match"}
  IN attempts[IF proven = {} THEN Min(all) ELSE Max(proven)]

IsRebuilt(r) == r.status \in {"rebuilt", "decoded"}

FromFork(done) ==
  LET known == {attempts[i].child : i \in {j \in DOMAIN attempts : attempts[j].rel # <<>>}}
      had   == {done[k].at.child : k \in {k \in DOMAIN done : IsRebuilt(done[k])}}
      ids   == SetToSortSeq({o \in known \ had : CanRebuild(o)}, <)
  IN [k \in DOMAIN ids |-> RebuiltRow(OriginalAttempt(ids[k]), CHOOSE i \in ForkRow(ids[k]) : TRUE)]

Rebuild == /\ pc = "copy" /\ walk = <<>>
           /\ rows' = rows \o FromPartial \o FromFork(FromPartial)
           /\ pc' = "stage"
           /\ UNCHANGED <<image, lost, cancel, mounted, pending, seen, index, attempts,
                          spool, stage, xattrs, facts>>

GuidedStage == /\ pc = "stage"
               /\ pc' = "done" /\ staged' = Staging.files /\ told' = Staging.told
               /\ UNCHANGED <<image, lost, cancel, mounted, pending, seen, index, attempts,
                              spool, rows, xattrs, facts>>

GuidedNext == \/ OpenVolume \/ SeedScan \/ ScanTreeNode \/ StartGuidedWalk \/ WalkStoreDir
              \/ Correlate \/ LookupInode \/ StartExtents \/ LookupExtents
              \/ StartGuidedCopy \/ CopyTarget \/ Rebuild \/ GuidedStage \/ GuidedCancel

(***************************************************************************)
(* What is on the image                                                    *)
(***************************************************************************)
TrueXattrs(v, obj) == {r \in TrueRecs(v) : r.type = "xattr" /\ r.obj = obj}
TrueRoot(v)        == image.disk[TrueNode(v, Volumes[v].root)]

Allocated(v, obj) == LET xs == TrueExtents(v, TrueInode(v, obj).private)
                     IN Assemble(xs, EndOf(xs))

\* The blocks of the file unpacked: those its fork says.
PlainBytes(v, obj) ==
  LET fork == CHOOSE r \in TrueXattrs(v, obj) : r.attr = "fork"
  IN image.disk[(CHOOSE x \in TrueExtents(v, fork.stream) : x.at = 0).block].plain

\* There is the file, no derived id is that of another object, and no other volume has
\* attributes of it.
OnlyHere(v, obj) == /\ \E r \in TrueRecs(v) : r.type = "inode" /\ r.obj = obj
                    /\ OwnOnly(v, obj)
                    /\ \A o \in Near[obj] : ~\E r \in TrueRecs(v) : r.type = "inode" /\ r.obj = o
                    /\ \A w \in DOMAIN Volumes \ {v} : TrueXattrs(w, obj) = {}

OneParent(v, obj) == \A r \in TrueEntries(v) : r.to = obj => r.parent = TrueInode(v, obj).parent

(* A copy has at each place the file's own block, or zeros under the       *)
(* status that says so, and all of it if its size was known; a rebuilt     *)
(* file is what its own fork unpacks to, however nodes and blocks are lost *)
(* and whichever of several ways to an extent was taken.                   *)
GuidedCopiesAreTrue ==
  image.sound =>
    \A i \in DOMAIN rows :
      LET a    == rows[i].at
          true == Allocated(a.vol, a.child)
      IN ~IsFork(a) /\ OnlyHere(a.vol, a.child) =>
           /\ IsRebuilt(rows[i]) => rows[i].bytes = PlainBytes(a.vol, a.child)
           /\ rows[i].status \in {"complete", "zeros", "partial"} /\ HasBytes(a.vol, a.child) =>
                \A k \in DOMAIN rows[i].bytes :
                  \/ k \in DOMAIN true /\ rows[i].bytes[k] = true[k]
                  \/ rows[i].bytes[k] = NoBlock /\ rows[i].status = "zeros"
           /\ rows[i].status = "complete" /\ rows[i].source \in {"scan", "inode"} =>
                Len(rows[i].bytes) = TrueSize(a.vol, a.child)

(* If every block can be read to the end and the roots are branches of no  *)
(* more records than are looked at, each file below a Store-V2 directory   *)
(* whose extents have no gap and whose inode names that directory is       *)
(* copied whole, or rebuilt if it is compressed and was not found by its   *)
(* name alone; and no directory entry is tried twice.                      *)
GuidedNothingMissed ==
  /\ pc = "done" /\ image.sound /\ lib = DOMAIN image.disk /\ ~cancel
     /\ (\A v \in DOMAIN Volumes : TrueRoot(v).level > 0 /\ Len(TrueRoot(v).recs) <= RootRecords) =>
       \A v \in DOMAIN Volumes : \A obj \in BelowStore(v) :
         LET mine == {i \in DOMAIN rows : rows[i].at.vol = v /\ rows[i].at.child = obj}
         IN OnlyHere(v, obj) /\ OneParent(v, obj) =>
              /\ HasBytes(v, obj) /\ TrueXattrs(v, obj) = {}
                 /\ Covered(TrueExtents(v, TrueInode(v, obj).private)) >= TrueSize(v, obj) =>
                   \E i \in mine : Copied(i) /\ Len(rows[i].bytes) = TrueSize(v, obj)
              /\ TrueXattrs(v, obj) # {}
                 /\ (\A r \in TrueEntries(v) : r.to = obj => ~IsGuidedTarget(r.name)) =>
                   \E i \in mine : IsRebuilt(rows[i])
  /\ \A i, j \in DOMAIN attempts : SameTarget(attempts[i], attempts[j]) => i = j

(* The staged files are as StagedIsTold says; none of them is the raw fork *)
(* of a compressed file, and none is cut short where the same file of the  *)
(* same store was rebuilt.                                                 *)
ForksStayOut ==
  \A p \in DOMAIN staged :
    LET r == rows[staged[p]]
    IN /\ ~IsFork(r.at)
       /\ r.status = "partial" => ~\E i \in DOMAIN rows : IsRebuilt(rows[i]) /\ rows[i].at = r.at
===============================================================================
