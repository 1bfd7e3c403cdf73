------------------------------ MODULE OmapLookup ------------------------------
(***************************************************************************)
(* Finding the block of an APFS object: the object map of a volume is a    *)
(* B-tree keyed by (object, transaction), and a lookup wants the newest    *)
(* version of an object that is not newer than the volume's superblock     *)
(* (aff4ResolveVolumeOmapTargetObjectForProbe in                           *)
(* src/src/parsers/aff4_probe_worker.cpp).  The tree comes from evidence:  *)
(* a node may be unreadable and pointers may form cycles.  A node or a  *)
(* leaf met a second time ends the code's walk at once; here the walk goes *)
(* round until its bound, which finds nothing new.                         *)
(***************************************************************************)
EXTENDS Integers, Sequences, FiniteSets, FiniteSetsExt

CONSTANTS NoBlock,   \* where a pointer is zero or cannot be converted
          MaxDepth,  \* kMaxDepth
          MaxLeaves  \* kMaxNextLeafTransitions

ASSUME BoundsAssumption == MaxDepth \in Nat \ {0} /\ MaxLeaves \in Nat

(***************************************************************************)
(* disk maps a block to what is in it.  An object-map node is              *)
(* [kind |-> "omap", level, entries, next]; an entry is                    *)
(* [oid, xid, to, deleted] and "to" is a child or the object's block.      *)
(* readable is the set of blocks that can be read.                         *)
(***************************************************************************)
NotAfter(e, oid, xid) == e.oid < oid \/ (e.oid = oid /\ e.xid <= xid)

\* Faulty variant: the first match in the leaf is taken.
FirstEntry(entries, oid, xid) ==
  LET match == {i \in DOMAIN entries : entries[i].oid = oid /\ entries[i].xid <= xid}
  IN {entries[i] : i \in {j \in match : \A k \in match : j <= k}}

\* Greatest transaction not after xid; among equals the last one.
BestEntry(entries, oid, xid) ==
  LET match == {i \in DOMAIN entries : entries[i].oid = oid /\ entries[i].xid <= xid}
      best  == {i \in match : \A j \in match : entries[j].xid <= entries[i].xid}
  IN IF match = {} THEN {} ELSE {entries[Max(best)]}

ChildFor(entries, oid, xid) ==
  LET before == {i \in DOMAIN entries : NotAfter(entries[i], oid, xid)}
  IN IF before # {} THEN entries[Max(before)].to
     ELSE IF entries # <<>> THEN entries[1].to ELSE NoBlock

IsOmapNode(disk, readable, b) == b \in readable /\ disk[b].kind = "omap"

\* The matching entry, as a set of at most one: from a leaf and those after it.
LeafMatch(disk, readable, b, oid, xid) ==
  LET from[p \in readable \X (0..MaxLeaves)] ==
        LET node  == disk[p[1]]
            found == BestEntry(node.entries, oid, xid)
        IN IF found # {} \/ p[2] = 0 \/ node.next = p[1]
              \/ ~IsOmapNode(disk, readable, node.next) THEN found
           ELSE IF disk[node.next].level # 0 THEN {}
           ELSE from[<<node.next, p[2] - 1>>]
  IN from[<<b, MaxLeaves>>]

MatchedEntry(disk, readable, root, oid, xid) ==
  LET down[p \in readable \X (0..MaxDepth)] ==
        LET node  == disk[p[1]]
            child == ChildFor(node.entries, oid, xid)
        IN IF node.level = 0 THEN LeafMatch(disk, readable, p[1], oid, xid)
           ELSE IF p[2] = 1 \/ ~IsOmapNode(disk, readable, child) THEN {}
           ELSE down[<<child, p[2] - 1>>]
  IN IF IsOmapNode(disk, readable, root) THEN down[<<root, MaxDepth>>] ELSE {}

\* objectStatus OMAP_TARGET_BTREE_READ: the block to use, else NoBlock.
Resolve(disk, readable, root, oid, xid) ==
  LET live == {e \in MatchedEntry(disk, readable, root, oid, xid) :
                 ~e.deleted /\ e.to \in readable /\ disk[e.to].kind = "fs"}
  IN IF live = {} THEN NoBlock ELSE (CHOOSE e \in live : TRUE).to

(***************************************************************************)
(* What the lookup should find: of all the entries in the leaves of a      *)
(* sound tree, the newest one of the object not after the transaction.     *)
(***************************************************************************)
LeavesUnder(disk, root) ==
  LET under[b \in DOMAIN disk] ==
        IF disk[b].level = 0 THEN {b}
        ELSE UNION {under[disk[b].entries[i].to] : i \in DOMAIN disk[b].entries}
  IN under[root]

Newest(disk, root, oid, xid) ==
  LET all  == UNION {{disk[b].entries[i] : i \in DOMAIN disk[b].entries} :
                       b \in LeavesUnder(disk, root)}
      past == {e \in all : e.oid = oid /\ e.xid <= xid}
  IN {e \in past : \A f \in past : f.xid <= e.xid}
===============================================================================
