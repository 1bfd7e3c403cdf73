---------------------------- MODULE MCGuidedReader ----------------------------
(***************************************************************************)
(* Small images for the guided reader.  Files have ids above 9; the data   *)
(* of some lie under the id of their stream.  Leaves are in key order and  *)
(* a branch names each child by the child's first key.                     *)
(***************************************************************************)
EXTENDS MCDirectReader

CONSTANTS ForkName, NumberText

AllKinded   == MCKinded \cup {NumberText}
MCListed    == {StoreDb}
MCCacheNames == {NumberText}

File(obj, parent, private, size) == [type |-> "inode", obj |-> obj, parent |-> parent,
                                     private |-> private, dstream |-> size, packed |-> 0]
Packed(obj, parent, size)        == [File(obj, parent, obj, 0) EXCEPT !.packed = size]
ForkOf(obj, stream, size)        == [type |-> "xattr", obj |-> obj, attr |-> "fork",
                                     stream |-> stream, size |-> size]
Decmpfs(obj, codec, size)        == [type |-> "xattr", obj |-> obj, attr |-> "decmpfs",
                                     codec |-> codec, size |-> size]
ForkBlock(codec, blocks, plain)  == [kind |-> "fork", codec |-> codec, blocks |-> blocks,
                                     plain |-> plain]
First(r, node) == [k \in DOMAIN r \cup {"to"} |-> IF k = "to" THEN node ELSE r[k]]
Tree(base, recs) ==  \* a branch over the leaves, as nodes 6, 7 and so on
  (base + 11) :> Fs(1, [i \in DOMAIN recs |-> First(Head(recs[i]), 5 + i)]) @@
  [b \in {base + 11 + i : i \in DOMAIN recs} |-> Fs(0, recs[b - base - 11])]
Mount(base, leaves) ==
  (base + 20) :> ObjectMap(base + 1) @@ (base + 21) :> Apsb @@
  (base + 1)  :> Omap(0, [i \in 1..leaves + 1 |-> Entry(4 + i, 1, base + 10 + i)], NoBlock)

\* Extents in two leaves and under a stream's id, holes with an extent of their own and
\* without, a text found by its number, and a file compressed into a fork, with a part of
\* its data left in the data stream.
Store(base) ==
  <<<<Dir(2, StoreV2, 3), Dir(3, SomeGroup, 4), Dir(4, StoreDb, 10), Dir(4, ReverseStore, 11),
      Dir(4, CacheDir, 8), Dir(8, NumberText, 12), Dir(8, Text, 13),
      Dir(8, OtherText, 16), File(10, 4, 15, 3),
      File(11, 4, 11, 3),
      Extent(11, 0, 1, base + 40), Extent(11, 1, 1, NoBlock)>>,
    <<Extent(11, 2, 1, base + 41), File(12, 8, 12, 1),
      Extent(12, 0, 1, base + 42), File(13, 8, 13, 3), ForkOf(13, 14, 2), Decmpfs(13, "zlib", 3),
      Extent(13, 0, 1, base + 43), Extent(14, 0, 2, base + 44), Extent(15, 0, 2, base + 46)>>,
    <<Extent(15, 2, 2, base + 48), File(16, 8, 16, 3), Extent(16, 0, 1, base + 52),
      Extent(16, 2, 1, base + 53)>>>>
StoreBlocks(base) ==
  (base + 44) :> ForkBlock("zlib", <<base + 44, base + 45>>, <<base + 43, base + 50, base + 51>>) @@
  [b \in base + 40..base + 53 |-> Bytes]
Guided == [disk |-> Mount(0, 3) @@ Tree(0, Store(0)) @@ StoreBlocks(0), map |-> Whole,
           sound |-> TRUE, omaps |-> {1}, supers |-> <<Super(2, <<Volume(Data, 21, 20)>>)>>]

\* A tree of three levels; a text with a second name elsewhere, two compressed texts, one
\* of them found by its number; and the same ids on a second volume,
\* where a derived id is that of another object.
DeepStore ==
  <<<<Dir(2, StoreV2, 3), Dir(3, SomeGroup, 4), Dir(4, StoreDb, 10), Dir(4, OtherText, 13)>>,
    <<Dir(4, CacheDir, 8), Dir(8, Text, 12), Dir(8, NumberText, 16), File(10, 4, 10, 2)>>,
    <<Extent(10, 0, 1, 140), Extent(10, 1, 1, 141), File(12, 2, 12, 1), Extent(12, 0, 1, 142)>>,
    <<Packed(13, 4, 1), ForkOf(13, 14, 1), Decmpfs(13, "lzfse", 1), Extent(14, 0, 1, 144),
      Extent(15, 0, 1, 146), File(16, 8, 16, 0), ForkOf(16, 15, 1), Decmpfs(16, "zlib", 1)>>>>
DeepTree ==
  LET node(i, oid) == First(Head(DeepStore[i]), oid)
  IN 111 :> Fs(2, <<node(1, 6), node(3, 17)>>) @@ 112 :> Fs(1, <<node(1, 7), node(2, 9)>>) @@
     113 :> Fs(1, <<node(3, 18), node(4, 19)>>) @@
     [b \in 114..117 |-> Fs(0, DeepStore[b - 113])] @@
     120 :> ObjectMap(101) @@ 121 :> Apsb @@
     101 :> Omap(0, <<Entry(5, 1, 111), Entry(6, 1, 112), Entry(7, 1, 114), Entry(9, 1, 115),
                      Entry(17, 1, 113), Entry(18, 1, 116), Entry(19, 1, 117)>>, NoBlock) @@
     144 :> ForkBlock("lzfse", <<144>>, <<145>>) @@ 146 :> ForkBlock("zlib", <<146>>, <<147>>) @@
     [b \in 140..147 |-> Bytes]
Twin ==
  <<<<Dir(2, StoreV2, 3), Dir(3, SomeGroup, 4), Dir(4, StoreDb, 10), Dir(4, Text, 7)>>,
    <<Extent(7, 0, 1, 42), File(10, 4, 12, 1), Extent(12, 0, 2, 40)>>>>
Deep == [disk |-> Mount(0, 2) @@ Tree(0, Twin) @@ [b \in 40..42 |-> Bytes] @@ DeepTree,
         map |-> Whole, sound |-> TRUE, omaps |-> {1, 101},
         supers |-> <<Super(2, <<Volume(System, 21, 20), Volume(Data, 121, 120)>>)>>]

MCGuidedImages == {Guided, Deep}
===============================================================================
