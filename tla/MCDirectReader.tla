---------------------------- MODULE MCDirectReader ----------------------------
(***************************************************************************)
(* Small images.  Objects and nodes have ids from one space, as in APFS.   *)
(***************************************************************************)
EXTENDS DirectReader, TLC

CONSTANTS SomeGroup, StoreDb, ReverseStore, CacheDir, Text, OtherText, Photo, System

MCComponent == {ReverseStore}
MCGroup     == {SomeGroup}
MCKinded    == {ReverseStore, StoreDb, Text, OtherText}
MCNear      == [o \in 2..20 |-> IF o = 12 THEN {7} ELSE {}]

Dir(parent, name, to)          == [type |-> "dir", parent |-> parent, name |-> name, to |-> to]
Inode(obj, dstream)            == [type |-> "inode", obj |-> obj, private |-> obj, dstream |-> dstream]
Extent(obj, at, len, block)    == [type |-> "extent", obj |-> obj, at |-> at, len |-> len, block |-> block]
Separator(to)                  == [type |-> "inode", obj |-> 2, to |-> to]
Fs(level, recs)                == [kind |-> "fs", level |-> level, recs |-> recs]
Omap(level, entries, next)     == [kind |-> "omap", level |-> level, entries |-> entries, next |-> next]
Entry(oid, xid, to)            == [oid |-> oid, xid |-> xid, to |-> to, deleted |-> FALSE]
MapRange(at, len, from, stream) == [at |-> at, len |-> len, from |-> from, stream |-> stream]
Whole                          == <<MapRange(100, 50, 60, 0), MapRange(0, 0, 9, 0), MapRange(0, 60, 0, 0)>>
Bytes                          == [kind |-> "data"]
ObjectMap(tree)                == [kind |-> "objmap", tree |-> tree]
Apsb                           == [kind |-> "apsb"]
Volume(name, block, omap)      == [name |-> name, block |-> block, omap |-> omap, root |-> 5, xid |-> 2]
Super(xid, volumes)            == [xid |-> xid, volumes |-> volumes]

\* One volume, in the middle of its history: node 6 has an older and a newer version,
\* the extents of files 8 and 13 lie in two leaves, file 10 has a hole, file 13 ends in one,
\* and the derived id of file 12 is that of another file.
History(separator) ==
  20 :> ObjectMap(1) @@ 21 :> Apsb @@
  1  :> Omap(1, <<Entry(5, 1, 2), Entry(6, 2, 3)>>, NoBlock) @@
  2  :> Omap(0, <<Entry(5, 1, 11), Entry(6, 1, 12)>>, 3) @@
  3  :> Omap(0, <<Entry(6, 2, 13), Entry(6, 3, 12), Entry(7, 1, 14)>>, NoBlock) @@
  11 :> Fs(1, <<Separator(6), separator>>) @@
  12 :> Fs(0, <<Dir(3, SomeGroup, 4), Dir(4, StoreDb, 8), Inode(8, 1), Extent(8, 0, 1, 40)>>) @@
  13 :> Fs(0, <<Dir(2, StoreV2, 3), Dir(3, SomeGroup, 4), Dir(4, ReverseStore, 13), Inode(13, 3),
                Extent(13, 0, 1, 45), Dir(4, StoreDb, 8), Inode(8, 3), Extent(8, 2, 1, 44)>>) @@
  14 :> Fs(0, <<Extent(8, 0, 2, 41), Extent(13, 1, 1, 51), Dir(4, CacheDir, 9), Dir(9, Text, 10),
                Inode(10, 3), Extent(10, 0, 1, 46), Extent(10, 2, 1, 47), Dir(2, Photo, 7),
                Inode(7, 1), Extent(7, 0, 2, 48), Dir(9, OtherText, 12), Inode(12, 1),
                Extent(12, 0, 1, 50)>>) @@
  [b \in 40..51 |-> Bytes]

Healthy(separator) == [disk |-> History(separator), map |-> Whole, sound |-> TRUE, omaps |-> {1},
                       supers |-> <<Super(1, <<>>), Super(2, <<Volume(Data, 21, 20)>>)>>]

\* The same store on a second volume, under the same ids.
Second ==
  120 :> ObjectMap(101) @@ 121 :> Apsb @@
  101 :> Omap(0, <<Entry(5, 1, 111), Entry(6, 1, 113)>>, NoBlock) @@
  111 :> Fs(1, <<Separator(6)>>) @@
  113 :> Fs(0, <<Dir(2, StoreV2, 3), Dir(3, SomeGroup, 4), Dir(4, StoreDb, 8), Inode(8, 1),
                 Extent(8, 0, 1, 140)>>) @@
  140 :> Bytes
TwoVolumes == [disk |-> History(Separator(7)) @@ Second, map |-> Whole, sound |-> TRUE, omaps |-> {1, 101},
               supers |-> <<Super(2, <<Volume(System, 121, 120), Volume(Data, 21, 20)>>)>>]

\* A tree whose branches point at each other.
Loop ==
  20 :> ObjectMap(1) @@ 21 :> Apsb @@
  1  :> Omap(0, <<Entry(5, 1, 11), Entry(6, 1, 12), Entry(7, 1, 13)>>, 1) @@
  11 :> Fs(1, <<Separator(6), Separator(7)>>) @@
  12 :> Fs(1, <<Separator(5), Separator(7), Separator(6)>>) @@
  13 :> Fs(0, <<Dir(2, StoreV2, 3), Dir(3, SomeGroup, 4), Dir(4, ReverseStore, 8), Dir(4, CacheDir, 3),
                Inode(8, 1), Extent(8, 0, 1, 40)>>) @@
  40 :> Bytes
Looping(name) == [disk |-> Loop, map |-> Whole, sound |-> FALSE, omaps |-> {},
                  supers |-> <<Super(2, <<Volume(name, 21, 20)>>)>>]

\* Object maps of two leaves, with every choice of keys and of the cut.
Keys == 3..8
KeyEntry(k) == Entry(k \div 3, 1 + (k % 3), 10 + k)
Leaf(s) == [i \in DOMAIN s |-> KeyEntry(s[i])]
Map(keys, cut) ==
  LET s     == SetToSortSeq(keys, <)
      left  == SubSeq(s, 1, cut)
      right == SubSeq(s, cut + 1, Len(s))
  IN [disk |-> 1 :> Omap(1, <<[KeyEntry(left[1]) EXCEPT !.to = 2],
                              [KeyEntry(right[1]) EXCEPT !.to = 3]>>, NoBlock) @@
               2 :> Omap(0, Leaf(left), 3) @@ 3 :> Omap(0, Leaf(right), NoBlock),
      map |-> Whole, sound |-> TRUE, omaps |-> {1}, supers |-> <<>>]
Maps == UNION {{Map(keys, cut) : cut \in 1..Cardinality(keys) - 1} :
                 keys \in {ks \in SUBSET Keys : Cardinality(ks) >= 2}}

\* The second part of file 10 lies in a range kept in another stream.
ZeroRange == [Healthy(Separator(7)) EXCEPT
               !.map = <<MapRange(48, 10, 48, 0), MapRange(47, 1, 0, 1), MapRange(0, 47, 0, 0)>>]

MCImages == {Healthy(Separator(7)), ZeroRange, Healthy(Dir(4, StoreDb, 7)), TwoVolumes,
             Looping(Data), Looping(System)} \cup Maps
===============================================================================
