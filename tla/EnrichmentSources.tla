--------------------------- MODULE EnrichmentSources ---------------------------
(***************************************************************************)
(* Small sources: a few items in every order in which they may be decoded. *)
(***************************************************************************)
EXTENDS Integers, SequencesExt

CONSTANTS Slash, NoName, Plist, Volumes, Data

Item(inode, parent, name) ==
  [copy |-> "store", inode |-> inode, parent |-> parent, name |-> name, hint |-> NoName, probe |-> <<>>,
   dated |-> inode % 2 = 0]
Hinted(item, hint)  == [item EXCEPT !.hint = hint]
Probing(item, path) == [item EXCEPT !.probe = path]
Record(vol, child, parent, name)     == [vol |-> vol, child |-> child, parent |-> parent, name |-> name, path |-> <<>>]
Walked(vol, child, parent, name, path) == [Record(vol, child, parent, name) EXCEPT !.path = path]
Cached(vol, id, mounted)             == [vol |-> vol, id |-> id, mounted |-> mounted]
Source(items) == [aff4 |-> FALSE, inserted |-> FALSE, items |-> items, walk |-> <<>>, index |-> <<>>,
                  cache |-> {}, lookup |-> {}]

Top == Item(2, 1, "top")
Line == {Item(3, 2, "d"), Item(4, 3, "e"), Item(5, 4, "f"), Item(6, 5, "g")}
Short == {Item(2, 0, "top"), Item(3, 2, "d"), Item(4, 3, "e")}
Gap  == {Top, Item(3, 2, "d"), Item(4, 3, NoName), Item(5, 4, "f"), Item(6, 8, NoName)}
Plists == {Hinted(Item(3, 2, Plist), "h"), [Item(3, 2, "d") EXCEPT !.copy = "dot"],
           Probing(Item(4, 3, "f"), <<Slash, Volumes, "usb", "f">>), Item(5, 3, Plist)}
Mounts == {Item(3, 2, Volumes), Item(4, 3, "usb"), Item(5, 4, "f"),
           Probing(Item(6, 9, Plist), <<Volumes, "usb", "f">>)}

\* Two volumes with the same ids, and objects without a name that they name.
Nameless == {Item(5, 3, NoName), Item(6, 5, "g"), Item(7, 4, NoName)}
Walks    == {<<>>, <<Walked("System", 5, 9, "s", <<Slash, "s">>), Walked(Data, 3, 2, "d", <<Slash, "d">>)>>}
Indexes  == {<<>>, <<Record("System", 5, 9, "s"), Record(Data, 5, 3, "f"), Record(Data, 3, 2, "d"), Record(Data, 8, 5, "t")>>,
             <<Record("System", 5, 9, "s"), Record(Data, 5, 9, "r"), Record(Data, 7, 6, "n"), Record(Data, 8, 7, "t")>>}
Caches   == SUBSET {Cached(Data, 5, TRUE), Cached(Data, 8, FALSE)}

Orders(items) == SetToSeqs(items)

SmallSources ==
  {[Source(s) EXCEPT !.inserted = b] : s \in UNION {Orders(Line), Orders(Short), Orders(Gap), Orders(Plists), Orders(Mounts)},
                                     b \in BOOLEAN}
  \cup {[Source(s) EXCEPT !.lookup = l] :
          s \in Orders(Plists \cup {Item(6, 2, "private"), Item(8, 6, "f")}), l \in {{<<Slash, "d">>}, {<<Slash, "private", "f">>}}}
  \cup {[Source(s) EXCEPT !.aff4 = TRUE, !.walk = w, !.index = x, !.cache = c] :
          s \in Orders(Nameless), w \in Walks, x \in Indexes, c \in Caches}
===============================================================================
