------------------------------- MODULE Ascending -------------------------------
(***************************************************************************)
(* Numbers in ascending order (a scan of a table by rowid, ORDER BY), and  *)
(* the elements of a list that a loop keeps.  They are what SetToSortSeq   *)
(* and SelectSeq compute, defined so that they can be reasoned about.      *)
(***************************************************************************)
EXTENDS Integers, Sequences, FiniteSets

\* How many numbers in S are not larger than n.
Rank(S, n) == Cardinality({m \in S : m <= n})

\* The numbers of a finite set in ascending order.
Ascending(S) == [k \in 1..Cardinality(S) |-> CHOOSE n \in S : Rank(S, n) = k]

\* The items of a sequence that are in S, in their order.
Kept(items, S) == LET places == Ascending({i \in DOMAIN items : items[i] \in S})
                  IN [k \in DOMAIN places |-> items[places[k]]]
=============================================================================
