---------------------------- MODULE MCReviewPage ----------------------------
(* A small instance of ReviewPage: one case, two views; a search hides rows. *)
EXTENDS ReviewPage

CONSTANTS c1, c2, v1, v2, all, hit

MCRows == [c \in Case |-> [v \in View |-> [s \in Search |->
             IF v = v1 THEN IF s = hit THEN 1 ELSE 3
                       ELSE IF s = hit THEN 0 ELSE 2]]]
=============================================================================
