------------------------- MODULE MCReviewConnection -------------------------
(* A small instance of ReviewConnection: two case databases. *)
EXTENDS ReviewConnection
CONSTANTS a, b
=============================================================================
