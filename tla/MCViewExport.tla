----------------------------- MODULE MCViewExport -----------------------------
(* A small instance of ViewExport: a view with two search columns, one with *)
(* none; every combination of matches among the rows of the first.          *)
EXTENDS ViewExport
CONSTANTS artifacts, summary
Match(filter, one, two) == (0 :> filter) @@ (1 :> one) @@ (2 :> two)
TwoColumns == (artifacts :> 2) @@ (summary :> 0)
TwoTexts ==
  (artifacts :> <<Match(TRUE, TRUE, FALSE), Match(FALSE, TRUE, TRUE),
                  Match(TRUE, FALSE, FALSE), Match(TRUE, FALSE, TRUE),
                  Match(FALSE, FALSE, FALSE)>>)
    @@ (summary :> <<0 :> TRUE, 0 :> FALSE>>)
=============================================================================
