---------------------------- MODULE LatestAnswer ----------------------------
(***************************************************************************)
(* What the review grid promises the investigator: a question (a view, a   *)
(* search and a page of one case) may replace an earlier one at any time,  *)
(* and what is on screen is either nothing or the complete answer to the   *)
(* latest question.  An earlier question is never answered.                *)
(***************************************************************************)
CONSTANTS Question,          \* what can be asked
          None,              \* no question, no answer
          AnswersTo(_)       \* the complete answers to a question

VARIABLES question,          \* the latest question asked
          waiting,           \* it has neither been answered nor withdrawn
          answer             \* what is on screen

vars == <<question, waiting, answer>>

Init == question = None /\ waiting = FALSE /\ answer = None

Ask == /\ question' \in Question
       /\ waiting' = TRUE
       /\ answer' = None

Reply == /\ waiting
         /\ waiting' = FALSE
         /\ answer' \in AnswersTo(question)
         /\ UNCHANGED question

\* Cancelled by the investigator, or failed with an error message.
Withdraw == /\ waiting
            /\ waiting' = FALSE
            /\ answer' = None
            /\ UNCHANGED question

Next == Ask \/ Reply \/ Withdraw

Spec == Init /\ [][Next]_vars
=============================================================================
