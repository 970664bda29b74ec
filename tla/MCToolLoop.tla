----------------------------- MODULE MCToolLoop -----------------------------
(***************************************************************************)
(* A small instance of ToolLoop for TLC.  With a system prompt of size 1,  *)
(* a long task exceeds the budget by itself, one bulky result fits beside  *)
(* a short task, and two rounds do not.                                    *)
(***************************************************************************)
EXTENDS ToolLoop

CONSTANTS primary, fallback

Sizes == {1, 7}
ResultSizes == {1, 4}
=============================================================================
