------------------------------ MODULE MCField ------------------------------
(* A small instance of Field for TLC: a limit of three values, so that the *)
(* inline slot, the first and the second list node and the full field all  *)
(* occur, and an nVals one value wider than the limit.  With a third node  *)
(* there is memory for a field that passes the limit.                      *)
EXTENDS Field
=============================================================================
