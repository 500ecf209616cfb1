----------------------------- MODULE MCIntDec -----------------------------
(* A small instance of IntDec for TLC: files of five lines, enough for an  *)
(* event with a full field and the start of a second event, and for two    *)
(* events with a field each.  The texts are not declared symmetric, for    *)
(* the run checks a liveness property.                                     *)
EXTENDS IntDec
=============================================================================
