---------------------------- MODULE MCApacheDec ----------------------------
(* A small instance of ApacheDec for TLC: up to three names, and every     *)
(* line of up to four characters, enough for a quoted piece followed by    *)
(* another one and for blanks at either end.                               *)
EXTENDS ApacheDec
=============================================================================
