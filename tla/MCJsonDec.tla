----------------------------- MODULE MCJsonDec -----------------------------
(* A small instance of JsonDec for TLC: every tree of up to four items,    *)
(* enough for an object or array between two other members, and for three  *)
(* levels below the root.                                                  *)
EXTENDS JsonDec
=============================================================================
