------------------------------ MODULE Cursors ------------------------------
(***************************************************************************)
(* A string with the memory behind it, and the pointer and length that the *)
(* date parsers move over it (primitivetype.c).                            *)
(*                                                                         *)
(* Nothing terminates a string: a parser that reads past its end finds     *)
(* whatever is there (after, and then bytes that match nothing).  Pointer  *)
(* and length are kept apart from each other, both 32 bits wide, and so    *)
(* they are here: a cursor has p, len and whether the text matched so far. *)
(* Offsets count from 0, as in C.                                          *)
(***************************************************************************)
EXTENDS Integers, Sequences, FiniteSets, SequencesExt

CONSTANTS Width   \* lengths and offsets are modulo Width: 2^32 in the code

VARIABLES str, after,  \* the string and the memory behind it
          offs         \* *offs

----------------------------------------------------------------------------
(* Bytes and runs of bytes.                                                *)

Digits  == <<"0", "1", "2", "3", "4", "5", "6", "7", "8", "9">>
Digit   == Range(Digits)
DigitVal == [d \in Digit |-> (CHOOSE k \in 1..10 : Digits[k] = d) - 1]

\* the byte at offset i of the buffer
At(i) == IF i < Len(str) THEN str[i + 1]
         ELSE IF i < Len(str) + Len(after) THEN after[i - Len(str) + 1]
         ELSE "?"

\* how many of the next len bytes the loop takes that stops at a byte not in C
RunOf(p, len, C) == Cardinality({k \in 0..(len - 1) : \A m \in 0..k : At(p + m) \in C})
RunTo(p, len, c) == Cardinality({k \in 0..(len - 1) : \A m \in 0..k : At(p + m) # c})

\* the decimal number that the digits in s write; no digit at all is 0
Decimal(s) ==
  LET v[k \in 0..Len(s)] == IF k = 0 THEN 0 ELSE 10 * v[k - 1] + DigitVal[s[k]]
  IN  v[Len(s)]

\* the number in the n bytes from p
DecimalAt(p, n) == Decimal([k \in 1..n |-> At(p + k - 1)])

----------------------------------------------------------------------------
(* Cursors.  c ** Num(S) is hParseInt and the check that the number is in  *)
(* S; c ** Lit(S) expects a byte of S; c ** Slip(S) does, too, and forgets *)
(* to take it off the length.                                              *)

Num(S)  == [kind |-> "int",  of |-> S]
Lit(S)  == [kind |-> "lit",  of |-> S]
Slip(S) == [kind |-> "slip", of |-> S]

Cursor(ok, p, len) == [ok |-> ok, p |-> p, len |-> len % Width]
Fail(c) == [c EXCEPT !.ok = FALSE]
Here    == Cursor(TRUE, offs, Len(str) - offs)

Consume(c, s) ==
  LET n == RunOf(c.p, c.len, Digit)
  IN  CASE ~c.ok -> c
        [] c.ok /\ s.kind = "int" -> Cursor(DecimalAt(c.p, n) \in s.of, c.p + n, c.len - n)
        [] c.ok /\ s.kind # "int" ->
             IF c.len = 0 THEN Fail(c)
             ELSE Cursor(At(c.p) \in s.of, c.p + 1,
                         IF s.kind = "lit" THEN c.len - 1 ELSE c.len)

c ** s == Consume(c, s)

IsAt(c, S) == c.ok /\ c.len > 0 /\ At(c.p) \in S
=============================================================================
