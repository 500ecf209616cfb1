--------------------------- MODULE ParsersProofs ---------------------------
(***************************************************************************)
(* Theorems about Parsers for every string, every memory behind it, every  *)
(* terminator and every width: the offset a parser returns, and the bytes  *)
(* it copies, are inside the string, apart from the one case that is named *)
(* in the property, and a parser that succeeds gets on.  What it accepts   *)
(* is what its grammar describes.                                          *)
(*                                                                         *)
(* A date parser moves a pointer and a length.  What has to be known of    *)
(* them is Stands(d, lo, c): pointer and length add up to the end of the   *)
(* string, up to a distance d that is 0, is 1 behind the colon of a zone   *)
(* offset, and is Width if the length went below zero; at least lo bytes   *)
(* are behind the cursor; and it is still in the buffer.                   *)
(*                                                                         *)
(* For the grammar the text from some offset q on is cut into parts.  A    *)
(* cursor is Before part k of it, where a number is read, or AtSep, where  *)
(* the byte that ends the part is: reading the number goes from the first  *)
(* to the second, reading the byte goes to the next part, and the cursor   *)
(* is good as long as the numbers and the bytes are those of the grammar.  *)
(* Behind the colon of a zone offset the length is one too large, and the  *)
(* last number may run over the end of the string: it then has one digit   *)
(* more, which can only make it larger.                                    *)
(***************************************************************************)
EXTENDS Parsers, SequenceLemmas, FiniteSetTheorems, TLAPS

Buffer == Len(str) + Len(after)

StrOK == /\ str \in Seq(Byte) /\ after \in Seq(Byte)
         /\ Width \in Nat /\ Buffer < Width
Ready == StrOK /\ offs \in Nat /\ offs < Len(str)

CursorSet == [ok : BOOLEAN, p : Nat, len : 0..(Width - 1)]
Stands(d, lo, c) ==
  /\ c \in CursorSet
  /\ c.ok => c.p + c.len = Len(str) + d /\ offs + lo <= c.p /\ c.p <= Buffer

----------------------------------------------------------------------------
(* Runs of bytes.                                                          *)

\* c ** s as a call.  (To expand ** in a proof is to expand it in every parser.)
LEMMA ConsumeIs == ASSUME NEW c, NEW s PROVE c ** s = Consume(c, s)
BY DEF **

\* A run is not longer than the length, and its last byte is in the class.
LEMMA RunBound ==
  ASSUME NEW p \in Nat, NEW len \in Nat, NEW C
  PROVE  /\ RunOf(p, len, C) \in 0..len
         /\ RunOf(p, len, C) > 0 => At(p + RunOf(p, len, C) - 1) \in C
<1> DEFINE S == {k \in 0..(len - 1) : \A m \in 0..k : At(p + m) \in C}
           n == Cardinality(S)
<1>1. IsFiniteSet(0..(len - 1)) /\ Cardinality(0..(len - 1)) = len
  BY FS_Interval
<1>2. S \subseteq 0..(len - 1)
  OBVIOUS
<1>3. IsFiniteSet(S) /\ n \in Nat /\ n <= len
  BY <1>1, <1>2, FS_Subset, FS_CardinalityType
<1>4. ASSUME n > 0 PROVE n - 1 \in S
  <2>1. SUFFICES ASSUME n - 1 \notin S PROVE FALSE
    OBVIOUS
  <2>2. ASSUME NEW k \in S PROVE k \in 0..(n - 2)
    <3>1. CASE k < n - 1
      BY <3>1, <1>3
    <3>2. CASE k >= n - 1
      <4>1. n - 1 \in 0..(len - 1) /\ \A m \in 0..(n - 1) : At(p + m) \in C
        <5>1. k \in 0..(len - 1) /\ \A m \in 0..k : At(p + m) \in C
          OBVIOUS
        <5> HIDE DEF n, S
        <5>2. n - 1 \in 0..k
          BY <5>1, <3>2, <1>3, <1>4
        <5>3. 0..(n - 1) \subseteq 0..k /\ n - 1 \in 0..(len - 1)
          BY <5>1, <5>2
        <5> QED BY <5>1, <5>3
      <4>2. QED BY <4>1, <2>1
    <3>3. QED BY <3>1, <3>2, <1>3
  <2>3. IsFiniteSet(0..(n - 2)) /\ Cardinality(0..(n - 2)) = n - 1
    <3> HIDE DEF n
    <3>1. 0 \in Int /\ n - 2 \in Int
      BY <1>3
    <3>2. QED BY <3>1, <1>3, <1>4, FS_Interval
  <2>4. S \subseteq 0..(n - 2)
    BY <2>2
  <2>5. n <= n - 1
    <3> HIDE DEF S
    <3> QED BY <2>3, <2>4, FS_Subset
  <2> QED BY <2>5, <1>3
<1>5. n > 0 => At(p + (n - 1)) \in C
  <2> HIDE DEF n
  <2> QED BY <1>3, <1>4
<1>6. n > 0 => p + (n - 1) = p + n - 1
  BY <1>3
<1>7. RunOf(p, len, C) = n
  BY DEF RunOf
<1> QED
  <2> HIDE DEF n
  <2> QED BY <1>3, <1>5, <1>6, <1>7

\* The same for a run up to a byte.
LEMMA RunToBound ==
  ASSUME NEW p, NEW len \in Nat, NEW ch
  PROVE  RunTo(p, len, ch) \in 0..len
<1> DEFINE S == {k \in 0..(len - 1) : \A m \in 0..k : At(p + m) # ch}
<1>1. IsFiniteSet(0..(len - 1)) /\ Cardinality(0..(len - 1)) = len
  BY FS_Interval
<1>2. S \subseteq 0..(len - 1)
  OBVIOUS
<1>3. Cardinality(S) \in Nat /\ Cardinality(S) <= len
  BY <1>1, <1>2, FS_Subset, FS_CardinalityType
<1> QED BY <1>3 DEF RunTo

\* What is read behind the buffer is no byte that a parser looks for.
LEMMA BehindBuffer == ASSUME StrOK PROVE \A i \in Int : At(i) # "?" => i < Buffer
BY DEF At, StrOK, Buffer

----------------------------------------------------------------------------
(* Cursors.                                                                *)

\* A cursor that failed stays as it is.
LEMMA FailedStays ==
  ASSUME NEW d, NEW lo, NEW c \in CursorSet, ~c.ok
  PROVE  Stands(d, lo, c)
BY DEF Stands

\* hParseInt moves pointer and length together.
LEMMA NumStands ==
  ASSUME Ready, NEW d \in Nat, NEW lo \in Nat, NEW c, NEW S, Stands(d, lo, c)
  PROVE  Stands(d, lo, c ** Num(S))
<1> DEFINE n == RunOf(c.p, c.len, Digit)
           e == c ** Num(S)
<1>1. CASE ~c.ok
  <2>1. e = c
    BY <1>1, ConsumeIs DEF Consume
  <2> QED BY <2>1
<1>2. CASE c.ok
  <2>1. c.p \in Nat /\ c.len \in 0..(Width - 1) /\ Width \in Nat
    BY DEF Stands, CursorSet, Ready, StrOK
  <2>2. n \in 0..c.len /\ (n > 0 => At(c.p + n - 1) \in Digit)
    BY <2>1, RunBound
  <2>3. e = Cursor(DecimalAt(c.p, n) \in S, c.p + n, c.len - n)
    BY <1>2, ConsumeIs DEF Consume, Num
  <2> HIDE DEF n, e
  <2>4. (c.len - n) % Width = c.len - n
    BY <2>1, <2>2
  <2>5. e.p = c.p + n /\ e.len = c.len - n /\ e \in CursorSet
    BY <2>1, <2>2, <2>3, <2>4 DEF Cursor, CursorSet
  <2>6. c.p + n <= Buffer
    <3>1. CASE n = 0
      BY <3>1, <2>1, <1>2 DEF Stands
    <3>2. CASE n > 0
      <4>1. At(c.p + n - 1) # "?"
        BY <3>2, <2>2 DEF Digit, Digits, Range
      <4>2. c.p + n - 1 < Buffer
        <5> DEFINE i == c.p + n - 1
        <5>1. i \in Int /\ At(i) # "?"
          BY <4>1, <2>1, <2>2
        <5> HIDE DEF i
        <5>2. i < Buffer
          BY <5>1, BehindBuffer DEF Ready
        <5> QED BY <5>2 DEF i
      <4>3. Buffer \in Nat
        BY DEF Buffer, Ready, StrOK
      <4> QED BY <4>2, <4>3, <2>1, <2>2
    <3> QED BY <3>1, <3>2, <2>2
  <2>7. offs \in Nat /\ Len(str) \in Nat
    BY DEF Ready, StrOK
  <2> QED
    BY <1>2, <2>1, <2>2, <2>5, <2>6, <2>7 DEF Stands, e
<1> QED BY <1>1, <1>2 DEF Stands

\* A byte that is expected moves both, and so at least one byte is behind.
LEMMA LitStands ==
  ASSUME Ready, NEW d \in Nat, NEW lo \in Nat, NEW c, NEW S, "?" \notin S, Stands(d, lo, c)
  PROVE  Stands(d, lo + 1, c ** Lit(S))
<1> DEFINE e == c ** Lit(S)
<1>0. /\ c \in CursorSet /\ c.p \in Nat /\ c.len \in 0..(Width - 1) /\ c.ok \in BOOLEAN
      /\ Width \in Nat /\ offs \in Nat /\ Len(str) \in Nat
  BY DEF Stands, CursorSet, Ready, StrOK
<1>1. CASE ~c.ok
  <2>1. e = c
    BY <1>1, ConsumeIs DEF Consume
  <2> QED BY <1>0, <1>1, <2>1, FailedStays
<1>2. CASE c.ok /\ c.len = 0
  <2>1. e = Fail(c)
    BY <1>2, ConsumeIs DEF Consume, Lit
  <2>2. e \in CursorSet /\ ~e.ok
    BY <2>1, <1>0 DEF Fail, CursorSet
  <2> QED BY <2>2, FailedStays
<1>3. CASE c.ok /\ c.len # 0
  <2>1. e = Cursor(At(c.p) \in S, c.p + 1, c.len - 1)
    BY <1>3, ConsumeIs DEF Consume, Lit
  <2> HIDE DEF e
  <2>2. (c.len - 1) % Width = c.len - 1
    BY <1>0, <1>3
  <2>3. e.p = c.p + 1 /\ e.len = c.len - 1 /\ e \in CursorSet /\ (e.ok => At(c.p) \in S)
    <3> DEFINE b == At(c.p) \in S
    <3>1. b \in BOOLEAN /\ (b => At(c.p) \in S)
      OBVIOUS
    <3>2. e = [ok |-> b, p |-> c.p + 1, len |-> c.len - 1]
      BY <2>1, <2>2 DEF Cursor
    <3> HIDE DEF b
    <3>3. e.p = c.p + 1 /\ e.len = c.len - 1 /\ e.ok = b
      BY <3>2
    <3>4. e \in CursorSet
      BY <3>1, <3>2, <1>0, <1>3 DEF CursorSet
    <3> QED BY <3>1, <3>3, <3>4
  <2>4. e.ok => c.p < Buffer
    BY <2>3, <1>0, BehindBuffer DEF Ready
  <2> QED BY <1>0, <1>3, <2>3, <2>4 DEF Stands, Buffer, Ready, StrOK, e
<1> QED BY <1>0, <1>1, <1>2, <1>3

\* The colon of a zone offset moves the pointer only.
LEMMA SlipStands ==
  ASSUME Ready, NEW d \in Nat, NEW lo \in Nat, NEW c, NEW S, "?" \notin S, Stands(d, lo, c)
  PROVE  Stands(d + 1, lo + 1, c ** Slip(S))
<1> DEFINE e == c ** Slip(S)
<1>0. /\ c \in CursorSet /\ c.p \in Nat /\ c.len \in 0..(Width - 1) /\ c.ok \in BOOLEAN
      /\ Width \in Nat /\ offs \in Nat /\ Len(str) \in Nat
  BY DEF Stands, CursorSet, Ready, StrOK
<1>1. CASE ~c.ok
  <2>1. e = c
    BY <1>1, ConsumeIs DEF Consume
  <2> QED BY <1>0, <1>1, <2>1, FailedStays
<1>2. CASE c.ok /\ c.len = 0
  <2>1. e = Fail(c)
    BY <1>2, ConsumeIs DEF Consume, Slip
  <2>2. e \in CursorSet /\ ~e.ok
    BY <2>1, <1>0 DEF Fail, CursorSet
  <2> QED BY <2>2, FailedStays
<1>3. CASE c.ok /\ c.len # 0
  <2>1. e = Cursor(At(c.p) \in S, c.p + 1, c.len)
    BY <1>3, ConsumeIs DEF Consume, Slip
  <2> HIDE DEF e
  <2>2. c.len % Width = c.len
    BY <1>0
  <2>3. e.p = c.p + 1 /\ e.len = c.len /\ e \in CursorSet /\ (e.ok => At(c.p) \in S)
    <3> DEFINE b == At(c.p) \in S
    <3>1. b \in BOOLEAN /\ (b => At(c.p) \in S)
      OBVIOUS
    <3>2. e = [ok |-> b, p |-> c.p + 1, len |-> c.len]
      BY <2>1, <2>2 DEF Cursor
    <3> HIDE DEF b
    <3>3. e.p = c.p + 1 /\ e.len = c.len /\ e.ok = b
      BY <3>2
    <3>4. e \in CursorSet
      BY <3>1, <3>2, <1>0, <1>3 DEF CursorSet
    <3> QED BY <3>1, <3>3, <3>4
  <2>4. e.ok => c.p < Buffer
    BY <2>3, <1>0, BehindBuffer DEF Ready
  <2> QED BY <1>0, <1>3, <2>3, <2>4, SMTT(30) DEF Stands, Buffer, Ready, StrOK, e
<1> QED BY <1>0, <1>1, <1>2, <1>3

\* Fewer bytes behind the cursor are behind it, too.
LEMMA StandsLess ==
  ASSUME Ready, NEW d \in Nat, NEW lo \in Nat, NEW lo2 \in Nat, lo2 <= lo, NEW c,
         Stands(d, lo, c)
  PROVE  Stands(d, lo2, c)
BY DEF Stands, Ready, CursorSet

\* A parse begins at the offset.
LEMMA HereStands == Ready => Stands(0, 0, Here) /\ Here.ok /\ Here.len = Len(str) - offs
<1> SUFFICES ASSUME Ready PROVE Stands(0, 0, Here) /\ Here.ok /\ Here.len = Len(str) - offs
  OBVIOUS
<1>1. Len(str) \in Nat /\ Len(after) \in Nat /\ Width \in Nat /\ Len(str) < Width
      /\ offs \in Nat /\ offs < Len(str)
  BY DEF Ready, StrOK, Buffer
<1>2. (Len(str) - offs) % Width = Len(str) - offs
  BY <1>1
<1> QED BY <1>1, <1>2 DEF Here, Cursor, Stands, CursorSet, Buffer

\* A byte that was found is one byte behind where the cursor was.
LEMMA LitMoves ==
  ASSUME NEW c \in CursorSet, NEW S, (c ** Lit(S)).ok
  PROVE  c.ok /\ (c ** Lit(S)).p = c.p + 1
<1>1. CASE ~c.ok
  BY <1>1, ConsumeIs DEF Consume
<1>2. CASE c.ok /\ c.len = 0
  BY <1>2, ConsumeIs DEF Consume, Lit, Fail, CursorSet
<1>3. CASE c.ok /\ c.len # 0
  BY <1>3, ConsumeIs DEF Consume, Lit, Cursor
<1> QED BY <1>1, <1>2, <1>3 DEF CursorSet

\* A cursor that was made to fail stands anywhere.
LEMMA FailStands ==
  ASSUME NEW d, NEW lo, NEW e, NEW lo2, NEW c, Stands(e, lo2, c)
  PROVE  Stands(d, lo, Fail(c))
BY DEF Fail, CursorSet, Stands

\* Whatever number there is, its digits come off the length.
LEMMA NumMoves ==
  ASSUME Width \in Nat, NEW c \in CursorSet, c.ok, NEW S
  PROVE  (c ** Num(S)).len \in 0..c.len
<1> DEFINE n == RunOf(c.p, c.len, Digit)
           e == c ** Num(S)
<1>1. c.p \in Nat /\ c.len \in 0..(Width - 1)
  BY DEF CursorSet
<1>2. n \in 0..c.len
  BY <1>1, RunBound
<1>3. e = Cursor(DecimalAt(c.p, n) \in S, c.p + n, c.len - n)
  BY ConsumeIs DEF Consume, Num
<1> HIDE DEF n, e
<1>4. (c.len - n) % Width = c.len - n
  BY <1>1, <1>2
<1>5. e.len = c.len - n
  BY <1>3, <1>4 DEF Cursor
<1>6. e.len \in 0..c.len
  BY <1>1, <1>2, <1>5
<1> QED BY <1>6 DEF e

----------------------------------------------------------------------------
(* The pieces of a date.                                                   *)

LEMMA HourMinuteSecondStands ==
  ASSUME Ready, NEW d \in Nat, NEW lo \in Nat, NEW c, Stands(d, lo, c)
  PROVE  Stands(d, lo + 2, HourMinuteSecond(c))
<1> DEFINE c1 == c ** Num(0..23)
           c2 == c1 ** Lit({":"})
           c3 == c2 ** Num(0..59)
           c4 == c3 ** Lit({":"})
           c5 == c4 ** Num(0..60)
<1>0. HourMinuteSecond(c) = c5
  BY DEF HourMinuteSecond
<1>1. Stands(d, lo, c1)
  BY NumStands
<1> HIDE DEF c1
<1>2. Stands(d, lo + 1, c2)
  BY <1>1, LitStands
<1> HIDE DEF c2
<1>3. Stands(d, lo + 1, c3)
  BY <1>2, NumStands
<1> HIDE DEF c3
<1>4. Stands(d, lo + 2, c4)
  <2>1. Stands(d, (lo + 1) + 1, c4)
    BY <1>3, LitStands
  <2> QED BY <2>1
<1> HIDE DEF c4
<1>5. Stands(d, lo + 2, c5)
  BY <1>4, NumStands
<1> QED BY <1>0, <1>5

LEMMA FractionStands ==
  ASSUME Ready, NEW d \in Nat, NEW lo \in Nat, NEW c, Stands(d, lo, c)
  PROVE  Stands(d, lo, Fraction(c))
<1> DEFINE c1 == c ** Lit({"."})
           c2 == c1 ** Num(Nat)
<1>1. Stands(d, lo + 1, c1)
  BY LitStands
<1>2. Stands(d, lo, c1)
  BY <1>1, StandsLess
<1> HIDE DEF c1
<1>3. Stands(d, lo, c2)
  BY <1>2, NumStands
<1>4. Fraction(c) \in {c, c2}
  BY DEF Fraction, c1
<1> QED BY <1>3, <1>4

LEMMA BehindStands ==
  ASSUME Ready, NEW d \in Nat, NEW lo \in Nat, NEW c, Stands(d, lo, c)
  PROVE  Stands(d, lo, Behind(c))
<1> DEFINE c1 == c ** Lit({" "})
<1>1. Stands(d, lo + 1, c1)
  BY LitStands
<1>2. Behind(c) \in {c, c1}
  BY DEF Behind
<1> HIDE DEF c1
<1> QED BY <1>1, <1>2, StandsLess

LEMMA ExtraStands ==
  ASSUME Ready, NEW d \in Nat, NEW lo \in Nat, NEW c, Stands(d, lo, c)
  PROVE  Stands(d, lo, Extra(c))
<1> DEFINE c1 == c ** Lit({":"})
<1>1. Stands(d, lo + 1, c1)
  BY LitStands
<1>2. Extra(c) \in {c, c1}
  BY DEF Extra
<1> HIDE DEF c1
<1> QED BY <1>1, <1>2, StandsLess

\* Only behind a zone offset the length is one too large.
LEMMA ZoneStands ==
  ASSUME Ready, NEW lo \in Nat, NEW c, Stands(0, lo, c)
  PROVE  Stands(0, lo, Zone(c)) \/ Stands(1, lo + 1, Zone(c))
<1>1. CASE IsAt(c, {"Z"})
  <2>1. Zone(c) = c ** Lit({"Z"})
    BY <1>1 DEF Zone, IsAt
  <2>2. Stands(0, lo + 1, c ** Lit({"Z"}))
    BY LitStands
  <2>3. Stands(0, lo, c ** Lit({"Z"}))
    BY <2>2, StandsLess
  <2> QED BY <2>1, <2>3
<1>2. CASE ~IsAt(c, {"Z"}) /\ IsAt(c, {"+", "-"})
  <2> DEFINE c1 == c ** Lit({"+", "-"})
             c2 == c1 ** Num(CharIn(0..23))
             c3 == c2 ** Slip({":"})
             c4 == c3 ** Num(0..59)
  <2>0. Zone(c) = c4
    BY <1>2 DEF Zone
  <2>1. Stands(0, lo + 1, c1)
    BY LitStands
  <2> HIDE DEF c1
  <2>2. Stands(0, lo + 1, c2)
    BY <2>1, NumStands
  <2> HIDE DEF c2
  <2>3. Stands(1, lo + 1, c3)
    <3>1. Stands(0 + 1, (lo + 1) + 1, c3)
      BY <2>2, SlipStands
    <3>2. Stands(1, lo + 2, c3)
      BY <3>1
    <3> HIDE DEF c3
    <3> QED BY <3>2, StandsLess
  <2> HIDE DEF c3
  <2>4. Stands(1, lo + 1, c4)
    BY <2>3, NumStands
  <2> QED BY <2>0, <2>4
<1>3. CASE ~IsAt(c, {"Z"}) /\ ~IsAt(c, {"+", "-"})
  <2>1. Zone(c) = Fail(c)
    BY <1>3 DEF Zone
  <2> QED BY <2>1, FailStands
<1> QED BY <1>1, <1>2, <1>3

\* The date of RFC5424 ends where the string ends or before.
LEMMA RFC5424DateStands ==
  ASSUME Ready
  PROVE  Stands(0, 5, RFC5424Date) \/ Stands(1, 6, RFC5424Date)
<1> DEFINE c1 == Here ** Num(Nat)
           c2 == c1 ** Lit({"-"})
           c3 == c2 ** Num(1..12)
           c4 == c3 ** Lit({"-"})
           c5 == c4 ** Num(1..31)
           c6 == c5 ** Lit({"T"})
           c7 == HourMinuteSecond(c6)
           c8 == Fraction(c7)
           c9 == Zone(c8)
<1>0. RFC5424Date = Behind(c9)
  BY DEF RFC5424Date
<1>1. Stands(0, 0, c1)
  BY HereStands, NumStands
<1> HIDE DEF c1
<1>2. Stands(0, 1, c2)
  BY <1>1, LitStands
<1> HIDE DEF c2
<1>3. Stands(0, 1, c3)
  BY <1>2, NumStands
<1> HIDE DEF c3
<1>4. Stands(0, 2, c4)
  BY <1>3, LitStands
<1> HIDE DEF c4
<1>5. Stands(0, 2, c5)
  BY <1>4, NumStands
<1> HIDE DEF c5
<1>6. Stands(0, 3, c6)
  BY <1>5, LitStands
<1> HIDE DEF c6
<1>7. Stands(0, 5, c7)
  BY <1>6, HourMinuteSecondStands
<1> HIDE DEF c7
<1>8. Stands(0, 5, c8)
  BY <1>7, FractionStands
<1> HIDE DEF c8
<1>9. Stands(0, 5, c9) \/ Stands(1, 6, c9)
  BY <1>8, ZoneStands
<1> HIDE DEF c9
<1> QED BY <1>0, <1>9, BehindStands

\* Where the date of RFC3164 may run behind the string: after the month.
PadAtEnd == /\ Len(SubSeq(str, offs + 1, Len(str))) = 4
            /\ after # <<>> /\ after[1] = " "

LEMMA MonthStands ==
  ASSUME Ready
  PROVE  Stands(0, 3, Month(Here)) /\ Month(Here).p = offs + 3
<1> DEFINE e == Month(Here)
           b == Here.len >= 3 /\ [k \in 1..3 |-> LowerCase(At(Here.p + k - 1))] \in Months
<1>0. /\ Len(str) \in Nat /\ Len(after) \in Nat /\ Width \in Nat /\ Len(str) < Width
      /\ offs \in Nat /\ offs < Len(str) /\ Len(str) <= Buffer
  BY DEF Ready, StrOK, Buffer
<1>1. Here.p = offs /\ Here.len = Len(str) - offs
  BY HereStands DEF Here, Cursor
<1>2. b \in BOOLEAN /\ (b => Here.len >= 3)
  OBVIOUS
<1>3. e = [ok |-> b, p |-> Here.p + 3, len |-> (Here.len - 3) % Width]
  BY DEF Month, Cursor
<1> HIDE DEF b, e
<1>4. b => (Here.len - 3) % Width = Len(str) - offs - 3
  BY <1>0, <1>1, <1>2
<1>5. (Here.len - 3) % Width \in 0..(Width - 1)
  BY <1>0, <1>1
<1>6. e.ok = b /\ e.p = offs + 3 /\ e.len = (Here.len - 3) % Width
  BY <1>3, <1>1
<1>7. e \in CursorSet
  BY <1>3, <1>2, <1>5, <1>1, <1>0 DEF CursorSet
<1>8. ASSUME e.ok PROVE e.p + e.len = Len(str) /\ e.p <= Buffer
  <2>1. e.p = offs + 3 /\ e.len = Len(str) - offs - 3 /\ Len(str) - offs >= 3
    BY <1>1, <1>2, <1>4, <1>6, <1>8
  <2>2. Buffer \in Nat
    BY <1>0 DEF Buffer
  <2> QED BY <2>1, <2>2, <1>0
<1> QED BY <1>0, <1>6, <1>7, <1>8 DEF Stands, e

\* The blank before the day, which is looked for whatever the length is.
LEMMA PadBlankStands ==
  ASSUME Ready
  PROVE  LET c == PadBlank(Month(Here) ** Lit({" "}))
         IN  Stands(0, 4, c) \/ (PadAtEnd /\ Stands(Width, 5, c))
<1> DEFINE m == Month(Here)
           c == m ** Lit({" "})
           e == PadBlank(c)
<1>0. /\ Len(str) \in Nat /\ Len(after) \in Nat /\ Width \in Nat /\ Buffer < Width
      /\ offs \in Nat /\ offs < Len(str) /\ Buffer = Len(str) + Len(after)
      /\ str \in Seq(Byte) /\ after \in Seq(Byte)
  BY DEF Ready, StrOK, Buffer
<1>1. Stands(0, 3, m) /\ m.p = offs + 3 /\ m \in CursorSet
  BY MonthStands DEF Stands
<1> HIDE DEF m
<1>2. Stands(0, 4, c)
  <2>1. Stands(0, 3 + 1, c)
    BY <1>1, LitStands
  <2> HIDE DEF c
  <2> QED BY <2>1
<1>3. ASSUME c.ok PROVE c.p = offs + 4
  <2>1. c.p = m.p + 1
    BY <1>1, <1>3, LitMoves
  <2> HIDE DEF c
  <2> QED BY <2>1, <1>1, <1>0
<1>4. c \in CursorSet
  BY <1>2 DEF Stands
<1> HIDE DEF c
<1>5. CASE ~(c.ok /\ At(c.p) = " ")
  <2>1. e = c
    BY <1>5 DEF PadBlank
  <2> QED BY <2>1, <1>2 DEF c, m
<1>6. CASE c.ok /\ At(c.p) = " "
  <2>1. e = [ok |-> TRUE, p |-> c.p + 1, len |-> (c.len - 1) % Width]
    BY <1>6 DEF PadBlank, Cursor
  <2>2. c.p = offs + 4 /\ c.len = Len(str) - offs - 4 /\ c.len \in 0..(Width - 1)
    <3>1. c.p = offs + 4
      BY <1>3, <1>6
    <3>2. c.p + c.len = Len(str)
      <4>1. c.p + c.len = Len(str) + 0
        BY <1>2, <1>6 DEF Stands
      <4> QED BY <4>1, <1>0
    <3>3. c.len \in 0..(Width - 1)
      BY <1>4 DEF CursorSet
    <3> QED BY <3>1, <3>2, <3>3, <1>0
  <2>3. c.p < Buffer
    <3>1. c.p \in Int /\ StrOK
      BY <2>2, <1>0 DEF Ready
    <3>2. At(c.p) # "?"
      BY <1>6
    <3> QED BY <3>1, <3>2, BehindBuffer
  <2> HIDE DEF e
  <2>4. CASE c.len # 0
    <3>1. (c.len - 1) % Width = c.len - 1
      <4>1. Width \in Nat /\ c.len - 1 \in 0..(Width - 1)
        BY <2>2, <2>4, <1>0
      <4> QED BY <4>1
    <3>2. e.ok /\ e.p = offs + 5 /\ e.len = Len(str) - offs - 5 /\ e \in CursorSet
      BY <2>1, <2>2, <2>4, <3>1, <1>0 DEF CursorSet
    <3>3. Stands(0, 4, e)
      BY <3>2, <2>2, <2>3, <1>0 DEF Stands
    <3> QED BY <3>3 DEF e, c, m
  <2>5. CASE c.len = 0
    <3>1. (c.len - 1) % Width = Width - 1
      BY <2>5, <1>0
    <3>2. e.ok /\ e.p = offs + 5 /\ e.len = Width - 1 /\ e \in CursorSet
      BY <2>1, <2>2, <3>1, <1>0 DEF CursorSet
    <3>3. Stands(Width, 5, e)
      BY <3>2, <2>2, <2>3, <2>5, <1>0 DEF Stands
    <3>4. offs + 4 = Len(str)
      BY <2>2, <2>5, <1>0
    <3>5. Len(SubSeq(str, offs + 1, Len(str))) = 4
      BY <3>4, <1>0
    <3>6. At(Len(str)) = IF Len(str) < Buffer THEN after[1] ELSE "?"
      BY <1>0 DEF At
    <3>7. PadAtEnd
      <4>1. At(Len(str)) = " " /\ Len(str) < Buffer
        BY <1>6, <2>2, <2>3, <3>4
      <4>2. after[1] = " "
        BY <4>1, <3>6
      <4>3. Len(after) # 0
        <5>1. Len(str) \in Nat /\ Len(after) \in Nat
          BY <1>0
        <5>2. Len(str) < Len(str) + Len(after)
          BY <4>1 DEF Buffer
        <5> QED BY <5>1, <5>2
      <4>4. after # <<>>
        BY <4>3
      <4> QED BY <4>2, <4>4, <3>5 DEF PadAtEnd
    <3> QED BY <3>3, <3>7 DEF e, c, m
  <2> QED BY <2>4, <2>5
<1> QED BY <1>5, <1>6

LEMMA YearOrHourStands ==
  ASSUME Ready, NEW d \in Nat, NEW lo \in Nat, NEW c, Stands(d, lo, c)
  PROVE  Stands(d, lo, YearOrHour(c))
<1> DEFINE y == c ** Num(1971..2099)
           z == y ** Lit({" "})
<1>1. Stands(d, lo, y)
  BY NumStands
<1>2. Stands(d, lo + 1, z)
  <2> HIDE DEF y
  <2> QED BY <1>1, LitStands
<1>3. YearOrHour(c) \in {HourMinuteSecond(z), HourMinuteSecond(c)}
  BY DEF YearOrHour
<1> HIDE DEF y, z
<1>4. Stands(d, lo, z)
  BY <1>2, StandsLess
<1>5. Stands(d, lo + 2, HourMinuteSecond(z)) /\ Stands(d, lo + 2, HourMinuteSecond(c))
  BY <1>4, HourMinuteSecondStands
<1> DEFINE e == YearOrHour(c)
<1> HIDE DEF e
<1>6. Stands(d, lo + 2, e)
  BY <1>3, <1>5 DEF e
<1>7. Stands(d, lo, e)
  BY <1>6, StandsLess
<1> QED BY <1>7 DEF e

\* The date of RFC3164 stands in the string, but for the one case.
LEMMA RFC3164DateStands ==
  ASSUME Ready
  PROVE  Stands(0, 4, RFC3164Date) \/ (PadAtEnd /\ Stands(Width, 4, RFC3164Date))
<1> DEFINE c1 == PadBlank(Month(Here) ** Lit({" "}))
           c2 == c1 ** Num(1..31)
           c3 == c2 ** Lit({" "})
           c4 == YearOrHour(c3)
<1>0. RFC3164Date = Extra(c4)
  BY DEF RFC3164Date
<1>1. Width \in Nat
  BY DEF Ready, StrOK
<1>2. Stands(0, 4, c1) \/ (PadAtEnd /\ Stands(Width, 5, c1))
  BY PadBlankStands
<1> HIDE DEF c1
<1>3. ASSUME NEW d \in Nat, Stands(d, 4, c1) PROVE Stands(d, 4, Extra(c4))
  <2>1. Stands(d, 4, c2)
    BY <1>3, NumStands
  <2> HIDE DEF c2
  <2>2. Stands(d, 4 + 1, c3)
    BY <2>1, LitStands
  <2> HIDE DEF c3
  <2>3. Stands(d, 4, c3)
    BY <2>2, StandsLess
  <2>4. Stands(d, 4, c4)
    BY <2>3, YearOrHourStands
  <2> HIDE DEF c4
  <2> QED BY <2>4, ExtraStands
<1>4. CASE Stands(0, 4, c1)
  BY <1>0, <1>3, <1>4
<1>5. CASE PadAtEnd /\ Stands(Width, 5, c1)
  <2>1. Stands(Width, 4, c1)
    BY <1>1, <1>5, StandsLess
  <2>2. Stands(Width, 4, Extra(c4))
    <3> HIDE DEF c4
    <3> QED BY <1>1, <1>3, <2>1
  <2> QED BY <1>0, <1>5, <2>2
<1> QED BY <1>2, <1>4, <1>5

\* A byte of an address moves pointer and length together.
LEMMA ByteStands ==
  ASSUME Ready, NEW lo \in Nat, NEW c, Stands(0, lo, c)
  PROVE  LET e == chkIPv4AddrByte(c)
             n == ByteDigits(c)
         IN  /\ Stands(0, lo, e) /\ n \in 0..c.len /\ e.p = c.p + n
             /\ e.ok <=> c.ok /\ n > 0 /\ DecimalAt(c.p, n) <= 255
<1> DEFINE n == ByteDigits(c)
           b == c.ok /\ n > 0 /\ DecimalAt(c.p, n) <= 255
           e == chkIPv4AddrByte(c)
<1>1. /\ c \in CursorSet /\ c.p \in Nat /\ c.len \in 0..(Width - 1) /\ Width \in Nat
      /\ offs \in Nat /\ Len(str) \in Nat /\ Len(after) \in Nat
  BY DEF Stands, CursorSet, Ready, StrOK
<1>2. RunOf(c.p, c.len, Digit) \in 0..c.len
  BY <1>1, RunBound
<1>3. n \in 0..c.len
  BY <1>1, <1>2 DEF ByteDigits
<1>4. b \in BOOLEAN /\ (b => c.ok)
  OBVIOUS
<1>5a. e = Cursor(b, c.p + n, c.len - n)
  BY Zenon DEF chkIPv4AddrByte
<1> HIDE DEF n, b, e
<1>5. e = [ok |-> b, p |-> c.p + n, len |-> (c.len - n) % Width]
  BY <1>5a DEF Cursor
<1>6. (c.len - n) % Width = c.len - n /\ c.len - n \in 0..(Width - 1) /\ c.p + n \in Nat
  <2>1. c.len - n \in 0..(Width - 1) /\ c.p + n \in Nat
    BY <1>1, <1>3
  <2> QED BY <2>1, <1>1, SMTT(30)
<1>7. e.ok = b /\ e.p = c.p + n /\ e.len = c.len - n
  BY <1>5, <1>6
<1>8. e \in CursorSet
  BY <1>5, <1>6, <1>4 DEF CursorSet
<1>9. ASSUME e.ok PROVE e.p + e.len = Len(str) + 0 /\ offs + lo <= e.p /\ e.p <= Buffer
  <2>1. c.ok
    BY <1>9, <1>7, <1>4
  <2>2. c.p + c.len = Len(str) + 0 /\ offs + lo <= c.p
    BY <2>1 DEF Stands
  <2>3. e.p + e.len = Len(str) + 0 /\ offs + lo <= e.p
    BY <2>2, <1>1, <1>3, <1>7
  <2>4. e.p <= Len(str) + Len(after)
    BY <2>3, <1>1, <1>3, <1>7
  <2> QED BY <2>3, <2>4 DEF Buffer
<1>10. Stands(0, lo, e)
  BY <1>8, <1>9 DEF Stands
<1> QED BY <1>3, <1>7, <1>10, Zenon DEF e, n, b

LEMMA IPv4Stands ==
  ASSUME Ready
  PROVE  \E c : Stands(0, 3, c) /\ IPv4 \in {Up(c), Up(Fail(Here))}
<1> DEFINE b1 == chkIPv4AddrByte(Here)
           c1 == b1 ** Lit({"."})
           b2 == chkIPv4AddrByte(c1)
           c2 == b2 ** Lit({"."})
           b3 == chkIPv4AddrByte(c2)
           c3 == b3 ** Lit({"."})
           b4 == chkIPv4AddrByte(c3)
<1>0. IPv4 \in {Up(b4), Up(Fail(Here))}
  BY DEF IPv4
<1>1. ASSUME NEW lo \in Nat, NEW c, Stands(0, lo, c)
      PROVE  Stands(0, lo, chkIPv4AddrByte(c))
  BY <1>1, ByteStands
<1>2. Stands(0, 0, b1)
  BY <1>1, HereStands
<1> HIDE DEF b1
<1>3. Stands(0, 1, c1)
  BY <1>2, LitStands
<1> HIDE DEF c1
<1>4. Stands(0, 1, b2)
  BY <1>1, <1>3
<1> HIDE DEF b2
<1>5. Stands(0, 2, c2)
  BY <1>4, LitStands
<1> HIDE DEF c2
<1>6. Stands(0, 2, b3)
  BY <1>1, <1>5
<1> HIDE DEF b3
<1>7. Stands(0, 3, c3)
  BY <1>6, LitStands
<1> HIDE DEF c3
<1>8. Stands(0, 3, b4)
  BY <1>1, <1>7
<1> HIDE DEF b4
<1> QED BY <1>0, <1>8

----------------------------------------------------------------------------
(* What the parsers find.                                                  *)

\* The bytes a cursor has gone over begin at the offset.
LEMMA UpIs ==
  ASSUME Ready, NEW d \in {0, 1, Width}, NEW lo \in Nat, lo > 1, NEW c,
         Stands(d, lo, c), c.ok
  PROVE  /\ Up(c).from = offs /\ Up(c).len \in 1..(Width - 1)
         /\ Up(c).next = offs + Up(c).len /\ Up(c).next < Width
         /\ d # Width => Up(c).next <= Len(str)
<1> DEFINE used == (Here.len - c.len) % Width
<1>0. /\ Len(str) \in Nat /\ Len(after) \in Nat /\ Width \in Nat /\ Len(str) + Len(after) < Width
      /\ offs \in Nat /\ offs < Len(str) /\ d \in Nat
  BY DEF Ready, StrOK, Buffer
<1>1. Here.len = Len(str) - offs
  BY HereStands
<1>2. c.p \in Nat /\ c.len \in Nat
  BY <1>0 DEF Stands, CursorSet
<1>3. c.p + c.len = Len(str) + d /\ offs + lo <= c.p /\ c.p <= Len(str) + Len(after)
  BY DEF Stands, Buffer
<1>m. ASSUME NEW x \in 1..(Width - 1) PROVE x % Width = x /\ (x - Width) % Width = x
  BY <1>0, <1>m
<1>4. Here.len - c.len = (c.p - offs) - d
  <2> DEFINE x == c.p
             l == c.len
             s == Len(str)
  <2>1. x \in Nat /\ l \in Nat /\ s \in Nat /\ x + l = s + d
    BY <1>0, <1>2, <1>3
  <2> HIDE DEF x, l, s
  <2>2. (s - offs) - l = (x - offs) - d
    BY <1>0, <2>1
  <2> QED BY <2>2, <1>1 DEF x, l, s
<1>5. /\ used \in 1..(Width - 1) /\ offs + used < Width
      /\ d # Width => offs + used <= Len(str)
  <2>1. CASE d \in {0, 1}
    <3>1. /\ (c.p - offs) - d \in 1..(Width - 1)
          /\ offs + ((c.p - offs) - d) < Width /\ offs + ((c.p - offs) - d) <= Len(str)
      <4> DEFINE x == c.p
                 l == c.len
                 s == Len(str)
                 t == Len(after)
      <4>1. /\ x \in Nat /\ l \in Nat /\ s \in Nat /\ t \in Nat
            /\ x + l = s + d /\ offs + lo <= x /\ x <= s + t /\ s + t < Width
        BY <1>0, <1>2, <1>3
      <4> HIDE DEF x, l, s, t
      <4>2. /\ (x - offs) - d \in 1..(Width - 1)
            /\ offs + ((x - offs) - d) < Width /\ offs + ((x - offs) - d) <= s
        BY <1>0, <2>1, <4>1
      <4> QED BY <4>2 DEF x, s
    <3>2. ((c.p - offs) - d) % Width = (c.p - offs) - d
      BY <3>1, <1>m
    <3>3. used = (c.p - offs) - d
      BY <1>4, <3>2
    <3> HIDE DEF used
    <3> QED BY <3>1, <3>3
  <2>2. CASE d = Width /\ d \notin {0, 1}
    <3>1. c.p - offs \in 1..(Width - 1) /\ c.p < Width
      BY <1>0, <1>2, <1>3, SMTT(30)
    <3>2. ((c.p - offs) - Width) % Width = c.p - offs
      BY <3>1, <1>m
    <3>3. used = c.p - offs
      BY <1>4, <2>2, <3>2
    <3> HIDE DEF used
    <3> QED BY <3>1, <3>3, <1>0, <1>2, <2>2
  <2> QED BY <2>1, <2>2
<1>6. Up(c) = Piece(c.ok, offs, used, offs + used)
  BY DEF Up
<1> HIDE DEF used
<1>7. (offs + used) % Width = offs + used
  <2>1. offs + used \in 0..(Width - 1)
    BY <1>0, <1>5
  <2> QED BY <2>1, <1>0, SMTT(30)
<1>8. Up(c).from = offs /\ Up(c).len = used /\ Up(c).next = offs + used
  BY <1>6, <1>7 DEF Piece
<1> QED BY <1>5, <1>8

\* What is asked of a piece that a parser p finds.
Fine(p, f) ==
  /\ f.from \in 0..(Width - 1) /\ f.len \in 0..(Width - 1) /\ f.next \in 0..(Width - 1)
  /\ p # "Number" => f.next > offs
  /\ ~(p = "RFC3164Date" /\ PadAtEnd) =>
       /\ f.next <= Len(str) /\ f.from >= offs /\ f.from + f.len <= f.next
       /\ p # "QuotedString" => f.from = offs /\ f.next = offs + f.len

\* A piece that was cut out by its length.
LEMMA PieceFine ==
  ASSUME Ready, NEW p, NEW ok, NEW from \in Nat, NEW len \in Nat, NEW next \in Nat,
         offs <= from, from + len <= next, next <= Len(str),
         p # "Number" => next > offs,
         p # "QuotedString" => from = offs /\ next = offs + len
  PROVE  Fine(p, Piece(ok, from, len, next))
<1> DEFINE f == Piece(ok, from, len, next)
<1>0. Len(str) \in Nat /\ Width \in Nat /\ Len(str) < Width /\ offs \in Nat
  BY DEF Ready, StrOK, Buffer
<1>1. next \in 0..(Width - 1) /\ from \in 0..(Width - 1) /\ len \in 0..(Width - 1)
  BY <1>0
<1>2. next % Width = next
  BY <1>0, <1>1
<1>3. f.from = from /\ f.len = len /\ f.next = next
  BY <1>2 DEF Piece
<1> HIDE DEF f
<1>4. Fine(p, f)
  BY <1>0, <1>1, <1>3 DEF Fine
<1> QED BY <1>4 DEF f

\* A piece that a cursor has gone over.
LEMMA UpFine ==
  ASSUME Ready, NEW p, NEW d \in {0, 1, Width}, NEW lo \in Nat, lo > 1, NEW c,
         Stands(d, lo, c), c.ok, d = Width => p = "RFC3164Date" /\ PadAtEnd
  PROVE  Fine(p, Up(c))
<1> DEFINE f == Up(c)
<1>0. Len(str) \in Nat /\ Width \in Nat /\ Len(str) < Width /\ offs \in Nat /\ offs < Len(str)
  BY DEF Ready, StrOK, Buffer
<1>1. /\ f.from = offs /\ f.len \in 1..(Width - 1) /\ f.next = offs + f.len /\ f.next < Width
      /\ d # Width => f.next <= Len(str)
  BY UpIs
<1> HIDE DEF f
<1>2. Fine(p, f)
  BY <1>0, <1>1 DEF Fine
<1> QED BY <1>2 DEF f

LEMMA PieceOk ==
  ASSUME NEW ok, NEW from, NEW len, NEW next
  PROVE  Piece(ok, from, len, next).ok = ok
BY DEF Piece

LEMMA UpOk == ASSUME NEW c PROVE Up(c).ok = c.ok
BY PieceOk DEF Up

LEMMA NumberFine == ASSUME Ready PROVE Fine("Number", Number)
<1> DEFINE c == Here ** Num(Nat)
           used == (Here.len - c.len) % Width
<1>0. Len(str) \in Nat /\ Width \in Nat /\ Len(str) < Width /\ offs \in Nat /\ offs < Len(str)
  BY DEF Ready, StrOK, Buffer
<1>1. Here \in CursorSet /\ Here.ok /\ Here.len = Len(str) - offs
  BY HereStands DEF Stands
<1>2. c.len \in 0..(Len(str) - offs)
  <2>1. c.len \in 0..Here.len
    BY <1>0, <1>1, NumMoves
  <2> QED BY <2>1, <1>1
<1> HIDE DEF c
<1>3. used \in Nat /\ offs + used <= Len(str)
  <2>1. Here.len - c.len \in 0..(Width - 1) /\ offs + (Here.len - c.len) <= Len(str)
    <3> DEFINE l == c.len
    <3>1. l \in 0..(Len(str) - offs)
      BY <1>2
    <3> HIDE DEF l
    <3>2. (Len(str) - offs) - l \in 0..(Width - 1) /\ offs + ((Len(str) - offs) - l) <= Len(str)
      BY <1>0, <3>1
    <3> QED BY <1>1, <3>2 DEF l
  <2>2. ASSUME NEW x \in 0..(Width - 1) PROVE x % Width = x
    BY <1>0, <2>2
  <2>3. used = Here.len - c.len
    BY <2>1, <2>2
  <2> HIDE DEF used
  <2> QED BY <2>1, <2>3, <1>0
<1>4. Up(c) = Piece(c.ok, offs, used, offs + used)
  BY DEF Up
<1> HIDE DEF used
<1>5. Fine("Number", Piece(c.ok, offs, used, offs + used))
  BY <1>0, <1>3, PieceFine
<1>6. Fine("Number", Up(c))
  BY <1>4, <1>5
<1>7. Number = [Up(c) EXCEPT !.ok = c.p # 0]
  BY DEF Number, c
<1>8. Number.from = Up(c).from /\ Number.len = Up(c).len /\ Number.next = Up(c).next
  BY <1>7, <1>4 DEF Piece
<1> HIDE DEF c
<1> QED BY <1>6, <1>8 DEF Fine

LEMMA FixedFine ==
  ASSUME Ready, NEW p, NEW n \in Nat, n > 0, NEW matches, Fixed(n, matches).ok
  PROVE  Fine(p, Fixed(n, matches))
<1>1. n <= Rest
  BY PieceOk DEF Fixed
<1>2. Len(str) \in Nat /\ offs \in Nat
  BY DEF Ready, StrOK
<1>3. offs + n <= Len(str) /\ offs + n \in Nat
  BY <1>1, <1>2 DEF Rest
<1>4. Fine(p, Piece(n <= Rest /\ matches, offs, n, offs + n))
  BY <1>2, <1>3, PieceFine
<1> QED BY <1>4 DEF Fixed

(* Every parser that accepts finds a piece of the string.                  *)
LEMMA FoundFine ==
  ASSUME Ready, NEW p \in Names, NEW t, Found(p, t).ok
  PROVE  Fine(p, Found(p, t))
<1>0. /\ Len(str) \in Nat /\ Width \in Nat /\ Len(str) < Width /\ offs \in Nat /\ offs < Len(str)
      /\ Rest \in Nat /\ Rest = Len(str) - offs
  BY DEF Ready, StrOK, Buffer, Rest
<1>w. 0 # Width /\ 1 # Width /\ 0 \in {0, 1, Width} /\ 1 \in {0, 1, Width} /\ Width \in {0, 1, Width}
  <2>1. Width > 1
    BY <1>0
  <2> QED BY <2>1
<1>1. CASE p = "RFC5424Date"
  <2>1. Found(p, t) = Up(RFC5424Date)
    BY <1>1 DEF Found
  <2> DEFINE c == RFC5424Date
  <2>2. c.ok
    BY <2>1, UpOk
  <2>3. Stands(0, 5, c) \/ Stands(1, 6, c)
    BY RFC5424DateStands
  <2> HIDE DEF c
  <2>4. CASE Stands(0, 5, c)
    <3>1. 5 \in Nat /\ 5 > 1 /\ (0 = Width => p = "RFC3164Date" /\ PadAtEnd)
      BY <1>w
    <3> QED BY <1>w, <2>1, <2>2, <2>4, <3>1, UpFine DEF c
  <2>5. CASE Stands(1, 6, c)
    <3>1. 6 \in Nat /\ 6 > 1 /\ (1 = Width => p = "RFC3164Date" /\ PadAtEnd)
      BY <1>w
    <3> QED BY <1>w, <2>1, <2>2, <2>5, <3>1, UpFine DEF c
  <2> QED BY <2>3, <2>4, <2>5
<1>2. CASE p = "RFC3164Date"
  <2>1. Found(p, t) = Up(RFC3164Date)
    BY <1>2 DEF Found
  <2> DEFINE c == RFC3164Date
  <2>2. c.ok
    BY <2>1, UpOk
  <2>3. Stands(0, 4, c) \/ (PadAtEnd /\ Stands(Width, 4, c))
    BY RFC3164DateStands
  <2> HIDE DEF c
  <2> DEFINE lo == 4
  <2>4. lo \in Nat /\ lo > 1
    OBVIOUS
  <2>5. CASE Stands(0, lo, c)
    <3> HIDE DEF lo
    <3>1. 0 = Width => p = "RFC3164Date" /\ PadAtEnd
      BY <1>w
    <3> QED BY <1>w, <2>1, <2>2, <2>4, <2>5, <3>1, UpFine DEF c
  <2>6. CASE PadAtEnd /\ Stands(Width, lo, c)
    <3> HIDE DEF lo
    <3>1. Width = Width => p = "RFC3164Date" /\ PadAtEnd
      BY <1>2, <2>6
    <3> QED BY <1>w, <2>1, <2>2, <2>4, <2>6, <3>1, UpFine DEF c
  <2> QED BY <2>3, <2>5, <2>6
<1>3. CASE p = "Number"
  <2>1. Found(p, t) = Number
    BY <1>3 DEF Found
  <2> QED BY <1>3, <2>1, NumberFine
<1>4. CASE p = "Word"
  <2> DEFINE n == RunTo(offs, Rest, " ")
  <2> DEFINE ok == n > 0
  <2>1. Found(p, t) = Piece(ok, offs, n, offs + n)
    BY <1>4 DEF Found, Word
  <2>2. n \in 0..Rest
    BY <1>0, RunToBound
  <2> HIDE DEF n, ok
  <2>3. n > 0
    <3>1. Found(p, t).ok = ok
      BY <2>1 DEF Piece
    <3>2. ok
      BY <3>1
    <3> QED BY <3>2 DEF ok
  <2>4. offs + n \in Nat /\ n \in Nat /\ offs + n <= Len(str) /\ offs + n > offs
    BY <1>0, <2>2, <2>3
  <2>5. Fine(p, Piece(ok, offs, n, offs + n))
    BY <1>0, <2>4, PieceFine
  <2> QED BY <2>1, <2>5
<1>5. CASE p = "CharTo"
  <2> DEFINE n == RunTo(offs, Rest, t)
  <2>1. Found(p, t) = Piece(n > 0 /\ n < Rest, offs, n, offs + n)
    BY <1>5 DEF Found, CharTo
  <2>2. n \in 0..Rest
    BY <1>0, RunToBound
  <2>3. n > 0
    BY <2>1, PieceOk
  <2> HIDE DEF n
  <2>4. offs + n \in Nat /\ n \in Nat /\ offs + n <= Len(str) /\ offs + n > offs
    BY <1>0, <2>2, <2>3
  <2>5. Fine(p, Piece(n > 0 /\ n < Rest, offs, n, offs + n))
    BY <1>0, <2>4, PieceFine
  <2> QED BY <2>1, <2>5
<1>6. CASE p = "QuotedString"
  <2> DEFINE n == RunTo(offs + 1, Rest - 1, "\"")
             ok == At(offs) = "\"" /\ n + 1 < Rest
  <2>1. Found(p, t) = Piece(ok, offs + 1, n, offs + n + 2)
    BY <1>6 DEF Found, QuotedString
  <2>2. n \in 0..(Rest - 1)
    <3>1. Rest - 1 \in Nat
      BY <1>0
    <3> QED BY <3>1, RunToBound
  <2>3. n + 1 < Rest
    <3>1. ok
      BY <2>1, PieceOk
    <3> QED BY <3>1
  <2> HIDE DEF n, ok
  <2>4. /\ offs + 1 \in Nat /\ n \in Nat /\ offs + n + 2 \in Nat /\ offs <= offs + 1
        /\ (offs + 1) + n <= offs + n + 2 /\ offs + n + 2 <= Len(str) /\ offs + n + 2 > offs
    BY <1>0, <2>2, <2>3
  <2>5. Fine(p, Piece(ok, offs + 1, n, offs + n + 2))
    BY <1>6, <2>4, PieceFine
  <2> QED BY <2>1, <2>5
<1>7. CASE p = "ISODate"
  <2> DEFINE m == /\ \A i \in 0..3 : At(offs + i) \in Digit
                  /\ At(offs + 4) = "-" /\ At(offs + 7) = "-"
                  /\ Two(5) \in ({"0"} \X (Digit \ {"0"})) \cup ({"1"} \X {"0", "1", "2"})
                  /\ Two(8) \in ({"0"} \X (Digit \ {"0"})) \cup ({"1", "2"} \X Digit)
                                \cup ({"3"} \X {"0", "1"})
  <2>1. Found(p, t) = Fixed(10, m)
    BY <1>7 DEF Found, ISODate
  <2> HIDE DEF m
  <2> QED BY <2>1, FixedFine
<1>8. ASSUME NEW hours, Found(p, t) = Time(hours) PROVE Fine(p, Found(p, t))
  <2> DEFINE m == /\ Two(0) \in hours
                  /\ At(offs + 2) = ":" /\ At(offs + 5) = ":"
                  /\ \A i \in {3, 6} : Two(i) \in {"0", "1", "2", "3", "4", "5"} \X Digit
  <2>1. Found(p, t) = Fixed(8, m)
    BY <1>8 DEF Time
  <2> HIDE DEF m
  <2> QED BY <2>1, FixedFine
<1>9. CASE p = "Time24hr"
  <2>1. Found(p, t) = Time24hr
    BY <1>9 DEF Found
  <2> QED BY <2>1, <1>8 DEF Time24hr
<1>10. CASE p = "Time12hr"
  <2>1. Found(p, t) = Time12hr
    BY <1>10 DEF Found
  <2> QED BY <2>1, <1>8 DEF Time12hr
<1>11. CASE p = "IPv4"
  <2>1. Found(p, t) = IPv4
    BY <1>11 DEF Found
  <2>2. PICK c : Stands(0, 3, c) /\ IPv4 \in {Up(c), Up(Fail(Here))}
    BY IPv4Stands
  <2>3. ~Up(Fail(Here)).ok
    <3>1. ~Fail(Here).ok
      BY HereStands DEF Fail, Stands, CursorSet
    <3> QED BY <3>1, UpOk
  <2>4. Found(p, t) = Up(c) /\ c.ok
    BY <2>1, <2>2, <2>3, UpOk
  <2>5. Stands(0, 3, c)
    BY <2>2
  <2>6. 3 \in Nat /\ 3 > 1 /\ (0 = Width => p = "RFC3164Date" /\ PadAtEnd)
    BY <1>w
  <2> QED BY <1>w, <2>4, <2>5, <2>6, UpFine
<1> QED BY <1>1, <1>2, <1>3, <1>4, <1>5, <1>6, <1>7, <1>9, <1>10, <1>11 DEF Names, Dates

----------------------------------------------------------------------------
(* The inductive invariant: the string fits the width, what a call         *)
(* returned is in its place, and a client that calls has taken the result. *)

IInv == StrOK /\ TypeOK /\ InString /\ (pc = "client" => r = None)

LEMMA InitIInv == Init => IInv
<1> SUFFICES ASSUME Init PROVE IInv
  OBVIOUS
<1>1. PICK in \in Inputs : str = in.str /\ after = in.after
  BY DEF Init
<1>2. StrOK
  BY <1>1, ParsersAssumption DEF StrOK, Buffer
<1>3. Len(str) \in Nat /\ Width \in Nat /\ 0 < Width
  <2>1. Len(str) \in Nat /\ Len(after) \in Nat
    BY <1>2 DEF StrOK
  <2> QED BY <1>2, <2>1 DEF StrOK, Buffer
<1>4. TypeOK
  BY <1>3, ParsersAssumption DEF Init, TypeOK
<1>5. InString
  BY DEF Init, InString
<1> QED BY <1>2, <1>4, <1>5 DEF IInv, Init

\* A call is made where there is something left to parse.
LEMMA CallReady ==
  ASSUME IInv, NEW p, NEW t, Call(p, t)
  PROVE  /\ Ready /\ StrOK' /\ start' = offs /\ start' \in 0..Len(str')
         /\ by' = p /\ term' = t /\ Len(str') = Len(str) /\ r = None
         /\ MonthAtEnd' = (p = "RFC3164Date" /\ PadAtEnd)
<1>1. offs \in Nat /\ offs < Len(str) /\ str' = str /\ after' = after /\ StrOK /\ r = None
  BY DEF IInv, TypeOK, Call, input
<1>2. Ready
  BY <1>1 DEF Ready
<1>3. StrOK'
  BY <1>1 DEF StrOK, Buffer
<1>4. start' = offs /\ by' = p /\ term' = t
  BY DEF Call
<1>5. Given' = SubSeq(str, offs + 1, Len(str))
  BY <1>1, <1>4 DEF Given
<1>6. MonthAtEnd' = (p = "RFC3164Date" /\ PadAtEnd)
  BY <1>1, <1>4, <1>5 DEF MonthAtEnd, PadAtEnd
<1>7. Len(str) \in Nat
  BY <1>1 DEF StrOK
<1> QED BY <1>1, <1>2, <1>3, <1>4, <1>6, <1>7

LEMMA RefuseIInv ==
  ASSUME IInv, NEW p \in Names, NEW t \in Terms \cup {None}, Refuse(p, t)
  PROVE  IInv'
<1>1. Call(p, t) /\ pc' = "back" /\ r' = "wrong" /\ offs' = offs /\ value' = value
  BY DEF Refuse
<1>2. /\ Ready /\ StrOK' /\ start' \in 0..Len(str') /\ by' = p /\ term' = t
      /\ Len(str') = Len(str)
  BY <1>1, CallReady
<1>3. TypeOK'
  BY <1>1, <1>2 DEF TypeOK, IInv
<1>4. InString'
  BY <1>1, <1>2 DEF InString, Ready, StrOK
<1> QED BY <1>1, <1>2, <1>3, <1>4 DEF IInv

LEMMA AcceptIInv ==
  ASSUME IInv, NEW p \in Names, NEW t \in Terms \cup {None}, Accept(p, t)
  PROVE  IInv'
<1> DEFINE f == Found(p, t)
<1>1. /\ Call(p, t) /\ f.ok /\ pc' = "back" /\ r' = "ok" /\ offs' = f.next
      /\ value' = [from |-> f.from, len |-> f.len]
  BY DEF Accept
<1>2. /\ Ready /\ StrOK' /\ start' \in 0..Len(str') /\ start' = offs /\ by' = p /\ term' = t
      /\ Len(str') = Len(str) /\ MonthAtEnd' = (p = "RFC3164Date" /\ PadAtEnd)
  BY <1>1, CallReady
<1>3. Fine(p, f)
  BY <1>1, <1>2, FoundFine
<1> HIDE DEF f
<1>4. TypeOK'
  <2>1. /\ f.from \in 0..(Width - 1) /\ f.len \in 0..(Width - 1)
        /\ f.next \in 0..(Width - 1) /\ Width \in Nat
    BY <1>2, <1>3 DEF Fine, Ready, StrOK
  <2>2. value' \in [from : 0..(Width - 1), len : 0..(Width - 1)] /\ value' \in [from : Nat, len : Nat]
    BY <1>1, <2>1
  <2>3. value' # None
    BY <2>2, ParsersAssumption
  <2> QED BY <1>1, <1>2, <2>1, <2>2, <2>3 DEF TypeOK
<1>5. InString'
  <2>1. value'.from = f.from /\ value'.len = f.len
    BY <1>1
  <2>2. ASSUME ~MonthAtEnd'
        PROVE  /\ f.next <= Len(str) /\ f.from >= offs /\ f.from + f.len <= f.next
               /\ p # "QuotedString" => f.from = offs /\ f.next = offs + f.len
    BY <1>2, <1>3, <2>2 DEF Fine
  <2> QED BY <1>1, <1>2, <2>1, <2>2 DEF InString
<1> QED BY <1>1, <1>2, <1>4, <1>5 DEF IInv

LEMMA NoValueIInv ==
  ASSUME IInv, NEW p \in Names, NEW t \in Terms \cup {None}, NoValue(p, t)
  PROVE  IInv'
<1>1. /\ Call(p, t) /\ offs' = offs /\ value' = value
      /\ \/ pc' = "crashed" /\ r' = r
         \/ pc' = "back" /\ r' = "nomem"
  BY DEF NoValue
<1>2. /\ Ready /\ StrOK' /\ start' \in 0..Len(str') /\ by' = p /\ term' = t
      /\ Len(str') = Len(str)
  BY <1>1, CallReady
<1>3. TypeOK'
  BY <1>1, <1>2 DEF TypeOK, IInv
<1>4. InString'
  BY <1>1, <1>2 DEF InString, Ready, StrOK
<1> QED BY <1>1, <1>2, <1>3, <1>4 DEF IInv

LEMMA NoStringIInv ==
  ASSUME IInv, NEW p \in Names, NEW t \in Terms \cup {None}, NoString(p, t)
  PROVE  IInv'
<1> DEFINE f == Found(p, t)
<1>1. /\ Call(p, t) /\ f.ok /\ pc' = "back" /\ value' = NoStr
      /\ \/ r' = "ok" /\ offs' = f.next
         \/ r' = "nomem" /\ offs' = offs
  BY DEF NoString
<1>2. /\ Ready /\ StrOK' /\ start' \in 0..Len(str') /\ start' = offs /\ by' = p /\ term' = t
      /\ Len(str') = Len(str) /\ MonthAtEnd' = (p = "RFC3164Date" /\ PadAtEnd)
  BY <1>1, CallReady
<1>3. Fine(p, f)
  BY <1>1, <1>2, FoundFine
<1> HIDE DEF f
<1>4. /\ offs' \in 0..(Width - 1)
      /\ ~MonthAtEnd' => offs' <= Len(str')
  <2>1. CASE offs' = offs
    BY <1>2, <2>1 DEF IInv, TypeOK, Ready, StrOK
  <2>2. CASE offs' = f.next
    BY <1>2, <1>3, <2>2 DEF Fine
  <2> QED BY <1>1, <2>1, <2>2
<1>5. TypeOK'
  BY <1>1, <1>2, <1>4, ParsersAssumption DEF TypeOK
<1>6. InString'
  BY <1>1, <1>4 DEF InString
<1> QED BY <1>1, <1>2, <1>5, <1>6 DEF IInv

LEMMA ClientIInv ==
  ASSUME IInv, Take \/ Skip
  PROVE  IInv'
<1>0. str' = str /\ after' = after
  BY DEF Take, Skip, input
<1>1. StrOK'
  BY <1>0 DEF IInv, StrOK, Buffer
<1>2. Len(str) \in Nat /\ Len(after) \in Nat /\ Width \in Nat /\ Len(str) < Width
  BY DEF IInv, StrOK, Buffer
<1>3. CASE Take
  <2>1. TypeOK'
    BY <1>0, <1>2, <1>3, ParsersAssumption DEF IInv, TypeOK, Take
  <2> QED BY <1>1, <1>3, <2>1 DEF IInv, InString, Take
<1>4. CASE Skip
  <2>0. /\ UNCHANGED <<pc, by, term, start, r, value>>
        /\ pc = "client" /\ offs < Len(str) /\ offs' = offs + 1
    BY <1>4 DEF Skip
  <2>1. offs' \in 0..(Width - 1)
    BY <1>2, <2>0 DEF IInv, TypeOK
  <2>2. TypeOK'
    BY <1>0, <2>0, <2>1 DEF IInv, TypeOK
  <2> QED BY <1>1, <2>0, <2>2 DEF IInv, InString
<1> QED BY <1>3, <1>4

LEMMA NextIInv == IInv /\ [Next]_vars => IInv'
<1> SUFFICES ASSUME IInv, [Next]_vars PROVE IInv'
  OBVIOUS
<1>1. ASSUME NEW p \in Names, NEW t \in Terms \cup {None}, Parse(p, t) PROVE IInv'
  BY <1>1, RefuseIInv, AcceptIInv, NoValueIInv, NoStringIInv DEF Parse
<1>2. CASE \E p \in Names \ {"CharTo"} : Parse(p, None)
  BY <1>1, <1>2
<1>3. CASE \E t \in Terms : Parse("CharTo", t)
  BY <1>1, <1>3 DEF Names
<1>4. CASE Take \/ Skip
  BY <1>4, ClientIInv
<1>5. CASE UNCHANGED vars
  BY <1>5 DEF vars, IInv, StrOK, Buffer, TypeOK, InString, MonthAtEnd, Given
<1> QED BY <1>2, <1>3, <1>4, <1>5 DEF Next

LEMMA Invariant == Spec => []IInv
BY InitIInv, NextIInv, PTL DEF Spec

(* Every variable keeps its type, whatever is parsed: offsets and lengths  *)
(* of the parsers (primitivetype.c:125-857) stay below the width.          *)
THEOREM TypeCorrect == Spec => []TypeOK
<1>1. IInv => TypeOK
  BY DEF IInv
<1> QED BY <1>1, Invariant, PTL

(* Whatever is parsed, with whatever behind it in memory, the bytes a      *)
(* parser copies and the offset it returns are inside the string, apart    *)
(* from the blank behind a month (primitivetype.c:414).                    *)
THEOREM Inside == Spec => []InString
<1>1. IInv => InString
  BY DEF IInv
<1> QED BY <1>1, Invariant, PTL

\* A call that succeeds gets on; one that fails stays.
LEMMA ParseGetsOn ==
  ASSUME IInv, NEW p \in Names, NEW t, Parse(p, t)
  PROVE  IF r' = "ok" THEN offs' > offs \/ by' = "Number" ELSE offs' = offs
<1>1. Call(p, t) /\ Ready /\ by' = p /\ r # "ok"
  BY CallReady, ParsersAssumption DEF Parse, Refuse, Accept, NoValue, NoString
<1>2. ASSUME Found(p, t).ok PROVE p # "Number" => Found(p, t).next > offs
  BY <1>1, <1>2, FoundFine DEF Fine
<1>3. CASE Refuse(p, t)
  BY <1>3 DEF Refuse
<1>4. CASE Accept(p, t)
  BY <1>1, <1>2, <1>4 DEF Accept
<1>5. CASE NoValue(p, t)
  BY <1>1, <1>5 DEF NoValue
<1>6. CASE NoString(p, t)
  BY <1>1, <1>2, <1>6 DEF NoString
<1> QED BY <1>3, <1>4, <1>5, <1>6 DEF Parse

(* A parser that succeeds has moved the offset, so that a client that      *)
(* parses in a loop comes to an end, and one that fails leaves it; a       *)
(* length that wrapped (primitivetype.c:414) does not move it back.        *)
THEOREM Progress == Spec => GetsOn
<1>1. IInv /\ [Next]_vars =>
        [pc = "client" /\ pc' # "client" =>
           IF r' = "ok" THEN offs' > offs \/ by' = "Number" ELSE offs' = offs]_vars
  <2> SUFFICES ASSUME IInv, Next, pc = "client", pc' # "client"
               PROVE  IF r' = "ok" THEN offs' > offs \/ by' = "Number" ELSE offs' = offs
    BY DEF vars
  <2>1. CASE \E p \in Names \ {"CharTo"} : Parse(p, None)
    BY <2>1, ParseGetsOn
  <2>2. CASE \E t \in Terms : Parse("CharTo", t)
    BY <2>2, ParseGetsOn DEF Names
  <2>3. CASE Take \/ Skip
    BY <2>3 DEF Take, Skip
  <2> QED BY <2>1, <2>2, <2>3 DEF Next
<1> QED BY <1>1, Invariant, PTL DEF Spec, GetsOn

----------------------------------------------------------------------------
(* The parts of a text.                                                    *)

\* c[i] are the cuts among the first i places, for i up to n: the recursive
\* function inside Cuts.
CutsTo(c, t, n) ==
  c = [i \in 0..n |-> IF i = 0 THEN <<>>
                      ELSE IF IsDigitOf(t, i) THEN c[i - 1] ELSE Append(c[i - 1], i)]

\* For every length there is such a function, so that CHOOSE finds it.
LEMMA CutsExist == ASSUME NEW t, NEW m \in Nat PROVE \E c : CutsTo(c, t, m)
<1> DEFINE T == {n \in Nat : ~\E c : CutsTo(c, t, n)}
<1> SUFFICES ASSUME T # {} PROVE FALSE
  OBVIOUS
<1>1. PICK n \in T : \A k \in T : n <= k
  <2> HIDE DEF T
  <2>1. T \in SUBSET Nat
    BY DEF T
  <2> QED BY <2>1, Least
<1>2. ~\E c : CutsTo(c, t, n)
  OBVIOUS
<1>3. n # 0
  <2> SUFFICES ASSUME n = 0 PROVE FALSE
    OBVIOUS
  <2> DEFINE c == [i \in 0..0 |-> <<>>]
  <2>1. c = [i \in 0..0 |-> IF i = 0 THEN <<>>
                            ELSE IF IsDigitOf(t, i) THEN c[i - 1] ELSE Append(c[i - 1], i)]
    OBVIOUS
  <2>2. CutsTo(c, t, 0)
    BY <2>1 DEF CutsTo
  <2> QED BY <1>2, <2>2
<1>4. n - 1 \in Nat /\ n - 1 \notin T
  BY <1>1, <1>3
<1>5. PICK c : CutsTo(c, t, n - 1)
  BY <1>4
<1> DEFINE last == IF IsDigitOf(t, n) THEN c[n - 1] ELSE Append(c[n - 1], n)
           h == [i \in 0..n |-> IF i = n THEN last ELSE c[i]]
<1>6. \A i \in 0..n : h[i] = IF i = 0 THEN <<>>
                             ELSE IF IsDigitOf(t, i) THEN h[i - 1] ELSE Append(h[i - 1], i)
  <2> SUFFICES ASSUME NEW i \in 0..n
               PROVE  h[i] = IF i = 0 THEN <<>>
                             ELSE IF IsDigitOf(t, i) THEN h[i - 1] ELSE Append(h[i - 1], i)
    OBVIOUS
  <2>0. i # 0 => i - 1 \in 0..n /\ i - 1 # n /\ h[i - 1] = c[i - 1]
    BY <1>4
  <2>1. CASE i = n
    BY <1>3, <2>0, <2>1
  <2>2. CASE i # n
    <3>1. i \in 0..(n - 1) /\ h[i] = c[i]
      BY <2>2
    <3>2. c[i] = IF i = 0 THEN <<>>
                 ELSE IF IsDigitOf(t, i) THEN c[i - 1] ELSE Append(c[i - 1], i)
      BY <1>5, <3>1 DEF CutsTo
    <3> QED BY <2>0, <3>1, <3>2
  <2> QED BY <2>1, <2>2
<1>7. h = [i \in 0..n |-> h[i]]
  OBVIOUS
<1>8. CutsTo(h, t, n)
  <2> HIDE DEF h
  <2> QED BY <1>6, <1>7 DEF CutsTo
<1> QED BY <1>2, <1>8

\* s holds, in order, the places up to i where t has no digit.
CutsAre(s, t, i) ==
  /\ s \in Seq(Nat)
  /\ \A k \in 1..Len(s) : s[k] \in 1..i /\ ~IsDigitOf(t, s[k])
  /\ \A k, m \in 1..Len(s) : k < m => s[k] < s[m]
  /\ \A j \in 1..i : ~IsDigitOf(t, j) => \E k \in 1..Len(s) : s[k] = j

LEMMA CutsAreStep ==
  ASSUME NEW t, NEW s, NEW i \in Nat, i > 0, CutsAre(s, t, i - 1)
  PROVE  CutsAre(IF IsDigitOf(t, i) THEN s ELSE Append(s, i), t, i)
<1>1. CASE IsDigitOf(t, i)
  BY <1>1 DEF CutsAre
<1>2. CASE ~IsDigitOf(t, i)
  <2> DEFINE u == Append(s, i)
             n == Len(s)
  <2>1. /\ u \in Seq(Nat) /\ Len(u) = n + 1 /\ n \in Nat /\ u[n + 1] = i
        /\ \A k \in 1..n : u[k] = s[k]
    BY AppendProperties DEF CutsAre
  <2> HIDE DEF u
  <2>2. \A k \in 1..n : s[k] \in 1..(i - 1) /\ ~IsDigitOf(t, s[k])
    BY DEF CutsAre
  <2>3. \A k, m \in 1..n : k < m => s[k] < s[m]
    BY DEF CutsAre
  <2>4. \A j \in 1..(i - 1) : ~IsDigitOf(t, j) => \E k \in 1..n : s[k] = j
    BY DEF CutsAre
  <2> HIDE DEF n
  <2>5. \A k \in 1..(n + 1) : k \in 1..n \/ k = n + 1
    BY <2>1
  <2>6. \A k \in 1..(n + 1) : u[k] \in 1..i /\ ~IsDigitOf(t, u[k])
    BY <1>2, <2>1, <2>2, <2>5
  <2>7. ASSUME NEW k \in 1..(n + 1), NEW m \in 1..(n + 1), k < m PROVE u[k] < u[m]
    <3>1. k \in 1..n
      BY <2>1, <2>7
    <3>2. u[k] = s[k] /\ s[k] \in 1..(i - 1)
      BY <2>1, <2>2, <3>1
    <3>3. CASE m \in 1..n
      BY <2>1, <2>3, <2>7, <3>1, <3>3
    <3>4. CASE m = n + 1
      BY <2>1, <3>2, <3>4
    <3> QED BY <2>5, <3>3, <3>4
  <2>8. ASSUME NEW j \in 1..i, ~IsDigitOf(t, j) PROVE \E k \in 1..(n + 1) : u[k] = j
    <3>1. CASE j = i
      <4>1. n + 1 \in 1..(n + 1)
        BY <2>1
      <4> QED BY <2>1, <3>1, <4>1
    <3>2. CASE j # i
      <4>1. PICK k \in 1..n : s[k] = j
        BY <2>4, <2>8, <3>2
      <4>2. k \in 1..(n + 1) /\ u[k] = j
        BY <2>1, <4>1
      <4> QED BY <4>2
    <3> QED BY <3>1, <3>2
  <2>9. CutsAre(u, t, i)
    BY <2>1, <2>6, <2>7, <2>8 DEF CutsAre
  <2> QED BY <1>2, <2>9 DEF u
<1> QED BY <1>1, <1>2

\* Cuts(t) are the cuts of t.
LEMMA CutsOf ==
  ASSUME NEW t, Len(t) \in Nat
  PROVE  CutsAre(Cuts(t), t, Len(t) + 1)
<1> DEFINE n == Len(t) + 1
           c == CHOOSE f : f = [i \in 0..n |->
                  IF i = 0 THEN <<>>
                  ELSE IF IsDigitOf(t, i) THEN f[i - 1] ELSE Append(f[i - 1], i)]
<1>1. CutsTo(c, t, n)
  <2>1. n \in Nat
    OBVIOUS
  <2> HIDE DEF n
  <2>2. PICK f : CutsTo(f, t, n)
    BY <2>1, CutsExist
  <2> QED BY <2>2, Zenon DEF CutsTo
<1>2. Cuts(t) = c[n]
  BY Zenon DEF Cuts
<1>3. n \in Nat
  OBVIOUS
<1> HIDE DEF c, n
<1>4. \A i \in 0..n : c[i] = IF i = 0 THEN <<>>
                             ELSE IF IsDigitOf(t, i) THEN c[i - 1] ELSE Append(c[i - 1], i)
  BY <1>1, Zenon DEF CutsTo
<1> DEFINE T == {i \in 0..n : ~CutsAre(c[i], t, i)}
<1>5. T = {}
  <2> SUFFICES ASSUME T # {} PROVE FALSE
    OBVIOUS
  <2>1. PICK k \in T : \A i \in T : k <= i
    <3>1. T \in SUBSET Nat
      BY <1>3
    <3> HIDE DEF T
    <3> QED BY <3>1, Least
  <2>2. k \in 0..n /\ ~CutsAre(c[k], t, k)
    OBVIOUS
  <2>3. k # 0
    <3> SUFFICES ASSUME k = 0 PROVE FALSE
      OBVIOUS
    <3>1. c[0] = <<>>
      BY <1>3, <1>4
    <3>2. CutsAre(<<>>, t, 0)
      BY DEF CutsAre
    <3> QED BY <2>2, <3>1, <3>2
  <2>4. k - 1 \in 0..n /\ k - 1 \notin T /\ k \in Nat /\ k > 0
    BY <1>3, <2>1, <2>2, <2>3
  <2>5. CutsAre(c[k - 1], t, k - 1)
    BY <2>4
  <2>6. c[k] = IF IsDigitOf(t, k) THEN c[k - 1] ELSE Append(c[k - 1], k)
    BY <1>4, <2>2, <2>3
  <2> HIDE DEF T
  <2>7. CutsAre(IF IsDigitOf(t, k) THEN c[k - 1] ELSE Append(c[k - 1], k), t, k)
    BY <2>4, <2>5, CutsAreStep
  <2> QED BY <2>2, <2>6, <2>7
<1>6. n \in 0..n
  BY <1>3
<1> QED BY <1>2, <1>5, <1>6 DEF n

\* Where the k-th part begins: how many places are before it.
Begin(parts, k) == IF k = 1 THEN 0 ELSE parts[k - 1].at

\* What is known of the k-th part of t: its digits, and what ends it.
PartIs(t, parts, k) ==
  LET b == Begin(parts, k)
      e == parts[k].at
  IN  /\ b \in Nat /\ e \in (b + 1)..(Len(t) + 1) /\ parts[k].n = e - b - 1
      /\ parts[k].num = Decimal(SubSeq(t, b + 1, e - 1))
      /\ \A i \in (b + 1)..(e - 1) : t[i] \in Digit
      /\ e <= Len(t) => parts[k].sep = t[e] /\ t[e] \notin Digit /\ k < Len(parts)
      /\ e > Len(t) => parts[k].sep = "end" /\ k = Len(parts)

LEMMA PartsAre ==
  ASSUME NEW t, Len(t) \in Nat
  PROVE  /\ Len(Parts(t)) \in Nat \ {0} /\ DOMAIN Parts(t) = 1..Len(Parts(t))
         /\ \A k \in 1..Len(Parts(t)) : PartIs(t, Parts(t), k)
<1> DEFINE cut == Cuts(t)
           m == Len(cut)
           l == Len(t)
           from(k) == IF k = 1 THEN 1 ELSE cut[k - 1] + 1
           ps == Parts(t)
<1>1. ps = [k \in 1..m |->
              [num |-> Decimal(SubSeq(t, from(k), cut[k] - 1)),
               n   |-> cut[k] - from(k),
               sep |-> IF cut[k] <= Len(t) THEN t[cut[k]] ELSE "end",
               at  |-> cut[k]]]
  BY Zenon DEF Parts
<1>2. /\ m \in Nat
      /\ \A k \in 1..m : cut[k] \in 1..(l + 1) /\ ~IsDigitOf(t, cut[k])
      /\ \A k, j \in 1..m : k < j => cut[k] < cut[j]
      /\ \A j \in 1..(l + 1) : ~IsDigitOf(t, j) => \E k \in 1..m : cut[k] = j
  BY CutsOf DEF CutsAre
<1> HIDE DEF cut, m, ps
<1>3. Len(ps) = m /\ DOMAIN ps = 1..m
  BY <1>1, <1>2
<1>4. \A k \in 1..m : /\ ps[k].num = Decimal(SubSeq(t, from(k), cut[k] - 1))
                      /\ ps[k].n = cut[k] - from(k)
                      /\ ps[k].sep = IF cut[k] <= l THEN t[cut[k]] ELSE "end"
                      /\ ps[k].at = cut[k]
  BY <1>1, Zenon
<1>5. PICK z \in 1..m : cut[z] = l + 1
  <2>1. l + 1 \in 1..(l + 1) /\ ~IsDigitOf(t, l + 1)
    BY DEF IsDigitOf
  <2> QED BY <1>2, <2>1
<1>6. z = m
  <2>1. m \in 1..m
    BY <1>2
  <2>2. CASE z < m
    <3>1. cut[z] < cut[m] /\ cut[m] \in 1..(l + 1)
      BY <1>2, <2>1, <2>2
    <3> QED BY <1>5, <3>1
  <2> QED BY <1>2, <2>2
<1>7. ASSUME NEW k \in 1..m PROVE PartIs(t, ps, k)
  <2> DEFINE b == IF k = 1 THEN 0 ELSE cut[k - 1]
             e == cut[k]
  <2>1. Begin(ps, k) = b
    <3>1. CASE k = 1
      BY <3>1 DEF Begin
    <3>2. CASE k # 1
      <4>1. k - 1 \in 1..m
        BY <1>2, <3>2
      <4> QED BY <1>4, <3>2, <4>1 DEF Begin
    <3> QED BY <3>1, <3>2
  <2>2. b \in Nat /\ e \in (b + 1)..(l + 1) /\ from(k) = b + 1
    <3>1. CASE k = 1
      BY <1>2, <3>1
    <3>2. CASE k # 1
      <4>1. k - 1 \in 1..m /\ k - 1 < k
        BY <1>2, <3>2
      <4>2. cut[k - 1] < cut[k] /\ cut[k - 1] \in 1..(l + 1) /\ cut[k] \in 1..(l + 1)
        BY <1>2, <4>1
      <4> QED BY <3>2, <4>2
    <3> QED BY <3>1, <3>2
  <2>3. /\ ps[k].num = Decimal(SubSeq(t, b + 1, e - 1)) /\ ps[k].n = e - b - 1
        /\ ps[k].sep = (IF e <= l THEN t[e] ELSE "end") /\ ps[k].at = e
    <3>1. ps[k].num = Decimal(SubSeq(t, b + 1, e - 1))
      BY <1>4, <2>2
    <3>2. ps[k].n = e - (b + 1)
      BY <1>4, <2>2
    <3>3. e - (b + 1) = e - b - 1
      <4> HIDE DEF b, e
      <4> QED BY <2>2
    <3> QED BY <1>4, <3>1, <3>2, <3>3
  <2>4. ASSUME NEW i \in (b + 1)..(e - 1) PROVE t[i] \in Digit
    <3>0. i \in 1..(l + 1) /\ b < i /\ i < e /\ i \in Nat
      <4> HIDE DEF b, e
      <4> QED BY <2>2
    <3>1. SUFFICES ASSUME ~IsDigitOf(t, i) PROVE FALSE
      BY <3>1 DEF IsDigitOf
    <3>2. PICK j \in 1..m : cut[j] = i
      BY <1>2, <3>0, <3>1
    <3>3. j < k
      <4>1. CASE j > k
        <5>1. cut[k] < cut[j] /\ cut[k] \in 1..(l + 1)
          BY <1>2, <4>1
        <5> QED BY <3>0, <3>2, <5>1
      <4>2. CASE j = k
        BY <3>0, <3>2, <4>2
      <4> QED BY <4>1, <4>2
    <3>4. k # 1 /\ k - 1 \in 1..m /\ b = cut[k - 1]
      BY <1>2, <3>3
    <3>5. CASE j < k - 1
      <4>1. cut[j] < cut[k - 1]
        BY <1>2, <3>4, <3>5
      <4> QED BY <2>2, <3>0, <3>2, <3>4, <4>1
    <3>6. CASE j = k - 1
      BY <2>2, <3>0, <3>2, <3>4, <3>6
    <3> QED BY <3>3, <3>5, <3>6
  <2>5. ASSUME e <= l PROVE t[e] \notin Digit /\ k < m
    <3>1. ~IsDigitOf(t, e)
      BY <1>2
    <3>2. k # m
      <4>1. cut[m] = l + 1 /\ l + 1 > l
        BY <1>5, <1>6
      <4> QED BY <2>5, <4>1
    <3> QED BY <1>2, <2>5, <3>1, <3>2 DEF IsDigitOf
  <2>6. ASSUME e > l PROVE k = m
    <3>1. e = l + 1
      BY <2>2, <2>6
    <3>2. CASE k < m
      <4>1. cut[k] < cut[m]
        BY <1>2, <1>6, <3>2
      <4> QED BY <1>5, <1>6, <3>1, <4>1
    <3> QED BY <1>2, <3>2
  <2> HIDE DEF b, e
  <2> QED BY <1>3, <2>1, <2>2, <2>3, <2>4, <2>5, <2>6 DEF PartIs
<1> QED BY <1>2, <1>3, <1>5, <1>7 DEF ps

----------------------------------------------------------------------------
(* Numbers.                                                                *)

\* v[i] is the number that the first i digits of s write, for i up to n: the
\* recursive function inside Decimal.
Values(v, s, n) == v = [k \in 0..n |-> IF k = 0 THEN 0 ELSE 10 * v[k - 1] + DigitVal[s[k]]]

\* For every length there is such a function, so that CHOOSE finds it.
LEMMA ValuesExist == ASSUME NEW s, NEW m \in Nat PROVE \E v : Values(v, s, m)
<1> DEFINE T == {n \in Nat : ~\E v : Values(v, s, n)}
<1> SUFFICES ASSUME T # {} PROVE FALSE
  OBVIOUS
<1>1. PICK n \in T : \A k \in T : n <= k
  <2> HIDE DEF T
  <2>1. T \in SUBSET Nat
    BY DEF T
  <2> QED BY <2>1, Least
<1>2. ~\E v : Values(v, s, n)
  OBVIOUS
<1>3. n # 0
  <2> SUFFICES ASSUME n = 0 PROVE FALSE
    OBVIOUS
  <2> DEFINE v == [k \in 0..0 |-> 0]
  <2>1. v = [k \in 0..0 |-> IF k = 0 THEN 0 ELSE 10 * v[k - 1] + DigitVal[s[k]]]
    OBVIOUS
  <2>2. Values(v, s, 0)
    BY <2>1 DEF Values
  <2> QED BY <1>2, <2>2
<1>4. n - 1 \in Nat /\ n - 1 \notin T
  BY <1>1, <1>3
<1>5. PICK v : Values(v, s, n - 1)
  BY <1>4
<1> DEFINE h == [k \in 0..n |-> IF k = n THEN 10 * v[n - 1] + DigitVal[s[n]] ELSE v[k]]
<1>6. \A k \in 0..n : h[k] = IF k = 0 THEN 0 ELSE 10 * h[k - 1] + DigitVal[s[k]]
  <2> SUFFICES ASSUME NEW k \in 0..n
               PROVE  h[k] = IF k = 0 THEN 0 ELSE 10 * h[k - 1] + DigitVal[s[k]]
    OBVIOUS
  <2>0. k # 0 => k - 1 \in 0..n /\ k - 1 # n /\ h[k - 1] = v[k - 1]
    BY <1>4
  <2>1. CASE k = n
    <3>1. h[n] = 10 * v[n - 1] + DigitVal[s[n]]
      BY <1>4
    <3>2. h[n - 1] = v[n - 1]
      BY <1>3, <2>0, <2>1
    <3> HIDE DEF h
    <3> QED BY <1>3, <2>1, <3>1, <3>2
  <2>2. CASE k # n
    <3>1. k \in 0..(n - 1) /\ h[k] = v[k]
      BY <2>2
    <3>2. v[k] = IF k = 0 THEN 0 ELSE 10 * v[k - 1] + DigitVal[s[k]]
      BY <1>5, <3>1 DEF Values
    <3> HIDE DEF h
    <3> QED BY <2>0, <3>1, <3>2
  <2> QED BY <2>1, <2>2
<1>7. h = [k \in 0..n |-> h[k]]
  OBVIOUS
<1>8. Values(h, s, n)
  <2> HIDE DEF h
  <2> QED BY <1>6, <1>7 DEF Values
<1> QED BY <1>2, <1>8

\* Decimal(s) is the last value of that function.
LEMMA DecimalIs ==
  ASSUME NEW s, NEW n \in Nat, Len(s) = n
  PROVE  \E v : /\ Decimal(s) = v[n] /\ v[0] = 0
                /\ \A k \in 1..n : v[k] = 10 * v[k - 1] + DigitVal[s[k]]
<1> DEFINE v == CHOOSE f : f = [k \in 0..n |-> IF k = 0 THEN 0
                                               ELSE 10 * f[k - 1] + DigitVal[s[k]]]
<1>1. Values(v, s, n)
  <2>1. PICK f : Values(f, s, n)
    BY ValuesExist
  <2> QED BY <2>1, Zenon DEF Values
<1>2. Decimal(s) = v[n]
  BY Zenon DEF Decimal
<1> HIDE DEF v
<1>3. \A k \in 0..n : v[k] = IF k = 0 THEN 0 ELSE 10 * v[k - 1] + DigitVal[s[k]]
  BY <1>1, Zenon DEF Values
<1>4. v[0] = 0 /\ \A k \in 1..n : v[k] = 10 * v[k - 1] + DigitVal[s[k]]
  <2>1. 0 \in 0..n /\ \A k \in 1..n : k \in 0..n /\ k # 0
    OBVIOUS
  <2> QED BY <1>3, <2>1
<1> QED BY <1>2, <1>4

\* The digits and what they are worth.
LEMMA DigitIs == Digit = {"0", "1", "2", "3", "4", "5", "6", "7", "8", "9"}
<1>1. \A k \in 1..10 : k = 1 \/ k = 2 \/ k = 3 \/ k = 4 \/ k = 5 \/ k = 6 \/ k = 7 \/ k = 8
                       \/ k = 9 \/ k = 10
  OBVIOUS
<1>2. DOMAIN Digits = 1..10
  BY DEF Digits
<1>3. Digit = {Digits[k] : k \in 1..10}
  BY <1>2 DEF Digit, Range
<1> QED BY <1>1, <1>3 DEF Digits

LEMMA DigitValIs ==
  /\ DigitVal["0"] = 0 /\ DigitVal["1"] = 1 /\ DigitVal["2"] = 2 /\ DigitVal["3"] = 3
  /\ DigitVal["4"] = 4 /\ DigitVal["5"] = 5 /\ DigitVal["6"] = 6 /\ DigitVal["7"] = 7
  /\ DigitVal["8"] = 8 /\ DigitVal["9"] = 9
<1>1. ASSUME NEW d \in Digit, NEW j \in 1..10, Digits[j] = d PROVE DigitVal[d] = j - 1
  <2>1. \A i, k \in 1..10 : Digits[i] = Digits[k] => i = k
    BY DEF Digits
  <2> DEFINE c == CHOOSE k \in 1..10 : Digits[k] = d
  <2>2. c \in 1..10 /\ Digits[c] = d
    BY <1>1
  <2>3. c = j
    <3> HIDE DEF c
    <3> QED BY <1>1, <2>1, <2>2
  <2>4. DigitVal[d] = c - 1
    BY DEF DigitVal
  <2> QED BY <2>3, <2>4
<1>2. /\ 1 \in 1..10 /\ 2 \in 1..10 /\ 3 \in 1..10 /\ 4 \in 1..10 /\ 5 \in 1..10
      /\ 6 \in 1..10 /\ 7 \in 1..10 /\ 8 \in 1..10 /\ 9 \in 1..10 /\ 10 \in 1..10
  OBVIOUS
<1>3. /\ Digits[1] = "0" /\ Digits[2] = "1" /\ Digits[3] = "2" /\ Digits[4] = "3"
      /\ Digits[5] = "4" /\ Digits[6] = "5" /\ Digits[7] = "6" /\ Digits[8] = "7"
      /\ Digits[9] = "8" /\ Digits[10] = "9"
  BY DEF Digits
<1>a. DigitVal["0"] = 1 - 1
  BY <1>1, <1>2, <1>3, DigitIs
<1>b. DigitVal["1"] = 2 - 1
  BY <1>1, <1>2, <1>3, DigitIs
<1>c. DigitVal["2"] = 3 - 1
  BY <1>1, <1>2, <1>3, DigitIs
<1>d. DigitVal["3"] = 4 - 1
  BY <1>1, <1>2, <1>3, DigitIs
<1>e. DigitVal["4"] = 5 - 1
  BY <1>1, <1>2, <1>3, DigitIs
<1>f. DigitVal["5"] = 6 - 1
  BY <1>1, <1>2, <1>3, DigitIs
<1>g. DigitVal["6"] = 7 - 1
  BY <1>1, <1>2, <1>3, DigitIs
<1>h. DigitVal["7"] = 8 - 1
  BY <1>1, <1>2, <1>3, DigitIs
<1>i. DigitVal["8"] = 9 - 1
  BY <1>1, <1>2, <1>3, DigitIs
<1>j. DigitVal["9"] = 10 - 1
  BY <1>1, <1>2, <1>3, DigitIs
<1> QED BY <1>a, <1>b, <1>c, <1>d, <1>e, <1>f, <1>g, <1>h, <1>i, <1>j

LEMMA DigitValType == \A d \in Digit : DigitVal[d] \in 0..9
BY DigitIs, DigitValIs

\* A sequence of digits writes a natural number.
LEMMA DecimalNat ==
  ASSUME NEW s, Len(s) \in Nat, \A i \in 1..Len(s) : s[i] \in Digit
  PROVE  Decimal(s) \in Nat
<1> DEFINE n == Len(s)
<1>1. PICK v : /\ Decimal(s) = v[n] /\ v[0] = 0
               /\ \A k \in 1..n : v[k] = 10 * v[k - 1] + DigitVal[s[k]]
  BY DecimalIs
<1>2. n \in Nat
  OBVIOUS
<1> HIDE DEF n
<1> DEFINE T == {k \in 0..n : v[k] \notin Nat}
<1>3. T = {}
  <2> SUFFICES ASSUME T # {} PROVE FALSE
    OBVIOUS
  <2>1. PICK k \in T : \A i \in T : k <= i
    <3>1. T \in SUBSET Nat
      BY <1>2
    <3> HIDE DEF T
    <3> QED BY <3>1, Least
  <2>2. k \in 0..n /\ v[k] \notin Nat /\ k # 0
    BY <1>1
  <2>3. k - 1 \in 0..n /\ k - 1 \notin T /\ k \in 1..n
    BY <1>2, <2>1, <2>2
  <2>4. v[k - 1] \in Nat
    BY <2>3
  <2>5. DigitVal[s[k]] \in 0..9
    BY <2>3, DigitValType DEF n
  <2>6. v[k] = 10 * v[k - 1] + DigitVal[s[k]]
    BY <1>1, <2>3
  <2> DEFINE x == v[k - 1]
             d == DigitVal[s[k]]
  <2>7. x \in Nat /\ d \in 0..9 /\ v[k] = 10 * x + d
    BY <2>4, <2>5, <2>6
  <2> HIDE DEF T, x, d
  <2> QED BY <2>2, <2>7
<1> QED BY <1>1, <1>2, <1>3

\* A number of two digits.
LEMMA DecimalTwo ==
  ASSUME NEW s, Len(s) = 2, s[1] \in Digit, s[2] \in Digit
  PROVE  Decimal(s) = 10 * DigitVal[s[1]] + DigitVal[s[2]]
<1>1. PICK v : /\ Decimal(s) = v[2] /\ v[0] = 0
               /\ \A k \in 1..2 : v[k] = 10 * v[k - 1] + DigitVal[s[k]]
  <2> DEFINE two == 2
  <2>1. two \in Nat /\ Len(s) = two
    OBVIOUS
  <2> HIDE DEF two
  <2>2. \E v : /\ Decimal(s) = v[two] /\ v[0] = 0
               /\ \A k \in 1..two : v[k] = 10 * v[k - 1] + DigitVal[s[k]]
    BY <2>1, DecimalIs
  <2> QED BY <2>2 DEF two
<1>2. v[1] = 10 * v[0] + DigitVal[s[1]]
  <2>1. 1 \in 1..2 /\ 1 - 1 = 0
    OBVIOUS
  <2> QED BY <1>1, <2>1
<1>3. v[2] = 10 * v[1] + DigitVal[s[2]]
  <2>1. 2 \in 1..2 /\ 2 - 1 = 1
    OBVIOUS
  <2> QED BY <1>1, <2>1
<1>4. DigitVal[s[1]] \in 0..9 /\ DigitVal[s[2]] \in 0..9
  BY DigitValType
<1> QED BY <1>1, <1>2, <1>3, <1>4

\* One more digit makes a number ten times as large, at least.
LEMMA DecimalGrows ==
  ASSUME NEW s, NEW u, NEW n \in Nat, Len(s) = n, Len(u) = n + 1,
         \A i \in 1..n : s[i] = u[i], \A i \in 1..(n + 1) : u[i] \in Digit
  PROVE  Decimal(s) \in Nat /\ Decimal(u) \in Nat /\ Decimal(s) <= Decimal(u)
<1>1. PICK v : /\ Decimal(s) = v[n] /\ v[0] = 0
               /\ \A k \in 1..n : v[k] = 10 * v[k - 1] + DigitVal[s[k]]
  BY DecimalIs
<1>2. PICK w : /\ Decimal(u) = w[n + 1] /\ w[0] = 0
               /\ \A k \in 1..(n + 1) : w[k] = 10 * w[k - 1] + DigitVal[u[k]]
  <2>1. n + 1 \in Nat
    OBVIOUS
  <2> QED BY <2>1, DecimalIs
<1> DEFINE T == {k \in 0..n : v[k] # w[k]}
<1>3. T = {}
  <2> SUFFICES ASSUME T # {} PROVE FALSE
    OBVIOUS
  <2>1. PICK k \in T : \A i \in T : k <= i
    <3>1. T \in SUBSET Nat
      OBVIOUS
    <3> HIDE DEF T
    <3> QED BY <3>1, Least
  <2>2. k \in 0..n /\ v[k] # w[k] /\ k # 0
    BY <1>1, <1>2
  <2>3. k - 1 \in 0..n /\ k - 1 \notin T /\ k \in 1..n /\ k \in 1..(n + 1)
    BY <2>1, <2>2
  <2>4. v[k - 1] = w[k - 1]
    BY <2>3
  <2>5. v[k] = 10 * v[k - 1] + DigitVal[s[k]] /\ w[k] = 10 * w[k - 1] + DigitVal[u[k]]
    BY <1>1, <1>2, <2>3
  <2>6. s[k] = u[k]
    BY <2>3
  <2> QED BY <2>2, <2>4, <2>5, <2>6
<1>4. v[n] = w[n]
  BY <1>3
<1>5. w[n + 1] = 10 * w[n] + DigitVal[u[n + 1]]
  <2>1. n + 1 \in 1..(n + 1) /\ (n + 1) - 1 = n
    OBVIOUS
  <2> QED BY <1>2, <2>1
<1>6. Decimal(s) \in Nat
  <2>1. \A i \in 1..n : s[i] \in Digit
    OBVIOUS
  <2> QED BY <2>1, DecimalNat
<1>7. DigitVal[u[n + 1]] \in 0..9
  BY DigitValType
<1> DEFINE x == Decimal(s)
           y == Decimal(u)
           d == DigitVal[u[n + 1]]
<1>8. x \in Nat /\ d \in 0..9 /\ y = 10 * x + d
  BY <1>1, <1>2, <1>4, <1>5, <1>6, <1>7
<1> HIDE DEF x, y, d
<1>9. y \in Nat /\ x <= y
  BY <1>8
<1> QED BY <1>8, <1>9 DEF x, y

----------------------------------------------------------------------------
(* How far a run goes.                                                     *)

\* A run is as long as the loop that takes the bytes while they are in the
\* class: to the first that is not, or to the length.
LEMMA RunIs ==
  ASSUME NEW p \in Int, NEW len \in Nat, NEW C, NEW n \in 0..len,
         \A m \in 0..(n - 1) : At(p + m) \in C,
         n = len \/ At(p + n) \notin C
  PROVE  RunOf(p, len, C) = n
<1> DEFINE S == {k \in 0..(len - 1) : \A m \in 0..k : At(p + m) \in C}
<1>1. ASSUME NEW k \in 0..(n - 1) PROVE k \in S
  <2>1. k \in 0..(len - 1) /\ \A m \in 0..k : m \in 0..(n - 1)
    OBVIOUS
  <2> QED BY <2>1
<1>2. ASSUME NEW k \in S PROVE k \in 0..(n - 1)
  <2>1. k \in 0..(len - 1) /\ \A m \in 0..k : At(p + m) \in C
    OBVIOUS
  <2> HIDE DEF S
  <2>2. SUFFICES ASSUME k >= n PROVE FALSE
    BY <2>1, <2>2
  <2>3. n # len /\ n \in 0..k
    BY <2>1, <2>2
  <2> QED BY <2>1, <2>3
<1>3. S = 0..(n - 1)
  <2> HIDE DEF S
  <2>1. \A k \in S : k \in 0..(n - 1)
    BY <1>2
  <2>2. \A k \in 0..(n - 1) : k \in S
    BY <1>1
  <2> QED BY <2>1, <2>2
<1>4. Cardinality(0..(n - 1)) = n
  <2>1. 0 \in Int /\ n - 1 \in Int
    OBVIOUS
  <2>2. Cardinality(0..(n - 1)) = IF 0 > n - 1 THEN 0 ELSE (n - 1) - 0 + 1
    BY <2>1, FS_Interval
  <2> QED BY <2>2
<1> HIDE DEF S
<1>5. RunOf(p, len, C) = Cardinality(S)
  BY DEF RunOf, S
<1> QED BY <1>3, <1>4, <1>5

\* There is such a length, so that a run can be described by it.
LEMMA RunStops ==
  ASSUME NEW p \in Int, NEW len \in Nat, NEW C
  PROVE  LET n == RunOf(p, len, C)
         IN  /\ n \in 0..len /\ \A m \in 0..(n - 1) : At(p + m) \in C
             /\ n = len \/ At(p + n) \notin C
<1> DEFINE T == {k \in 0..len : k = len \/ At(p + k) \notin C}
<1>1. len \in T
  OBVIOUS
<1>2. PICK n \in T : \A k \in T : n <= k
  <2>1. T \in SUBSET Nat /\ T # {}
    BY <1>1
  <2> HIDE DEF T
  <2> QED BY <2>1, Least
<1>3. n \in 0..len /\ (n = len \/ At(p + n) \notin C)
  OBVIOUS
<1>4. ASSUME NEW m \in 0..(n - 1) PROVE At(p + m) \in C
  <2>1. m \in 0..len /\ m < n
    BY <1>3
  <2>2. m \notin T
    <3> HIDE DEF T
    <3> QED BY <1>2, <1>3, <2>1
  <2> QED BY <2>1, <2>2
<1> HIDE DEF T
<1>5. RunOf(p, len, C) = n
  BY <1>3, <1>4, RunIs
<1> QED BY <1>3, <1>4, <1>5

\* A run up to a byte is a run of the others.
LEMMA RunToIs ==
  ASSUME NEW p \in Int, NEW len \in Nat, NEW ch, NEW n \in 0..len,
         \A m \in 0..(n - 1) : At(p + m) # ch,
         n = len \/ At(p + n) = ch
  PROVE  RunTo(p, len, ch) = n
<1> DEFINE S == {k \in 0..(len - 1) : \A m \in 0..k : At(p + m) # ch}
<1>1. ASSUME NEW k \in 0..(n - 1) PROVE k \in S
  <2>1. k \in 0..(len - 1) /\ \A m \in 0..k : m \in 0..(n - 1)
    OBVIOUS
  <2> QED BY <2>1
<1>2. ASSUME NEW k \in S PROVE k \in 0..(n - 1)
  <2>1. k \in 0..(len - 1) /\ \A m \in 0..k : At(p + m) # ch
    OBVIOUS
  <2> HIDE DEF S
  <2>2. SUFFICES ASSUME k >= n PROVE FALSE
    BY <2>1, <2>2
  <2>3. n # len /\ n \in 0..k
    BY <2>1, <2>2
  <2> QED BY <2>1, <2>3
<1>3. S = 0..(n - 1)
  <2> HIDE DEF S
  <2>1. \A k \in S : k \in 0..(n - 1)
    BY <1>2
  <2>2. \A k \in 0..(n - 1) : k \in S
    BY <1>1
  <2> QED BY <2>1, <2>2
<1>4. Cardinality(0..(n - 1)) = n
  <2>1. 0 \in Int /\ n - 1 \in Int
    OBVIOUS
  <2>2. Cardinality(0..(n - 1)) = IF 0 > n - 1 THEN 0 ELSE (n - 1) - 0 + 1
    BY <2>1, FS_Interval
  <2> QED BY <2>2
<1> HIDE DEF S
<1>5. RunTo(p, len, ch) = Cardinality(S)
  BY DEF RunTo, S
<1> QED BY <1>3, <1>4, <1>5

LEMMA RunToStops ==
  ASSUME NEW p \in Int, NEW len \in Nat, NEW ch
  PROVE  LET n == RunTo(p, len, ch)
         IN  /\ n \in 0..len /\ \A m \in 0..(n - 1) : At(p + m) # ch
             /\ n = len \/ At(p + n) = ch
<1> DEFINE T == {k \in 0..len : k = len \/ At(p + k) = ch}
<1>1. len \in T
  OBVIOUS
<1>2. PICK n \in T : \A k \in T : n <= k
  <2>1. T \in SUBSET Nat /\ T # {}
    BY <1>1
  <2> HIDE DEF T
  <2> QED BY <2>1, Least
<1>3. n \in 0..len /\ (n = len \/ At(p + n) = ch)
  OBVIOUS
<1>4. ASSUME NEW m \in 0..(n - 1) PROVE At(p + m) # ch
  <2>1. m \in 0..len /\ m < n
    BY <1>3
  <2>2. m \notin T
    <3> HIDE DEF T
    <3> QED BY <1>2, <1>3, <2>1
  <2> QED BY <2>1, <2>2
<1> HIDE DEF T
<1>5. RunTo(p, len, ch) = n
  BY <1>3, <1>4, RunToIs
<1> QED BY <1>3, <1>4, <1>5

----------------------------------------------------------------------------
(* A cursor in a text that is cut into parts.                              *)

\* The text from an offset on, and its parts.
Text(q) == SubSeq(str, q + 1, Len(str))
PartsAt(q) == Parts(Text(q))

LEMMA TextIs ==
  ASSUME Ready, NEW q \in 0..Len(str)
  PROVE  /\ Text(q) \in Seq(Byte) /\ Len(Text(q)) = Len(str) - q /\ Len(Text(q)) \in Nat
         /\ \A i \in 1..Len(Text(q)) : /\ Text(q)[i] = str[q + i] /\ Text(q)[i] = At(q + (i - 1))
                                       /\ Text(q)[i] # "end"
<1>1. str \in Seq(Byte) /\ Len(str) \in Nat
  BY DEF Ready, StrOK
<1>2. q + 1 \in 1..(Len(str) + 1)
  BY <1>1
<1>3. Text(q) = [i \in 1..(Len(str) - (q + 1) + 1) |-> str[q + 1 + i - 1]]
  BY <1>1, <1>2 DEF Text
<1>4. Len(str) - (q + 1) + 1 = Len(str) - q /\ Len(str) - q \in Nat
  BY <1>1
<1>5. Len(Text(q)) = Len(str) - q
  BY <1>3, <1>4
<1>6. ASSUME NEW i \in 1..Len(Text(q))
      PROVE  /\ Text(q)[i] = str[q + i] /\ Text(q)[i] = At(q + (i - 1)) /\ Text(q)[i] \in Byte
  <2>1. i \in 1..(Len(str) - q) /\ q + 1 + i - 1 = q + i /\ q + i \in 1..Len(str)
    BY <1>1, <1>5
  <2>2. Text(q)[i] = str[q + i]
    BY <1>3, <1>4, <2>1
  <2>3. q + (i - 1) < Len(str) /\ q + (i - 1) + 1 = q + i
    BY <1>1, <2>1
  <2>4. At(q + (i - 1)) = str[q + i]
    BY <2>3 DEF At
  <2> QED BY <1>1, <2>1, <2>2, <2>4
<1>7. Text(q) \in Seq(Byte)
  <2>1. Text(q) = [i \in 1..(Len(str) - q) |-> Text(q)[i]]
    BY <1>3, <1>4
  <2>2. \A i \in 1..(Len(str) - q) : Text(q)[i] \in Byte
    BY <1>5, <1>6
  <2> DEFINE u == Text(q)
             m == Len(str) - q
  <2>3. m \in Nat /\ u = [i \in 1..m |-> u[i]] /\ \A i \in 1..m : u[i] \in Byte
    BY <1>4, <2>1, <2>2
  <2> HIDE DEF u, m
  <2>4. u \in Seq(Byte)
    BY <2>3
  <2> QED BY <2>4 DEF u
<1>8. "end" \notin Byte
  BY DEF Byte
<1> QED BY <1>4, <1>5, <1>6, <1>7, <1>8

\* The cursor is before the number of the k-th part, or on what ends it.
Before(c, q, k) ==
  /\ Stands(0, 0, c)
  /\ c.ok => k \in 1..Len(PartsAt(q)) /\ c.p = q + Begin(PartsAt(q), k)
AtSep(c, q, k) ==
  /\ Stands(0, 0, c)
  /\ c.ok => k \in 1..Len(PartsAt(q)) /\ c.p = q + (PartsAt(q)[k].at - 1)

\* A run of digits is the number of its part.
LEMMA RunIsPart ==
  ASSUME Ready, NEW q \in offs..Len(str), NEW k \in 1..Len(PartsAt(q))
  PROVE  LET b == Begin(PartsAt(q), k)
             n == PartsAt(q)[k].n
         IN  /\ b \in Nat /\ n \in 0..(Len(str) - (q + b)) /\ b + n = PartsAt(q)[k].at - 1
             /\ RunOf(q + b, Len(str) - (q + b), Digit) = n
             /\ PartsAt(q)[k].num = DecimalAt(q + b, n)
             /\ \A m \in 1..n : Text(q)[b + m] = At(q + b + m - 1)
<1> DEFINE t == Text(q)
           ps == PartsAt(q)
           b == Begin(ps, k)
           e == ps[k].at
           n == ps[k].n
           l == Len(t)
           len == Len(str) - (q + b)
<1>1. offs \in Nat /\ Len(str) \in Nat /\ q \in 0..Len(str)
  BY DEF Ready, StrOK
<1>2. /\ l \in Nat /\ l = Len(str) - q /\ t \in Seq(Byte)
      /\ \A i \in 1..l : t[i] = At(q + (i - 1))
  BY <1>1, TextIs
<1>3. PartIs(t, ps, k)
  BY <1>2, PartsAre DEF PartsAt
<1>4. /\ b \in Nat /\ e \in (b + 1)..(l + 1) /\ n = e - b - 1
      /\ ps[k].num = Decimal(SubSeq(t, b + 1, e - 1))
      /\ \A i \in (b + 1)..(e - 1) : t[i] \in Digit
      /\ e <= l => t[e] \notin Digit
  BY <1>3 DEF PartIs
<1> HIDE DEF t, ps, b, e, n
<1>5. n \in 0..len /\ len \in Nat /\ b + n = e - 1 /\ q + b \in Int /\ len = l - b
  BY <1>1, <1>2, <1>4
<1>6. ASSUME NEW m \in 0..(n - 1) PROVE At(q + b + m) \in Digit
  <2> DEFINE i == b + m + 1
  <2>1. i \in (b + 1)..(e - 1) /\ i \in 1..l
    BY <1>2, <1>4, <1>5
  <2>2. q + (i - 1) = q + b + m
    BY <1>1, <1>4
  <2> HIDE DEF i
  <2>3. t[i] = At(q + (i - 1)) /\ t[i] \in Digit
    BY <1>2, <1>4, <2>1
  <2> QED BY <2>2, <2>3
<1>7. n = len \/ At(q + b + n) \notin Digit
  <2>1. CASE e > l
    <3>1. e = l + 1
      BY <1>2, <1>4, <2>1
    <3> QED BY <1>4, <1>5, <1>2, <3>1
  <2>2. CASE e <= l
    <3>1. e \in 1..l /\ q + (e - 1) = q + b + n
      BY <1>1, <1>2, <1>4, <1>5, <2>2
    <3> QED BY <1>2, <1>4, <2>2, <3>1
  <2> QED BY <1>2, <1>4, <2>1, <2>2
<1>8. RunOf(q + b, len, Digit) = n
  <2> HIDE DEF len
  <2> QED BY <1>5, <1>6, <1>7, RunIs
<1>9. \A m \in 1..n : t[b + m] = At(q + b + m - 1)
  <2> SUFFICES ASSUME NEW m \in 1..n PROVE t[b + m] = At(q + b + m - 1)
    OBVIOUS
  <2> DEFINE i == b + m
  <2>1. i \in 1..l /\ q + (i - 1) = q + b + m - 1
    BY <1>1, <1>2, <1>4
  <2> HIDE DEF i
  <2>2. t[i] = At(q + (i - 1))
    BY <1>2, <2>1
  <2> QED BY <2>1, <2>2 DEF i
<1>10. SubSeq(t, b + 1, e - 1) = [m \in 1..n |-> At(q + b + m - 1)]
  <2>1. SubSeq(t, b + 1, e - 1) = [m \in 1..((e - 1) - (b + 1) + 1) |-> t[b + 1 + m - 1]]
    BY <1>2, <1>4
  <2>2. (e - 1) - (b + 1) + 1 = n
    BY <1>1, <1>2, <1>4
  <2>3. \A m \in 1..n : b + 1 + m - 1 = b + m
    BY <1>4, <1>2
  <2> QED BY <1>9, <2>1, <2>2, <2>3
<1>11. ps[k].num = DecimalAt(q + b, n)
  BY <1>4, <1>10 DEF DecimalAt
<1> QED BY <1>4, <1>5, <1>8, <1>9, <1>11 DEF t, ps, b, e, n

\* hParseInt reads the number of the part.
LEMMA NumReads ==
  ASSUME Ready, NEW q \in offs..Len(str), NEW c, NEW k, NEW S, Before(c, q, k)
  PROVE  /\ AtSep(c ** Num(S), q, k)
         /\ (c ** Num(S)).ok <=> c.ok /\ PartsAt(q)[k].num \in S
<1> DEFINE e == c ** Num(S)
           num == PartsAt(q)[k].num
<1>0. Stands(0, 0, e) /\ Stands(0, 0, c) /\ c \in CursorSet /\ e \in CursorSet
  BY NumStands DEF Before, Stands
<1>1. CASE ~c.ok
  <2>1. e = c
    BY <1>1, ConsumeIs DEF Consume
  <2> QED BY <1>0, <1>1, <2>1 DEF AtSep
<1>2. CASE c.ok
  <2> DEFINE b == Begin(PartsAt(q), k)
             n == PartsAt(q)[k].n
             yes == num \in S
  <2>1. k \in 1..Len(PartsAt(q)) /\ c.p = q + b
    BY <1>2 DEF Before
  <2>2. /\ offs \in Nat /\ Len(str) \in Nat /\ q \in 0..Len(str) /\ Width \in Nat
        /\ c.len \in 0..(Width - 1) /\ c.p + c.len = Len(str) + 0
    BY <1>0, <1>2 DEF Ready, StrOK, Stands, CursorSet
  <2>3. /\ b \in Nat /\ n \in 0..(Len(str) - (q + b)) /\ b + n = PartsAt(q)[k].at - 1
        /\ RunOf(q + b, Len(str) - (q + b), Digit) = n /\ num = DecimalAt(q + b, n)
    BY <2>1, RunIsPart
  <2> HIDE DEF b, n, num
  <2>4. c.len = Len(str) - (q + b)
    BY <2>1, <2>2, <2>3
  <2>5. e = Cursor(DecimalAt(c.p, n) \in S, c.p + n, c.len - n)
    BY <1>2, <2>1, <2>3, <2>4, ConsumeIs DEF Consume, Num
  <2>6. e = [ok |-> yes, p |-> c.p + n, len |-> (c.len - n) % Width]
    BY <2>1, <2>3, <2>5 DEF Cursor
  <2> HIDE DEF yes, e
  <2>7. e.ok = yes /\ e.p = c.p + n
    BY <2>6
  <2>8. e.p = q + (PartsAt(q)[k].at - 1)
    BY <2>1, <2>2, <2>3, <2>7
  <2>9. AtSep(e, q, k)
    BY <1>0, <2>1, <2>8 DEF AtSep
  <2> QED BY <1>2, <2>7, <2>9 DEF yes, e, num
<1> QED BY <1>0, <1>1, <1>2 DEF CursorSet

\* A byte that is expected is what ends the part, and the next part follows.
LEMMA LitReads ==
  ASSUME Ready, NEW q \in offs..Len(str), NEW c, NEW k \in Nat \ {0}, NEW S,
         "?" \notin S, "end" \notin S, AtSep(c, q, k)
  PROVE  /\ Before(c ** Lit(S), q, k + 1)
         /\ (c ** Lit(S)).ok <=> c.ok /\ PartsAt(q)[k].sep \in S
<1> DEFINE e == c ** Lit(S)
           sep == PartsAt(q)[k].sep
<1>0. Stands(0, 0, e) /\ Stands(0, 0, c) /\ c \in CursorSet /\ e \in CursorSet
  <2>1. Stands(0, 0, c)
    BY DEF AtSep
  <2>2. Stands(0, 0 + 1, e)
    BY <2>1, LitStands
  <2> HIDE DEF e
  <2>3. Stands(0, 0, e)
    BY <2>2, StandsLess
  <2> QED BY <2>1, <2>3 DEF Stands
<1>1. CASE ~c.ok
  <2>1. e = c
    BY <1>1, ConsumeIs DEF Consume
  <2> QED BY <1>0, <1>1, <2>1 DEF Before
<1>2. CASE c.ok
  <2> DEFINE at == PartsAt(q)[k].at
             l == Len(Text(q))
  <2>1. k \in 1..Len(PartsAt(q)) /\ c.p = q + (at - 1)
    BY <1>2 DEF AtSep
  <2>2. /\ offs \in Nat /\ Len(str) \in Nat /\ q \in 0..Len(str) /\ Width \in Nat
        /\ c.len \in 0..(Width - 1) /\ c.p + c.len = Len(str) + 0
    BY <1>0, <1>2 DEF Ready, StrOK, Stands, CursorSet
  <2>3. /\ l \in Nat /\ l = Len(str) - q
        /\ \A i \in 1..l : Text(q)[i] = At(q + (i - 1))
    BY <2>2, TextIs
  <2>4. PartIs(Text(q), PartsAt(q), k) /\ Len(PartsAt(q)) \in Nat
    BY <2>1, <2>3, PartsAre DEF PartsAt
  <2> DEFINE w == Begin(PartsAt(q), k)
  <2>4a. /\ w \in Nat /\ at \in (w + 1)..(l + 1)
         /\ at <= l => sep = Text(q)[at] /\ k < Len(PartsAt(q))
         /\ at > l => sep = "end"
    BY <2>4, Zenon DEF PartIs
  <2>5. /\ at \in 1..(l + 1)
        /\ at <= l => sep = Text(q)[at] /\ k < Len(PartsAt(q))
        /\ at > l => sep = "end"
    <3>1. at \in 1..(l + 1)
      <4> HIDE DEF w, at, l
      <4> QED BY <2>3, <2>4a
    <3> QED BY <2>4a, <3>1, Zenon
  <2>5a. at \in 1..(l + 1)
    BY <2>5
  <2> HIDE DEF w
  <2>6. Begin(PartsAt(q), k + 1) = at
    <3>1. k + 1 # 1 /\ k + 1 - 1 = k
      OBVIOUS
    <3> QED BY <3>1 DEF Begin
  <2> HIDE DEF at, l, sep
  <2>7. c.len = l - (at - 1)
    <3> DEFINE a == Len(str)
               x == c.len
               y == c.p
    <3>1. a \in Nat /\ q \in 0..a /\ x \in 0..(Width - 1) /\ Width \in Nat /\ y + x = a + 0
          /\ y = q + (at - 1) /\ l = a - q
      BY <2>1, <2>2, <2>3
    <3>2. at \in Int
      BY <2>3, <2>5
    <3> HIDE DEF a, x, y
    <3>3. x = l - (at - 1)
      BY <3>1, <3>2
    <3> QED BY <3>3 DEF x
  <2>8. CASE at > l
    <3>1. c.len = 0
      <4>0. l \in Nat
        BY <2>3
      <4>1. at = l + 1
        BY <2>5a, <2>8, <4>0
      <4> QED BY <2>7, <4>0, <4>1
    <3>2. e = Fail(c)
      BY <1>2, <3>1, ConsumeIs DEF Consume, Lit
    <3> HIDE DEF e
    <3>3. ~e.ok
      BY <3>2, <1>0 DEF Fail, CursorSet
    <3>4. Before(e, q, k + 1)
      BY <1>0, <3>3 DEF Before
    <3>5. sep \notin S
      BY <2>5, <2>8
    <3> QED BY <3>3, <3>4, <3>5 DEF e, sep
  <2>9. CASE at <= l
    <3> DEFINE yes == At(c.p) \in S
    <3>1. c.len # 0
      BY <2>3, <2>5, <2>7, <2>9
    <3>2. sep = At(c.p)
      <4>1. at \in 1..l
        BY <2>3, <2>5, <2>9
      <4> QED BY <2>1, <2>3, <2>5, <2>9, <4>1
    <3>3. e = Cursor(At(c.p) \in S, c.p + 1, c.len - 1)
      BY <1>2, <3>1, ConsumeIs DEF Consume, Lit
    <3>4. e = [ok |-> yes, p |-> c.p + 1, len |-> (c.len - 1) % Width]
      BY <3>3 DEF Cursor
    <3> HIDE DEF yes, e
    <3>5. e.ok = yes /\ e.p = c.p + 1
      BY <3>4
    <3>6. e.p = q + at
      BY <2>1, <2>2, <2>5, <2>3, <3>5
    <3>7. k + 1 \in 1..Len(PartsAt(q))
      BY <2>4, <2>5, <2>9
    <3>8. Before(e, q, k + 1)
      BY <1>0, <2>6, <3>6, <3>7 DEF Before
    <3> QED BY <1>2, <3>2, <3>5, <3>8 DEF yes, e, sep
  <2> QED BY <2>3, <2>5, <2>8, <2>9
<1> QED BY <1>0, <1>1, <1>2 DEF CursorSet

----------------------------------------------------------------------------
(* The lists that the grammar is made of.                                  *)

\* The lists that Has is given, one, two or three parts long.
LEMMA HasOne ==
  ASSUME NEW ps, NEW k \in Nat, NEW A, NEW B
  PROVE  Has(ps, k, <<<<A, B>>>>) <=> k <= Len(ps) /\ ps[k].num \in A /\ ps[k].sep \in B
<1> DEFINE list == <<<<A, B>>>>
<1>1. DOMAIN list = 1..1 /\ list[1][1] = A /\ list[1][2] = B
  OBVIOUS
<1>2. k + 1 - 1 = k /\ \A i \in 1..1 : i = 1
  OBVIOUS
<1> HIDE DEF list
<1>3. Has(ps, k, list) <=> k <= Len(ps) /\ ps[k].num \in A /\ ps[k].sep \in B
  BY <1>1, <1>2 DEF Has
<1> QED BY <1>3 DEF list

LEMMA HasTwo ==
  ASSUME NEW ps, NEW k \in Nat, NEW A, NEW B, NEW A2, NEW B2
  PROVE  Has(ps, k, <<<<A, B>>, <<A2, B2>>>>) <=>
           /\ k <= Len(ps) /\ ps[k].num \in A /\ ps[k].sep \in B
           /\ k + 1 <= Len(ps) /\ ps[k + 1].num \in A2 /\ ps[k + 1].sep \in B2
<1> DEFINE list == <<<<A, B>>, <<A2, B2>>>>
<1>1. /\ DOMAIN list = 1..2 /\ list[1][1] = A /\ list[1][2] = B
      /\ list[2][1] = A2 /\ list[2][2] = B2
  OBVIOUS
<1>2. k + 1 - 1 = k /\ k + 2 - 1 = k + 1 /\ 1 \in 1..2 /\ 2 \in 1..2 /\ \A i \in 1..2 : i = 1 \/ i = 2
  OBVIOUS
<1> HIDE DEF list
<1>3. Has(ps, k, list) <=>
        \A i \in 1..2 : /\ k + i - 1 <= Len(ps) /\ ps[k + i - 1].num \in list[i][1]
                        /\ ps[k + i - 1].sep \in list[i][2]
  BY <1>1 DEF Has
<1>4. Has(ps, k, list) <=>
           /\ k <= Len(ps) /\ ps[k].num \in A /\ ps[k].sep \in B
           /\ k + 1 <= Len(ps) /\ ps[k + 1].num \in A2 /\ ps[k + 1].sep \in B2
  BY <1>1, <1>2, <1>3
<1> QED BY <1>4 DEF list

LEMMA HasThree ==
  ASSUME NEW ps, NEW k \in Nat, NEW A, NEW B, NEW A2, NEW B2, NEW A3, NEW B3
  PROVE  Has(ps, k, <<<<A, B>>, <<A2, B2>>, <<A3, B3>>>>) <=>
           /\ k <= Len(ps) /\ ps[k].num \in A /\ ps[k].sep \in B
           /\ k + 1 <= Len(ps) /\ ps[k + 1].num \in A2 /\ ps[k + 1].sep \in B2
           /\ k + 2 <= Len(ps) /\ ps[k + 2].num \in A3 /\ ps[k + 2].sep \in B3
<1> DEFINE list == <<<<A, B>>, <<A2, B2>>, <<A3, B3>>>>
<1>1. /\ DOMAIN list = 1..3 /\ list[1][1] = A /\ list[1][2] = B
      /\ list[2][1] = A2 /\ list[2][2] = B2 /\ list[3][1] = A3 /\ list[3][2] = B3
  OBVIOUS
<1>2. /\ k + 1 - 1 = k /\ k + 2 - 1 = k + 1 /\ k + 3 - 1 = k + 2
      /\ 1 \in 1..3 /\ 2 \in 1..3 /\ 3 \in 1..3 /\ \A i \in 1..3 : i = 1 \/ i = 2 \/ i = 3
  OBVIOUS
<1> HIDE DEF list
<1>3. Has(ps, k, list) <=>
        \A i \in 1..3 : /\ k + i - 1 <= Len(ps) /\ ps[k + i - 1].num \in list[i][1]
                        /\ ps[k + i - 1].sep \in list[i][2]
  BY <1>1 DEF Has
<1>4. Has(ps, k, list) <=>
           /\ k <= Len(ps) /\ ps[k].num \in A /\ ps[k].sep \in B
           /\ k + 1 <= Len(ps) /\ ps[k + 1].num \in A2 /\ ps[k + 1].sep \in B2
           /\ k + 2 <= Len(ps) /\ ps[k + 2].num \in A3 /\ ps[k + 2].sep \in B3
  BY <1>1, <1>2, <1>3
<1> QED BY <1>4 DEF list

\* The same, part by part.
PartIn(ps, k, A, B) == k <= Len(ps) /\ ps[k].num \in A /\ ps[k].sep \in B

LEMMA HasPartByPart ==
  ASSUME NEW ps, NEW k \in Nat, NEW A, NEW B, NEW A2, NEW B2, NEW A3, NEW B3
  PROVE  Has(ps, k, <<<<A, B>>, <<A2, B2>>, <<A3, B3>>>>) <=>
           PartIn(ps, k, A, B) /\ PartIn(ps, k + 1, A2, B2) /\ PartIn(ps, k + 2, A3, B3)
<1>1. Has(ps, k, <<<<A, B>>, <<A2, B2>>, <<A3, B3>>>>) <=>
           /\ k <= Len(ps) /\ ps[k].num \in A /\ ps[k].sep \in B
           /\ k + 1 <= Len(ps) /\ ps[k + 1].num \in A2 /\ ps[k + 1].sep \in B2
           /\ k + 2 <= Len(ps) /\ ps[k + 2].num \in A3 /\ ps[k + 2].sep \in B3
  BY HasThree
<1> QED BY <1>1, Zenon DEF PartIn

\* A time of day takes three parts; what ends the last is not looked at.
LEMMA ClockReads ==
  ASSUME Ready, NEW q \in offs..Len(str), NEW c, NEW k \in Nat \ {0}, Before(c, q, k)
  PROVE  /\ AtSep(HourMinuteSecond(c), q, k + 2)
         /\ HourMinuteSecond(c).ok <=>
              c.ok /\ k + 2 <= Len(PartsAt(q)) /\ Clock(PartsAt(q), k)
<1> DEFINE ps == PartsAt(q)
           c1 == c ** Num(0..23)
           c2 == c1 ** Lit({":"})
           c3 == c2 ** Num(0..59)
           c4 == c3 ** Lit({":"})
           c5 == c4 ** Num(0..60)
<1>0. HourMinuteSecond(c) = c5
  BY DEF HourMinuteSecond
<1>1. AtSep(c1, q, k) /\ (c1.ok <=> c.ok /\ ps[k].num \in 0..23)
  BY NumReads
<1> HIDE DEF c1
<1>2. Before(c2, q, k + 1) /\ (c2.ok <=> c1.ok /\ ps[k].sep \in {":"})
  BY <1>1, LitReads
<1> HIDE DEF c2
<1>3. AtSep(c3, q, k + 1) /\ (c3.ok <=> c2.ok /\ ps[k + 1].num \in 0..59)
  BY <1>2, NumReads
<1> HIDE DEF c3
<1>4. Before(c4, q, k + 2) /\ (c4.ok <=> c3.ok /\ ps[k + 1].sep \in {":"})
  <2>1. k + 1 \in Nat \ {0} /\ (k + 1) + 1 = k + 2
    OBVIOUS
  <2>2. Before(c4, q, (k + 1) + 1) /\ (c4.ok <=> c3.ok /\ ps[k + 1].sep \in {":"})
    BY <1>3, <2>1, LitReads
  <2> QED BY <2>1, <2>2
<1> HIDE DEF c4
<1>5. AtSep(c5, q, k + 2) /\ (c5.ok <=> c4.ok /\ ps[k + 2].num \in 0..60)
  BY <1>4, NumReads
<1> HIDE DEF c5
<1>6. c5.ok => k + 2 \in 1..Len(ps)
  BY <1>5 DEF AtSep
<1> DEFINE last == {ps[k + 2].sep}
<1>7. ps[k + 2].sep \in last /\ k \in Nat
  OBVIOUS
<1>8. Clock(ps, k) <=> Has(ps, k, <<<<0..23, {":"}>>, <<0..59, {":"}>>, <<0..60, last>>>>)
  BY DEF Clock
<1> HIDE DEF last, ps
<1>9. Clock(ps, k) <=>
           /\ k <= Len(ps) /\ ps[k].num \in 0..23 /\ ps[k].sep \in {":"}
           /\ k + 1 <= Len(ps) /\ ps[k + 1].num \in 0..59 /\ ps[k + 1].sep \in {":"}
           /\ k + 2 <= Len(ps) /\ ps[k + 2].num \in 0..60 /\ ps[k + 2].sep \in last
  <2>1. Clock(ps, k) <=> /\ PartIn(ps, k, 0..23, {":"}) /\ PartIn(ps, k + 1, 0..59, {":"})
                         /\ PartIn(ps, k + 2, 0..60, last)
    <3> DEFINE A == 0..23
               B == {":"}
               C == 0..59
               D == 0..60
    <3> HIDE DEF A, B, C, D
    <3>1. Clock(ps, k) <=> Has(ps, k, <<<<A, B>>, <<C, B>>, <<D, last>>>>)
      BY <1>8, Zenon DEF A, B, C, D
    <3>2. Clock(ps, k) <=> PartIn(ps, k, A, B) /\ PartIn(ps, k + 1, C, B) /\ PartIn(ps, k + 2, D, last)
      BY <1>7, <3>1, HasPartByPart
    <3> QED BY <3>2, Zenon DEF A, B, C, D
  <2> QED BY <2>1, Zenon DEF PartIn
<1>10. k + 2 \in 1..Len(ps) => k <= Len(ps) /\ k + 1 <= Len(ps) /\ k + 2 <= Len(ps)
  OBVIOUS
<1>11. c5.ok <=> c.ok /\ k + 2 <= Len(ps) /\ Clock(ps, k)
  BY <1>1, <1>2, <1>3, <1>4, <1>5, <1>6, <1>7, <1>9, <1>10
<1> QED BY <1>0, <1>5, <1>11 DEF ps

\* What Up gives back: the next parse begins where the cursor is, but for the
\* byte that a length one too large hides.
LEMMA UpNext ==
  ASSUME Ready, NEW d \in {0, 1}, NEW lo \in Nat, lo >= d, NEW c, Stands(d, lo, c), c.ok
  PROVE  Up(c).next = c.p - d
<1> DEFINE used == (Here.len - c.len) % Width
<1>0. /\ Len(str) \in Nat /\ Len(after) \in Nat /\ Width \in Nat /\ Len(str) + Len(after) < Width
      /\ offs \in Nat /\ offs < Len(str) /\ d \in Nat
  BY DEF Ready, StrOK, Buffer
<1>1. Here.len = Len(str) - offs
  BY HereStands
<1>2. c.p \in Nat /\ c.len \in Nat
  BY <1>0 DEF Stands, CursorSet
<1>3. c.p + c.len = Len(str) + d /\ offs + lo <= c.p /\ c.p <= Len(str) + Len(after)
  BY DEF Stands, Buffer
<1> DEFINE x == c.p
           l == c.len
           s == Len(str)
           a == Len(after)
           u == (x - offs) - d
<1>4. x \in Nat /\ l \in Nat /\ s \in Nat /\ a \in Nat /\ x + l = s + d /\ offs + lo <= x /\ x <= s + a
      /\ s + a < Width
  BY <1>0, <1>2, <1>3
<1>5. used = ((s - offs) - l) % Width /\ Up(c).next = (offs + used) % Width
  BY <1>1 DEF Up, Piece
<1> HIDE DEF x, l, s, a, used
<1>6. (s - offs) - l = u /\ u \in 0..(Width - 1) /\ offs + u = x - d /\ x - d \in 0..(Width - 1)
  BY <1>0, <1>4
<1> HIDE DEF u
<1>m. ASSUME NEW y \in 0..(Width - 1) PROVE y % Width = y
  BY <1>0, <1>m, SMTT(30)
<1>7. used = u
  BY <1>5, <1>6, <1>m
<1>8. Up(c).next = x - d
  BY <1>5, <1>6, <1>7, <1>m
<1> QED BY <1>8 DEF x

----------------------------------------------------------------------------
(* Each parser and its grammar.                                            *)

\* What is found is what the grammar allows.
AgreesWith(f, ends) == /\ ~f.ok => ends = {}
                       /\ f.ok => f.next - offs \in ends

\* What is known of the text at the offset.
LEMMA HereText ==
  ASSUME Ready
  PROVE  /\ Len(str) \in Nat /\ Width \in Nat /\ Len(str) < Width /\ offs \in Nat
         /\ offs < Len(str) /\ offs \in 0..Len(str) /\ offs \in offs..Len(str)
         /\ Rest \in Nat \ {0} /\ Rest = Len(str) - offs
         /\ Len(Text(offs)) = Rest /\ Text(offs) \in Seq(Byte)
         /\ \A i \in 1..Rest : Text(offs)[i] = At(offs + (i - 1))
<1>1. /\ Len(str) \in Nat /\ Width \in Nat /\ Len(str) < Width /\ offs \in Nat
      /\ offs < Len(str) /\ offs \in 0..Len(str) /\ offs \in offs..Len(str)
  BY DEF Ready, StrOK, Buffer
<1>2. Rest = Len(str) - offs /\ Rest \in Nat \ {0}
  BY <1>1 DEF Rest
<1> QED BY <1>1, <1>2, TextIs

\* A piece that is in the string begins and ends where it says.
LEMMA PieceNext ==
  ASSUME Ready, NEW ok, NEW from, NEW len, NEW n \in 0..Rest
  PROVE  Piece(ok, from, len, offs + n).next - offs = n
<1>1. offs + n \in 0..(Width - 1) /\ Width \in Nat /\ offs \in Nat /\ n \in Nat
  BY HereText
<1>2. (offs + n) % Width = offs + n
  <2> DEFINE x == offs + n
  <2> HIDE DEF x
  <2>1. x \in 0..(Width - 1)
    BY <1>1 DEF x
  <2>2. x % Width = x
    BY <1>1, <2>1, SMTT(30)
  <2> QED BY <2>2 DEF x
<1> QED BY <1>1, <1>2 DEF Piece

LEMMA WordAgrees ==
  ASSUME Ready
  PROVE  AgreesWith(Word, {n \in 1..Len(Text(offs)) :
                             /\ Free(Text(offs), n, {" "})
                             /\ n = Len(Text(offs)) \/ Text(offs)[n + 1] = " "})
<1> DEFINE ch == " "
<1> HIDE DEF ch
<1> DEFINE t == Text(offs)
           n == RunTo(offs, Rest, ch)
           ok == n > 0
           ends == {m \in 1..Len(t) : Free(t, m, {ch}) /\ (m = Len(t) \/ t[m + 1] = ch)}
<1>1. /\ offs \in Int /\ Rest \in Nat \ {0} /\ Len(t) = Rest
      /\ \A i \in 1..Rest : t[i] = At(offs + (i - 1))
  BY HereText
<1>2. /\ n \in 0..Rest /\ \A m \in 0..(n - 1) : At(offs + m) # ch
      /\ n = Rest \/ At(offs + n) = ch
  BY <1>1, RunToStops
<1>3. Word = Piece(ok, offs, n, offs + n)
  BY DEF Word, ch
<1> HIDE DEF n, t, ok
<1>4. Word.ok = ok
  BY <1>3, PieceOk
<1>5. Word.next - offs = n
  BY <1>2, <1>3, PieceNext
<1>6. CASE n > 0
  <2>1. \A i \in 1..n : t[i] # ch
    <3> SUFFICES ASSUME NEW i \in 1..n PROVE t[i] # ch
      OBVIOUS
    <3> DEFINE m == i - 1
    <3>1. m \in 0..(n - 1) /\ i \in 1..Rest
      BY <1>1, <1>2
    <3> HIDE DEF m
    <3>2. At(offs + m) # ch
      BY <1>2, <3>1
    <3> QED BY <1>1, <3>1, <3>2 DEF m
  <2>2. n = Rest \/ t[n + 1] = ch
    <3> DEFINE i == n + 1
    <3>1. i - 1 = n /\ (n # Rest => i \in 1..Rest)
      BY <1>1, <1>2
    <3> HIDE DEF i
    <3>2. n # Rest => t[i] = At(offs + n)
      BY <1>1, <3>1
    <3> QED BY <1>2, <3>2 DEF i
  <2>3. n \in 1..Len(t)
    BY <1>1, <1>2, <1>6
  <2>4. n \in ends
    BY <1>1, <2>1, <2>2, <2>3 DEF Free
  <2> HIDE DEF ends
  <2>5. Word.ok
    BY <1>4, <1>6 DEF ok
  <2> QED BY <1>5, <2>4, <2>5 DEF AgreesWith, ends, t, ch
<1>7. CASE n = 0
  <2>1. At(offs + 0) = ch /\ 1 \in 1..Rest
    BY <1>1, <1>2, <1>7
  <2>2. t[1] = ch
    BY <1>1, <2>1
  <2>3. ends = {}
    <3> SUFFICES ASSUME NEW m \in ends PROVE FALSE
      OBVIOUS
    <3>1. m \in 1..Len(t) /\ Free(t, m, {ch})
      OBVIOUS
    <3>2. 1 \in 1..m
      BY <1>1, <3>1
    <3> QED BY <2>2, <3>1, <3>2 DEF Free
  <2> HIDE DEF ends
  <2>4. ~ok
    BY <1>7 DEF ok
  <2>5. ~Word.ok
    BY <1>4, <2>4
  <2> QED BY <2>3, <2>5 DEF AgreesWith, ends, t, ch
<1>8. n = 0 \/ n > 0
  BY <1>1, <1>2
<1> QED BY <1>6, <1>7, <1>8, Zenon

LEMMA CharToAgrees ==
  ASSUME Ready, NEW ch
  PROVE  AgreesWith(CharTo(ch), {n \in 1..(Len(Text(offs)) - 1) :
                                   Free(Text(offs), n, {ch}) /\ Text(offs)[n + 1] = ch})
<1> DEFINE t == Text(offs)
           n == RunTo(offs, Rest, ch)
           ok == n > 0 /\ n < Rest
           ends == {m \in 1..(Len(t) - 1) : Free(t, m, {ch}) /\ t[m + 1] = ch}
<1>1. /\ offs \in Int /\ Rest \in Nat \ {0} /\ Len(t) = Rest
      /\ \A i \in 1..Rest : t[i] = At(offs + (i - 1))
  BY HereText
<1>2. /\ n \in 0..Rest /\ \A m \in 0..(n - 1) : At(offs + m) # ch
      /\ n = Rest \/ At(offs + n) = ch
  BY <1>1, RunToStops
<1>3. CharTo(ch) = Piece(ok, offs, n, offs + n)
  BY DEF CharTo
<1> DEFINE f == CharTo(ch)
<1> HIDE DEF n, t, ok, f
<1>4. f.ok = ok
  BY <1>3, PieceOk DEF f
<1>5. f.next - offs = n
  BY <1>2, <1>3, PieceNext DEF f
<1>6. \A i \in 1..n : t[i] # ch
  <2> SUFFICES ASSUME NEW i \in 1..n PROVE t[i] # ch
    OBVIOUS
  <2> DEFINE m == i - 1
  <2>1. m \in 0..(n - 1) /\ i \in 1..Rest
    BY <1>1, <1>2
  <2> HIDE DEF m
  <2>2. At(offs + m) # ch
    BY <1>2, <2>1
  <2> QED BY <1>1, <2>1, <2>2 DEF m
<1>7. n # Rest => t[n + 1] = ch
  <2> DEFINE i == n + 1
  <2>1. i - 1 = n /\ (n # Rest => i \in 1..Rest)
    BY <1>1, <1>2
  <2> HIDE DEF i
  <2>2. n # Rest => t[i] = At(offs + n)
    BY <1>1, <2>1
  <2> QED BY <1>2, <2>2 DEF i
<1>8. CASE ok
  <2>1. n \in 1..(Len(t) - 1) /\ n # Rest
    BY <1>1, <1>2, <1>8 DEF ok
  <2>2. n \in ends
    BY <1>6, <1>7, <2>1 DEF Free
  <2> HIDE DEF ends
  <2> QED BY <1>4, <1>5, <1>8, <2>2 DEF AgreesWith, ends, t, f
<1>9. CASE ~ok
  <2>1. ends = {}
    <3> SUFFICES ASSUME NEW m \in ends PROVE FALSE
      OBVIOUS
    <3>1. m \in 1..(Rest - 1) /\ (\A i \in 1..m : t[i] # ch) /\ t[m + 1] = ch
      BY <1>1 DEF Free
    <3> HIDE DEF ends
    <3>2. CASE n = 0
      <4>1. t[1] = ch /\ 1 \in 1..m
        BY <1>1, <1>7, <3>1, <3>2
      <4> QED BY <3>1, <4>1
    <3>3. CASE n = Rest
      <4>1. m + 1 \in 1..n
        BY <1>1, <3>1, <3>3
      <4> QED BY <1>6, <3>1, <4>1
    <3> QED BY <1>1, <1>2, <1>9, <3>2, <3>3 DEF ok
  <2> HIDE DEF ends
  <2> QED BY <1>4, <1>9, <2>1 DEF AgreesWith, ends, t, f
<1> QED BY <1>8, <1>9

LEMMA QuotedStringAgrees ==
  ASSUME Ready
  PROVE  AgreesWith(QuotedString, {n \in 2..Len(Text(offs)) :
                                     /\ Text(offs)[1] = "\"" /\ Text(offs)[n] = "\""
                                     /\ Free(Tail(Text(offs)), n - 2, {"\""})})
<1> DEFINE ch == "\""
<1> HIDE DEF ch
<1> DEFINE t == Text(offs)
           n == RunTo(offs + 1, Rest - 1, ch)
           ok == At(offs) = ch /\ n + 1 < Rest
           ends == {m \in 2..Len(t) : t[1] = ch /\ t[m] = ch /\ Free(Tail(t), m - 2, {ch})}
           f == QuotedString
<1>1. /\ offs \in Int /\ Rest \in Nat \ {0} /\ Len(t) = Rest /\ t \in Seq(Byte)
      /\ \A i \in 1..Rest : t[i] = At(offs + (i - 1))
  BY HereText
<1>2. /\ n \in 0..(Rest - 1) /\ \A m \in 0..(n - 1) : At(offs + 1 + m) # ch
      /\ n = Rest - 1 \/ At(offs + 1 + n) = ch
  <2>1. Rest - 1 \in Nat /\ offs + 1 \in Int
    BY <1>1
  <2> QED BY <2>1, RunToStops
<1>3. f = Piece(ok, offs + 1, n, offs + n + 2)
  BY DEF QuotedString, ch
<1>3a. offs + n + 2 = offs + (n + 2)
  BY <1>1, <1>2
<1> HIDE DEF n, t, ok, f
<1>4. f.ok = ok
  BY <1>3, PieceOk
<1>5. ASSUME ok PROVE f.next - offs = n + 2
  <2>1. n + 2 \in 0..Rest
    BY <1>1, <1>2, <1>5 DEF ok
  <2> QED BY <1>3, <1>3a, <2>1, PieceNext
<1>6. t[1] = At(offs)
  <2>1. 1 \in 1..Rest /\ offs + (1 - 1) = offs
    BY <1>1
  <2> QED BY <1>1, <2>1
<1>7. \A i \in 2..(n + 1) : t[i] # ch
  <2> SUFFICES ASSUME NEW i \in 2..(n + 1) PROVE t[i] # ch
    OBVIOUS
  <2> DEFINE m == i - 2
  <2>1. m \in 0..(n - 1) /\ i \in 1..Rest /\ offs + (i - 1) = offs + 1 + m
    BY <1>1, <1>2
  <2> HIDE DEF m
  <2>2. At(offs + 1 + m) # ch
    BY <1>2, <2>1
  <2> QED BY <1>1, <2>1, <2>2
<1>8. n # Rest - 1 => t[n + 2] = ch
  <2> DEFINE i == n + 2
  <2>1. offs + (i - 1) = offs + 1 + n /\ (n # Rest - 1 => i \in 1..Rest)
    BY <1>1, <1>2
  <2> HIDE DEF i
  <2>2. n # Rest - 1 => t[i] = At(offs + 1 + n)
    BY <1>1, <2>1
  <2> QED BY <1>2, <2>2 DEF i
<1>9. \A m \in 1..(Rest - 1) : Tail(t)[m] = t[m + 1]
  <2>1. t # <<>>
    BY <1>1
  <2> QED BY <1>1, <2>1, HeadTailProperties
<1>10. CASE ok
  <2>1. n + 2 \in 2..Len(t) /\ n # Rest - 1 /\ t[1] = ch
    BY <1>1, <1>2, <1>6, <1>10 DEF ok
  <2>2. Free(Tail(t), (n + 2) - 2, {ch})
    <3> SUFFICES ASSUME NEW m \in 1..((n + 2) - 2) PROVE Tail(t)[m] # ch
      BY DEF Free
    <3>1. m \in 1..(Rest - 1) /\ m + 1 \in 2..(n + 1)
      BY <1>1, <1>2
    <3> QED BY <1>7, <1>9, <3>1
  <2>3. n + 2 \in ends
    BY <1>8, <2>1, <2>2
  <2> HIDE DEF ends
  <2>4. AgreesWith(f, ends)
    BY <1>4, <1>5, <1>10, <2>3 DEF AgreesWith
  <2> QED BY <2>4 DEF ends, t, f, ch
<1>11. CASE ~ok
  <2>1. ends = {}
    <3> SUFFICES ASSUME NEW m \in ends PROVE FALSE
      OBVIOUS
    <3>1. m \in 2..Rest /\ t[1] = ch /\ t[m] = ch
      BY <1>1
    <3>2. n + 1 >= Rest
      BY <1>1, <1>2, <1>6, <1>11, <3>1 DEF ok
    <3>3. m \in 2..(n + 1)
      BY <1>1, <1>2, <3>1, <3>2
    <3> QED BY <1>7, <3>1, <3>3
  <2> HIDE DEF ends
  <2>2. AgreesWith(f, ends)
    BY <1>4, <1>11, <2>1 DEF AgreesWith
  <2> QED BY <2>2 DEF ends, t, f, ch
<1> QED BY <1>10, <1>11

LEMMA NumberAgrees ==
  ASSUME Ready
  PROVE  AgreesWith(Number, {n \in {Parts(Text(offs))[1].n} : n > 0 \/ offs > 0})
<1> DEFINE c == Here ** Num(Nat)
           ps == PartsAt(offs)
           n == ps[1].n
           ends == {m \in {n} : m > 0 \/ offs > 0}
<1>1. /\ Len(str) \in Nat /\ offs \in Nat /\ offs \in offs..Len(str) /\ Rest = Len(str) - offs
      /\ Rest \in Nat
  BY HereText
<1>2. Len(ps) \in Nat \ {0}
  <2>1. Len(Text(offs)) \in Nat
    BY HereText
  <2> QED BY <2>1, PartsAre DEF PartsAt
<1>3. 1 \in 1..Len(ps) /\ 1 \in 1..Len(PartsAt(offs))
  BY <1>2
<1>4. Begin(ps, 1) = 0
  BY DEF Begin
<1>5. Before(Here, offs, 1)
  <2>1. Stands(0, 0, Here) /\ Here.p = offs
    BY HereStands DEF Here, Cursor
  <2>2. offs = offs + 0
    BY <1>1
  <2> QED BY <1>3, <1>4, <2>1, <2>2 DEF Before
<1>6. AtSep(c, offs, 1) /\ (c.ok <=> Here.ok /\ ps[1].num \in Nat)
  BY <1>1, <1>5, NumReads
<1>7. /\ n \in 0..(Len(str) - (offs + 0)) /\ 0 + n = ps[1].at - 1
  BY <1>1, <1>3, <1>4, RunIsPart
<1>8. ps[1].num \in Nat
  <2> DEFINE t == Text(offs)
             e == ps[1].at
  <2>1. PartIs(t, ps, 1)
    BY <1>3, HereText, PartsAre DEF PartsAt
  <2>2. /\ Begin(ps, 1) \in Nat /\ e \in (0 + 1)..(Len(t) + 1)
        /\ ps[1].num = Decimal(SubSeq(t, 0 + 1, e - 1))
        /\ \A i \in (0 + 1)..(e - 1) : t[i] \in Digit
    BY <1>4, <2>1 DEF PartIs
  <2> HIDE DEF e
  <2>3. t \in Seq(Byte) /\ Len(t) \in Nat
    BY HereText
  <2> HIDE DEF t
  <2> DEFINE s == SubSeq(t, 0 + 1, e - 1)
  <2>4. Len(s) = e - 1 /\ Len(s) \in Nat /\ \A i \in 1..Len(s) : s[i] = t[i]
    BY <2>2, <2>3
  <2> HIDE DEF s
  <2>5. \A i \in 1..Len(s) : s[i] \in Digit
    BY <2>2, <2>4
  <2>6. Decimal(s) \in Nat
    BY <2>4, <2>5, DecimalNat
  <2> QED BY <2>2, <2>6 DEF s
<1>9. c.ok /\ c.p = offs + n
  <2>1. c.ok
    BY <1>6, <1>8, HereStands
  <2>2. c.p = offs + (ps[1].at - 1)
    BY <1>6, <2>1 DEF AtSep
  <2> QED BY <1>1, <1>7, <2>1, <2>2
<1>10. Stands(0, 0, c)
  BY <1>6 DEF AtSep
<1> HIDE DEF c, n, ps
<1>11. Up(c).next = c.p - 0
  BY <1>9, <1>10, UpNext
<1> DEFINE ok == c.p # 0
<1>12. Number = [Up(c) EXCEPT !.ok = ok]
  BY DEF Number, c
<1> HIDE DEF ok
<1>13. Number.ok = ok /\ Number.next = Up(c).next
  BY <1>12 DEF Up, Piece
<1>14. Number.next - offs = n /\ n \in Nat
  BY <1>1, <1>7, <1>9, <1>11, <1>13
<1>15. ok <=> n > 0 \/ offs > 0
  BY <1>1, <1>9, <1>14 DEF ok
<1>16. AgreesWith(Number, ends)
  BY <1>13, <1>14, <1>15 DEF AgreesWith
<1> QED BY <1>16 DEF n, ps, PartsAt

\* What a text with a given list of part lengths looks like.
LEMMA SizesThree ==
  ASSUME NEW ps, NEW m \in Nat, DOMAIN ps = 1..m, NEW a
  PROVE  Sizes(ps, <<a, 2, 2>>) <=> m = 3 /\ ps[1].n = a /\ ps[2].n = 2 /\ ps[3].n = 2
<1> DEFINE f == [k \in DOMAIN ps |-> ps[k].n]
           g == <<a, 2, 2>>
<1>1. DOMAIN f = 1..m /\ \A k \in 1..m : f[k] = ps[k].n
  OBVIOUS
<1>2. DOMAIN g = 1..3 /\ g[1] = a /\ g[2] = 2 /\ g[3] = 2
  OBVIOUS
<1>3. \A k \in 1..3 : k = 1 \/ k = 2 \/ k = 3
  OBVIOUS
<1>4. 1 \in 1..3 /\ 2 \in 1..3 /\ 3 \in 1..3
  OBVIOUS
<1>5. f = [k \in DOMAIN f |-> f[k]] /\ g = [k \in DOMAIN g |-> g[k]]
  OBVIOUS
<1>6. (1..m = 1..3) => m = 3
  <2> SUFFICES ASSUME 1..m = 1..3 PROVE m = 3
    OBVIOUS
  <2>1. 3 \in 1..m
    BY <1>4
  <2>2. m \in 1..m
    BY <2>1
  <2>3. m \in 1..3
    BY <2>2
  <2> QED BY <2>1, <2>3
<1> HIDE DEF f, g
<1>7. ASSUME f = g PROVE m = 3 /\ ps[1].n = a /\ ps[2].n = 2 /\ ps[3].n = 2
  <2>1. m = 3
    BY <1>1, <1>2, <1>6, <1>7
  <2> QED BY <1>1, <1>2, <1>4, <1>7, <2>1
<1>8. ASSUME m = 3, ps[1].n = a, ps[2].n = 2, ps[3].n = 2 PROVE f = g
  <2>1. \A k \in 1..3 : f[k] = g[k]
    BY <1>1, <1>2, <1>3, <1>8
  <2> QED BY <1>1, <1>2, <1>5, <1>8, <2>1
<1>9. Sizes(ps, g) <=> f = g
  BY DEF Sizes, f
<1> QED BY <1>7, <1>8, <1>9 DEF g

\* Digits up to a place that has none are a part.
LEMMA PartEnds ==
  ASSUME NEW t, NEW l \in Nat, Len(t) = l, NEW ps, NEW k, PartIs(t, ps, k),
         NEW b, b = Begin(ps, k), NEW e \in Nat, b < e, e <= l + 1,
         \A i \in (b + 1)..(e - 1) : t[i] \in Digit, e = l + 1 \/ t[e] \notin Digit
  PROVE  ps[k].at = e
<1> DEFINE x == ps[k].at
<1>1. /\ b \in Nat /\ x \in (b + 1)..(l + 1)
      /\ \A i \in (b + 1)..(x - 1) : t[i] \in Digit
      /\ x <= l => t[x] \notin Digit
  BY DEF PartIs
<1> HIDE DEF x
<1>2. CASE x < e
  <2>1. x \in (b + 1)..(e - 1) /\ x <= l
    BY <1>1, <1>2
  <2> QED BY <1>1, <2>1
<1>3. CASE x > e
  <2>1. e \in (b + 1)..(x - 1) /\ e # l + 1
    BY <1>1, <1>3
  <2> QED BY <1>1, <2>1
<1> QED BY <1>1, <1>2, <1>3 DEF x

\* The number of a part of two digits.
LEMMA PartTwo ==
  ASSUME NEW t \in Seq(Byte), NEW ps, NEW k, PartIs(t, ps, k),
         NEW b, b = Begin(ps, k), ps[k].at = b + 3
  PROVE  /\ ps[k].num = 10 * DigitVal[t[b + 1]] + DigitVal[t[b + 2]]
         /\ t[b + 1] \in Digit /\ t[b + 2] \in Digit
<1> DEFINE s == SubSeq(t, b + 1, b + 2)
<1>1. /\ b \in Nat /\ b + 3 <= Len(t) + 1 /\ Len(t) \in Nat
      /\ ps[k].num = Decimal(SubSeq(t, b + 1, (b + 3) - 1))
      /\ \A i \in (b + 1)..((b + 3) - 1) : t[i] \in Digit
  BY DEF PartIs
<1>2. (b + 3) - 1 = b + 2 /\ b + 1 \in (b + 1)..(b + 2) /\ b + 2 \in (b + 1)..(b + 2)
  BY <1>1
<1>3. ps[k].num = Decimal(s) /\ t[b + 1] \in Digit /\ t[b + 2] \in Digit
  BY <1>1, <1>2
<1>4. Len(s) = 2 /\ s[1] = t[b + 1] /\ s[2] = t[b + 2]
  <2> DEFINE x == b + 1
             y == b + 2
             l == Len(t)
  <2>0. b \in Nat /\ l \in Nat /\ b + 3 <= l + 1
    BY <1>1
  <2> HIDE DEF l, s
  <2>1. x \in 1..(l + 1) /\ y \in Nat /\ y - x + 1 = 2 /\ x + 1 - 1 = x /\ x + 2 - 1 = y
        /\ x <= y
    BY <2>0
  <2> HIDE DEF x, y
  <2>2. s = [i \in 1..(y - x + 1) |-> t[x + i - 1]]
    BY <2>1 DEF x, y, l, s
  <2>3. s = [i \in 1..2 |-> t[x + i - 1]]
    BY <2>1, <2>2
  <2>4. Len(s) = 2 /\ s[1] = t[x + 1 - 1] /\ s[2] = t[x + 2 - 1]
    <3> HIDE DEF s
    <3> QED BY <2>3
  <2> QED BY <2>1, <2>4 DEF x, y
<1> HIDE DEF s
<1>5. Decimal(s) = 10 * DigitVal[s[1]] + DigitVal[s[2]]
  BY <1>3, <1>4, DecimalTwo
<1> QED BY <1>3, <1>4, <1>5

\* A part's number is a natural number.
LEMMA PartNat ==
  ASSUME NEW t \in Seq(Byte), NEW ps, NEW k, PartIs(t, ps, k)
  PROVE  ps[k].num \in Nat
<1> DEFINE b == Begin(ps, k)
           e == ps[k].at
           s == SubSeq(t, b + 1, e - 1)
<1>1. /\ b \in Nat /\ e \in (b + 1)..(Len(t) + 1) /\ Len(t) \in Nat
      /\ ps[k].num = Decimal(s)
      /\ \A i \in (b + 1)..(e - 1) : t[i] \in Digit
  BY DEF PartIs
<1> HIDE DEF b, e
<1>2. Len(s) = e - 1 - b /\ Len(s) \in Nat /\ \A i \in 1..Len(s) : s[i] = t[b + i]
  BY <1>1
<1>3. \A i \in 1..(e - 1 - b) : b + i \in (b + 1)..(e - 1)
  BY <1>1
<1> HIDE DEF s
<1>4. \A i \in 1..Len(s) : s[i] \in Digit
  BY <1>1, <1>2, <1>3
<1> QED BY <1>1, <1>2, <1>4, DecimalNat

\* A text of three parts, the last two of two digits, from the places of its
\* digits to its parts.
LEMMA LayoutParts ==
  ASSUME NEW a \in {2, 4}, NEW t \in Seq(Byte), Len(t) = a + 6,
         \A i \in 1..a : t[i] \in Digit, t[a + 1] \notin Digit,
         t[a + 2] \in Digit, t[a + 3] \in Digit, t[a + 4] \notin Digit,
         t[a + 5] \in Digit, t[a + 6] \in Digit
  PROVE  Sizes(Parts(t), <<a, 2, 2>>)
<1> DEFINE ps == Parts(t)
           m == Len(ps)
           l == a + 6
<1>1. /\ m \in Nat \ {0} /\ DOMAIN ps = 1..m /\ \A k \in 1..m : PartIs(t, ps, k)
      /\ a \in Nat /\ l \in Nat /\ Len(t) = l
  BY PartsAre
<1> HIDE DEF ps, m, l
<1>2. ps[1].at = a + 1 /\ 1 < m
  <2>0. 1 \in 1..m /\ Begin(ps, 1) = 0
    BY <1>1 DEF Begin
  <2>a. PartIs(t, ps, 1)
    BY <1>1, <2>0
  <2> DEFINE b == 0
             e == a + 1
  <2>1. e \in Nat /\ b < e /\ e <= l /\ e <= l + 1 /\ b = Begin(ps, 1)
        /\ \A i \in (b + 1)..(e - 1) : t[i] \in Digit /\ t[e] \notin Digit
    BY <2>0 DEF l
  <2>1a. t[e] \notin Digit
    OBVIOUS
  <2> HIDE DEF b, e
  <2>2. ps[1].at = e
    BY <1>1, <2>a, <2>1, <2>1a, PartEnds
  <2>3. 1 < m
    BY <2>a, <2>1, <2>2, <1>1 DEF PartIs, m
  <2> QED BY <2>2, <2>3 DEF e
<1>3. ps[2].at = a + 4 /\ 2 < m
  <2>0. 2 \in 1..m /\ Begin(ps, 2) = a + 1
    BY <1>1, <1>2 DEF Begin
  <2>a. PartIs(t, ps, 2)
    BY <1>1, <2>0
  <2> DEFINE b == a + 1
             e == a + 4
  <2>1. e \in Nat /\ b < e /\ e <= l /\ e <= l + 1 /\ b = Begin(ps, 2)
        /\ (b + 1)..(e - 1) = {a + 2, a + 3}
    BY <2>0 DEF l
  <2>1a. t[e] \notin Digit /\ \A i \in (b + 1)..(e - 1) : t[i] \in Digit
    BY <2>1
  <2> HIDE DEF b, e
  <2>2. ps[2].at = e
    BY <1>1, <2>a, <2>1, <2>1a, PartEnds
  <2>3. 2 < m
    BY <2>a, <2>1, <2>2, <1>1 DEF PartIs, m
  <2> QED BY <2>2, <2>3 DEF e
<1>4. ps[3].at = a + 7 /\ 3 = m
  <2>0. 3 \in 1..m /\ Begin(ps, 3) = a + 4
    BY <1>1, <1>3 DEF Begin
  <2>a. PartIs(t, ps, 3)
    BY <1>1, <2>0
  <2> DEFINE b == a + 4
             e == a + 7
  <2>1. e \in Nat /\ b < e /\ e = l + 1 /\ e <= l + 1 /\ e > l /\ b = Begin(ps, 3)
        /\ (b + 1)..(e - 1) = {a + 5, a + 6}
    BY <2>0 DEF l
  <2>1a. \A i \in (b + 1)..(e - 1) : t[i] \in Digit
    BY <2>1
  <2> HIDE DEF b, e
  <2>2. ps[3].at = e
    BY <1>1, <2>a, <2>1, <2>1a, PartEnds
  <2>3. 3 = m
    BY <2>a, <2>1, <2>2, <1>1 DEF PartIs, m
  <2> QED BY <2>2, <2>3 DEF e
<1>5. ps[1].n = a /\ ps[2].n = 2 /\ ps[3].n = 2
  <2>1. 1 \in 1..m /\ 2 \in 1..m /\ 3 \in 1..m
    BY <1>4
  <2>2. Begin(ps, 1) = 0 /\ Begin(ps, 2) = a + 1 /\ Begin(ps, 3) = a + 4
    BY <1>2, <1>3 DEF Begin
  <2>3. /\ ps[1].n = (a + 1) - 0 - 1 /\ ps[2].n = (a + 4) - (a + 1) - 1
        /\ ps[3].n = (a + 7) - (a + 4) - 1
    BY <1>1, <1>2, <1>3, <1>4, <2>1, <2>2 DEF PartIs
  <2> QED BY <2>3, <1>1
<1> QED BY <1>1, <1>4, <1>5, SizesThree DEF ps

\* And back.
LEMMA LayoutOf ==
  ASSUME NEW a \in {2, 4}, NEW t \in Seq(Byte), Len(t) = a + 6, Sizes(Parts(t), <<a, 2, 2>>)
  PROVE  LET ps == Parts(t)
         IN  /\ \A i \in 1..a : t[i] \in Digit
             /\ t[a + 2] \in Digit /\ t[a + 3] \in Digit
             /\ t[a + 5] \in Digit /\ t[a + 6] \in Digit
             /\ Len(ps) = 3 /\ ps[1].num \in Nat
             /\ a = 2 => ps[1].num = 10 * DigitVal[t[1]] + DigitVal[t[2]]
             /\ ps[1].sep = t[a + 1]
             /\ ps[2].num = 10 * DigitVal[t[a + 2]] + DigitVal[t[a + 3]] /\ ps[2].sep = t[a + 4]
             /\ ps[3].num = 10 * DigitVal[t[a + 5]] + DigitVal[t[a + 6]] /\ ps[3].sep = "end"
<1> DEFINE ps == Parts(t)
           m == Len(ps)
           l == a + 6
<1>1. /\ m \in Nat \ {0} /\ DOMAIN ps = 1..m /\ \A k \in 1..m : PartIs(t, ps, k)
      /\ a \in Nat /\ l \in Nat /\ Len(t) = l
  BY PartsAre
<1>2. m = 3 /\ ps[1].n = a /\ ps[2].n = 2 /\ ps[3].n = 2
  BY <1>1, SizesThree
<1>3. 1 \in 1..m /\ 2 \in 1..m /\ 3 \in 1..m
  BY <1>2
<1>4. PartIs(t, ps, 1) /\ PartIs(t, ps, 2) /\ PartIs(t, ps, 3)
  BY <1>1, <1>3
<1> HIDE DEF ps, m, l
<1>5. Begin(ps, 1) = 0 /\ Begin(ps, 2) = ps[1].at /\ Begin(ps, 3) = ps[2].at
  BY DEF Begin
<1>6. ps[1].at = a + 1
  <2> DEFINE e == ps[1].at
  <2>1. e \in (0 + 1)..(l + 1) /\ a = e - 0 - 1
    BY <1>1, <1>2, <1>4, <1>5 DEF PartIs
  <2> HIDE DEF e
  <2>2. e = a + 1
    BY <1>1, <2>1
  <2> QED BY <2>2 DEF e
<1>7. ps[2].at = a + 4
  <2> DEFINE e == ps[2].at
  <2>1. e \in ((a + 1) + 1)..(l + 1) /\ 2 = e - (a + 1) - 1
    BY <1>1, <1>2, <1>4, <1>5, <1>6 DEF PartIs
  <2> HIDE DEF e
  <2>2. e = a + 4
    BY <1>1, <2>1
  <2> QED BY <2>2 DEF e
<1>8. ps[3].at = a + 7
  <2> DEFINE e == ps[3].at
  <2> DEFINE w == Begin(ps, 3)
  <2>0. e \in (w + 1)..(Len(t) + 1) /\ ps[3].n = e - w - 1
    BY <1>4, Zenon DEF PartIs
  <2>1. e \in ((a + 4) + 1)..(l + 1) /\ 2 = e - (a + 4) - 1
    <3>1. w = a + 4
      BY <1>5, <1>7
    <3> HIDE DEF w, e
    <3> QED BY <1>1, <1>2, <2>0, <3>1
  <2> HIDE DEF e
  <2>2. e = a + 7
    BY <1>1, <2>1
  <2> QED BY <2>2 DEF e
<1>9. /\ \A i \in 1..a : t[i] \in Digit
      /\ ps[1].sep = t[a + 1] /\ ps[2].sep = t[a + 4] /\ ps[3].sep = "end"
  <2>1. a + 1 <= Len(t) /\ a + 4 <= Len(t) /\ a + 7 > Len(t)
    BY <1>1 DEF l
  <2>2. ps[1].sep = t[a + 1]
    BY <1>4, <1>6, <2>1 DEF PartIs
  <2>3. ps[2].sep = t[a + 4]
    BY <1>4, <1>7, <2>1 DEF PartIs
  <2>4. ps[3].sep = "end"
    BY <1>4, <1>8, <2>1 DEF PartIs
  <2>5. \A i \in (0 + 1)..((a + 1) - 1) : t[i] \in Digit
    BY <1>4, <1>5, <1>6 DEF PartIs
  <2>6. 0 + 1 = 1 /\ (a + 1) - 1 = a
    BY <1>1
  <2> QED BY <2>2, <2>3, <2>4, <2>5, <2>6
<1>10. /\ ps[2].num = 10 * DigitVal[t[a + 2]] + DigitVal[t[a + 3]]
       /\ t[a + 2] \in Digit /\ t[a + 3] \in Digit
  <2> DEFINE b == a + 1
  <2>1. b = Begin(ps, 2) /\ ps[2].at = b + 3 /\ b + 1 = a + 2 /\ b + 2 = a + 3
    BY <1>1, <1>5, <1>6, <1>7
  <2> HIDE DEF b
  <2> QED BY <1>4, <2>1, PartTwo
<1>11. /\ ps[3].num = 10 * DigitVal[t[a + 5]] + DigitVal[t[a + 6]]
       /\ t[a + 5] \in Digit /\ t[a + 6] \in Digit
  <2> DEFINE b == a + 4
  <2>1. b = Begin(ps, 3) /\ ps[3].at = b + 3 /\ b + 1 = a + 5 /\ b + 2 = a + 6
    BY <1>1, <1>5, <1>7, <1>8
  <2> HIDE DEF b
  <2> QED BY <1>4, <2>1, PartTwo
<1>12. ASSUME a = 2 PROVE ps[1].num = 10 * DigitVal[t[1]] + DigitVal[t[2]]
  <2> DEFINE b == 0
  <2>1. b = Begin(ps, 1) /\ ps[1].at = b + 3 /\ b + 1 = 1 /\ b + 2 = 2
    BY <1>5, <1>6, <1>12
  <2> HIDE DEF b
  <2> QED BY <1>4, <2>1, PartTwo
<1>13. ps[1].num \in Nat
  BY <1>4, PartNat
<1> QED BY <1>2, <1>9, <1>10, <1>11, <1>12, <1>13 DEF ps, m

----------------------------------------------------------------------------
(* Digits, and pairs of digits.                                            *)

\* Digits and pairs of digits by what they are worth.
LEMMA DigitByVal ==
  \A d \in Digit :
    /\ DigitVal[d] \in 0..9
    /\ d = "0" <=> DigitVal[d] = 0
    /\ d = "1" <=> DigitVal[d] = 1
    /\ d = "2" <=> DigitVal[d] = 2
    /\ d = "3" <=> DigitVal[d] = 3
    /\ d \in {"0", "1", "2"} <=> DigitVal[d] <= 2
    /\ d \in {"0", "1", "2", "3"} <=> DigitVal[d] <= 3
    /\ d \in {"0", "1", "2", "3", "4", "5"} <=> DigitVal[d] <= 5
BY DigitIs, DigitValIs

Tens(d, e) == 10 * DigitVal[d] + DigitVal[e]

LEMMA PairsBelow60 ==
  \A d, e \in Digit : <<d, e>> \in {"0", "1", "2", "3", "4", "5"} \X Digit <=> Tens(d, e) \in 0..59
<1> SUFFICES ASSUME NEW d \in Digit, NEW e \in Digit
             PROVE  <<d, e>> \in {"0", "1", "2", "3", "4", "5"} \X Digit <=> Tens(d, e) \in 0..59
  OBVIOUS
<1> DEFINE x == DigitVal[d]
           y == DigitVal[e]
           low == d \in {"0", "1", "2", "3", "4", "5"}
<1>1. x \in 0..9 /\ y \in 0..9 /\ (low <=> x <= 5) /\ Tens(d, e) = 10 * x + y
  BY DigitByVal DEF Tens
<1>2. <<d, e>> \in {"0", "1", "2", "3", "4", "5"} \X Digit <=> low
  OBVIOUS
<1> HIDE DEF x, y, low
<1>3. 10 * x + y \in 0..59 <=> x <= 5
  BY <1>1
<1> QED BY <1>1, <1>2, <1>3

LEMMA PairsOfDigits ==
  /\ ({"0", "1", "2", "3", "4", "5"} \X Digit) \in SUBSET (Digit \X Digit)
  /\ (({"0", "1"} \X Digit) \cup ({"2"} \X {"0", "1", "2", "3"})) \in SUBSET (Digit \X Digit)
  /\ (({"0"} \X Digit) \cup ({"1"} \X {"0", "1", "2"})) \in SUBSET (Digit \X Digit)
  /\ (({"0"} \X (Digit \ {"0"})) \cup ({"1"} \X {"0", "1", "2"})) \in SUBSET (Digit \X Digit)
  /\ (({"0"} \X (Digit \ {"0"})) \cup ({"1", "2"} \X Digit) \cup ({"3"} \X {"0", "1"}))
       \in SUBSET (Digit \X Digit)
<1>1. {"0", "1", "2", "3", "4", "5"} \subseteq Digit
  BY DigitIs
<1> QED BY <1>1

LEMMA PairsBelow24 ==
  \A d, e \in Digit : <<d, e>> \in ({"0", "1"} \X Digit) \cup ({"2"} \X {"0", "1", "2", "3"})
                        <=> Tens(d, e) \in 0..23
<1> SUFFICES ASSUME NEW d \in Digit, NEW e \in Digit
             PROVE  <<d, e>> \in ({"0", "1"} \X Digit) \cup ({"2"} \X {"0", "1", "2", "3"})
                      <=> Tens(d, e) \in 0..23
  OBVIOUS
<1> DEFINE x == DigitVal[d]
           y == DigitVal[e]
           low == d = "0" \/ d = "1"
           two == d = "2"
           three == e \in {"0", "1", "2", "3"}
<1>1. /\ x \in 0..9 /\ y \in 0..9 /\ (low <=> x <= 1) /\ (two <=> x = 2) /\ (three <=> y <= 3)
      /\ Tens(d, e) = 10 * x + y
  BY DigitByVal DEF Tens
<1>2. <<d, e>> \in ({"0", "1"} \X Digit) \cup ({"2"} \X {"0", "1", "2", "3"})
        <=> low \/ (two /\ three)
  OBVIOUS
<1> HIDE DEF x, y, low, two, three
<1>3. 10 * x + y \in 0..23 <=> x <= 1 \/ (x = 2 /\ y <= 3)
  BY <1>1
<1> QED BY <1>1, <1>2, <1>3

LEMMA PairsTo12 ==
  \A d, e \in Digit : <<d, e>> \in ({"0"} \X Digit) \cup ({"1"} \X {"0", "1", "2"})
                        <=> Tens(d, e) \in 0..12
<1> SUFFICES ASSUME NEW d \in Digit, NEW e \in Digit
             PROVE  <<d, e>> \in ({"0"} \X Digit) \cup ({"1"} \X {"0", "1", "2"})
                      <=> Tens(d, e) \in 0..12
  OBVIOUS
<1> DEFINE x == DigitVal[d]
           y == DigitVal[e]
           zero == d = "0"
           one == d = "1"
           two == e \in {"0", "1", "2"}
<1>1. /\ x \in 0..9 /\ y \in 0..9 /\ (zero <=> x = 0) /\ (one <=> x = 1) /\ (two <=> y <= 2)
      /\ Tens(d, e) = 10 * x + y
  BY DigitByVal DEF Tens
<1>2. <<d, e>> \in ({"0"} \X Digit) \cup ({"1"} \X {"0", "1", "2"}) <=> zero \/ (one /\ two)
  OBVIOUS
<1> HIDE DEF x, y, zero, one, two
<1>3. 10 * x + y \in 0..12 <=> x = 0 \/ (x = 1 /\ y <= 2)
  BY <1>1
<1> QED BY <1>1, <1>2, <1>3

LEMMA PairsOfMonth ==
  \A d, e \in Digit : <<d, e>> \in ({"0"} \X (Digit \ {"0"})) \cup ({"1"} \X {"0", "1", "2"})
                        <=> Tens(d, e) \in 1..12
<1> SUFFICES ASSUME NEW d \in Digit, NEW e \in Digit
             PROVE  <<d, e>> \in ({"0"} \X (Digit \ {"0"})) \cup ({"1"} \X {"0", "1", "2"})
                      <=> Tens(d, e) \in 1..12
  OBVIOUS
<1> DEFINE x == DigitVal[d]
           y == DigitVal[e]
           zero == d = "0"
           one == d = "1"
           none == e = "0"
           two == e \in {"0", "1", "2"}
<1>1. /\ x \in 0..9 /\ y \in 0..9 /\ (zero <=> x = 0) /\ (one <=> x = 1) /\ (two <=> y <= 2)
      /\ (none <=> y = 0) /\ Tens(d, e) = 10 * x + y
  BY DigitByVal DEF Tens
<1>2. <<d, e>> \in ({"0"} \X (Digit \ {"0"})) \cup ({"1"} \X {"0", "1", "2"})
        <=> (zero /\ ~none) \/ (one /\ two)
  OBVIOUS
<1> HIDE DEF x, y, zero, one, none, two
<1>3. 10 * x + y \in 1..12 <=> (x = 0 /\ y # 0) \/ (x = 1 /\ y <= 2)
  BY <1>1
<1> QED BY <1>1, <1>2, <1>3

LEMMA PairsOfDay ==
  \A d, e \in Digit : <<d, e>> \in ({"0"} \X (Digit \ {"0"})) \cup ({"1", "2"} \X Digit)
                                   \cup ({"3"} \X {"0", "1"})
                        <=> Tens(d, e) \in 1..31
<1> SUFFICES ASSUME NEW d \in Digit, NEW e \in Digit
             PROVE  <<d, e>> \in ({"0"} \X (Digit \ {"0"})) \cup ({"1", "2"} \X Digit)
                                 \cup ({"3"} \X {"0", "1"})
                      <=> Tens(d, e) \in 1..31
  OBVIOUS
<1> DEFINE x == DigitVal[d]
           y == DigitVal[e]
           zero == d = "0"
           some == d = "1" \/ d = "2"
           three == d = "3"
           none == e = "0"
           one == e = "1"
<1>1. /\ x \in 0..9 /\ y \in 0..9 /\ (zero <=> x = 0) /\ (some <=> x \in {1, 2})
      /\ (three <=> x = 3) /\ (none <=> y = 0) /\ (one <=> y = 1) /\ Tens(d, e) = 10 * x + y
  BY DigitByVal DEF Tens
<1>2. <<d, e>> \in ({"0"} \X (Digit \ {"0"})) \cup ({"1", "2"} \X Digit) \cup ({"3"} \X {"0", "1"})
        <=> (zero /\ ~none) \/ some \/ (three /\ (none \/ one))
  OBVIOUS
<1> HIDE DEF x, y, zero, some, three, none, one
<1>3. 10 * x + y \in 1..31 <=> (x = 0 /\ y # 0) \/ x \in {1, 2} \/ (x = 3 /\ y <= 1)
  BY <1>1
<1>4. y <= 1 <=> none \/ one
  BY <1>1
<1> QED BY <1>1, <1>2, <1>3, <1>4

\* The first bytes of the text.
LEMMA HeadText ==
  ASSUME Ready, NEW n \in Nat, n <= Rest
  PROVE  LET h == SubSeq(Text(offs), 1, n)
         IN  h \in Seq(Byte) /\ Len(h) = n /\ \A i \in 1..n : h[i] = At(offs + (i - 1))
<1> DEFINE t == Text(offs)
<1>1. t \in Seq(Byte) /\ Len(t) = Rest /\ Rest \in Nat /\ \A i \in 1..Rest : t[i] = At(offs + (i - 1))
  BY HereText
<1> HIDE DEF t
<1> DEFINE h == SubSeq(t, 1, n)
<1>2. h \in Seq(Byte) /\ Len(h) = n /\ \A i \in 1..n : h[i] = t[i]
  BY <1>1
<1> HIDE DEF h
<1>3. \A i \in 1..n : i \in 1..Rest
  BY <1>1
<1>4. h \in Seq(Byte) /\ Len(h) = n /\ \A i \in 1..n : h[i] = At(offs + (i - 1))
  BY <1>1, <1>2, <1>3
<1> QED BY <1>4 DEF h, t

\* Bytes that are pairs of digits are a time of day, for any hours.
LEMMA TimeAgrees ==
  ASSUME Ready, NEW H \in SUBSET (Digit \X Digit), NEW S,
         \A d, e \in Digit : <<d, e>> \in H <=> Tens(d, e) \in S
  PROVE  AgreesWith(Time(H), EndsTime(Text(offs), S))
<1> DEFINE t == Text(offs)
           h == SubSeq(t, 1, 8)
           ps == Parts(h)
           sixty == {"0", "1", "2", "3", "4", "5"} \X Digit
           m == /\ Two(0) \in H
                /\ At(offs + 2) = ":" /\ At(offs + 5) = ":"
                /\ \A i \in {3, 6} : Two(i) \in sixty
           ok == 8 <= Rest /\ m
           g == /\ Sizes(ps, <<2, 2, 2>>)
                /\ Has(ps, 1, <<<<S, {":"}>>, <<0..59, {":"}>>, <<0..59, {"end"}>>>>)
           f == Time(H)
           ends == EndsTime(t, S)
<1>1. Rest \in Nat /\ Len(t) = Rest /\ offs \in Nat
  BY HereText
<1>2. f = Piece(ok, offs, 8, offs + 8)
  BY DEF Time, Fixed
<1>3. ends = IF Len(t) >= 8 /\ g THEN {8} ELSE {}
  BY Zenon DEF EndsTime
<1>4. ASSUME 8 <= Rest PROVE m <=> g
  <2>1. h \in Seq(Byte) /\ Len(h) = 8 /\ \A i \in 1..8 : h[i] = At(offs + (i - 1))
    BY <1>4, HeadText
  <2> HIDE DEF h
  <2>2. /\ h[1] = At(offs + 0) /\ h[2] = At(offs + 0 + 1) /\ h[3] = At(offs + 2)
        /\ h[4] = At(offs + 3) /\ h[5] = At(offs + 3 + 1) /\ h[6] = At(offs + 5)
        /\ h[7] = At(offs + 6) /\ h[8] = At(offs + 6 + 1)
    <3>1. /\ offs + (1 - 1) = offs + 0 /\ offs + (2 - 1) = offs + 0 + 1 /\ offs + (3 - 1) = offs + 2
          /\ offs + (4 - 1) = offs + 3 /\ offs + (5 - 1) = offs + 3 + 1
          /\ offs + (6 - 1) = offs + 5 /\ offs + (7 - 1) = offs + 6
          /\ offs + (8 - 1) = offs + 6 + 1
      BY <1>1
    <3>2. /\ 1 \in 1..8 /\ 2 \in 1..8 /\ 3 \in 1..8 /\ 4 \in 1..8 /\ 5 \in 1..8 /\ 6 \in 1..8
          /\ 7 \in 1..8 /\ 8 \in 1..8
      OBVIOUS
    <3>3. /\ h[1] = At(offs + (1 - 1)) /\ h[2] = At(offs + (2 - 1)) /\ h[3] = At(offs + (3 - 1))
          /\ h[4] = At(offs + (4 - 1)) /\ h[5] = At(offs + (5 - 1)) /\ h[6] = At(offs + (6 - 1))
          /\ h[7] = At(offs + (7 - 1)) /\ h[8] = At(offs + (8 - 1))
      BY <2>1, <3>2, Zenon
    <3> QED BY <3>1, <3>3, Zenon
  <2>3. m <=> /\ <<h[1], h[2]>> \in H /\ h[3] = ":" /\ h[6] = ":"
              /\ <<h[4], h[5]>> \in sixty /\ <<h[7], h[8]>> \in sixty
    <3>1. Two(0) = <<h[1], h[2]>> /\ Two(3) = <<h[4], h[5]>> /\ Two(6) = <<h[7], h[8]>>
      BY <2>2 DEF Two
    <3> HIDE DEF sixty
    <3> QED BY <2>2, <3>1
  <2>4. g <=> /\ Sizes(ps, <<2, 2, 2>>)
              /\ 1 <= Len(ps) /\ ps[1].num \in S /\ ps[1].sep \in {":"}
              /\ 1 + 1 <= Len(ps) /\ ps[1 + 1].num \in 0..59 /\ ps[1 + 1].sep \in {":"}
              /\ 1 + 2 <= Len(ps) /\ ps[1 + 2].num \in 0..59 /\ ps[1 + 2].sep \in {"end"}
    <3> DEFINE k == 1
               A == 0..59
               B == {":"}
               C == {"end"}
    <3>1. k \in Nat
      OBVIOUS
    <3> HIDE DEF k, ps, A, B, C
    <3>2. Has(ps, k, <<<<S, B>>, <<A, B>>, <<A, C>>>>) <=>
              /\ k <= Len(ps) /\ ps[k].num \in S /\ ps[k].sep \in B
              /\ k + 1 <= Len(ps) /\ ps[k + 1].num \in A /\ ps[k + 1].sep \in B
              /\ k + 2 <= Len(ps) /\ ps[k + 2].num \in A /\ ps[k + 2].sep \in C
      BY <3>1, HasThree
    <3> QED BY <3>2, Zenon DEF k, A, B, C
  <2>5. 1 + 1 = 2 /\ 1 + 2 = 3
    OBVIOUS
  <2>6. ":" \notin Digit
    BY DigitIs
  <2> DEFINE a == 2
  <2>7. /\ a \in {2, 4} /\ Len(h) = a + 6 /\ a + 1 = 3 /\ a + 2 = 4 /\ a + 3 = 5 /\ a + 4 = 6
        /\ a + 5 = 7 /\ a + 6 = 8 /\ \A i \in 1..a : i = 1 \/ i = 2
        /\ 1 \in 1..a /\ 2 \in 1..a /\ a = 2
    BY <2>1
  <2> HIDE DEF a
  <2>8. ASSUME m PROVE g
    <3>1. /\ <<h[1], h[2]>> \in H /\ h[3] = ":" /\ h[6] = ":"
          /\ <<h[4], h[5]>> \in sixty /\ <<h[7], h[8]>> \in sixty
      BY <2>3, <2>8
    <3> HIDE DEF m, g, ps
    <3>2. /\ h[1] \in Digit /\ h[2] \in Digit /\ h[4] \in Digit /\ h[5] \in Digit
          /\ h[7] \in Digit /\ h[8] \in Digit
      BY <3>1, PairsOfDigits
    <3>3. /\ \A i \in 1..a : h[i] \in Digit
          /\ h[a + 1] \notin Digit /\ h[a + 2] \in Digit /\ h[a + 3] \in Digit
          /\ h[a + 4] \notin Digit /\ h[a + 5] \in Digit /\ h[a + 6] \in Digit
      BY <2>6, <2>7, <3>1, <3>2
    <3>4. Sizes(ps, <<a, 2, 2>>)
      BY <2>1, <2>7, <3>3, LayoutParts DEF ps
    <3>5. /\ Len(ps) = 3 /\ ps[1].num = Tens(h[1], h[2]) /\ ps[1].sep = h[3]
          /\ ps[2].num = Tens(h[4], h[5]) /\ ps[2].sep = h[6]
          /\ ps[3].num = Tens(h[7], h[8]) /\ ps[3].sep = "end"
      <4>1. /\ Len(ps) = 3
            /\ a = 2 => ps[1].num = 10 * DigitVal[h[1]] + DigitVal[h[2]]
            /\ ps[1].sep = h[a + 1]
            /\ ps[2].num = 10 * DigitVal[h[a + 2]] + DigitVal[h[a + 3]] /\ ps[2].sep = h[a + 4]
            /\ ps[3].num = 10 * DigitVal[h[a + 5]] + DigitVal[h[a + 6]] /\ ps[3].sep = "end"
        BY <2>1, <2>7, <3>4, LayoutOf DEF ps
      <4> QED BY <2>7, <4>1 DEF Tens
    <3>6. /\ Tens(h[1], h[2]) \in S /\ Tens(h[4], h[5]) \in 0..59 /\ Tens(h[7], h[8]) \in 0..59
      BY <3>1, <3>2, PairsBelow60
    <3>7. Sizes(ps, <<2, 2, 2>>)
      BY <2>7, <3>4
    <3> QED BY <2>4, <2>5, <3>1, <3>5, <3>6, <3>7
  <2>9. ASSUME g PROVE m
    <3>1. /\ Sizes(ps, <<2, 2, 2>>) /\ ps[1].num \in S /\ ps[1].sep \in {":"}
          /\ ps[2].num \in 0..59 /\ ps[2].sep \in {":"} /\ ps[3].num \in 0..59
      BY <2>4, <2>5, <2>9
    <3> HIDE DEF m, g, ps
    <3>2. Sizes(ps, <<a, 2, 2>>)
      BY <2>7, <3>1
    <3>3. /\ h[1] \in Digit /\ h[2] \in Digit /\ h[4] \in Digit /\ h[5] \in Digit
          /\ h[7] \in Digit /\ h[8] \in Digit
          /\ ps[1].num = Tens(h[1], h[2]) /\ ps[1].sep = h[3]
          /\ ps[2].num = Tens(h[4], h[5]) /\ ps[2].sep = h[6]
          /\ ps[3].num = Tens(h[7], h[8])
      <4>1. /\ \A i \in 1..a : h[i] \in Digit
            /\ h[a + 2] \in Digit /\ h[a + 3] \in Digit
            /\ h[a + 5] \in Digit /\ h[a + 6] \in Digit
            /\ a = 2 => ps[1].num = 10 * DigitVal[h[1]] + DigitVal[h[2]]
            /\ ps[1].sep = h[a + 1]
            /\ ps[2].num = 10 * DigitVal[h[a + 2]] + DigitVal[h[a + 3]] /\ ps[2].sep = h[a + 4]
            /\ ps[3].num = 10 * DigitVal[h[a + 5]] + DigitVal[h[a + 6]]
        BY <2>1, <2>7, <3>2, LayoutOf DEF ps
      <4> QED BY <2>7, <4>1 DEF Tens
    <3>4. <<h[1], h[2]>> \in H /\ <<h[4], h[5]>> \in sixty /\ <<h[7], h[8]>> \in sixty
      BY <3>1, <3>3, PairsBelow60
    <3> QED BY <2>3, <3>1, <3>3, <3>4
  <2> QED BY <2>8, <2>9
<1> HIDE DEF m, g, t, f, ends
<1>5. f.ok = ok
  BY <1>2, PieceOk
<1>6. CASE 8 <= Rest /\ m
  <2>1. ok
    BY <1>6
  <2>2. ends = {8}
    BY <1>1, <1>3, <1>4, <1>6
  <2>3. f.next - offs = 8
    <3>1. 8 \in 0..Rest
      BY <1>1, <1>6
    <3> HIDE DEF ok
    <3> QED BY <1>2, <3>1, PieceNext
  <2> HIDE DEF ok
  <2> QED BY <1>5, <2>1, <2>2, <2>3 DEF AgreesWith, f, ends, t
<1>7. CASE ~(8 <= Rest /\ m)
  <2>1. ~ok
    BY <1>7
  <2>2. ends = {}
    BY <1>1, <1>3, <1>4, <1>7
  <2> HIDE DEF ok
  <2> QED BY <1>5, <2>1, <2>2 DEF AgreesWith, f, ends, t
<1> QED BY <1>6, <1>7

LEMMA ISODateAgrees ==
  ASSUME Ready
  PROVE  AgreesWith(ISODate, EndsISODate(Text(offs)))
<1> DEFINE t == Text(offs)
           h == SubSeq(t, 1, 10)
           ps == Parts(h)
           months == ({"0"} \X (Digit \ {"0"})) \cup ({"1"} \X {"0", "1", "2"})
           days == ({"0"} \X (Digit \ {"0"})) \cup ({"1", "2"} \X Digit) \cup ({"3"} \X {"0", "1"})
           m == /\ \A i \in 0..3 : At(offs + i) \in Digit
                /\ At(offs + 4) = "-" /\ At(offs + 7) = "-"
                /\ Two(5) \in months /\ Two(8) \in days
           ok == 10 <= Rest /\ m
           g == /\ Sizes(ps, <<4, 2, 2>>)
                /\ Has(ps, 1, <<<<Nat, {"-"}>>, <<1..12, {"-"}>>, <<1..31, {"end"}>>>>)
           f == ISODate
           ends == EndsISODate(t)
<1>1. Rest \in Nat /\ Len(t) = Rest /\ offs \in Nat
  BY HereText
<1>2. f = Piece(ok, offs, 10, offs + 10)
  BY DEF ISODate, Fixed
<1>3. ends = IF Len(t) >= 10 /\ g THEN {10} ELSE {}
  BY Zenon DEF EndsISODate
<1>4. ASSUME 10 <= Rest PROVE m <=> g
  <2>1. h \in Seq(Byte) /\ Len(h) = 10 /\ \A i \in 1..10 : h[i] = At(offs + (i - 1))
    BY <1>4, HeadText
  <2> HIDE DEF h
  <2>2. /\ h[1] = At(offs + 0) /\ h[2] = At(offs + 1) /\ h[3] = At(offs + 2)
        /\ h[4] = At(offs + 3) /\ h[5] = At(offs + 4) /\ h[6] = At(offs + 5)
        /\ h[7] = At(offs + 5 + 1) /\ h[8] = At(offs + 7) /\ h[9] = At(offs + 8)
        /\ h[10] = At(offs + 8 + 1)
    <3>1. /\ offs + (1 - 1) = offs + 0 /\ offs + (2 - 1) = offs + 1 /\ offs + (3 - 1) = offs + 2
          /\ offs + (4 - 1) = offs + 3 /\ offs + (5 - 1) = offs + 4
          /\ offs + (6 - 1) = offs + 5 /\ offs + (7 - 1) = offs + 5 + 1
          /\ offs + (8 - 1) = offs + 7 /\ offs + (9 - 1) = offs + 8
          /\ offs + (10 - 1) = offs + 8 + 1
      BY <1>1
    <3>2. /\ 1 \in 1..10 /\ 2 \in 1..10 /\ 3 \in 1..10 /\ 4 \in 1..10 /\ 5 \in 1..10
          /\ 6 \in 1..10 /\ 7 \in 1..10 /\ 8 \in 1..10 /\ 9 \in 1..10 /\ 10 \in 1..10
      OBVIOUS
    <3>3. /\ h[1] = At(offs + (1 - 1)) /\ h[2] = At(offs + (2 - 1)) /\ h[3] = At(offs + (3 - 1))
          /\ h[4] = At(offs + (4 - 1)) /\ h[5] = At(offs + (5 - 1)) /\ h[6] = At(offs + (6 - 1))
          /\ h[7] = At(offs + (7 - 1)) /\ h[8] = At(offs + (8 - 1)) /\ h[9] = At(offs + (9 - 1))
          /\ h[10] = At(offs + (10 - 1))
      BY <2>1, <3>2, Zenon
    <3> QED BY <3>1, <3>3, Zenon
  <2>3. m <=> /\ h[1] \in Digit /\ h[2] \in Digit /\ h[3] \in Digit /\ h[4] \in Digit
              /\ h[5] = "-" /\ h[8] = "-"
              /\ <<h[6], h[7]>> \in months /\ <<h[9], h[10]>> \in days
    <3>1. Two(5) = <<h[6], h[7]>> /\ Two(8) = <<h[9], h[10]>>
      BY <2>2 DEF Two
    <3>2. \A i \in 0..3 : i = 0 \/ i = 1 \/ i = 2 \/ i = 3
      OBVIOUS
    <3>3. 0 \in 0..3 /\ 1 \in 0..3 /\ 2 \in 0..3 /\ 3 \in 0..3
      OBVIOUS
    <3> HIDE DEF months, days
    <3>4. (\A i \in 0..3 : At(offs + i) \in Digit) <=>
            h[1] \in Digit /\ h[2] \in Digit /\ h[3] \in Digit /\ h[4] \in Digit
      BY <2>2, <3>2, <3>3
    <3> QED BY <2>2, <3>1, <3>4
  <2>4. g <=> /\ Sizes(ps, <<4, 2, 2>>)
              /\ 1 <= Len(ps) /\ ps[1].num \in Nat /\ ps[1].sep \in {"-"}
              /\ 1 + 1 <= Len(ps) /\ ps[1 + 1].num \in 1..12 /\ ps[1 + 1].sep \in {"-"}
              /\ 1 + 2 <= Len(ps) /\ ps[1 + 2].num \in 1..31 /\ ps[1 + 2].sep \in {"end"}
    <3> DEFINE k == 1
               N == Nat
               A == 1..12
               D == 1..31
               B == {"-"}
               C == {"end"}
    <3>1. k \in Nat
      OBVIOUS
    <3> HIDE DEF k, ps, N, A, B, C, D
    <3>2. Has(ps, k, <<<<N, B>>, <<A, B>>, <<D, C>>>>) <=>
              /\ k <= Len(ps) /\ ps[k].num \in N /\ ps[k].sep \in B
              /\ k + 1 <= Len(ps) /\ ps[k + 1].num \in A /\ ps[k + 1].sep \in B
              /\ k + 2 <= Len(ps) /\ ps[k + 2].num \in D /\ ps[k + 2].sep \in C
      BY <3>1, HasThree
    <3> QED BY <3>2, Zenon DEF k, N, A, B, C, D
  <2>5. 1 + 1 = 2 /\ 1 + 2 = 3
    OBVIOUS
  <2>6. "-" \notin Digit
    BY DigitIs
  <2> DEFINE a == 4
  <2>7. /\ a \in {2, 4} /\ Len(h) = a + 6 /\ a + 1 = 5 /\ a + 2 = 6 /\ a + 3 = 7 /\ a + 4 = 8
        /\ a + 5 = 9 /\ a + 6 = 10 /\ \A i \in 1..a : i = 1 \/ i = 2 \/ i = 3 \/ i = 4
        /\ 1 \in 1..a /\ 2 \in 1..a /\ 3 \in 1..a /\ 4 \in 1..a /\ a = 4
    BY <2>1
  <2> HIDE DEF a
  <2>8. ASSUME m PROVE g
    <3>1. /\ h[1] \in Digit /\ h[2] \in Digit /\ h[3] \in Digit /\ h[4] \in Digit
          /\ h[5] = "-" /\ h[8] = "-"
          /\ <<h[6], h[7]>> \in months /\ <<h[9], h[10]>> \in days
      BY <2>3, <2>8
    <3> HIDE DEF m, g, ps
    <3>2. h[6] \in Digit /\ h[7] \in Digit /\ h[9] \in Digit /\ h[10] \in Digit
      BY <3>1, PairsOfDigits
    <3>3. /\ \A i \in 1..a : h[i] \in Digit
          /\ h[a + 1] \notin Digit /\ h[a + 2] \in Digit /\ h[a + 3] \in Digit
          /\ h[a + 4] \notin Digit /\ h[a + 5] \in Digit /\ h[a + 6] \in Digit
      BY <2>6, <2>7, <3>1, <3>2
    <3>4. Sizes(ps, <<a, 2, 2>>)
      BY <2>1, <2>7, <3>3, LayoutParts DEF ps
    <3>5. /\ Len(ps) = 3 /\ ps[1].num \in Nat /\ ps[1].sep = h[5]
          /\ ps[2].num = Tens(h[6], h[7]) /\ ps[2].sep = h[8]
          /\ ps[3].num = Tens(h[9], h[10]) /\ ps[3].sep = "end"
      <4>1. /\ Len(ps) = 3 /\ ps[1].num \in Nat /\ ps[1].sep = h[a + 1]
            /\ ps[2].num = 10 * DigitVal[h[a + 2]] + DigitVal[h[a + 3]] /\ ps[2].sep = h[a + 4]
            /\ ps[3].num = 10 * DigitVal[h[a + 5]] + DigitVal[h[a + 6]] /\ ps[3].sep = "end"
        BY <2>1, <2>7, <3>4, LayoutOf DEF ps
      <4> QED BY <2>7, <4>1 DEF Tens
    <3>6. Tens(h[6], h[7]) \in 1..12 /\ Tens(h[9], h[10]) \in 1..31
      BY <3>1, <3>2, PairsOfMonth, PairsOfDay
    <3>7. Sizes(ps, <<4, 2, 2>>)
      BY <2>7, <3>4
    <3> QED BY <2>4, <2>5, <3>1, <3>5, <3>6, <3>7
  <2>9. ASSUME g PROVE m
    <3>1. /\ Sizes(ps, <<4, 2, 2>>) /\ ps[1].sep \in {"-"}
          /\ ps[2].num \in 1..12 /\ ps[2].sep \in {"-"} /\ ps[3].num \in 1..31
      BY <2>4, <2>5, <2>9
    <3> HIDE DEF m, g, ps
    <3>2. Sizes(ps, <<a, 2, 2>>)
      BY <2>7, <3>1
    <3>3. /\ h[1] \in Digit /\ h[2] \in Digit /\ h[3] \in Digit /\ h[4] \in Digit
          /\ h[6] \in Digit /\ h[7] \in Digit /\ h[9] \in Digit /\ h[10] \in Digit
          /\ ps[1].sep = h[5] /\ ps[2].num = Tens(h[6], h[7]) /\ ps[2].sep = h[8]
          /\ ps[3].num = Tens(h[9], h[10])
      <4>1. /\ \A i \in 1..a : h[i] \in Digit
            /\ h[a + 2] \in Digit /\ h[a + 3] \in Digit
            /\ h[a + 5] \in Digit /\ h[a + 6] \in Digit
            /\ ps[1].sep = h[a + 1]
            /\ ps[2].num = 10 * DigitVal[h[a + 2]] + DigitVal[h[a + 3]] /\ ps[2].sep = h[a + 4]
            /\ ps[3].num = 10 * DigitVal[h[a + 5]] + DigitVal[h[a + 6]]
        BY <2>1, <2>7, <3>2, LayoutOf DEF ps
      <4> QED BY <2>7, <4>1 DEF Tens
    <3>4. <<h[6], h[7]>> \in months /\ <<h[9], h[10]>> \in days
      BY <3>1, <3>3, PairsOfMonth, PairsOfDay
    <3> QED BY <2>3, <3>1, <3>3, <3>4
  <2> QED BY <2>8, <2>9
<1> HIDE DEF m, g, t, f, ends
<1>5. f.ok = ok
  BY <1>2, PieceOk
<1>6. CASE 10 <= Rest /\ m
  <2>1. ok
    BY <1>6
  <2>2. ends = {10}
    BY <1>1, <1>3, <1>4, <1>6
  <2>3. f.next - offs = 10
    <3>1. 10 \in 0..Rest
      BY <1>1, <1>6
    <3> HIDE DEF ok
    <3> QED BY <1>2, <3>1, PieceNext
  <2> HIDE DEF ok
  <2> QED BY <1>5, <2>1, <2>2, <2>3 DEF AgreesWith, f, ends, t
<1>7. CASE ~(10 <= Rest /\ m)
  <2>1. ~ok
    BY <1>7
  <2>2. ends = {}
    BY <1>1, <1>3, <1>4, <1>7
  <2> HIDE DEF ok
  <2> QED BY <1>5, <2>1, <2>2 DEF AgreesWith, f, ends, t
<1> QED BY <1>6, <1>7

\* The digits of a byte, where a part begins.
LEMMA DigitsOfByte ==
  ASSUME Ready, NEW q \in offs..Len(str), NEW c, NEW k, Before(c, q, k), c.ok
  PROVE  LET ps == PartsAt(q)
             n  == ps[k].n
             m  == ByteDigits(c)
         IN  /\ n \in Nat /\ m \in Nat /\ (IF n > 3 THEN m = 3 ELSE m = n)
             /\ c.p = q + Begin(ps, k) /\ Begin(ps, k) + n = ps[k].at - 1
             /\ Begin(ps, k) \in Nat
             /\ n <= 3 => ps[k].num = DecimalAt(c.p, m)
             /\ \A i \in 1..n : Text(q)[Begin(ps, k) + i] = At(c.p + i - 1)
<1> DEFINE b == Begin(PartsAt(q), k)
           n == PartsAt(q)[k].n
           m == ByteDigits(c)
<1>0. Stands(0, 0, c) /\ k \in 1..Len(PartsAt(q)) /\ c.p = q + b
  BY DEF Before
<1>2. /\ offs \in Nat /\ Len(str) \in Nat /\ q \in 0..Len(str) /\ Width \in Nat
      /\ c.len \in 0..(Width - 1) /\ c.p + c.len = Len(str) + 0
  BY <1>0 DEF Ready, StrOK, Stands, CursorSet
<1>3. /\ b \in Nat /\ n \in 0..(Len(str) - (q + b)) /\ b + n = PartsAt(q)[k].at - 1
      /\ RunOf(q + b, Len(str) - (q + b), Digit) = n /\ PartsAt(q)[k].num = DecimalAt(q + b, n)
      /\ \A i \in 1..n : Text(q)[b + i] = At(q + b + i - 1)
  BY <1>0, RunIsPart
<1> HIDE DEF b, n
<1>4. c.len = Len(str) - (q + b)
  BY <1>0, <1>2, <1>3
<1>5. m = IF n > 3 THEN 3 ELSE n
  BY <1>0, <1>3, <1>4 DEF ByteDigits
<1> HIDE DEF m
<1>6. n \in Nat /\ m \in Nat /\ (IF n > 3 THEN m = 3 ELSE m = n)
  BY <1>3, <1>5, <1>2
<1>7. n <= 3 => PartsAt(q)[k].num = DecimalAt(c.p, m)
  BY <1>0, <1>3, <1>6
<1> QED BY <1>0, <1>3, <1>6, <1>7 DEF b, n, m

\* A byte and the dot behind it: a run of more digits than three leaves a digit.
LEMMA ByteReads ==
  ASSUME Ready, NEW q \in offs..Len(str), NEW c, NEW k \in Nat \ {0}, Before(c, q, k)
  PROVE  LET e  == chkIPv4AddrByte(c) ** Lit({"."})
             ps == PartsAt(q)
         IN  /\ Before(e, q, k + 1)
             /\ e.ok <=> c.ok /\ ps[k].n \in 1..3 /\ ps[k].num \in 0..255 /\ ps[k].sep \in {"."}
<1> DEFINE S == {"."}
           b == chkIPv4AddrByte(c)
           e == b ** Lit(S)
           ps == PartsAt(q)
           n == ps[k].n
           num == ps[k].num
           m == ByteDigits(c)
<1>S. "?" \notin S /\ "end" \notin S
  OBVIOUS
<1>1. /\ Stands(0, 0, c) /\ c \in CursorSet
      /\ Stands(0, 0, b) /\ b \in CursorSet /\ m \in 0..c.len /\ b.p = c.p + m
      /\ b.ok <=> c.ok /\ m > 0 /\ DecimalAt(c.p, m) <= 255
  <2>1. Stands(0, 0, c)
    BY DEF Before
  <2> QED BY <2>1, ByteStands DEF Stands
<1> HIDE DEF S, b, m
<1>2. CASE ~b.ok /\ (~c.ok \/ ~(n \in 1..3 /\ num \in 0..255))
  <2>1. AtSep(b, q, k)
    BY <1>1, <1>2 DEF AtSep
  <2> HIDE DEF n, num, ps
  <2>2. Before(e, q, k + 1) /\ (e.ok <=> b.ok /\ PartsAt(q)[k].sep \in S)
    BY <1>S, <2>1, LitReads
  <2> HIDE DEF e
  <2>3. ~e.ok
    BY <1>2, <2>2
  <2>4. Before(e, q, k + 1) /\ (e.ok <=> c.ok /\ n \in 1..3 /\ num \in 0..255 /\ ps[k].sep \in S)
    BY <1>2, <2>2, <2>3
  <2> QED BY <2>4, Zenon DEF e, ps, n, num, b, S
<1>3. CASE c.ok
  <2>1. /\ n \in Nat /\ m \in Nat /\ (IF n > 3 THEN m = 3 ELSE m = n)
        /\ c.p = q + Begin(ps, k) /\ Begin(ps, k) + n = ps[k].at - 1
        /\ Begin(ps, k) \in Nat
        /\ n <= 3 => num = DecimalAt(c.p, m)
        /\ \A i \in 1..n : Text(q)[Begin(ps, k) + i] = At(c.p + i - 1)
    BY <1>3, DigitsOfByte DEF m
  <2>2. k \in 1..Len(ps) /\ num \in Nat /\ q \in Nat
        /\ (\A i \in 1..n : Text(q)[Begin(ps, k) + i] \in Digit)
    <3>1. k \in 1..Len(ps)
      BY <1>3 DEF Before
    <3>2. q \in 0..Len(str) /\ Len(str) \in Nat /\ offs \in Nat
      BY DEF Ready, StrOK
    <3>3. Text(q) \in Seq(Byte) /\ Len(Text(q)) \in Nat
      BY <3>2, TextIs
    <3>4. PartIs(Text(q), ps, k)
      BY <3>1, <3>3, PartsAre DEF PartsAt
    <3>5. num \in Nat
      BY <3>3, <3>4, PartNat
    <3>6. \A i \in (Begin(ps, k) + 1)..(ps[k].at - 1) : Text(q)[i] \in Digit
      BY <3>4 DEF PartIs
    <3>7. ASSUME NEW i \in 1..n PROVE Text(q)[Begin(ps, k) + i] \in Digit
      <4> DEFINE x == Begin(ps, k)
                 j == x + i
                 y == ps[k].at
      <4>1. j \in (x + 1)..(y - 1)
        <5> HIDE DEF ps, n, x, y
        <5>1. x \in Nat /\ n \in Nat /\ x + n = y - 1
          BY <2>1 DEF x, y
        <5> QED BY <5>1
      <4> HIDE DEF j
      <4>2. Text(q)[j] \in Digit
        BY <3>6, <4>1
      <4> QED BY <4>2 DEF j
    <3> QED BY <3>1, <3>2, <3>5, <3>7
  <2> HIDE DEF n, num, ps
  <2>3. CASE n <= 3
    <3>1. m = n
      BY <2>1, <2>3
    <3>2. b.ok <=> n \in 1..3 /\ num \in 0..255
      <4>1. b.ok <=> n > 0 /\ num <= 255
        BY <1>1, <1>3, <2>1, <2>3, <3>1
      <4>2. (n > 0 <=> n \in 1..3) /\ (num <= 255 <=> num \in 0..255)
        <5>1. n \in Nat /\ num \in Nat
          BY <2>1, <2>2
        <5> QED BY <5>1, <2>3
      <4> QED BY <4>1, <4>2
    <3>3. b.p = q + (ps[k].at - 1)
      BY <1>1, <2>1, <2>2, <3>1
    <3>4. AtSep(b, q, k)
      BY <1>1, <2>2, <3>3 DEF AtSep, ps
    <3>5. Before(e, q, k + 1) /\ (e.ok <=> b.ok /\ ps[k].sep \in S)
      BY <1>S, <3>4, LitReads DEF ps
    <3> HIDE DEF e
    <3>6. Before(e, q, k + 1) /\ (e.ok <=> c.ok /\ n \in 1..3 /\ num \in 0..255 /\ ps[k].sep \in S)
      BY <1>3, <3>2, <3>5
    <3> QED BY <3>6, Zenon DEF e, ps, n, num, b, S
  <2>4. CASE n > 3
    <3>1. m = 3 /\ 4 \in 1..n
      BY <2>1, <2>4
    <3>2. At(c.p + 3) \in Digit
      <4>1. Text(q)[Begin(ps, k) + 4] \in Digit /\ Text(q)[Begin(ps, k) + 4] = At(c.p + 4 - 1)
        BY <2>1, <2>2, <3>1
      <4>2. c.p + 4 - 1 = c.p + 3
        BY <2>1, <2>2
      <4> QED BY <4>1, <4>2
    <3>3. At(b.p) \notin S
      <4>1. "." \notin Digit
        BY DigitIs
      <4>2. S = {"."} /\ b.p = c.p + 3
        BY <1>1, <3>1 DEF S
      <4> QED BY <3>2, <4>1, <4>2
    <3>4. Stands(0, 0, e) /\ ~e.ok
      <4>1. Stands(0, 0 + 1, e)
        BY <1>1, <1>S, LitStands
      <4>2. Stands(0, 0, e)
        <5> HIDE DEF e
        <5> QED BY <4>1, StandsLess
      <4>3. ~e.ok
        <5>1. CASE ~b.ok
          <6>1. e = b
            BY <5>1, ConsumeIs DEF Consume
          <6> QED BY <5>1, <6>1
        <5>2. CASE b.ok /\ b.len = 0
          <6>1. e = Fail(b)
            BY <5>2, ConsumeIs DEF Consume, Lit
          <6> QED BY <6>1, <1>1 DEF Fail, CursorSet
        <5>3. CASE b.ok /\ b.len # 0
          <6>1. e = Cursor(At(b.p) \in S, b.p + 1, b.len - 1)
            BY <5>3, ConsumeIs DEF Consume, Lit
          <6> HIDE DEF e
          <6> DEFINE yes == At(b.p) \in S
          <6>2. e = [ok |-> yes, p |-> b.p + 1, len |-> (b.len - 1) % Width]
            BY <6>1 DEF Cursor
          <6>3. ~yes
            BY <3>3
          <6> HIDE DEF yes
          <6> QED BY <6>2, <6>3
        <5>4. b.ok \in BOOLEAN
          BY <1>1 DEF CursorSet
        <5> QED BY <5>1, <5>2, <5>3, <5>4
      <4> QED BY <4>2, <4>3
    <3>5. n \notin 1..3
      <4>1. n \in Nat
        BY <2>1
      <4> QED BY <2>4, <4>1
    <3> HIDE DEF e
    <3>6. Before(e, q, k + 1)
      BY <3>4 DEF Before
    <3>7. Before(e, q, k + 1) /\ (e.ok <=> c.ok /\ n \in 1..3 /\ num \in 0..255 /\ ps[k].sep \in S)
      BY <3>4, <3>5, <3>6
    <3> QED BY <3>7, Zenon DEF e, ps, n, num, b, S
  <2> QED BY <2>1, <2>3, <2>4
<1>4. c.ok \in BOOLEAN /\ (~c.ok => ~b.ok)
  BY <1>1 DEF CursorSet
<1> QED BY <1>2, <1>3, <1>4

\* A text of digits only has one part, the number they write.
LEMMA DigitsOnly ==
  ASSUME NEW s, NEW m \in Nat, Len(s) = m, \A i \in 1..m : s[i] \in Digit,
         s = [i \in 1..m |-> s[i]]
  PROVE  Parts(s)[1].num = Decimal(s)
<1> DEFINE ps == Parts(s)
<1>1. Len(ps) \in Nat \ {0} /\ PartIs(s, ps, 1)
  BY PartsAre
<1>2. Begin(ps, 1) = 0
  BY DEF Begin
<1> HIDE DEF ps
<1>3. ps[1].at = m + 1
  <2> DEFINE b == 0
             e == m + 1
             k == 1
  <2>1. /\ PartIs(s, ps, k) /\ b = Begin(ps, k) /\ e \in Nat /\ b < e /\ e <= m + 1
        /\ (\A i \in (b + 1)..(e - 1) : s[i] \in Digit) /\ (e = m + 1 \/ s[e] \notin Digit)
        /\ m \in Nat /\ Len(s) = m
    BY <1>1, <1>2
  <2> HIDE DEF b, e, k
  <2>2. ps[k].at = e
    BY <2>1, PartEnds
  <2> QED BY <2>2 DEF k, e
<1>4. ps[1].num = Decimal(SubSeq(s, 0 + 1, (m + 1) - 1))
  BY <1>1, <1>2, <1>3 DEF PartIs
<1>5. 0 + 1 = 1 /\ (m + 1) - 1 = m
  OBVIOUS
<1>6. SubSeq(s, 1, m) = s
  <2>1. SubSeq(s, 1, m) = [i \in 1..(m - 1 + 1) |-> s[1 + i - 1]]
    OBVIOUS
  <2>2. m - 1 + 1 = m /\ \A i \in 1..m : 1 + i - 1 = i
    OBVIOUS
  <2>3. SubSeq(s, 1, m) = [i \in 1..m |-> s[i]]
    BY <2>1, <2>2
  <2> QED BY <2>3
<1> QED BY <1>4, <1>5, <1>6 DEF ps

\* The last byte of an address, of which three digits count at most.
LastOf(n) == CHOOSE m \in 1..3 : m = n \/ (m = 3 /\ n > 3)

LEMMA LastByte ==
  ASSUME Ready, NEW q \in offs..Len(str), NEW c, NEW k, Before(c, q, k), c.ok,
         PartsAt(q)[k].n > 0
  PROVE  LET b == Begin(PartsAt(q), k)
             m == ByteDigits(c)
         IN  /\ LastOf(PartsAt(q)[k].n) = m /\ m \in 1..3
             /\ Parts(SubSeq(Text(q), b + 1, b + m))[1].num = DecimalAt(c.p, m)
<1> DEFINE ps == PartsAt(q)
           t == Text(q)
           b == Begin(ps, k)
           n == ps[k].n
           m == ByteDigits(c)
           s == SubSeq(t, b + 1, b + m)
           u == [i \in 1..m |-> At(c.p + i - 1)]
<1>1. /\ n \in Nat /\ m \in Nat /\ (IF n > 3 THEN m = 3 ELSE m = n)
      /\ b \in Nat
      /\ \A i \in 1..n : t[b + i] = At(c.p + i - 1)
  BY DigitsOfByte
<1>2. k \in 1..Len(ps)
  BY DEF Before
<1>3. Len(t) \in Nat
  BY TextIs, HereText
<1>4. PartIs(t, ps, k)
  BY <1>2, <1>3, PartsAre DEF PartsAt
<1>5. n = ps[k].at - b - 1 /\ ps[k].at \in Int /\ \A i \in (b + 1)..(ps[k].at - 1) : t[i] \in Digit
  BY <1>3, <1>4 DEF PartIs
<1> HIDE DEF ps, t, b, n
<1>6. m \in 1..3 /\ m <= n
  BY <1>1 DEF n, ps
<1>7. LastOf(n) = m
  <2> HIDE DEF m
  <2>1. \A x \in 1..3 : (x = n \/ (x = 3 /\ n > 3)) <=> x = m
    BY <1>1, <1>6
  <2> QED BY <1>6, <2>1 DEF LastOf
<1>8. \A i \in 1..m : t[b + i] \in Digit
  <2> HIDE DEF m
  <2> SUFFICES ASSUME NEW i \in 1..m PROVE t[b + i] \in Digit
    OBVIOUS
  <2> DEFINE j == b + i
             y == ps[k].at
  <2>1. j \in (b + 1)..(y - 1)
    <3> HIDE DEF y
    <3> QED BY <1>1, <1>5, <1>6 DEF y
  <2> HIDE DEF j
  <2>2. t[j] \in Digit
    BY <1>5, <2>1
  <2> QED BY <2>2 DEF j
<1>9. s = [i \in 1..m |-> t[b + i]]
  <2> HIDE DEF m
  <2>1. s = [i \in 1..((b + m) - (b + 1) + 1) |-> t[b + 1 + i - 1]]
    BY <1>1
  <2>2. (b + m) - (b + 1) + 1 = m /\ \A i \in 1..m : b + 1 + i - 1 = b + i
    BY <1>1
  <2> HIDE DEF s
  <2> QED BY <2>1, <2>2
<1>10. s = u
  <2> HIDE DEF m, s
  <2>1. \A i \in 1..m : t[b + i] = At(c.p + i - 1)
    BY <1>1, <1>6
  <2> QED BY <1>9, <2>1
<1>11. Len(s) = m /\ (\A i \in 1..m : s[i] \in Digit) /\ s = [i \in 1..m |-> s[i]]
  <2> HIDE DEF m, s, u
  <2> QED BY <1>1, <1>8, <1>9
<1> HIDE DEF m, s
<1>12. Parts(s)[1].num = Decimal(s)
  BY <1>1, <1>11, DigitsOnly
<1>13. Decimal(s) = DecimalAt(c.p, m)
  BY <1>10 DEF DecimalAt
<1> QED BY <1>6, <1>7, <1>12, <1>13 DEF n, m, s, t, b, ps

LEMMA IPv4Agrees ==
  ASSUME Ready
  PROVE  AgreesWith(IPv4, EndsIPv4(Text(offs)))
<1> DEFINE t == Text(offs)
           ps == PartsAt(offs)
           q == offs
           c1 == chkIPv4AddrByte(Here) ** Lit({"."})
           c2 == chkIPv4AddrByte(c1) ** Lit({"."})
           c3 == chkIPv4AddrByte(c2) ** Lit({"."})
           e == chkIPv4AddrByte(c3)
           m == ByteDigits(c3)
           P(k) == ps[k].n \in 1..3 /\ ps[k].num \in 0..255 /\ ps[k].sep \in {"."}
           first == ps[3].at
           last == LastOf(ps[4].n)
           byte == Parts(SubSeq(t, first + 1, first + last))[1]
           g == /\ Len(ps) > 3 /\ \A k \in 1..3 : ps[k].n \in 1..3
                /\ Has(ps, 1, <<<<0..255, {"."}>>, <<0..255, {"."}>>, <<0..255, {"."}>>>>)
                /\ ps[4].n > 0 /\ byte.num <= 255
           f == IPv4
           ends == EndsIPv4(t)
<1>1. /\ Rest \in Nat /\ Len(t) = Rest /\ offs \in Nat /\ q \in offs..Len(str) /\ t \in Seq(Byte)
      /\ Rest = Len(str) - offs /\ Len(str) \in Nat
  BY HereText
<1>2. f = IF Rest + 1 < 7 THEN Up(Fail(Here)) ELSE Up(e)
  BY DEF IPv4
<1>3. ends = IF g THEN {first + last} ELSE {}
  BY Zenon DEF EndsIPv4, LastOf, PartsAt
<1>4. Len(ps) \in Nat \ {0} /\ \A k \in 1..Len(ps) : PartIs(t, ps, k)
  BY <1>1, PartsAre DEF PartsAt
<1>5. Before(Here, q, 1) /\ Here.ok
  <2>1. Here.p = offs + 0 /\ Begin(ps, 1) = 0 /\ 1 \in 1..Len(ps)
    BY <1>1, <1>4 DEF Here, Cursor, Begin
  <2>2. Stands(0, 0, Here) /\ Here.ok
    BY HereStands
  <2> QED BY <2>1, <2>2 DEF Before
<1> HIDE DEF q
<1>6. Before(c1, q, 2) /\ (c1.ok <=> P(1))
  <2> DEFINE one == 1
  <2>1. one \in Nat \ {0} /\ Before(Here, q, one)
    BY <1>5
  <2> HIDE DEF one
  <2>2. Before(c1, q, one + 1) /\ (c1.ok <=> Here.ok /\ PartsAt(q)[one].n \in 1..3
               /\ PartsAt(q)[one].num \in 0..255 /\ PartsAt(q)[one].sep \in {"."})
    BY <1>1, <2>1, ByteReads
  <2>3. one + 1 = 2
    BY DEF one
  <2> HIDE DEF c1
  <2> QED BY <1>5, <2>2, <2>3 DEF one, q
<1> HIDE DEF c1
<1>7. Before(c2, q, 3) /\ (c2.ok <=> c1.ok /\ P(2))
  <2> DEFINE two == 2
  <2>1. two \in Nat \ {0} /\ Before(c1, q, two)
    BY <1>6
  <2> HIDE DEF two
  <2>2. Before(c2, q, two + 1) /\ (c2.ok <=> c1.ok /\ PartsAt(q)[two].n \in 1..3
               /\ PartsAt(q)[two].num \in 0..255 /\ PartsAt(q)[two].sep \in {"."})
    BY <1>1, <2>1, ByteReads
  <2>3. two + 1 = 3
    BY DEF two
  <2> HIDE DEF c2
  <2> QED BY <2>2, <2>3 DEF two, q
<1> HIDE DEF c2
<1>8. Before(c3, q, 4) /\ (c3.ok <=> c2.ok /\ P(3))
  <2> DEFINE three == 3
  <2>1. three \in Nat \ {0} /\ Before(c2, q, three)
    BY <1>7
  <2> HIDE DEF three
  <2>2. Before(c3, q, three + 1) /\ (c3.ok <=> c2.ok /\ PartsAt(q)[three].n \in 1..3
               /\ PartsAt(q)[three].num \in 0..255 /\ PartsAt(q)[three].sep \in {"."})
    BY <1>1, <2>1, ByteReads
  <2>3. three + 1 = 4
    BY DEF three
  <2> HIDE DEF c3
  <2> QED BY <2>2, <2>3 DEF three, q
<1> HIDE DEF c3
<1>9. c3.ok <=> P(1) /\ P(2) /\ P(3)
  BY <1>6, <1>7, <1>8
<1>10. c3.ok => Len(ps) > 3
  <2>1. c3.ok => 4 \in 1..Len(ps)
    BY <1>8 DEF Before, q
  <2> HIDE DEF ps
  <2> QED BY <1>4, <2>1
<1>11. g <=> c3.ok /\ ps[4].n > 0 /\ byte.num <= 255
  <2> DEFINE k == 1
             A == 0..255
             B == {"."}
  <2>1. k \in Nat /\ k + 1 = 2 /\ k + 2 = 3 /\ k = 1
    OBVIOUS
  <2> HIDE DEF k, A, B, ps
  <2>2. Has(ps, k, <<<<A, B>>, <<A, B>>, <<A, B>>>>) <=>
              /\ k <= Len(ps) /\ ps[k].num \in A /\ ps[k].sep \in B
              /\ k + 1 <= Len(ps) /\ ps[k + 1].num \in A /\ ps[k + 1].sep \in B
              /\ k + 2 <= Len(ps) /\ ps[k + 2].num \in A /\ ps[k + 2].sep \in B
    <3>1. Has(ps, k, <<<<A, B>>, <<A, B>>, <<A, B>>>>) <=>
            PartIn(ps, k, A, B) /\ PartIn(ps, k + 1, A, B) /\ PartIn(ps, k + 2, A, B)
      BY <2>1, HasPartByPart
    <3> QED BY <3>1, Zenon DEF PartIn
  <2>3. Has(ps, 1, <<<<A, B>>, <<A, B>>, <<A, B>>>>) <=>
              /\ 1 <= Len(ps) /\ ps[1].num \in A /\ ps[1].sep \in B
              /\ 2 <= Len(ps) /\ ps[2].num \in A /\ ps[2].sep \in B
              /\ 3 <= Len(ps) /\ ps[3].num \in A /\ ps[3].sep \in B
    BY <2>1, <2>2
  <2>4. (\A x \in 1..3 : ps[x].n \in 1..3) <=> ps[1].n \in 1..3 /\ ps[2].n \in 1..3 /\ ps[3].n \in 1..3
    <3>1. (1 \in 1..3 /\ 2 \in 1..3 /\ 3 \in 1..3) /\ \A x \in 1..3 : x = 1 \/ x = 2 \/ x = 3
      OBVIOUS
    <3> QED BY <3>1
  <2>5. P(1) /\ P(2) /\ P(3) <=>
           /\ ps[1].n \in 1..3 /\ ps[2].n \in 1..3 /\ ps[3].n \in 1..3
           /\ ps[1].num \in A /\ ps[1].sep \in B /\ ps[2].num \in A /\ ps[2].sep \in B
           /\ ps[3].num \in A /\ ps[3].sep \in B
    BY Zenon DEF A, B
  <2>6. Len(ps) > 3 => 1 <= Len(ps) /\ 2 <= Len(ps) /\ 3 <= Len(ps)
    BY <1>4
  <2> DEFINE h == Has(ps, 1, <<<<A, B>>, <<A, B>>, <<A, B>>>>)
             v == \A x \in 1..3 : ps[x].n \in 1..3
             p == P(1) /\ P(2) /\ P(3)
             z == byte.num <= 255
  <2>7. g <=> Len(ps) > 3 /\ v /\ h /\ ps[4].n > 0 /\ z
    BY Zenon DEF A, B
  <2>8. p <=> v /\ (ps[1].num \in A /\ ps[1].sep \in B /\ ps[2].num \in A /\ ps[2].sep \in B
           /\ ps[3].num \in A /\ ps[3].sep \in B)
    BY <2>4, <2>5, Zenon
  <2>9. c3.ok <=> p
    BY <1>9, Zenon
  <2> HIDE DEF h, v, p, z, g
  <2>10. g <=> c3.ok /\ ps[4].n > 0 /\ z
    BY <1>10, <2>3, <2>6, <2>7, <2>8, <2>9 DEF h
  <2> QED BY <2>10 DEF z
<1> HIDE DEF g
<1>12. /\ Stands(0, 0, e) /\ e.p = c3.p + m
       /\ e.ok <=> c3.ok /\ m > 0 /\ DecimalAt(c3.p, m) <= 255
  <2>1. Stands(0, 0, c3)
    BY <1>8 DEF Before
  <2> QED BY <2>1, ByteStands
<1>13. ASSUME c3.ok
       PROVE  /\ m \in Nat /\ (m > 0 <=> ps[4].n > 0) /\ c3.p = offs + first /\ first \in Nat
              /\ Begin(ps, 4) = first
  <2> DEFINE k == 4
  <2>1. Before(c3, q, k)
    BY <1>8
  <2> HIDE DEF k, m, ps
  <2>2. /\ PartsAt(q)[k].n \in Nat /\ m \in Nat
        /\ (IF PartsAt(q)[k].n > 3 THEN m = 3 ELSE m = PartsAt(q)[k].n)
        /\ c3.p = q + Begin(PartsAt(q), k) /\ Begin(PartsAt(q), k) \in Nat
    BY <1>1, <1>13, <2>1, DigitsOfByte DEF m
  <2>3. Begin(ps, 4) = first
    BY DEF Begin
  <2> QED BY <2>2, <2>3 DEF k, ps, q
<1>14. ASSUME c3.ok, ps[4].n > 0
       PROVE  last = m /\ m \in 1..3 /\ byte.num = DecimalAt(c3.p, m)
  <2> DEFINE k == 4
  <2>1. Before(c3, q, k) /\ PartsAt(q)[k].n > 0
    BY <1>8, <1>14 DEF q
  <2> HIDE DEF k, m
  <2>2. /\ LastOf(PartsAt(q)[k].n) = m /\ m \in 1..3
        /\ Parts(SubSeq(Text(q), Begin(PartsAt(q), k) + 1, Begin(PartsAt(q), k) + m))[1].num
              = DecimalAt(c3.p, m)
    BY <1>1, <1>14, <2>1, LastByte DEF m
  <2>3. Begin(ps, 4) = first
    BY <1>13, <1>14
  <2>4. last = m /\ m \in 1..3
    BY <2>2 DEF k, q
  <2> HIDE DEF last, first, ps, t
  <2>5. Parts(SubSeq(t, first + 1, first + m))[1].num = DecimalAt(c3.p, m)
    BY <2>2, <2>3, Zenon DEF k, q, t, ps
  <2> QED BY <2>4, <2>5
<1> HIDE DEF m, last, byte, e
<1>15. e.ok <=> g
  BY <1>11, <1>12, <1>13, <1>14
<1>16. g => /\ e.p - offs = first + last /\ first + last \in 0..Rest
            /\ first >= 6 /\ last >= 1
  <2> SUFFICES ASSUME g PROVE /\ e.p - offs = first + last /\ first + last \in 0..Rest
                              /\ first >= 6 /\ last >= 1
    OBVIOUS
  <2>1. c3.ok /\ ps[4].n > 0 /\ P(1) /\ P(2) /\ P(3) /\ Len(ps) > 3 /\ e.ok
    BY <1>9, <1>10, <1>11, <1>15
  <2>2. last = m /\ m \in 1..3 /\ c3.p = offs + first /\ first \in Nat /\ e.p = c3.p + m
    BY <1>12, <1>13, <1>14, <2>1
  <2>3. e.p - offs = first + last
    <3> HIDE DEF first
    <3> QED BY <1>1, <2>2
  <2>4. PartIs(t, ps, 1) /\ PartIs(t, ps, 2) /\ PartIs(t, ps, 3)
    <3>1. 1 \in 1..Len(ps) /\ 2 \in 1..Len(ps) /\ 3 \in 1..Len(ps)
      BY <1>4, <2>1
    <3> QED BY <1>4, <3>1
  <2>5. first >= 6
    <3>0. Begin(ps, 1) = 0 /\ Begin(ps, 2) = ps[1].at /\ Begin(ps, 3) = ps[2].at
      BY DEF Begin
    <3> HIDE DEF ps
    <3>1. ps[1].at \in Nat /\ ps[1].n = ps[1].at - 0 - 1
      BY <2>4, <3>0, <1>1 DEF PartIs
    <3>2. ps[2].at \in Nat /\ ps[2].n = ps[2].at - ps[1].at - 1
      BY <2>4, <3>0, <1>1 DEF PartIs
    <3>3. ps[3].at \in Nat /\ ps[3].n = ps[3].at - ps[2].at - 1
      <4>1. ps[3].at \in (ps[2].at + 1)..(Len(t) + 1) /\ ps[3].n = ps[3].at - ps[2].at - 1
        BY <2>4, <3>0 DEF PartIs
      <4> HIDE DEF t
      <4> QED BY <3>2, <4>1, <1>1
    <3>4. ps[1].n >= 1 /\ ps[2].n >= 1 /\ ps[3].n >= 1
      BY <2>1
    <3> QED BY <3>1, <3>2, <3>3, <3>4
  <2>6. e.p <= Len(str)
    <3>0. Stands(0, 0, e) /\ e.ok /\ Width \in Nat
      BY <1>12, <2>1 DEF Ready, StrOK
    <3> HIDE DEF e
    <3>1. e.p + e.len = Len(str) + 0 /\ e.len \in Nat /\ e.p \in Nat
      BY <3>0 DEF Stands, CursorSet
    <3> USE DEF e
    <3> QED BY <1>1, <3>1
  <2> HIDE DEF first
  <2>7. first + last \in 0..Rest
    BY <1>1, <2>2, <2>3, <2>6
  <2> QED BY <2>2, <2>3, <2>5, <2>7
<1>17. CASE g
  <2>1. first + last \in 0..Rest /\ first >= 6 /\ last >= 1 /\ e.p - offs = first + last
    BY <1>16, <1>17
  <2>2. first \in Nat /\ last \in Nat
    BY <1>11, <1>13, <1>14, <1>17
  <2>3. ~(Rest + 1 < 7)
    <3> HIDE DEF first
    <3> QED BY <1>1, <2>1, <2>2
  <2>4. f = Up(e)
    BY <1>2, <2>3
  <2>5. f.ok /\ f.next = e.p - 0
    <3> DEFINE d == 0
    <3>1. d \in {0, 1} /\ d \in Nat /\ d >= d /\ Stands(d, d, e) /\ e.ok
      BY <1>12, <1>15, <1>17
    <3> HIDE DEF d
    <3>2. Up(e).next = e.p - d
      BY <3>1, UpNext
    <3>3. Up(e).ok
      BY <3>1, UpOk
    <3> QED BY <2>4, <3>2, <3>3 DEF d
  <2>6. ends = {first + last}
    BY <1>3, <1>17
  <2>7. e.p \in Int
    BY <1>12, <1>1 DEF Stands, CursorSet
  <2> HIDE DEF first, f, ends
  <2>8. f.next - offs = first + last
    BY <2>1, <2>5, <2>7
  <2> QED BY <2>5, <2>6, <2>8 DEF AgreesWith, f, ends, t
<1>18. CASE ~g
  <2>1. ends = {}
    BY <1>3, <1>18
  <2>2. ~Fail(Here).ok
    BY HereStands DEF Fail, Stands, CursorSet
  <2>3. ~f.ok
    BY <1>2, <1>15, <1>18, <2>2, UpOk
  <2> HIDE DEF f, ends
  <2> QED BY <2>1, <2>3 DEF AgreesWith, f, ends, t
<1> QED BY <1>17, <1>18

----------------------------------------------------------------------------
(* The date of RFC5424.                                                    *)

\* Whether a byte is expected next is whether it ends the part.
LEMMA IsAtReads ==
  ASSUME Ready, NEW q \in offs..Len(str), NEW c, NEW k \in Nat \ {0}, NEW S,
         "?" \notin S, "end" \notin S, AtSep(c, q, k)
  PROVE  IsAt(c, S) <=> c.ok /\ PartsAt(q)[k].sep \in S
<1> DEFINE e == c ** Lit(S)
           y == At(c.p) \in S
<1>1. e.ok <=> c.ok /\ PartsAt(q)[k].sep \in S
  BY LitReads
<1>2. c.ok \in BOOLEAN /\ c.len \in 0..(Width - 1) /\ Width \in Nat /\ c \in CursorSet
  BY DEF AtSep, Stands, CursorSet, Ready, StrOK
<1>3. e.ok <=> c.ok /\ c.len > 0 /\ y
  <2>1. CASE ~c.ok
    <3>1. e = c
      BY <2>1, ConsumeIs DEF Consume
    <3> HIDE DEF e
    <3> QED BY <2>1, <3>1
  <2>2. CASE c.ok /\ c.len = 0
    <3>1. e = Fail(c)
      BY <2>2, ConsumeIs DEF Consume, Lit
    <3>2. ~e.ok
      BY <3>1, <1>2 DEF Fail, CursorSet
    <3> HIDE DEF e
    <3> QED BY <2>2, <3>2
  <2>3. CASE c.ok /\ c.len # 0
    <3>1. e = Cursor(At(c.p) \in S, c.p + 1, c.len - 1)
      BY <2>3, ConsumeIs DEF Consume, Lit
    <3> HIDE DEF e
    <3>2. e = [ok |-> y, p |-> c.p + 1, len |-> (c.len - 1) % Width]
      BY <3>1 DEF Cursor
    <3> HIDE DEF y
    <3>3. e.ok = y
      BY <3>2
    <3>4. c.len > 0
      BY <2>3, <1>2
    <3> QED BY <2>3, <3>3, <3>4
  <2> QED BY <1>2, <2>1, <2>2, <2>3
<1>4. IsAt(c, S) <=> c.ok /\ c.len > 0 /\ y
  BY DEF IsAt
<1> HIDE DEF e, y
<1> QED BY <1>1, <1>3, <1>4

\* A fraction, if there is one, is a part of its own.
LEMMA FractionReads ==
  ASSUME Ready, NEW q \in offs..Len(str), NEW c, AtSep(c, q, 6)
  PROVE  LET ps == PartsAt(q)
             z  == IF Len(ps) > 6 /\ ps[6].sep = "." THEN 7 ELSE 6
         IN  AtSep(Fraction(c), q, z) /\ (Fraction(c).ok <=> c.ok)
<1> DEFINE ps == PartsAt(q)
           z == IF Len(ps) > 6 /\ ps[6].sep = "." THEN 7 ELSE 6
           S == {"."}
           k == 6
           c1 == c ** Lit(S)
           N == Nat
           c2 == c1 ** Num(N)
           f == Fraction(c)
<1>0. f = IF IsAt(c, S) THEN c2 ELSE c
  BY Zenon DEF Fraction
<1>S. "?" \notin S /\ "end" \notin S /\ k \in Nat \ {0} /\ k + 1 = 7
  OBVIOUS
<1>x. PartsAt(q)[k].sep \in S <=> ps[6].sep = "."
  OBVIOUS
<1>y. k = 6
  OBVIOUS
<1> HIDE DEF S, k, N
<1>1. IsAt(c, S) <=> c.ok /\ ps[6].sep = "."
  <2>1. AtSep(c, q, k)
    BY DEF k
  <2>2. IsAt(c, S) <=> c.ok /\ PartsAt(q)[k].sep \in S
    BY <1>S, <2>1, IsAtReads
  <2> QED BY <1>x, <2>2, Zenon
<1>2. /\ Len(Text(q)) \in Nat /\ Len(ps) \in Nat
      /\ \A i \in 1..Len(ps) : PartIs(Text(q), ps, i)
      /\ Text(q) \in Seq(Byte)
  <2>1. q \in 0..Len(str)
    BY HereText
  <2> QED BY <2>1, TextIs, PartsAre DEF PartsAt
<1>3. c.ok => 6 \in 1..Len(ps)
  BY DEF AtSep
<1>4. CASE IsAt(c, S)
  <2>1. c.ok /\ ps[6].sep = "."
    BY <1>1, <1>4
  <2>2. Len(ps) > 6
    <3>1. PartIs(Text(q), ps, 6) /\ ps[6].sep # "end"
      BY <1>2, <1>3, <2>1
    <3> DEFINE six == 6
    <3>2. PartIs(Text(q), ps, six) /\ ps[six].sep # "end"
      BY <3>1
    <3> HIDE DEF six, ps
    <3> DEFINE at == ps[six].at
               l == Len(Text(q))
    <3>4. /\ at \in (Begin(ps, six) + 1)..(l + 1) /\ Begin(ps, six) \in Nat
          /\ at <= l => six < Len(ps)
          /\ at > l => ps[six].sep = "end"
      BY <3>2, Zenon DEF PartIs
    <3> HIDE DEF at
    <3>3. six < Len(ps)
      BY <3>2, <3>4, <1>2
    <3> QED BY <3>3, <1>2 DEF six
  <2>3. z = 7
    BY <2>1, <2>2
  <2>4. Before(c1, q, k + 1) /\ (c1.ok <=> c.ok /\ PartsAt(q)[k].sep \in S)
    <3>1. AtSep(c, q, k)
      BY DEF k
    <3> QED BY <1>S, <3>1, LitReads
  <2> HIDE DEF c1
  <2>5. AtSep(c2, q, k + 1) /\ (c2.ok <=> c1.ok /\ PartsAt(q)[k + 1].num \in N)
    BY <2>4, NumReads
  <2> HIDE DEF c2
  <2>6. 7 \in 1..Len(ps)
    BY <1>2, <2>2
  <2>7. ps[7].num \in N
    <3> DEFINE m == 7
    <3>1. PartIs(Text(q), ps, m)
      BY <1>2, <2>6
    <3> HIDE DEF m, ps
    <3>2. ps[m].num \in Nat
      BY <1>2, <3>1, PartNat
    <3> QED BY <3>2 DEF m, N
  <2>8. c1.ok
    BY <1>x, <2>1, <2>4
  <2>9. AtSep(c2, q, 7) /\ c2.ok
    BY <1>S, <2>5, <2>7, <2>8
  <2>10. f = c2
    BY <1>0, <1>4
  <2> HIDE DEF f, z
  <2> QED BY <2>1, <2>3, <2>9, <2>10 DEF f, z, ps
<1>5. CASE ~IsAt(c, S)
  <2>1. f = c
    BY <1>0, <1>5
  <2>2. CASE c.ok
    <3>1. z = 6
      BY <1>1, <1>5, <2>2
    <3> HIDE DEF f, z
    <3> QED BY <2>1, <3>1 DEF f, z, ps
  <2>3. CASE ~c.ok
    <3>1. AtSep(c, q, z)
      <4> HIDE DEF z
      <4> QED BY <2>3 DEF AtSep
    <3> HIDE DEF f, z
    <3> QED BY <2>1, <3>1 DEF f, z, ps
  <2> QED BY <2>2, <2>3
<1> QED BY <1>4, <1>5

\* Where the parts of a text are.
LEMMA PartAt ==
  ASSUME Ready, NEW q \in offs..Len(str), NEW k \in 1..Len(PartsAt(q))
  PROVE  LET ps == PartsAt(q)
             t  == Text(q)
             b  == Begin(ps, k)
         IN  /\ Len(t) \in Nat /\ Len(t) = Len(str) - q /\ q \in Nat /\ Len(str) \in Nat
             /\ b \in Nat /\ ps[k].at \in Nat /\ ps[k].n \in Nat /\ ps[k].num \in Nat
             /\ ps[k].at = b + ps[k].n + 1 /\ ps[k].at <= Len(t) + 1
             /\ ps[k].sep = "end" <=> ps[k].at = Len(t) + 1
             /\ ps[k].at <= Len(t) =>
                  /\ ps[k].sep = At(q + (ps[k].at - 1)) /\ ps[k].sep \notin Digit
                  /\ k < Len(ps)
             /\ ps[k].at > Len(t) => k = Len(ps)
             /\ ps[k].n > 0 => At(q + b) \in Digit
<1> DEFINE ps == PartsAt(q)
           t == Text(q)
           b == Begin(ps, k)
           e == ps[k].at
<1>1. /\ Len(t) \in Nat /\ Len(t) = Len(str) - q /\ q \in Nat /\ Len(str) \in Nat
      /\ t \in Seq(Byte)
      /\ \A i \in 1..Len(t) : t[i] = At(q + (i - 1)) /\ t[i] # "end"
  <2>1. q \in 0..Len(str) /\ Len(str) \in Nat
    BY HereText
  <2> QED BY <2>1, TextIs
<1>2. PartIs(t, ps, k)
  BY <1>1, PartsAre DEF PartsAt
<1>3. ps[k].num \in Nat
  BY <1>1, <1>2, PartNat
<1> HIDE DEF t, ps
<1>4. /\ b \in Nat /\ e \in (b + 1)..(Len(t) + 1) /\ ps[k].n = e - b - 1
      /\ \A i \in (b + 1)..(e - 1) : t[i] \in Digit
      /\ e <= Len(t) => ps[k].sep = t[e] /\ t[e] \notin Digit /\ k < Len(ps)
      /\ e > Len(t) => ps[k].sep = "end" /\ k = Len(ps)
  BY <1>2 DEF PartIs
<1> HIDE DEF b, e
<1>5. e \in Nat /\ ps[k].n \in Nat /\ e = b + ps[k].n + 1 /\ e <= Len(t) + 1
  <2> DEFINE l == Len(t)
             n == ps[k].n
  <2>1. b \in Nat /\ l \in Nat /\ e \in (b + 1)..(l + 1) /\ n = e - b - 1
    BY <1>1, <1>4
  <2> HIDE DEF l, n
  <2>2. e \in Nat /\ n \in Nat /\ e = b + n + 1 /\ e <= l + 1
    BY <2>1
  <2> QED BY <2>2 DEF l, n
<1>6. e <= Len(t) => ps[k].sep = At(q + (e - 1)) /\ ps[k].sep # "end"
  <2>1. e <= Len(t) => e \in 1..Len(t)
    BY <1>1, <1>4
  <2> QED BY <1>1, <1>4, <2>1
<1>7. ps[k].sep = "end" <=> e = Len(t) + 1
  BY <1>1, <1>4, <1>5, <1>6
<1>8. ps[k].n > 0 => At(q + b) \in Digit
  <2> SUFFICES ASSUME ps[k].n > 0 PROVE At(q + b) \in Digit
    OBVIOUS
  <2> DEFINE i == b + 1
  <2>1. i \in (b + 1)..(e - 1) /\ i \in 1..Len(t) /\ q + (i - 1) = q + b
    BY <1>1, <1>4, <1>5
  <2> HIDE DEF i
  <2>2. t[i] \in Digit /\ t[i] = At(q + (i - 1))
    BY <1>1, <1>4, <2>1
  <2> QED BY <2>1, <2>2
<1>9. /\ e <= Len(t) => /\ ps[k].sep = At(q + (e - 1)) /\ ps[k].sep \notin Digit
                        /\ k < Len(ps)
      /\ e > Len(t) => k = Len(ps)
  BY <1>4, <1>6
<1> QED BY <1>1, <1>3, <1>4, <1>5, <1>7, <1>8, <1>9 DEF e, b, t, ps

\* A byte that a cursor takes, by its place.
LEMMA LitIs ==
  ASSUME Ready, NEW d \in Nat, NEW c, NEW S, Stands(d, 0, c), c.ok, "?" \notin S
  PROVE  LET e == c ** Lit(S)
         IN  /\ e.ok <=> c.len > 0 /\ At(c.p) \in S
             /\ e.ok => e.p = c.p + 1
<1> DEFINE e == c ** Lit(S)
           y == At(c.p) \in S
<1>1. c.len \in Nat /\ c \in CursorSet /\ c.p \in Nat
  BY DEF Stands, CursorSet, Ready, StrOK
<1>2. CASE c.len = 0
  <2>1. e = Fail(c)
    BY <1>2, ConsumeIs DEF Consume, Lit
  <2>2. ~e.ok
    BY <1>1, <2>1 DEF Fail, CursorSet
  <2> HIDE DEF e
  <2> QED BY <1>2, <2>2 DEF e
<1>3. CASE c.len # 0
  <2>1. e = Cursor(At(c.p) \in S, c.p + 1, c.len - 1)
    BY <1>3, ConsumeIs DEF Consume, Lit
  <2> HIDE DEF e
  <2>2. e = [ok |-> y, p |-> c.p + 1, len |-> (c.len - 1) % Width]
    BY <2>1 DEF Cursor
  <2> HIDE DEF y
  <2>3. e.ok = y /\ e.p = c.p + 1 /\ c.len > 0
    BY <1>1, <1>3, <2>2
  <2> QED BY <2>3 DEF e, y
<1> QED BY <1>2, <1>3

\* Behind "Z" there is nothing or a blank, and the blank is taken.
LEMMA BehindReads ==
  ASSUME Ready, NEW q \in offs..Len(str), NEW c, NEW k, Before(c, q, k), c.ok
  PROVE  LET ps == PartsAt(q)
             f  == Behind(c)
         IN  /\ f.ok <=> ps[k].n = 0 /\ ps[k].sep \in {" ", "end"}
             /\ Stands(0, 0, f)
             /\ f.ok => f.p = q + (IF ps[k].sep = " " THEN ps[k].at ELSE Len(Text(q)))
<1> DEFINE ps == PartsAt(q)
           S == {" "}
           e == c ** Lit(S)
           f == Behind(c)
           b == Begin(ps, k)
           n == ps[k].n
           at == ps[k].at
           sep == ps[k].sep
           l == Len(Text(q))
           blank == sep = " "
           over == sep = "end"
           G == /\ f.ok <=> n = 0 /\ (blank \/ over)
                /\ f.ok => f.p = q + (IF blank THEN at ELSE l)
<1>0. f = IF c.len > 0 THEN e ELSE c
  BY DEF Behind
<1>1. k \in 1..Len(ps) /\ c.p = q + b /\ Stands(0, 0, c)
  BY DEF Before
<1>2. /\ c.len \in Nat /\ c.p + c.len = Len(str) + 0 /\ Stands(0, 0, f)
  <2>1. Stands(0, 0, f)
    <3> DEFINE d == 0
    <3>1. d \in Nat /\ Stands(d, d, c)
      BY <1>1
    <3> HIDE DEF d, f
    <3>2. Stands(d, d, f)
      BY <3>1, BehindStands DEF f
    <3> QED BY <3>2 DEF d
  <2> HIDE DEF f
  <2>2. c.len \in Nat /\ c.p + c.len = Len(str) + 0
    BY <1>1 DEF Stands, CursorSet, Ready, StrOK
  <2> QED BY <2>1, <2>2
<1>3. /\ l \in Nat /\ l = Len(str) - q /\ q \in Nat /\ Len(str) \in Nat
      /\ b \in Nat /\ at \in Nat /\ n \in Nat
      /\ at = b + n + 1 /\ at <= l + 1
      /\ over <=> at = l + 1
      /\ at <= l => sep = At(q + (at - 1)) /\ sep \notin Digit
      /\ n > 0 => At(q + b) \in Digit
  BY <1>1, PartAt
<1>4. "?" \notin S /\ S \cap Digit = {} /\ (sep \in S <=> blank) /\ ~(blank /\ over)
  BY DigitIs
<1>5. sep \in {" ", "end"} <=> blank \/ over
  OBVIOUS
<1> HIDE DEF S
<1>6. (e.ok <=> c.len > 0 /\ At(c.p) \in S) /\ (e.ok => e.p = c.p + 1)
  <2> DEFINE d == 0
  <2>1. d \in Nat /\ Stands(d, 0, c)
    BY <1>1
  <2> HIDE DEF d
  <2> QED BY <1>4, <2>1, LitIs
<1> HIDE DEF f, e, b, n, at, sep, l, blank, over, G
<1>7. ASSUME c.len = 0 PROVE G
  <2>1. n = 0 /\ at = l + 1 /\ c.p = q + l
    BY <1>1, <1>2, <1>3, <1>7
  <2>2. f.ok /\ f.p = q + l /\ over /\ ~blank
    BY <1>0, <1>3, <1>4, <1>7, <2>1
  <2> QED BY <2>1, <2>2 DEF G
<1>8. ASSUME c.len > 0, n > 0 PROVE G
  <2>1. At(c.p) \in Digit
    BY <1>1, <1>3, <1>8
  <2>2. ~f.ok
    BY <1>0, <1>4, <1>6, <1>8, <2>1
  <2>3. n # 0
    BY <1>8
  <2> QED BY <2>2, <2>3 DEF G
<1>9. ASSUME c.len > 0, n = 0 PROVE G
  <2>1. at <= l /\ q + (at - 1) = c.p /\ c.p + 1 = q + at
    BY <1>1, <1>2, <1>3, <1>9
  <2>2. At(c.p) = sep /\ ~over
    BY <1>3, <2>1
  <2>3. f.ok <=> blank
    BY <1>0, <1>4, <1>6, <1>9, <2>2
  <2>4. f.ok => f.p = q + at
    BY <1>0, <1>6, <1>9, <2>1
  <2> QED BY <1>9, <2>2, <2>3, <2>4 DEF G
<1>10. G
  BY <1>2, <1>3, <1>7, <1>8, <1>9
<1>11. /\ f.ok <=> n = 0 /\ sep \in {" ", "end"}
       /\ f.ok => f.p = q + (IF blank THEN at ELSE l)
  <2> DEFINE y == sep \in {" ", "end"}
  <2>1. y <=> blank \/ over
    BY <1>5
  <2> HIDE DEF y
  <2>2. /\ f.ok <=> n = 0 /\ y
        /\ f.ok => f.p = q + (IF blank THEN at ELSE l)
    BY <1>10, <2>1 DEF G
  <2> QED BY <2>2, Zenon DEF y
<1> QED BY <1>2, <1>11, Zenon DEF f, n, at, sep, l, ps, blank

\* The same for a byte that does not come off the length, and for a number.
LEMMA SlipIs ==
  ASSUME Ready, NEW d \in Nat, NEW c, NEW S, Stands(d, 0, c), c.ok, "?" \notin S
  PROVE  LET e == c ** Slip(S)
         IN  /\ e.ok <=> c.len > 0 /\ At(c.p) \in S
             /\ e.ok => e.p = c.p + 1
<1> DEFINE e == c ** Slip(S)
           y == At(c.p) \in S
<1>1. c.len \in Nat /\ c \in CursorSet /\ c.p \in Nat
  BY DEF Stands, CursorSet, Ready, StrOK
<1>2. CASE c.len = 0
  <2>1. e = Fail(c)
    BY <1>2, ConsumeIs DEF Consume, Slip
  <2>2. ~e.ok
    BY <1>1, <2>1 DEF Fail, CursorSet
  <2> HIDE DEF e
  <2> QED BY <1>2, <2>2 DEF e
<1>3. CASE c.len # 0
  <2>1. e = Cursor(At(c.p) \in S, c.p + 1, c.len)
    BY <1>3, ConsumeIs DEF Consume, Slip
  <2> HIDE DEF e
  <2>2. e = [ok |-> y, p |-> c.p + 1, len |-> c.len % Width]
    BY <2>1 DEF Cursor
  <2> HIDE DEF y
  <2>3. e.ok = y /\ e.p = c.p + 1 /\ c.len > 0
    BY <1>1, <1>3, <2>2
  <2> QED BY <2>3 DEF e, y
<1> QED BY <1>2, <1>3

LEMMA NumIs ==
  ASSUME NEW c, NEW S, c.ok
  PROVE  LET e == c ** Num(S)
             n == RunOf(c.p, c.len, Digit)
         IN  (e.ok <=> DecimalAt(c.p, n) \in S) /\ e.p = c.p + n
<1> DEFINE e == c ** Num(S)
           n == RunOf(c.p, c.len, Digit)
           y == DecimalAt(c.p, n) \in S
<1>1. e = Cursor(y, c.p + n, c.len - n)
  BY ConsumeIs DEF Consume, Num
<1> HIDE DEF y, n, e
<1>2. e = [ok |-> y, p |-> c.p + n, len |-> (c.len - n) % Width]
  BY <1>1 DEF Cursor
<1>3. e.ok = y /\ e.p = c.p + n
  BY <1>2
<1> QED BY <1>3 DEF e, y, n

\* A length that is one too large, and a number in the bytes it should count.
LEMMA OneLonger ==
  ASSUME NEW a \in Nat, NEW p \in Nat, NEW n \in Nat, n <= a - p
  PROVE  /\ a - p \in Nat /\ n \in 0..(a - p) /\ a + 1 - p = (a - p) + 1
         /\ a + 1 - p \in Nat /\ n \in 0..(a + 1 - p)
OBVIOUS

\* With a length one too large a number ends where its part does, but at the
\* end of the string it may take one digit more.
LEMMA LongRun ==
  ASSUME Ready, NEW q \in offs..Len(str), NEW k \in 1..Len(PartsAt(q)),
         NEW p, p = q + Begin(PartsAt(q), k), NEW len, len = Len(str) + 1 - p
  PROVE  LET ps == PartsAt(q)
             n  == ps[k].n
             x  == RunOf(p, len, Digit)
         IN  /\ ps[k].num \in Nat
             /\ x = n => DecimalAt(p, x) = ps[k].num
             /\ ps[k].at <= Len(Text(q)) => x = n
             /\ ps[k].at = Len(Text(q)) + 1 =>
                  \/ x = n
                  \/ x = n + 1 /\ DecimalAt(p, x) \in Nat /\ ps[k].num <= DecimalAt(p, x)
<1> DEFINE ps == PartsAt(q)
           b == Begin(ps, k)
           n == ps[k].n
           at == ps[k].at
           num == ps[k].num
           l == Len(Text(q))
           less == Len(str) - p
           x == RunOf(p, len, Digit)
           next == At(p + n) \in Digit
<1>1. /\ b \in Nat /\ n \in 0..(Len(str) - (q + b)) /\ b + n = at - 1
      /\ RunOf(q + b, Len(str) - (q + b), Digit) = n /\ num = DecimalAt(q + b, n)
  BY RunIsPart
<1>2. /\ l \in Nat /\ l = Len(str) - q /\ q \in Nat /\ Len(str) \in Nat
      /\ at \in Nat /\ num \in Nat
      /\ at <= l => ps[k].sep = At(q + (at - 1)) /\ ps[k].sep \notin Digit
  BY PartAt
<1>0. p = q + b
  OBVIOUS
<1> HIDE DEF ps, b, n, at, num, l, x
<1>a. b \in Nat /\ b + n = at - 1 /\ at \in Nat /\ q \in Nat /\ p = q + b
  BY <1>0, <1>1, <1>2
<1>3. p \in Nat /\ less \in Nat /\ n \in 0..less /\ len = less + 1 /\ len \in Nat /\ n \in 0..len
      /\ n \in Nat /\ p \in Int
  <2> DEFINE a == Len(str)
  <2>1. a \in Nat /\ q \in Nat /\ b \in Nat /\ n \in 0..(a - (q + b)) /\ p = q + b
        /\ less = a - p /\ len = a + 1 - p
    BY <1>0, <1>1, <1>2
  <2> HIDE DEF a, less
  <2>2. n \in Nat /\ n <= a - (q + b) /\ p \in Nat
    BY <2>1
  <2>3. a \in Nat /\ p \in Nat /\ n \in Nat /\ n <= a - p /\ less = a - p /\ len = a + 1 - p
    BY <2>1, <2>2
  <2>4. /\ a - p \in Nat /\ n \in 0..(a - p) /\ a + 1 - p = (a - p) + 1
        /\ a + 1 - p \in Nat /\ n \in 0..(a + 1 - p)
    BY <2>3, OneLonger
  <2>5. p \in Int
    BY <2>3
  <2> QED BY <2>3, <2>4, <2>5, Zenon
<1>4. RunOf(p, less, Digit) = n /\ num = DecimalAt(p, n)
  BY <1>0, <1>1
<1> HIDE DEF less
<1>5. \A m \in 0..(n - 1) : At(p + m) \in Digit
  BY <1>3, <1>4, RunStops
<1>6. ASSUME ~next PROVE x = n
  <2>1. At(p + n) \notin Digit
    BY <1>6
  <2> QED BY <1>3, <1>5, <2>1, RunIs DEF x
<1>7. ASSUME at <= l PROVE x = n
  <2>1. q + (at - 1) = p + n
    <3>1. n \in Nat
      BY <1>3
    <3> QED BY <3>1, <1>a
  <2>2. ~next
    BY <1>2, <1>7, <2>1
  <2> QED BY <1>6, <2>2
<1>8. ASSUME at = l + 1, next PROVE x = n + 1 /\ DecimalAt(p, x) \in Nat /\ num <= DecimalAt(p, x)
  <2>1. n = less
    <3> DEFINE a == Len(str)
    <3>1. /\ a \in Nat /\ q \in Nat /\ b \in Nat /\ n \in Nat /\ l = a - q /\ b + n = at - 1
          /\ at \in Nat /\ at = l + 1 /\ p = q + b /\ less = a - p
      BY <1>0, <1>1, <1>2, <1>3, <1>8 DEF less
    <3> HIDE DEF a
    <3> QED BY <3>1
  <2> DEFINE y == n + 1
  <2>2. y \in 0..len /\ y = len /\ \A m \in 0..(y - 1) : At(p + m) \in Digit
    <3>1. y \in 0..len /\ y = len /\ \A m \in 0..(y - 1) : m = n \/ m \in 0..(n - 1)
      BY <1>3, <2>1
    <3> QED BY <1>5, <1>8, <3>1
  <2> HIDE DEF y
  <2>3. x = y
    BY <1>3, <2>2, RunIs DEF x
  <2> DEFINE s == [i \in 1..n |-> At(p + i - 1)]
             u == [i \in 1..(n + 1) |-> At(p + i - 1)]
  <2>4. Len(s) = n /\ Len(u) = n + 1
    BY <1>3
  <2>5. \A i \in 1..n : s[i] = u[i]
    BY <1>3
  <2>6. \A i \in 1..(n + 1) : u[i] \in Digit
    <3> SUFFICES ASSUME NEW i \in 1..(n + 1) PROVE At(p + i - 1) \in Digit
      OBVIOUS
    <3> DEFINE m == i - 1
    <3>1. m \in 0..(y - 1) /\ p + m = p + i - 1
      BY <1>3 DEF y
    <3> HIDE DEF m
    <3>2. At(p + m) \in Digit
      BY <2>2, <3>1
    <3> QED BY <3>1, <3>2
  <2>7. DecimalAt(p, n) = Decimal(s) /\ DecimalAt(p, y) = Decimal(u)
    BY DEF DecimalAt, y
  <2> HIDE DEF s, u
  <2>8. Decimal(s) \in Nat /\ Decimal(u) \in Nat /\ Decimal(s) <= Decimal(u)
    BY <1>3, <2>4, <2>5, <2>6, DecimalGrows
  <2> QED BY <1>4, <2>3, <2>7, <2>8 DEF y
<1> QED BY <1>2, <1>4, <1>6, <1>7, <1>8 DEF n, x, at, num, l, ps

\* A zone offset and what is behind it.  Nothing is accepted that the grammar
\* refuses; what it allows is refused at most where the offset ends the string.
LEMMA SlipReads ==
  ASSUME Ready, NEW q \in offs..Len(str), NEW c, NEW k \in Nat \ {0}, NEW H,
         Before(c, q, k), c.ok
  PROVE  LET ps == PartsAt(q)
             f  == Behind(c ** Num(H) ** Slip({":"}) ** Num(0..59))
             g  == Has(ps, k, <<<<H, {":"}>>, <<0..59, {" ", "end"}>>>>)
         IN  /\ f.ok => g /\ Up(f).next = q + (ps[k + 1].at - 1)
             /\ g /\ ~f.ok => ps[k + 1].at - 1 = Len(Text(q))
<1> DEFINE ps == PartsAt(q)
           C == {":"}
           S == {" "}
           E == {" ", "end"}
           M == 0..59
           c2 == c ** Num(H)
           c3 == c2 ** Slip(C)
           c4 == c3 ** Num(M)
           c5 == c4 ** Lit(S)
           f == Behind(c4)
           g == Has(ps, k, <<<<H, C>>, <<M, E>>>>)
           l == Len(Text(q))
           at == ps[k + 1].at
           num == ps[k + 1].num
           G == /\ f.ok => g /\ Up(f).next = q + (at - 1)
                /\ g /\ ~f.ok => at - 1 = l
<1>C. /\ "?" \notin C /\ "end" \notin C /\ "?" \notin S /\ "end" \notin S
      /\ \A x : x \in E <=> x \in S \/ x = "end"
  OBVIOUS
<1>M. \A x, y \in Nat : x <= y /\ y \in M => x \in M
  OBVIOUS
<1>0. f = IF c4.len > 0 THEN c5 ELSE c4
  BY DEF Behind
<1> HIDE DEF C, S, E, M
<1>1. g <=> /\ k <= Len(ps) /\ ps[k].num \in H /\ ps[k].sep \in C
            /\ k + 1 <= Len(ps) /\ num \in M /\ ps[k + 1].sep \in E
  <2> HIDE DEF ps
  <2> QED BY HasTwo DEF g, num
<1>2. AtSep(c2, q, k) /\ (c2.ok <=> ps[k].num \in H)
  BY NumReads
<1> HIDE DEF c2
<1>3. Stands(0, 0, c2) /\ c2 \in CursorSet /\ k \in 1..Len(ps)
  BY <1>2 DEF AtSep, Stands, Before
<1>4. Stands(1, 1, c3)
  <2> DEFINE z == 0
             o == z + 1
  <2>1. z \in Nat /\ Stands(z, z, c2) /\ o = 1
    BY <1>3
  <2> HIDE DEF z
  <2>2. Stands(z + 1, z + 1, c3)
    BY <1>C, <2>1, SlipStands
  <2> QED BY <2>1, <2>2
<1>5. c3.ok => c2.ok /\ ps[k].sep \in C /\ c3.p = q + ps[k].at
  <2>1. CASE ~c2.ok
    <3>1. c3 = c2
      BY <2>1, ConsumeIs DEF Consume
    <3> HIDE DEF c3
    <3> QED BY <2>1, <3>1
  <2>2. CASE c2.ok
    <3>1. (c3.ok <=> c2.len > 0 /\ At(c2.p) \in C) /\ (c3.ok => c3.p = c2.p + 1)
      <4> DEFINE z == 0
      <4>1. z \in Nat /\ Stands(z, 0, c2)
        BY <1>3
      <4> HIDE DEF z
      <4> QED BY <1>C, <2>2, <4>1, SlipIs
    <3> HIDE DEF c3
    <3>2. c2.p = q + (ps[k].at - 1)
      BY <1>2, <2>2 DEF AtSep
    <3>3. IsAt(c2, C) <=> c2.ok /\ ps[k].sep \in C
      BY <1>C, <1>2, IsAtReads
    <3>4. IsAt(c2, C) <=> c2.ok /\ c2.len > 0 /\ At(c2.p) \in C
      BY DEF IsAt
    <3>5. q \in Nat /\ ps[k].at \in Nat
      BY <1>3, PartAt
    <3>6. q + (ps[k].at - 1) + 1 = q + ps[k].at
      <4> DEFINE a == ps[k].at
      <4> HIDE DEF a
      <4>1. q \in Nat /\ a \in Nat
        BY <3>5 DEF a
      <4>2. q + (a - 1) + 1 = q + a
        BY <4>1
      <4> QED BY <4>2 DEF a
    <3> QED BY <2>2, <3>1, <3>2, <3>3, <3>4, <3>6
  <2>3. c2.ok \in BOOLEAN
    BY <1>3 DEF CursorSet
  <2> QED BY <2>1, <2>2, <2>3
<1>6. ps[k].num \in H /\ ps[k].sep \in C => c3.ok
  <2> SUFFICES ASSUME ps[k].num \in H, ps[k].sep \in C PROVE c3.ok
    OBVIOUS
  <2>1. c2.ok
    BY <1>2
  <2>2. (c3.ok <=> c2.len > 0 /\ At(c2.p) \in C)
    <3> DEFINE z == 0
    <3>1. z \in Nat /\ Stands(z, 0, c2)
      BY <1>3
    <3> HIDE DEF z
    <3> QED BY <1>C, <2>1, <3>1, SlipIs
  <2> HIDE DEF c3
  <2>3. IsAt(c2, C)
    BY <1>C, <1>2, <2>1, IsAtReads
  <2> QED BY <2>2, <2>3 DEF IsAt
<1> HIDE DEF c3
<1>7. Stands(1, 1, c4)
  <2> DEFINE o == 1
  <2>1. o \in Nat /\ Stands(o, o, c3)
    BY <1>4
  <2> HIDE DEF o
  <2>2. Stands(o, o, c4)
    BY <2>1, NumStands
  <2> QED BY <2>2 DEF o
<1>8. Stands(1, 1, f) /\ (f.ok => Up(f).next = f.p - 1)
  <2> DEFINE o == 1
  <2>1. o \in Nat /\ Stands(o, o, c4) /\ o \in {0, 1} /\ o >= o
    BY <1>7
  <2> HIDE DEF o, f, c4
  <2>2. Stands(o, o, f)
    BY <2>1, BehindStands DEF f
  <2>3. f.ok => Up(f).next = f.p - o
    BY <2>1, <2>2, UpNext
  <2> QED BY <2>2, <2>3 DEF o
<1>9. ~c3.ok => ~f.ok
  <2> SUFFICES ASSUME ~c3.ok PROVE ~f.ok
    OBVIOUS
  <2>1. c4 = c3
    BY ConsumeIs DEF Consume
  <2>2. c5 = c4
    BY <2>1, ConsumeIs DEF Consume
  <2> HIDE DEF f, c4, c5
  <2> QED BY <1>0, <2>1, <2>2
<1>10. ASSUME ~c3.ok PROVE G
  <2> HIDE DEF f, g
  <2>1. ~g /\ ~f.ok
    BY <1>1, <1>6, <1>9, <1>10
  <2> QED BY <2>1 DEF G
<1>11. ASSUME c3.ok PROVE G
  <2> DEFINE b == ps[k].at
             p == q + b
             len == Len(str) + 1 - p
             n == ps[k + 1].n
             sep == ps[k + 1].sep
             x == RunOf(p, len, Digit)
             over == at = l + 1
             y == DecimalAt(p, x) \in M
             z == At(c4.p) \in S
  <2>1. ps[k].num \in H /\ ps[k].sep \in C /\ c3.p = p
    BY <1>2, <1>5, <1>11
  <2>2. b \in Nat /\ b <= l /\ k < Len(ps) /\ Len(ps) \in Nat
    <3>1. /\ l \in Nat /\ b \in Nat /\ b <= l + 1 /\ (ps[k].sep = "end" <=> b = l + 1)
          /\ b <= l => k < Len(ps)
      BY <1>3, PartAt
    <3>2. ps[k].sep # "end"
      BY <1>C, <2>1
    <3>3. Len(ps) \in Nat
      <4>1. Len(Text(q)) \in Nat
        BY HereText, TextIs
      <4> QED BY <4>1, PartsAre DEF PartsAt
    <3> HIDE DEF b, l, ps
    <3> QED BY <3>1, <3>2, <3>3
  <2>3. k + 1 \in 1..Len(ps) /\ Begin(ps, k + 1) = b /\ k + 1 <= Len(ps) /\ k <= Len(ps)
    <3> HIDE DEF ps
    <3>1. k + 1 # 1 /\ (k + 1) - 1 = k
      OBVIOUS
    <3> QED BY <2>2, <3>1 DEF Begin
  <2>4. /\ l \in Nat /\ l = Len(str) - q /\ q \in Nat /\ Len(str) \in Nat
        /\ at \in Nat /\ n \in Nat /\ num \in Nat /\ at = b + n + 1 /\ at <= l + 1
        /\ sep = "end" <=> over
        /\ at <= l => sep = At(q + (at - 1))
    <3> DEFINE kk == k + 1
    <3>1. kk \in 1..Len(PartsAt(q)) /\ Begin(PartsAt(q), kk) = b
      BY <2>3
    <3> HIDE DEF kk, b
    <3>2. /\ l \in Nat /\ l = Len(str) - q /\ q \in Nat /\ Len(str) \in Nat
          /\ PartsAt(q)[kk].at \in Nat /\ PartsAt(q)[kk].n \in Nat /\ PartsAt(q)[kk].num \in Nat
          /\ PartsAt(q)[kk].at = b + PartsAt(q)[kk].n + 1 /\ PartsAt(q)[kk].at <= l + 1
          /\ PartsAt(q)[kk].sep = "end" <=> PartsAt(q)[kk].at = l + 1
          /\ PartsAt(q)[kk].at <= l => PartsAt(q)[kk].sep = At(q + (PartsAt(q)[kk].at - 1))
      BY <3>1, PartAt
    <3> QED BY <3>2, Zenon DEF kk, over, sep, n
  <2>5. /\ x = n => DecimalAt(p, x) = num
        /\ at <= l => x = n
        /\ over => \/ x = n
                   \/ x = n + 1 /\ DecimalAt(p, x) \in Nat /\ num <= DecimalAt(p, x)
    <3> DEFINE kk == k + 1
    <3>1. kk \in 1..Len(PartsAt(q)) /\ p = q + Begin(PartsAt(q), kk) /\ len = Len(str) + 1 - p
      BY <2>3
    <3> HIDE DEF kk, p, len
    <3>2. /\ x = PartsAt(q)[kk].n => DecimalAt(p, x) = PartsAt(q)[kk].num
          /\ PartsAt(q)[kk].at <= l => x = PartsAt(q)[kk].n
          /\ PartsAt(q)[kk].at = l + 1 =>
               \/ x = PartsAt(q)[kk].n
               \/ x = PartsAt(q)[kk].n + 1 /\ DecimalAt(p, x) \in Nat
                  /\ PartsAt(q)[kk].num <= DecimalAt(p, x)
      BY <3>1, LongRun
    <3> QED BY <3>2, Zenon DEF kk, over, n
  <2>6. c3.len = len
    <3>1. c3.p + c3.len = Len(str) + 1 /\ c3.p \in Nat /\ c3.len \in Nat
      BY <1>4, <1>11 DEF Stands, CursorSet, Ready, StrOK
    <3> DEFINE a == Len(str)
               e == c3.len
    <3>2. p + e = a + 1 /\ p \in Nat /\ e \in Nat /\ a \in Nat
      BY <2>1, <2>4, <3>1
    <3> HIDE DEF a, e, p
    <3>3. e = a + 1 - p
      BY <3>2
    <3> QED BY <3>3 DEF a, e
  <2>7. (c4.ok <=> y) /\ c4.p = p + x
    <3>1. RunOf(c3.p, c3.len, Digit) = x
      BY <2>1, <2>6
    <3> HIDE DEF x, p
    <3>2. LET m == RunOf(c3.p, c3.len, Digit)
          IN  (c4.ok <=> DecimalAt(c3.p, m) \in M) /\ c4.p = c3.p + m
      BY <1>11, NumIs
    <3> QED BY <2>1, <3>1, <3>2
  <2>8. ASSUME c4.ok
        PROVE  /\ c5.ok <=> c4.len > 0 /\ z
               /\ c5.ok => c5.p = c4.p + 1
               /\ c4.p + c4.len = Len(str) + 1 /\ c4.len \in Nat /\ c4.p \in Nat
    <3> DEFINE o == 1
               u == 0
    <3>1. o \in Nat /\ Stands(o, o, c4) /\ u \in Nat /\ u <= o
      BY <1>7
    <3> HIDE DEF o, c4, u
    <3>2. Stands(o, u, c4)
      BY <3>1, StandsLess
    <3>3. (c5.ok <=> c4.len > 0 /\ z) /\ (c5.ok => c5.p = c4.p + 1)
      BY <1>C, <2>8, <3>1, <3>2, LitIs DEF u
    <3>4. c4.p + c4.len = Len(str) + 1 /\ c4.len \in Nat /\ c4.p \in Nat
      BY <1>7, <2>8 DEF Stands, CursorSet, Ready, StrOK
    <3> QED BY <3>3, <3>4
  <2>9. g <=> num \in M /\ sep \in E
    BY <1>1, <2>1, <2>3
  <2>10. ~c4.ok => ~f.ok
    <3>1. ~c4.ok => c5 = c4
      BY ConsumeIs DEF Consume
    <3> HIDE DEF f, c4, c5
    <3> QED BY <1>0, <3>1
  <2> DEFINE a == Len(str)
             blank == sep \in S
             last == sep = "end"
  <2>11. (sep \in E <=> blank \/ last) /\ (last <=> over)
    BY <1>C, <2>4
  <2>12. at <= l => (q + (at - 1) = p + n)
    <3> HIDE DEF b, l, at, n
    <3> QED BY <2>2, <2>4
  <2>13. at <= l /\ c4.p = p + n => (z <=> blank)
    BY <2>4, <2>12
  <2>14. a \in Nat /\ l = a - q /\ p = q + b
    BY <2>4
  <2>15. ASSUME c4.ok PROVE c4.p + c4.len = a + 1 /\ c4.len \in Nat /\ c4.p \in Nat
    BY <2>8, <2>15
  <2> HIDE DEF b, p, len, n, sep, x, over, y, z, a, blank, last, at, l, num, f, g, c4, c5
  <2>16. ASSUME at <= l PROVE G
    <3>1. x = n /\ (y <=> num \in M) /\ c4.p = p + n /\ ~over
      BY <2>4, <2>5, <2>7, <2>16 DEF y, over
    <3>2. ASSUME c4.ok PROVE c4.len > 0 /\ c4.p + 1 - 1 = q + (at - 1)
      BY <2>2, <2>4, <2>12, <2>14, <2>15, <2>16, <3>1, <3>2
    <3>3. f.ok <=> c4.ok /\ c5.ok
      BY <1>0, <2>10, <3>2
    <3>4. f.ok <=> c4.ok /\ blank
      BY <2>8, <2>13, <2>16, <3>1, <3>2, <3>3
    <3>5. f.ok <=> g
      BY <2>7, <2>9, <2>11, <3>1, <3>4
    <3>6. ASSUME f.ok PROVE Up(f).next = q + (at - 1)
      <4>1. c4.ok /\ c5.ok /\ f = c5 /\ f.p = c4.p + 1
        BY <1>0, <2>8, <3>2, <3>3, <3>6
      <4> DEFINE w == f.p
                 v == c4.p
                 next == Up(f).next
      <4>2. next = w - 1 /\ w = v + 1 /\ v + 1 - 1 = q + (at - 1) /\ v \in Nat
        BY <1>8, <2>15, <3>2, <3>6, <4>1
      <4> HIDE DEF w, v, next
      <4>3. next = q + (at - 1)
        BY <4>2
      <4> QED BY <4>3 DEF next
    <3> QED BY <3>5, <3>6 DEF G
  <2>17. ASSUME over PROVE G
    <3>1. at = l + 1
      BY <2>17 DEF over
    <3>2. at - 1 = l
      BY <2>4, <3>1
    <3>3. ASSUME f.ok PROVE g /\ Up(f).next = q + (at - 1)
      <4>1. c4.ok /\ y /\ c4.p = p + x
        BY <2>7, <2>10, <3>3
      <4>2. num \in M
        <5>1. CASE x = n
          BY <2>5, <4>1, <5>1 DEF y
        <5>2. CASE x # n
          <6>1. DecimalAt(p, x) \in Nat /\ num <= DecimalAt(p, x)
            BY <2>5, <2>17, <5>2
          <6>2. DecimalAt(p, x) \in M
            BY <4>1 DEF y
          <6> QED BY <1>M, <2>4, <6>1, <6>2
        <5> QED BY <5>1, <5>2
      <4>3. g
        BY <2>9, <2>11, <2>17, <4>2
      <4>4. f.p - 1 = q + (at - 1)
        <5>1. CASE c4.len > 0
          <6>1. f = c5 /\ f.p = c4.p + 1
            BY <1>0, <2>8, <3>3, <4>1, <5>1
          <6>2. x = n
            <7>1. x = n + 1 => c4.p + c4.len > a + 1
              BY <2>2, <2>4, <2>14, <2>15, <3>1, <4>1, <5>1
            <7>2. x # n + 1
              BY <2>14, <2>15, <4>1, <7>1
            <7> QED BY <2>5, <2>17, <7>2
          <6> QED BY <2>2, <2>4, <2>14, <2>15, <4>1, <6>1, <6>2
        <5>2. CASE ~(c4.len > 0)
          <6>1. f = c4 /\ c4.len = 0
            BY <1>0, <2>15, <4>1, <5>2
          <6>2. c4.p = a + 1
            BY <2>14, <2>15, <4>1, <6>1
          <6> DEFINE w == f.p
          <6>3. w = a + 1
            BY <6>1, <6>2
          <6> HIDE DEF w
          <6>4. w - 1 = q + (at - 1)
            BY <2>4, <2>14, <3>1, <6>3
          <6> QED BY <6>4 DEF w
        <5> QED BY <5>1, <5>2
      <4> QED BY <1>8, <3>3, <4>3, <4>4
    <3> QED BY <3>2, <3>3 DEF G
  <2>18. at <= l \/ over
    BY <2>4 DEF over
  <2> QED BY <2>16, <2>17, <2>18
<1>12. c3.ok \in BOOLEAN
  BY <1>4 DEF Stands, CursorSet
<1>13. G
  BY <1>10, <1>11, <1>12
<1> QED BY <1>13, Zenon DEF G, f, g, c4, c3, c2, l, at, ps, C, S, E, M

\* The day and the time, up to the zone.
LEMMA DayReads ==
  ASSUME Ready, NEW N, N = Nat, NEW M, NEW D
  PROVE  LET ps == PartsAt(offs)
             c  == Here ** Num(N) ** Lit({"-"}) ** Num(M) ** Lit({"-"}) ** Num(D) ** Lit({"T"})
         IN  /\ Before(c, offs, 4)
             /\ c.ok <=> Has(ps, 1, <<<<N, {"-"}>>, <<M, {"-"}>>, <<D, {"T"}>>>>)
<1> DEFINE q == offs
           ps == PartsAt(q)
           S == {"-"}
           T == {"T"}
           c1 == Here ** Num(N)
           c2 == c1 ** Lit(S)
           c3 == c2 ** Num(M)
           c4 == c3 ** Lit(S)
           c5 == c4 ** Num(D)
           c6 == c5 ** Lit(T)
           k == 1
           g == Has(ps, k, <<<<N, S>>, <<M, S>>, <<D, T>>>>)
<1>1. "?" \notin S /\ "end" \notin S /\ "?" \notin T /\ "end" \notin T
  OBVIOUS
<1>2. q \in offs..Len(str) /\ q \in 0..Len(str) /\ Len(Text(q)) \in Nat
  BY HereText
<1>3. Len(ps) \in Nat \ {0}
  BY <1>2, PartsAre DEF PartsAt
<1>4. Before(Here, q, k) /\ Here.ok
  <2>1. Here.p = offs + 0 /\ Begin(ps, 1) = 0 /\ 1 \in 1..Len(ps)
    BY <1>2, <1>3, HereText DEF Here, Cursor, Begin
  <2>2. Stands(0, 0, Here) /\ Here.ok
    BY HereStands
  <2> QED BY <2>1, <2>2 DEF Before
<1>5. k \in Nat \ {0} /\ k \in Nat /\ k + 1 \in Nat \ {0} /\ k + 2 \in Nat \ {0} /\ k + 3 = 4
      /\ (k + 1) + 1 = k + 2 /\ (k + 2) + 1 = k + 3
  OBVIOUS
<1>6. 1 \in 1..Len(ps)
  BY <1>3
<1>7. ps[k].num \in N
  BY <1>2, <1>6, PartAt
<1> HIDE DEF q, S, T, k, g
<1>11. AtSep(c1, q, k) /\ (c1.ok <=> Here.ok /\ PartsAt(q)[k].num \in N)
  BY <1>2, <1>4, NumReads
<1> HIDE DEF c1
<1>12. Before(c2, q, k + 1) /\ (c2.ok <=> c1.ok /\ PartsAt(q)[k].sep \in S)
  BY <1>1, <1>2, <1>5, <1>11, LitReads
<1> HIDE DEF c2
<1>13. AtSep(c3, q, k + 1) /\ (c3.ok <=> c2.ok /\ PartsAt(q)[k + 1].num \in M)
  BY <1>2, <1>12, NumReads
<1> HIDE DEF c3
<1>14. Before(c4, q, k + 2) /\ (c4.ok <=> c3.ok /\ PartsAt(q)[k + 1].sep \in S)
  <2>1. Before(c4, q, (k + 1) + 1) /\ (c4.ok <=> c3.ok /\ PartsAt(q)[k + 1].sep \in S)
    BY <1>1, <1>2, <1>5, <1>13, LitReads
  <2> HIDE DEF c4
  <2> QED BY <2>1, <1>5
<1> HIDE DEF c4
<1>15. AtSep(c5, q, k + 2) /\ (c5.ok <=> c4.ok /\ PartsAt(q)[k + 2].num \in D)
  BY <1>2, <1>14, NumReads
<1> HIDE DEF c5
<1>16. Before(c6, q, k + 3) /\ (c6.ok <=> c5.ok /\ PartsAt(q)[k + 2].sep \in T)
  <2>1. Before(c6, q, (k + 2) + 1) /\ (c6.ok <=> c5.ok /\ PartsAt(q)[k + 2].sep \in T)
    BY <1>1, <1>2, <1>5, <1>15, LitReads
  <2> HIDE DEF c6
  <2> QED BY <2>1, <1>5
<1> HIDE DEF c6
<1>17. c6.ok => k <= Len(ps) /\ k + 1 <= Len(ps) /\ k + 2 <= Len(ps)
  <2>1. c6.ok => k + 3 \in 1..Len(ps)
    BY <1>16 DEF Before
  <2> HIDE DEF ps
  <2> QED BY <1>5, <1>3, <2>1
<1>18. g <=>
         /\ k <= Len(ps) /\ ps[k].num \in N /\ ps[k].sep \in S
         /\ k + 1 <= Len(ps) /\ ps[k + 1].num \in M /\ ps[k + 1].sep \in S
         /\ k + 2 <= Len(ps) /\ ps[k + 2].num \in D /\ ps[k + 2].sep \in T
  <2> HIDE DEF ps
  <2>1. Has(ps, k, <<<<N, S>>, <<M, S>>, <<D, T>>>>) <=>
          /\ k <= Len(ps) /\ ps[k].num \in N /\ ps[k].sep \in S
          /\ k + 1 <= Len(ps) /\ ps[k + 1].num \in M /\ ps[k + 1].sep \in S
          /\ k + 2 <= Len(ps) /\ ps[k + 2].num \in D /\ ps[k + 2].sep \in T
    <3>1. Has(ps, k, <<<<N, S>>, <<M, S>>, <<D, T>>>>) <=>
            PartIn(ps, k, N, S) /\ PartIn(ps, k + 1, M, S) /\ PartIn(ps, k + 2, D, T)
      BY <1>5, HasPartByPart
    <3> QED BY <3>1, Zenon DEF PartIn
  <2> QED BY <2>1, Zenon DEF g
<1>19. c6.ok <=> g
  <2> HIDE DEF g
  <2> QED BY <1>4, <1>7, <1>11, <1>12, <1>13, <1>14, <1>15, <1>16, <1>17, <1>18
<1>20. Before(c6, q, 4)
  BY <1>5, <1>16
<1> QED BY <1>19, <1>20, Zenon DEF g, k, q, S, T, ps, c6, c5, c4, c3, c2, c1

\* Up to the zone the scan is where the grammar says.
LEMMA DateReads ==
  ASSUME Ready
  PROVE  LET ps == PartsAt(offs)
             z  == IF Len(ps) > 6 /\ ps[6].sep = "." THEN 7 ELSE 6
             c  == Fraction(HourMinuteSecond(
                     Here ** Num(Nat) ** Lit({"-"}) ** Num(1..12) ** Lit({"-"}) ** Num(1..31)
                       ** Lit({"T"})))
         IN  /\ AtSep(c, offs, z)
             /\ c.ok <=> /\ Has(ps, 1, <<<<Nat, {"-"}>>, <<1..12, {"-"}>>, <<1..31, {"T"}>>>>)
                         /\ 6 <= Len(ps) /\ Clock(ps, 4)
<1> DEFINE q == offs
           ps == PartsAt(q)
           z == IF Len(ps) > 6 /\ ps[6].sep = "." THEN 7 ELSE 6
           N == Nat
           M == 1..12
           D == 1..31
           d == Here ** Num(N) ** Lit({"-"}) ** Num(M) ** Lit({"-"}) ** Num(D) ** Lit({"T"})
           e == HourMinuteSecond(d)
           c == Fraction(e)
           g == Has(ps, 1, <<<<N, {"-"}>>, <<M, {"-"}>>, <<D, {"T"}>>>>)
           four == 4
<1>1. q \in offs..Len(str) /\ four \in Nat \ {0} /\ four + 2 = 6
  BY HereText
<1>2. N = Nat
  OBVIOUS
<1> HIDE DEF N, M, D
<1>3. Before(d, q, four) /\ (d.ok <=> g)
  BY <1>2, DayReads
<1> HIDE DEF d, g, four
<1>4. AtSep(e, q, four + 2) /\ (e.ok <=> d.ok /\ four + 2 <= Len(PartsAt(q)) /\ Clock(PartsAt(q), four))
  BY <1>1, <1>3, ClockReads
<1> HIDE DEF e
<1>5. AtSep(e, q, 6) /\ (e.ok <=> g /\ 6 <= Len(ps) /\ Clock(ps, four))
  BY <1>1, <1>3, <1>4
<1> HIDE DEF q
<1>6. AtSep(c, q, z) /\ (c.ok <=> e.ok)
  BY <1>1, <1>5, FractionReads
<1> HIDE DEF c, z
<1>7. AtSep(c, q, z) /\ (c.ok <=> g /\ 6 <= Len(ps) /\ Clock(ps, four))
  BY <1>5, <1>6
<1> QED BY <1>7, Zenon DEF c, z, e, d, g, q, ps, N, M, D, four

\* The number before a part's end is a number of the text's beginning.
LEMMA UpReads ==
  ASSUME Ready, NEW c, Stands(0, 0, c), c.ok
  PROVE  Up(c).ok /\ Up(c).next = c.p /\ c.p \in Nat
<1> DEFINE o == 0
<1>1. o \in {0, 1} /\ o \in Nat /\ o >= o /\ Stands(o, o, c)
  OBVIOUS
<1>2. c.p \in Nat
  BY DEF Stands, CursorSet
<1> HIDE DEF o
<1>3. Up(c).next = c.p - o
  BY <1>1, UpNext
<1> QED BY <1>2, <1>3, UpOk DEF o

LEMMA RFC5424Agrees ==
  ASSUME Ready
  PROVE  LET f    == Up(RFC5424Date)
             ends == EndsRFC5424(Text(offs))
         IN  /\ ~f.ok => ends = {} \/ ends = {Len(Text(offs))}
             /\ f.ok => f.next - offs \in ends
<1> DEFINE q == offs
           t == Text(q)
           l == Len(t)
           ps == PartsAt(q)
           z == IF Len(ps) > 6 /\ ps[6].sep = "." THEN 7 ELSE 6
           y == z + 1
           H == CharIn(0..23)
           day == Has(ps, 1, <<<<Nat, {"-"}>>, <<1..12, {"-"}>>, <<1..31, {"T"}>>>>)
           date == day /\ Len(ps) > z /\ Clock(ps, 4)
           zulu == ps[z].sep = "Z"
           east == ps[z].sep \in {"+", "-"}
           gz == ps[y].n = 0 /\ ps[y].sep \in {" ", "end"}
           go == Has(ps, y, <<<<H, {":"}>>, <<0..59, {" ", "end"}>>>>)
           ends == EndsRFC5424(t)
           c == Fraction(HourMinuteSecond(
                  Here ** Num(Nat) ** Lit({"-"}) ** Num(1..12) ** Lit({"-"}) ** Num(1..31)
                    ** Lit({"T"})))
           Z == {"Z"}
           S == {"+", "-"}
           cz == c ** Lit(Z)
           cs == c ** Lit(S)
           co == cs ** Num(H) ** Slip({":"}) ** Num(0..59)
           e == Behind(Zone(c))
           f == Up(e)
           G == /\ ~f.ok => ends = {} \/ ends = {l}
                /\ f.ok => f.next - q \in ends
<1>1. /\ q \in offs..Len(str) /\ q \in 0..Len(str) /\ l \in Nat /\ q \in Nat
  BY HereText
<1>2. Len(ps) \in Nat \ {0}
  BY <1>1, PartsAre DEF PartsAt
<1>3. AtSep(c, q, z) /\ (c.ok <=> day /\ 6 <= Len(ps) /\ Clock(ps, 4))
  BY DateReads
<1>4. Up(RFC5424Date) = f
  BY DEF RFC5424Date
<1>5. ends = CASE ~date -> {}
               [] date /\ zulu ->
                    IF gz THEN {IF ps[y].sep = " " THEN ps[y].at ELSE l} ELSE {}
               [] date /\ east -> IF go THEN {ps[y + 1].at - 1} ELSE {}
               [] OTHER -> {}
  <2>1. z + 2 = y + 1
    OBVIOUS
  <2> HIDE DEF ps, date, H
  <2> QED BY <2>1 DEF EndsRFC5424, PartsAt, ps, date, H
<1>6. Zone(c) = CASE IsAt(c, Z) -> cz [] IsAt(c, S) -> co [] OTHER -> Fail(c)
  BY Zenon DEF Zone
<1>7. /\ "?" \notin Z /\ "end" \notin Z /\ "?" \notin S /\ "end" \notin S
      /\ z \in Nat \ {0} /\ z >= 6 /\ y \in Nat \ {0}
      /\ ~(zulu /\ east) /\ (ps[z].sep \in Z <=> zulu) /\ (ps[z].sep \in S <=> east)
  OBVIOUS
<1> HIDE DEF c, z, Z, S, day, zulu, east, gz, go, ends, H, t
<1>8. date <=> c.ok /\ Len(ps) > z
  BY <1>2, <1>3, <1>7
<1>9. (IsAt(c, Z) <=> c.ok /\ zulu) /\ (IsAt(c, S) <=> c.ok /\ east)
  <2> HIDE DEF q, ps
  <2> QED BY <1>1, <1>3, <1>7, IsAtReads DEF ps
<1>10. c.ok /\ (zulu \/ east) => Len(ps) > z
  <2> SUFFICES ASSUME c.ok, zulu \/ east PROVE Len(ps) > z
    OBVIOUS
  <2>1. z \in 1..Len(ps)
    BY <1>3 DEF AtSep
  <2>2. ps[z].sep # "end"
    BY <1>7
  <2>3. ps[z].at <= l + 1 /\ ps[z].at \in Nat /\ (ps[z].sep = "end" <=> ps[z].at = l + 1)
        /\ (ps[z].at <= l => z < Len(ps))
    BY <1>1, <2>1, PartAt DEF t
  <2> HIDE DEF ps
  <2> DEFINE at == ps[z].at
  <2>4. at <= l + 1 /\ at \in Nat /\ at # l + 1 /\ (at <= l => z < Len(ps))
    BY <2>2, <2>3
  <2> HIDE DEF at, l
  <2>5. z < Len(ps)
    BY <1>1, <2>4
  <2> QED BY <1>2, <1>7, <2>5
<1> HIDE DEF date, q, cz, cs, co, ps, l, e, f, y, G
<1>11. ASSUME IsAt(c, Z) PROVE G
  <2>1. c.ok /\ zulu /\ date /\ ~east /\ ~IsAt(c, S)
    BY <1>7, <1>8, <1>9, <1>10, <1>11
  <2>2. ends = IF gz THEN {IF ps[y].sep = " " THEN ps[y].at ELSE l} ELSE {}
    BY <1>5, <2>1
  <2>3. Before(cz, q, y) /\ cz.ok
    BY <1>1, <1>3, <1>7, <2>1, LitReads DEF cz, y, ps
  <2>4. e = Behind(cz)
    BY <1>6, <1>11, <2>1 DEF e
  <2>5. /\ e.ok <=> gz
        /\ Stands(0, 0, e)
        /\ e.ok => e.p = q + (IF ps[y].sep = " " THEN ps[y].at ELSE l)
    <3>1. LET fb == Behind(cz)
          IN  /\ fb.ok <=> PartsAt(q)[y].n = 0 /\ PartsAt(q)[y].sep \in {" ", "end"}
              /\ Stands(0, 0, fb)
              /\ fb.ok => fb.p = q + (IF PartsAt(q)[y].sep = " " THEN PartsAt(q)[y].at ELSE Len(Text(q)))
      BY <1>1, <2>3, BehindReads
    <3> HIDE DEF e
    <3> QED BY <2>4, <3>1, Zenon DEF gz, l, t, y, ps
  <2> DEFINE w == IF ps[y].sep = " " THEN ps[y].at ELSE l
  <2>6. gz => w \in Nat
    <3>1. y \in 1..Len(ps)
      <4> QED BY <1>2, <1>7, <1>8, <2>1 DEF y
    <3>2. ps[y].at \in Nat
      BY <1>1, <3>1, PartAt DEF ps
    <3> QED BY <1>1, <3>2
  <2> HIDE DEF w
  <2>7. ASSUME e.ok PROVE f.ok /\ f.next - q \in ends
    <3>1. Up(e).ok /\ Up(e).next = e.p
      BY <2>5, <2>7, UpReads
    <3>2. e.p = q + w /\ w \in Nat /\ ends = {w}
      BY <2>2, <2>5, <2>6, <2>7 DEF w
    <3> DEFINE u == f.next
    <3>3. u = q + w
      BY <3>1, <3>2 DEF f
    <3> HIDE DEF u
    <3>4. u - q = w
      BY <1>1, <3>2, <3>3
    <3>5. f.ok
      BY <3>1 DEF f
    <3> QED BY <3>2, <3>4, <3>5 DEF u
  <2>8. ASSUME ~e.ok PROVE ~f.ok /\ ends = {}
    BY <2>2, <2>5, <2>8, UpOk DEF f
  <2> QED BY <2>7, <2>8 DEF G
<1>12. ASSUME IsAt(c, S) PROVE G
  <2>1. c.ok /\ east /\ date /\ ~zulu
    BY <1>7, <1>8, <1>9, <1>10, <1>12
  <2>2. ends = IF go THEN {ps[y + 1].at - 1} ELSE {}
    BY <1>5, <2>1
  <2>3. Before(cs, q, y) /\ cs.ok
    BY <1>1, <1>3, <1>7, <2>1, LitReads DEF cs, y, ps
  <2>4. e = Behind(co)
    <3>1. ~IsAt(c, Z)
      BY <1>9, <2>1
    <3> QED BY <1>6, <1>12, <3>1 DEF e
  <2>5. /\ e.ok => go /\ f.next = q + (ps[y + 1].at - 1)
        /\ go /\ ~e.ok => ps[y + 1].at - 1 = l
    <3>1. LET fb == Behind(co)
              gb == Has(PartsAt(q), y, <<<<H, {":"}>>, <<0..59, {" ", "end"}>>>>)
          IN  /\ fb.ok => gb /\ Up(fb).next = q + (PartsAt(q)[y + 1].at - 1)
              /\ gb /\ ~fb.ok => PartsAt(q)[y + 1].at - 1 = Len(Text(q))
      BY <1>1, <1>7, <2>3, SlipReads DEF co
    <3> QED BY <2>4, <3>1, Zenon DEF go, l, t, ps, f
  <2>6. go => ps[y + 1].at \in Nat
    <3> SUFFICES ASSUME go PROVE ps[y + 1].at \in Nat
      OBVIOUS
    <3> DEFINE A == {":"}
               B == 0..59
               C == {" ", "end"}
    <3>a. go <=> Has(ps, y, <<<<H, A>>, <<B, C>>>>)
      BY DEF go
    <3> HIDE DEF A, B, C
    <3>1. y + 1 <= Len(ps)
      BY <1>7, <3>a, HasTwo DEF y
    <3>2. y + 1 \in 1..Len(ps)
      BY <1>2, <1>7, <3>1 DEF y
    <3> DEFINE x == y + 1
    <3>3. x \in 1..Len(PartsAt(q))
      BY <3>2 DEF ps
    <3> HIDE DEF x
    <3>4. PartsAt(q)[x].at \in Nat
      BY <1>1, <3>3, PartAt
    <3> QED BY <3>4 DEF x, ps
  <2> DEFINE w == ps[y + 1].at - 1
  <2>7. go => w \in Int
    BY <2>6
  <2> HIDE DEF w
  <2>8. ASSUME e.ok PROVE f.ok /\ f.next - q \in ends
    <3>1. f.ok
      BY <2>8, UpOk DEF f
    <3> DEFINE u == f.next
    <3>2. u = q + w /\ w \in Int /\ ends = {w}
      BY <2>2, <2>5, <2>7, <2>8 DEF w
    <3> HIDE DEF u
    <3>3. u - q = w
      BY <1>1, <3>2
    <3> QED BY <3>1, <3>2, <3>3 DEF u
  <2>9. ASSUME ~e.ok PROVE ~f.ok /\ (ends = {} \/ ends = {l})
    BY <2>2, <2>5, <2>9, UpOk DEF f
  <2> QED BY <2>8, <2>9 DEF G
<1>13. ASSUME ~IsAt(c, Z), ~IsAt(c, S) PROVE G
  <2>1. Zone(c) = Fail(c)
    BY <1>6, <1>13
  <2> DEFINE cf == Fail(c)
             cb == cf ** Lit({" "})
  <2>2. ~cf.ok
    BY <1>3 DEF Fail, AtSep, Stands, CursorSet
  <2>3. cb = cf
    BY <2>2, ConsumeIs DEF Consume
  <2>4. e = IF cf.len > 0 THEN cb ELSE cf
    BY <2>1 DEF Behind, e
  <2> HIDE DEF cf, cb
  <2>5. ~f.ok
    BY <2>2, <2>3, <2>4, UpOk DEF f
  <2>6. ~date \/ (date /\ ~zulu /\ ~east)
    BY <1>8, <1>9, <1>13
  <2>7. ends = {}
    BY <1>5, <2>6
  <2> QED BY <2>5, <2>7 DEF G
<1>14. G
  BY <1>11, <1>12, <1>13
<1> QED BY <1>4, <1>14, Zenon DEF G, ends, t, l, q, f

----------------------------------------------------------------------------
(* The date of RFC3164.                                                    *)

\* The rest of the text at the offset is the text at a later one.
LEMMA RestOfText ==
  ASSUME Ready, NEW n \in 0..Rest
  PROVE  SubSeq(Text(offs), n + 1, Len(Text(offs))) = Text(offs + n)
<1> DEFINE t == Text(offs)
           a == Len(str)
           s == SubSeq(t, n + 1, Rest)
           u == SubSeq(str, offs + n + 1, a)
           m == Rest - n
<1>1. /\ a \in Nat /\ offs \in Nat /\ Rest \in Nat /\ Rest = a - offs /\ Len(t) = Rest
      /\ n \in Nat /\ n <= Rest /\ m \in Nat
  BY HereText
<1>2. \A i \in 1..Rest : t[i] = str[offs + i]
  BY <1>1, HereText, TextIs
<1> HIDE DEF t, a
<1>3. s = [i \in 1..(Rest - (n + 1) + 1) |-> t[n + 1 + i - 1]]
  <2> DEFINE x == n + 1
  <2>1. x \in Nat
    BY <1>1
  <2> HIDE DEF x
  <2>2. SubSeq(t, x, Rest) = [i \in 1..(Rest - x + 1) |-> t[x + i - 1]]
    BY <1>1, <2>1
  <2> QED BY <2>2 DEF x
<1>4. u = [i \in 1..(a - (offs + n + 1) + 1) |-> str[offs + n + 1 + i - 1]]
  <2> DEFINE x == offs + n + 1
  <2>1. x \in Nat
    BY <1>1
  <2> HIDE DEF x
  <2>2. SubSeq(str, x, a) = [i \in 1..(a - x + 1) |-> str[x + i - 1]]
    BY <1>1, <2>1
  <2> QED BY <2>2 DEF x
<1>5. Rest - (n + 1) + 1 = m /\ a - (offs + n + 1) + 1 = m
  BY <1>1
<1>6. ASSUME NEW i \in 1..m PROVE t[n + 1 + i - 1] = str[offs + n + 1 + i - 1]
  <2> DEFINE j == n + 1 + i - 1
  <2>1. j \in 1..Rest /\ offs + j = offs + n + 1 + i - 1
    BY <1>1
  <2> HIDE DEF j
  <2>2. t[j] = str[offs + j]
    BY <1>2, <2>1
  <2> QED BY <2>1, <2>2 DEF j
<1> HIDE DEF m, s, u
<1>7. s = [i \in 1..m |-> t[n + 1 + i - 1]]
  BY <1>3, <1>5
<1>8. u = [i \in 1..m |-> str[offs + n + 1 + i - 1]]
  BY <1>4, <1>5
<1>9. s = u
  BY <1>6, <1>7, <1>8
<1> QED BY <1>1, <1>9 DEF s, u, t, a, Text

\* The month, the blank behind it and the one before a day of one digit.
LEMMA HeadReads ==
  ASSUME Ready, ~PadAtEnd
  PROVE  LET t    == Text(offs)
             pad  == IF Len(t) > 4 /\ t[5] = " " THEN 5 ELSE 4
             head == Len(t) >= 4 /\ [k \in 1..3 |-> LowerCase(t[k])] \in Months /\ t[4] = " "
             c    == PadBlank(Month(Here) ** Lit({" "}))
         IN  /\ c \in CursorSet /\ (c.ok <=> head)
             /\ head => pad \in 0..Rest /\ Stands(0, 0, c) /\ c.p = offs + pad
<1> DEFINE t == Text(offs)
           S == {" "}
           blank == t[5] = " "
           pad == IF Rest > 4 /\ blank THEN 5 ELSE 4
           named == [k \in 1..3 |-> LowerCase(At(Here.p + k - 1))] \in Months
           named2 == [k \in 1..3 |-> LowerCase(t[k])] \in Months
           space == t[4] = " "
           head == Rest >= 4 /\ named2 /\ space
           m == Month(Here)
           c1 == m ** Lit(S)
           c == PadBlank(c1)
           more == At(c1.p) = " "
           z == 0
<1>1. /\ Rest \in Nat /\ Len(t) = Rest /\ offs \in Nat /\ Len(str) \in Nat /\ Rest = Len(str) - offs
      /\ Width \in Nat /\ offs + Rest = Len(str) /\ Rest < Width
      /\ \A i \in 1..Rest : t[i] = At(offs + (i - 1))
  BY HereText
<1>2. "?" \notin S
  OBVIOUS
<1>3. Stands(0, 3, m) /\ m.p = offs + 3 /\ m \in CursorSet
  BY MonthStands DEF Stands
<1>4. Here.p = offs /\ Here.len = Rest
  BY HereStands DEF Here, Cursor, Rest
<1>5. m.ok <=> Rest >= 3 /\ named
  <2> DEFINE y == Here.len >= 3 /\ named
  <2>1. m = [ok |-> y, p |-> Here.p + 3, len |-> (Here.len - 3) % Width]
    BY DEF Month, Cursor
  <2>2. y <=> Rest >= 3 /\ named
    BY <1>4
  <2> HIDE DEF y, m
  <2>3. m.ok = y
    BY <2>1
  <2> QED BY <2>2, <2>3
<1>6. Rest >= 3 => (named <=> named2)
  <2> SUFFICES ASSUME Rest >= 3 PROVE named <=> named2
    OBVIOUS
  <2>1. ASSUME NEW k \in 1..3 PROVE At(Here.p + k - 1) = t[k]
    <3>1. k \in 1..Rest /\ offs + (k - 1) = Here.p + k - 1
      BY <1>1, <1>4
    <3> HIDE DEF t
    <3>2. t[k] = At(offs + (k - 1))
      BY <1>1, <3>1
    <3> QED BY <3>1, <3>2
  <2> HIDE DEF t
  <2>2. [k \in 1..3 |-> LowerCase(At(Here.p + k - 1))] = [k \in 1..3 |-> LowerCase(t[k])]
    BY <2>1
  <2> QED BY <2>2
<1>7. Rest >= 4 => (space <=> At(offs + 3) = " ")
  <2> SUFFICES ASSUME Rest >= 4 PROVE t[4] = At(offs + 3)
    OBVIOUS
  <2> DEFINE x == 4
  <2>1. x \in 1..Rest /\ offs + (x - 1) = offs + 3
    BY <1>1
  <2> HIDE DEF x, t
  <2>2. t[x] = At(offs + (x - 1))
    BY <1>1, <2>1
  <2> QED BY <2>1, <2>2 DEF x
<1>8. Rest > 4 => (blank <=> At(offs + 4) = " ")
  <2> SUFFICES ASSUME Rest > 4 PROVE t[5] = At(offs + 4)
    OBVIOUS
  <2> DEFINE x == 5
  <2>1. x \in 1..Rest /\ offs + (x - 1) = offs + 4
    BY <1>1
  <2> HIDE DEF x, t
  <2>2. t[x] = At(offs + (x - 1))
    BY <1>1, <2>1
  <2> QED BY <2>1, <2>2 DEF x
<1> HIDE DEF t, blank, named, named2, space, S, m
<1>9. z \in Nat /\ Stands(z, 3, m) /\ 0 <= 3
  BY <1>3
<1> HIDE DEF z
<1>10. Stands(z, 3 + 1, c1)
  BY <1>2, <1>9, LitStands
<1>11. m.ok => m.len = Rest - 3 /\ m.len \in Nat
  <2> SUFFICES ASSUME m.ok PROVE m.len = Rest - 3 /\ m.len \in Nat
    OBVIOUS
  <2>1. m.p + m.len = Len(str) + 0 /\ m.len \in Nat
    BY <1>1, <1>3 DEF Stands, CursorSet
  <2> DEFINE e == m.len
  <2>2. offs + 3 + e = Len(str) + 0 /\ e \in Nat
    BY <1>3, <2>1
  <2> HIDE DEF e
  <2>3. e = Rest - 3
    <3> DEFINE a == Len(str)
    <3>1. a \in Nat /\ offs \in Nat /\ Rest = a - offs /\ offs + 3 + e = a + 0 /\ e \in Nat
      BY <1>1, <2>2
    <3> HIDE DEF a
    <3> QED BY <3>1
  <2> QED BY <2>2, <2>3 DEF e
<1>12. c1.ok <=> head
  <2>1. CASE ~m.ok
    <3>1. c1 = m
      BY <2>1, ConsumeIs DEF Consume
    <3>2. ~head
      BY <1>1, <1>5, <1>6, <2>1
    <3> HIDE DEF c1, head
    <3> QED BY <2>1, <3>1, <3>2
  <2>2. CASE m.ok
    <3>1. (c1.ok <=> m.len > 0 /\ At(m.p) \in S) /\ (c1.ok => c1.p = m.p + 1)
      <4> DEFINE n == 0
      <4>1. n \in Nat /\ n <= 3
        OBVIOUS
      <4> HIDE DEF n
      <4>2. Stands(z, n, m)
        BY <1>9, <4>1, StandsLess
      <4> QED BY <1>2, <1>9, <2>2, <4>2, LitIs DEF n
    <3> HIDE DEF c1
    <3>2. At(m.p) \in S <=> At(offs + 3) = " "
      BY <1>3 DEF S
    <3>3. m.len > 0 <=> Rest >= 4
      BY <1>1, <1>11, <2>2
    <3>4. Rest >= 3 /\ named
      BY <1>5, <2>2
    <3> QED BY <1>6, <1>7, <3>1, <3>2, <3>3, <3>4
  <2>3. m.ok \in BOOLEAN
    BY <1>3 DEF CursorSet
  <2> QED BY <2>1, <2>2, <2>3
<1>13. c1.ok => c1.p = offs + 4 /\ c1.len = Rest - 4 /\ c1.len \in Nat
  <2> SUFFICES ASSUME c1.ok PROVE c1.p = offs + 4 /\ c1.len = Rest - 4 /\ c1.len \in Nat
    OBVIOUS
  <2>1. c1.p = m.p + 1
    BY <1>3, LitMoves
  <2> HIDE DEF c1
  <2>2. c1.p + c1.len = Len(str) + z /\ c1.len \in Nat
    BY <1>1, <1>10 DEF Stands, CursorSet
  <2> DEFINE e == c1.len
  <2>3. c1.p = offs + 4 /\ offs + 4 + e = Len(str) + 0 /\ e \in Nat
    BY <1>1, <1>3, <2>1, <2>2 DEF z
  <2> HIDE DEF e
  <2>4. e = Rest - 4
    <3> DEFINE a == Len(str)
    <3>1. a \in Nat /\ offs \in Nat /\ Rest = a - offs /\ offs + 4 + e = a + 0 /\ e \in Nat
      BY <1>1, <2>3
    <3> HIDE DEF a
    <3> QED BY <3>1
  <2> QED BY <2>3, <2>4 DEF e
<1>14. c1 \in CursorSet /\ Stands(z, 4, c1)
  <2> HIDE DEF c1
  <2> QED BY <1>10 DEF Stands
<1> HIDE DEF c1, head
<1>15. CASE c1.ok /\ more
  <2>1. c = [ok |-> TRUE, p |-> c1.p + 1, len |-> (c1.len - 1) % Width]
    BY <1>15 DEF PadBlank, Cursor
  <2>2. At(offs + 4) = " "
    BY <1>13, <1>15
  <2>3. Rest >= 4
    BY <1>12, <1>15 DEF head
  <2>4. Rest # 4
    <3> SUFFICES ASSUME Rest = 4 PROVE FALSE
      OBVIOUS
    <3>1. offs + 4 = Len(str)
      BY <1>1
    <3>2. /\ Len(after) \in Nat /\ StrOK /\ Buffer = Len(str) + Len(after)
      BY DEF Ready, StrOK, Buffer
    <3>3. At(Len(str)) = IF Len(str) < Buffer THEN after[1] ELSE "?"
      BY <1>1, <3>2 DEF At
    <3>4. At(Len(str)) = " "
      BY <2>2, <3>1
    <3>5. Len(str) < Buffer /\ after[1] = " "
      BY <3>3, <3>4
    <3>6. after # <<>>
      <4> DEFINE b == Len(after)
                 a == Len(str)
      <4>1. a \in Nat /\ b \in Nat /\ a < a + b
        BY <1>1, <3>2, <3>5
      <4> HIDE DEF a, b
      <4>2. b # 0
        BY <4>1
      <4> QED BY <4>2 DEF b
    <3>7. Len(SubSeq(str, offs + 1, Len(str))) = 4
      BY <1>1 DEF t, Text
    <3> QED BY <3>5, <3>6, <3>7 DEF PadAtEnd
  <2>5. Rest > 4
    BY <1>1, <2>3, <2>4
  <2>6. pad = 5 /\ head
    BY <1>8, <1>12, <1>15, <2>2, <2>5
  <2>7. (c1.len - 1) % Width = Rest - 5
    <3> DEFINE y == Rest - 5
               e == c1.len
    <3>0. e = Rest - 4 /\ e \in Nat /\ Rest \in Nat /\ Rest < Width /\ Width \in Nat
      BY <1>1, <1>13, <1>15
    <3>1. e - 1 = y /\ y \in 0..(Width - 1)
      <4> HIDE DEF e
      <4> QED BY <2>5, <3>0
    <3> HIDE DEF y, e
    <3>2. y % Width = y
      BY <3>0, <3>1, SMTT(30)
    <3> QED BY <3>1, <3>2 DEF y, e
  <2> HIDE DEF c
  <2>8. c.ok /\ c.p = offs + 5 /\ c.len = Rest - 5 /\ c = [ok |-> TRUE, p |-> offs + 5, len |-> Rest - 5]
    <3>1. c1.p + 1 = offs + 5
      <4> DEFINE x == c1.p
      <4>1. x = offs + 4
        BY <1>13, <1>15
      <4> HIDE DEF x
      <4>2. x + 1 = offs + 5
        BY <1>1, <4>1
      <4> QED BY <4>2 DEF x
    <3>2. c = [ok |-> TRUE, p |-> offs + 5, len |-> Rest - 5]
      BY <2>1, <2>7, <3>1
    <3> QED BY <3>2
  <2>9. c \in CursorSet
    <3>1. offs + 5 \in Nat /\ Rest - 5 \in 0..(Width - 1)
      BY <1>1, <2>5
    <3> QED BY <2>8, <3>1 DEF CursorSet
  <2>10. Stands(0, 0, c)
    <3> HIDE DEF c
    <3>1. offs + 5 <= Len(str) + Len(after) /\ offs + 5 + (Rest - 5) = Len(str) + 0
          /\ offs + 0 <= offs + 5
      <4>1. Len(after) \in Nat
        BY DEF Ready, StrOK
      <4> QED BY <1>1, <2>5, <4>1
    <3> QED BY <2>8, <2>9, <3>1 DEF Stands, Buffer
  <2>11. pad \in 0..Rest /\ c.p = offs + pad
    BY <1>1, <2>5, <2>6, <2>8
  <2> HIDE DEF c, pad
  <2>12. c \in CursorSet /\ (c.ok <=> head) /\ (head => pad \in 0..Rest /\ Stands(0, 0, c) /\ c.p = offs + pad)
    BY <2>6, <2>8, <2>9, <2>10, <2>11
  <2> QED BY <1>1, <2>12, Zenon DEF c, pad, head, c1, m, t, S, named2, space, blank
<1>16. CASE ~(c1.ok /\ more)
  <2>1. c = c1
    BY <1>16 DEF PadBlank
  <2>2. head => pad = 4
    BY <1>8, <1>12, <1>13, <1>16
  <2>3. head => Rest >= 4
    BY DEF head
  <2> HIDE DEF c, pad
  <2>4. head => pad \in 0..Rest /\ c.p = offs + pad
    BY <1>1, <1>12, <1>13, <2>1, <2>2, <2>3
  <2>5. Stands(0, 0, c)
    <3>1. 0 \in Nat /\ 4 \in Nat /\ 0 <= 4 /\ Stands(0, 4, c)
      BY <1>14, <2>1 DEF z
    <3> QED BY <3>1, StandsLess
  <2>6. c \in CursorSet /\ (c.ok <=> head) /\ (head => pad \in 0..Rest /\ Stands(0, 0, c) /\ c.p = offs + pad)
    BY <1>12, <1>14, <2>1, <2>4, <2>5
  <2> QED BY <1>1, <2>6, Zenon DEF c, pad, head, c1, m, t, S, named2, space, blank
<1> QED BY <1>15, <1>16

\* What failed stays as it is.
LEMMA FailedConsume == ASSUME NEW c, ~c.ok, NEW s PROVE c ** s = c
BY ConsumeIs DEF Consume

\* the part with the hour
HourPart(ps) == IF Has(ps, 2, <<<<1971..2099, {" "}>>>>) THEN 3 ELSE 2

\* A year is read before the time, if there is one with a blank behind it.
LEMMA YearOrHourReads ==
  ASSUME Ready, NEW q \in offs..Len(str), NEW c, Before(c, q, 2)
  PROVE  LET ps == PartsAt(q)
             h  == HourPart(ps)
         IN  /\ AtSep(YearOrHour(c), q, h + 2)
             /\ YearOrHour(c).ok <=> c.ok /\ Len(ps) >= h + 2 /\ Clock(ps, h)
<1> DEFINE ps == PartsAt(q)
           Y == 1971..2099
           S == {" "}
           two == 2
           three == 3
           year == Has(ps, two, <<<<Y, S>>>>)
           h == IF year THEN three ELSE two
           y == c ** Num(Y)
           b == y ** Lit(S)
           e == YearOrHour(c)
           i == ps[two].num \in Y
           j == ps[two].sep \in S
           G == AtSep(e, q, h + 2) /\ (e.ok <=> c.ok /\ Len(ps) >= h + 2 /\ Clock(ps, h))
<1>1. e = IF c.ok /\ y.ok THEN HourMinuteSecond(b) ELSE HourMinuteSecond(c)
  BY Zenon DEF YearOrHour
<1>2. /\ "?" \notin S /\ "end" \notin S /\ two \in Nat \ {0} /\ three \in Nat \ {0} /\ two + 1 = three
      /\ two \in Nat
      /\ \A x \in Y : x \notin 0..23
  OBVIOUS
<1>3. Len(ps) \in Nat
  <2>1. Len(Text(q)) \in Nat
    BY HereText, TextIs
  <2> QED BY <2>1, PartsAre DEF PartsAt
<1>4. Clock(ps, two) => ~i
  <2> DEFINE A == 0..23
             B == {":"}
             C == 0..59
             D == 0..60
             E == {ps[two + 2].sep}
  <2>1. Clock(ps, two) => Has(ps, two, <<<<A, B>>, <<C, B>>, <<D, E>>>>)
    BY DEF Clock
  <2>2. i => ps[two].num \notin A
    <3> HIDE DEF ps, two, Y
    <3> QED BY <1>2
  <2> HIDE DEF A, B, C, D, E, ps, two, i
  <2>3. Clock(ps, two) => ps[two].num \in A
    BY <1>2, <2>1, HasThree
  <2> QED BY <2>2, <2>3
<1> HIDE DEF Y, S, two, three, year
<1>5. Before(c, q, two)
  BY DEF two
<1>6. AtSep(y, q, two) /\ (y.ok <=> c.ok /\ i)
  BY <1>5, NumReads
<1> HIDE DEF y
<1>7. Before(b, q, three) /\ (b.ok <=> y.ok /\ j)
  <2>1. Before(b, q, two + 1) /\ (b.ok <=> y.ok /\ j)
    BY <1>2, <1>6, LitReads
  <2> HIDE DEF b
  <2> QED BY <1>2, <2>1
<1> HIDE DEF b
<1>8. year <=> two <= Len(ps) /\ i /\ j
  <2> HIDE DEF ps
  <2> QED BY <1>2, HasOne DEF year
<1>9. y.ok => two <= Len(ps)
  <2>1. y.ok => two \in 1..Len(ps)
    BY <1>6 DEF AtSep
  <2> HIDE DEF ps
  <2> QED BY <1>3, <2>1
<1>10. AtSep(HourMinuteSecond(b), q, three + 2)
       /\ (HourMinuteSecond(b).ok <=> b.ok /\ three + 2 <= Len(ps) /\ Clock(ps, three))
  BY <1>2, <1>7, ClockReads
<1>11. AtSep(HourMinuteSecond(c), q, two + 2)
       /\ (HourMinuteSecond(c).ok <=> c.ok /\ two + 2 <= Len(ps) /\ Clock(ps, two))
  BY <1>2, <1>5, ClockReads
<1> HIDE DEF ps, e, i, j
<1>l. (three + 2 <= Len(ps) <=> Len(ps) >= three + 2) /\ (two + 2 <= Len(ps) <=> Len(ps) >= two + 2)
  BY <1>2, <1>3
<1>12. ASSUME year, c.ok PROVE G
  <2>1. y.ok /\ b.ok /\ h = three
    BY <1>6, <1>7, <1>8, <1>12
  <2>2. e = HourMinuteSecond(b)
    BY <1>1, <1>12, <2>1
  <2> HIDE DEF h
  <2> QED BY <1>10, <1>12, <1>l, <2>1, <2>2 DEF G
<1>13. ASSUME ~year, c.ok, ~y.ok PROVE G
  <2>1. e = HourMinuteSecond(c) /\ h = two
    BY <1>1, <1>13
  <2> HIDE DEF h
  <2> QED BY <1>11, <1>l, <2>1 DEF G
<1>14. ASSUME ~year, c.ok, y.ok PROVE G
  <2>1. e = HourMinuteSecond(b) /\ h = two /\ i
    BY <1>1, <1>6, <1>14
  <2>2. ~b.ok
    BY <1>7, <1>8, <1>9, <1>14, <2>1
  <2> HIDE DEF h
  <2>3. ~e.ok
    BY <1>10, <2>1, <2>2
  <2>4. AtSep(e, q, h + 2)
    BY <1>10, <2>1, <2>3 DEF AtSep
  <2> QED BY <1>4, <2>1, <2>3, <2>4 DEF G
<1>15. ASSUME ~c.ok PROVE G
  <2>1. e = HourMinuteSecond(c)
    BY <1>1, <1>15
  <2> HIDE DEF h
  <2>2. ~e.ok
    BY <1>11, <1>15, <2>1
  <2>3. AtSep(e, q, h + 2)
    BY <1>11, <2>1, <2>2 DEF AtSep
  <2> QED BY <1>15, <2>2, <2>3 DEF G
<1>16. G
  BY <1>12, <1>13, <1>14, <1>15
<1> QED BY <1>16, Zenon DEF HourPart, G, e, h, year, two, three, ps, Y, S

\* A colon behind the time is taken.
LEMMA ExtraReads ==
  ASSUME Ready, NEW q \in offs..Len(str), NEW c, NEW k \in Nat \ {0}, AtSep(c, q, k)
  PROVE  LET ps == PartsAt(q)
             e  == Extra(c)
         IN  /\ Stands(0, 0, e) /\ (e.ok <=> c.ok)
             /\ e.ok => e.p = q + (ps[k].at - (IF ps[k].sep = ":" THEN 0 ELSE 1))
<1> DEFINE ps == PartsAt(q)
           S == {":"}
           b == c ** Lit(S)
           e == Extra(c)
           colon == ps[k].sep = ":"
           at == ps[k].at
           G == /\ Stands(0, 0, e) /\ (e.ok <=> c.ok)
                /\ e.ok => e.p = q + (at - (IF colon THEN 0 ELSE 1))
<1>1. e = IF IsAt(c, S) THEN b ELSE c
  BY DEF Extra
<1>2. "?" \notin S /\ "end" \notin S /\ (PartsAt(q)[k].sep \in S <=> colon)
  OBVIOUS
<1> HIDE DEF S, colon
<1>3. IsAt(c, S) <=> c.ok /\ colon
  BY <1>2, IsAtReads
<1>4. Before(b, q, k + 1) /\ (b.ok <=> c.ok /\ colon)
  BY <1>2, LitReads
<1>5. (c.ok => c.p = q + (at - 1) /\ k \in 1..Len(ps)) /\ Stands(0, 0, c)
  BY DEF AtSep
<1>6. c.ok => at \in Nat /\ q \in Nat
  BY <1>5, PartAt
<1>7. Stands(0, 0, b)
  BY <1>4 DEF Before
<1>8. b.ok => b.p = c.p + 1
  <2>1. c \in CursorSet
    BY <1>5 DEF Stands
  <2> QED BY <2>1, LitMoves
<1> HIDE DEF b, e
<1>9. ASSUME IsAt(c, S) PROVE G
  <2>1. e = b /\ b.ok /\ c.ok /\ colon
    BY <1>1, <1>3, <1>4, <1>9
  <2> HIDE DEF at
  <2> DEFINE x == c.p
  <2>2. x = q + (at - 1) /\ at \in Nat /\ q \in Nat /\ b.p = x + 1
    BY <1>5, <1>6, <1>8, <2>1 DEF at
  <2> HIDE DEF x
  <2>3. x + 1 = q + (at - 0)
    BY <2>2
  <2>4. e.p = q + (at - 0)
    BY <2>1, <2>2, <2>3
  <2> QED BY <1>7, <2>1, <2>4 DEF G
<1>10. ASSUME ~IsAt(c, S) PROVE G
  <2>1. e = c /\ (c.ok => ~colon)
    BY <1>1, <1>3, <1>10
  <2> HIDE DEF at
  <2> QED BY <1>5, <2>1 DEF G, at
<1>11. G
  BY <1>9, <1>10
<1> QED BY <1>11, Zenon DEF G, e, at, colon, ps

LEMMA RFC3164Agrees ==
  ASSUME Ready
  PROVE  LET f    == Up(RFC3164Date)
             ends == EndsRFC3164(Text(offs))
         IN  IF PadAtEnd THEN ends = {} ELSE AgreesWith(f, ends)
<1> DEFINE t == Text(offs)
           pad == IF Len(t) > 4 /\ t[5] = " " THEN 5 ELSE 4
           u == SubSeq(t, pad + 1, Len(t))
           ps == Parts(u)
           D == 1..31
           S == {" "}
           h == IF Has(ps, 2, <<<<1971..2099, {" "}>>>>) THEN 3 ELSE 2
           head == Len(t) >= 4 /\ [k \in 1..3 |-> LowerCase(t[k])] \in Months /\ t[4] = " "
           first == Has(ps, 1, <<<<D, S>>>>)
           g == head /\ first /\ Len(ps) >= h + 2 /\ Clock(ps, h)
           n == pad + ps[h + 2].at - (IF ps[h + 2].sep = ":" THEN 0 ELSE 1)
           ends == EndsRFC3164(t)
           c == PadBlank(Month(Here) ** Lit({" "}))
           c1 == c ** Num(D)
           c2 == c1 ** Lit(S)
           c3 == YearOrHour(c2)
           e == Extra(c3)
           f == Up(e)
           G == IF PadAtEnd THEN ends = {} ELSE AgreesWith(f, ends)
<1>1. Up(RFC3164Date) = f
  BY DEF RFC3164Date
<1>2. ends = IF g THEN {n} ELSE {}
  <2>1. ends = IF /\ Len(t) >= 4 /\ [k \in 1..3 |-> LowerCase(t[k])] \in Months /\ t[4] = " "
                  /\ first /\ Len(ps) >= h + 2 /\ Clock(ps, h)
               THEN {n} ELSE {}
    BY DEF EndsRFC3164
  <2> DEFINE low == [k \in 1..3 |-> LowerCase(t[k])] \in Months
             four == t[4] = " "
             long == Len(t) >= 4
  <2>2. g <=> (/\ long /\ low /\ four /\ first /\ Len(ps) >= h + 2 /\ Clock(ps, h))
    OBVIOUS
  <2> HIDE DEF g, ends, first, ps, h, n
  <2> QED BY <2>1, <2>2
<1>3. /\ Rest \in Nat /\ Len(t) = Rest /\ offs \in Nat /\ Len(str) \in Nat /\ Rest = Len(str) - offs
      /\ t \in Seq(Byte)
  BY HereText
<1>4. "?" \notin S /\ "end" \notin S
  OBVIOUS
<1>p. pad \in {4, 5} /\ (Rest = 4 => pad = 4)
  <2> DEFINE blank == t[5] = " "
             l == Len(t)
  <2>1. pad = IF l > 4 /\ blank THEN 5 ELSE 4
    OBVIOUS
  <2>2. l = Rest
    BY <1>3
  <2> HIDE DEF blank, l, pad
  <2> QED BY <2>1, <2>2
<1> HIDE DEF pad
<1>5. ASSUME PadAtEnd PROVE G
  <2>1. Rest = 4
    BY <1>3, <1>5 DEF PadAtEnd, t, Text
  <2>2. pad + 1 = 5 /\ Len(t) = 4
    BY <1>3, <1>p, <2>1
  <2>3. Len(u) = 0
    <3>1. u = SubSeq(t, 5, 4)
      BY <2>2
    <3> HIDE DEF t, u
    <3>2. Len(SubSeq(t, 5, 4)) = 0
      BY <1>3
    <3> QED BY <3>1, <3>2
  <2> HIDE DEF u
  <2>4. 1 \in 1..Len(ps) /\ PartIs(u, ps, 1) /\ Len(ps) \in Nat
    <3>1. Len(u) \in Nat
      BY <2>3
    <3>2. Len(ps) \in Nat \ {0} /\ \A k \in 1..Len(ps) : PartIs(u, ps, k)
      BY <3>1, PartsAre
    <3>3. 1 \in 1..Len(ps)
      <4> HIDE DEF ps
      <4> QED BY <3>2
    <3> QED BY <3>2, <3>3
  <2> HIDE DEF ps
  <2>5. ps[1].sep = "end"
    BY <2>3, <2>4 DEF PartIs
  <2>6. ~first
    <3>1. first => ps[1].sep \in S
      <4> DEFINE k == 1
      <4>1. k \in Nat
        OBVIOUS
      <4> HIDE DEF k, D, S
      <4>2. Has(ps, k, <<<<D, S>>>>) => ps[k].sep \in S
        BY <4>1, HasOne
      <4> QED BY <4>2 DEF k
    <3> QED BY <1>4, <2>5, <3>1
  <2>7. ~g
    BY <2>6
  <2> HIDE DEF ends, g
  <2> QED BY <1>2, <1>5, <2>7 DEF G
<1> SUFFICES ASSUME ~PadAtEnd PROVE G
  BY <1>1, <1>5, Zenon DEF G, ends, t, f
<1>6. c \in CursorSet /\ (c.ok <=> head) /\ (head => pad \in 0..Rest /\ Stands(0, 0, c) /\ c.p = offs + pad)
  <2> HIDE DEF c, head
  <2> QED BY HeadReads, Zenon DEF c, head, pad, t
<1> HIDE DEF c, D, S, G, f, ends
<1>7. CASE ~head
  <2>1. ends = {}
    <3>1. ~g
      BY <1>7
    <3> HIDE DEF g
    <3> QED BY <1>2, <3>1
  <2>2. c1 = c /\ ~c.ok
    BY <1>6, <1>7, FailedConsume
  <2>3. c2 = c1
    BY <2>2, FailedConsume
  <2> HIDE DEF c1, c2
  <2>4. c3 = HourMinuteSecond(c2)
    BY <2>2, <2>3 DEF YearOrHour
  <2>5. HourMinuteSecond(c2) = c2
    <3> DEFINE a == ~c2.ok
               x1 == c2 ** Num(0..23)
               x2 == x1 ** Lit({":"})
               x3 == x2 ** Num(0..59)
               x4 == x3 ** Lit({":"})
               x5 == x4 ** Num(0..60)
    <3>1. a
      BY <2>2, <2>3
    <3>2. x1 = c2
      BY <3>1, FailedConsume
    <3> HIDE DEF x1
    <3>3. x2 = x1
      BY <3>1, <3>2, FailedConsume
    <3> HIDE DEF x2
    <3>4. x3 = x2
      BY <3>1, <3>2, <3>3, FailedConsume
    <3> HIDE DEF x3
    <3>5. x4 = x3
      BY <3>1, <3>2, <3>3, <3>4, FailedConsume
    <3> HIDE DEF x4
    <3>6. x5 = x4
      BY <3>1, <3>2, <3>3, <3>4, <3>5, FailedConsume
    <3> HIDE DEF x5
    <3>7. HourMinuteSecond(c2) = x5
      BY DEF HourMinuteSecond, x5, x4, x3, x2, x1
    <3> QED BY <3>2, <3>3, <3>4, <3>5, <3>6, <3>7
  <2> HIDE DEF c3
  <2>6. e = c3
    BY <2>2, <2>3, <2>4, <2>5 DEF Extra, IsAt
  <2> HIDE DEF e
  <2>7. ~f.ok
    BY <2>2, <2>3, <2>4, <2>5, <2>6, UpOk DEF f
  <2> QED BY <2>1, <2>7 DEF G, AgreesWith
<1>8. CASE head
  <2> DEFINE q == offs + pad
  <2>1. pad \in 0..Rest /\ Stands(0, 0, c) /\ c.p = q /\ c.ok
    BY <1>6, <1>8
  <2>2. q \in offs..Len(str) /\ q \in 0..Len(str) /\ pad \in Nat
    <3> DEFINE a == Len(str)
    <3> HIDE DEF a
    <3>1. a \in Nat /\ offs \in Nat /\ Rest = a - offs /\ pad \in 0..Rest
      BY <1>3, <2>1 DEF a
    <3>2. q \in offs..a /\ q \in 0..a /\ pad \in Nat
      BY <3>1
    <3> QED BY <3>2 DEF a
  <2>3. u = Text(q)
    BY <2>1, RestOfText
  <2>4. ps = PartsAt(q)
    BY <2>3 DEF PartsAt
  <2> HIDE DEF q, u, ps, t, head
  <2>5. Len(ps) \in Nat /\ 1 \in 1..Len(ps)
    <3>1. Len(Text(q)) \in Nat
      BY <2>2, TextIs
    <3>2. Len(PartsAt(q)) \in Nat \ {0}
      BY <3>1, PartsAre DEF PartsAt
    <3>3. Len(ps) \in Nat \ {0}
      BY <2>4, <3>2
    <3> QED BY <3>3
  <2> DEFINE one == 1
  <2>6. one \in Nat \ {0} /\ one + 1 = 2 /\ one \in Nat /\ one \in 1..Len(ps) /\ Begin(ps, one) = 0
    BY <2>5 DEF Begin
  <2>7. (first <=> one <= Len(ps) /\ ps[one].num \in D /\ ps[one].sep \in S) /\ one <= Len(ps)
    <3>1. one <= Len(ps)
      BY <2>5, <2>6
    <3>2. first <=> Has(ps, one, <<<<D, S>>>>)
      OBVIOUS
    <3> HIDE DEF one, first
    <3> QED BY <2>6, <3>1, <3>2, HasOne
  <2> HIDE DEF one, first
  <2>8. Before(c, q, one)
    <3>1. c.p = q + Begin(PartsAt(q), one) /\ one \in 1..Len(PartsAt(q))
      BY <2>1, <2>2, <2>4, <2>6
    <3> QED BY <2>1, <3>1 DEF Before
  <2>9. AtSep(c1, q, one) /\ (c1.ok <=> c.ok /\ ps[one].num \in D)
    BY <2>2, <2>4, <2>8, NumReads
  <2> HIDE DEF c1
  <2>10. Before(c2, q, 2) /\ (c2.ok <=> c1.ok /\ ps[one].sep \in S)
    <3>1. Before(c2, q, one + 1) /\ (c2.ok <=> c1.ok /\ PartsAt(q)[one].sep \in S)
      BY <1>4, <2>2, <2>6, <2>9, LitReads
    <3> HIDE DEF c2
    <3> QED BY <2>4, <2>6, <3>1
  <2> HIDE DEF c2
  <2>11. AtSep(c3, q, h + 2) /\ (c3.ok <=> c2.ok /\ Len(ps) >= h + 2 /\ Clock(ps, h))
    <3> DEFINE h2 == HourPart(PartsAt(q))
    <3>1. AtSep(YearOrHour(c2), q, h2 + 2)
             /\ (YearOrHour(c2).ok <=> c2.ok /\ Len(PartsAt(q)) >= h2 + 2 /\ Clock(PartsAt(q), h2))
      BY <2>2, <2>10, YearOrHourReads
    <3>2. h = h2
      BY <2>4 DEF HourPart
    <3> HIDE DEF h, h2
    <3> QED BY <2>4, <3>1, <3>2
  <2>12. h + 2 \in Nat \ {0}
    OBVIOUS
  <2> HIDE DEF c3, h
  <2> DEFINE k == h + 2
             at == ps[k].at
             d == IF ps[k].sep = ":" THEN 0 ELSE 1
  <2>13. Stands(0, 0, e) /\ (e.ok <=> c3.ok) /\ (e.ok => e.p = q + (at - d))
    <3>1. k \in Nat \ {0} /\ AtSep(c3, q, k)
      BY <2>11, <2>12
    <3> HIDE DEF k
    <3>2. Stands(0, 0, Extra(c3)) /\ (Extra(c3).ok <=> c3.ok)
          /\ (Extra(c3).ok => Extra(c3).p = q + (PartsAt(q)[k].at - (IF PartsAt(q)[k].sep = ":" THEN 0 ELSE 1)))
      BY <2>2, <3>1, ExtraReads
    <3> QED BY <2>4, <3>2, Zenon
  <2>14. e.ok => at \in Nat
    <3> SUFFICES ASSUME e.ok PROVE at \in Nat
      OBVIOUS
    <3>1. k \in 1..Len(PartsAt(q))
      BY <2>11, <2>13 DEF AtSep
    <3> HIDE DEF k
    <3>2. PartsAt(q)[k].at \in Nat
      BY <2>2, <3>1, PartAt
    <3> QED BY <2>4, <3>2
  <2>15. c3.ok <=> g
    BY <1>8, <2>1, <2>7, <2>9, <2>10, <2>11
  <2>16. n = pad + at - d
    OBVIOUS
  <2>17. d \in {0, 1}
    OBVIOUS
  <2> HIDE DEF e, g, n, at, d, k
  <2>18. CASE g
    <3>1. e.ok
      BY <2>13, <2>15, <2>18
    <3>2. Up(e).ok /\ Up(e).next = e.p
      BY <2>13, <3>1, UpReads
    <3> DEFINE x == f.next
    <3>3. f.ok /\ x = q + (at - d) /\ at \in Nat
      BY <2>13, <2>14, <3>1, <3>2 DEF f
    <3> HIDE DEF x
    <3>4. x - offs = n
      BY <1>3, <2>2, <2>16, <2>17, <3>3 DEF q
    <3>5. ends = {n}
      BY <1>2, <2>18
    <3> QED BY <3>3, <3>4, <3>5 DEF G, AgreesWith, x
  <2>19. CASE ~g
    <3>1. ~f.ok
      BY <2>13, <2>15, <2>19, UpOk DEF f
    <3>2. ends = {}
      BY <1>2, <2>19
    <3> QED BY <3>1, <3>2 DEF G, AgreesWith
  <2> QED BY <2>18, <2>19
<1> QED BY <1>7, <1>8

----------------------------------------------------------------------------
(* All of the parsers.                                                     *)

\* What a parser found, and the grammar, with the two cases that are named.
Agrees(p, f, ends) ==
  LET beyond == p = "RFC3164Date" /\ PadAtEnd
  IN  /\ ~f.ok => ends = {} \/ (p = "RFC5424Date" /\ ends = {Len(Text(offs))})
      /\ f.ok => ends # {} \/ beyond
      /\ f.ok /\ ~beyond => f.next - offs \in ends

LEMMA FoundAgrees ==
  ASSUME Ready, NEW p \in Names, NEW t
  PROVE  Agrees(p, Found(p, t), Ends(p, t, Text(offs), offs))
<1> DEFINE s == Text(offs)
           f == Found(p, t)
           ends == Ends(p, t, s, offs)
<1> HIDE DEF s, f, ends
<1>0. ASSUME AgreesWith(f, ends) PROVE Agrees(p, f, ends)
  BY <1>0 DEF AgreesWith, Agrees
<1>1. CASE p = "Number"
  <2>1. f = Number
    BY <1>1 DEF Found, f
  <2>2. ends = {n \in {Parts(s)[1].n} : n > 0 \/ offs > 0}
    BY <1>1 DEF Ends, ends
  <2>3. AgreesWith(Number, {n \in {Parts(s)[1].n} : n > 0 \/ offs > 0})
    BY NumberAgrees, Zenon DEF s
  <2> QED BY <1>0, <2>1, <2>2, <2>3, Zenon DEF s, f, ends
<1>2. CASE p = "Word"
  <2>1. f = Word
    BY <1>2 DEF Found, f
  <2>2. ends = {n \in 1..Len(s) : Free(s, n, {" "}) /\ (n = Len(s) \/ s[n + 1] = " ")}
    BY <1>2 DEF Ends, ends
  <2>3. AgreesWith(Word, {n \in 1..Len(s) : Free(s, n, {" "}) /\ (n = Len(s) \/ s[n + 1] = " ")})
    BY WordAgrees, Zenon DEF s
  <2> QED BY <1>0, <2>1, <2>2, <2>3, Zenon DEF s, f, ends
<1>3. CASE p = "CharTo"
  <2>1. f = CharTo(t)
    BY <1>3 DEF Found, f
  <2>2. ends = {n \in 1..(Len(s) - 1) : Free(s, n, {t}) /\ s[n + 1] = t}
    BY <1>3 DEF Ends, ends
  <2>3. AgreesWith(CharTo(t), {n \in 1..(Len(s) - 1) : Free(s, n, {t}) /\ s[n + 1] = t})
    BY CharToAgrees, Zenon DEF s
  <2> QED BY <1>0, <2>1, <2>2, <2>3, Zenon DEF s, f, ends
<1>4. CASE p = "QuotedString"
  <2>1. f = QuotedString
    BY <1>4 DEF Found, f
  <2>2. ends = {n \in 2..Len(s) : s[1] = "\"" /\ s[n] = "\"" /\ Free(Tail(s), n - 2, {"\""})}
    BY <1>4 DEF Ends, ends
  <2>3. AgreesWith(QuotedString, {n \in 2..Len(s) : s[1] = "\"" /\ s[n] = "\"" /\ Free(Tail(s), n - 2, {"\""})})
    BY QuotedStringAgrees, Zenon DEF s
  <2> QED BY <1>0, <2>1, <2>2, <2>3, Zenon DEF s, f, ends
<1>5. CASE p = "ISODate"
  <2>1. f = ISODate
    BY <1>5 DEF Found, f
  <2>2. ends = EndsISODate(s)
    BY <1>5 DEF Ends, ends
  <2>3. AgreesWith(ISODate, EndsISODate(s))
    BY ISODateAgrees, Zenon DEF s
  <2> QED BY <1>0, <2>1, <2>2, <2>3, Zenon DEF s, f, ends
<1>6. CASE p = "Time24hr"
  <2>1. f = Time24hr
    BY <1>6 DEF Found, f
  <2>2. ends = EndsTime(s, 0..23)
    BY <1>6 DEF Ends, ends
  <2> DEFINE H == ({"0", "1"} \X Digit) \cup ({"2"} \X {"0", "1", "2", "3"})
             S == 0..23
  <2>4. H \in SUBSET (Digit \X Digit) /\ \A d, e \in Digit : <<d, e>> \in H <=> Tens(d, e) \in S
    BY PairsOfDigits, PairsBelow24, Zenon DEF H, S
  <2>5. f = Time(H)
    BY <2>1, Zenon DEF Time24hr, H
  <2> HIDE DEF H, S
  <2>6. AgreesWith(Time(H), EndsTime(s, S))
    BY <2>4, TimeAgrees DEF s
  <2>3. AgreesWith(f, ends)
    BY <2>2, <2>5, <2>6, Zenon DEF S
  <2> QED BY <1>0, <2>1, <2>2, <2>3, Zenon DEF s, f, ends
<1>7. CASE p = "Time12hr"
  <2>1. f = Time12hr
    BY <1>7 DEF Found, f
  <2>2. ends = EndsTime(s, 0..12)
    BY <1>7 DEF Ends, ends
  <2> DEFINE H == ({"0"} \X Digit) \cup ({"1"} \X {"0", "1", "2"})
             S == 0..12
  <2>4. H \in SUBSET (Digit \X Digit) /\ \A d, e \in Digit : <<d, e>> \in H <=> Tens(d, e) \in S
    BY PairsOfDigits, PairsTo12, Zenon DEF H, S
  <2>5. f = Time(H)
    BY <2>1, Zenon DEF Time12hr, H
  <2> HIDE DEF H, S
  <2>6. AgreesWith(Time(H), EndsTime(s, S))
    BY <2>4, TimeAgrees DEF s
  <2>3. AgreesWith(f, ends)
    BY <2>2, <2>5, <2>6, Zenon DEF S
  <2> QED BY <1>0, <2>1, <2>2, <2>3, Zenon DEF s, f, ends
<1>8. CASE p = "IPv4"
  <2>1. f = IPv4
    BY <1>8 DEF Found, f
  <2>2. ends = EndsIPv4(s)
    BY <1>8 DEF Ends, ends
  <2>3. AgreesWith(IPv4, EndsIPv4(s))
    BY IPv4Agrees, Zenon DEF s
  <2> QED BY <1>0, <2>1, <2>2, <2>3, Zenon DEF s, f, ends
<1>9. CASE p = "RFC5424Date"
  <2>1. f = Up(RFC5424Date) /\ ends = EndsRFC5424(s)
    BY <1>9 DEF Found, Ends, f, ends
  <2>2. /\ ~f.ok => ends = {} \/ ends = {Len(s)}
        /\ f.ok => f.next - offs \in ends
    BY <2>1, RFC5424Agrees, Zenon DEF s
  <2>3. Agrees(p, f, ends)
    BY <1>9, <2>2 DEF Agrees, s
  <2> QED BY <2>3, Zenon DEF s, f, ends
<1>10. CASE p = "RFC3164Date"
  <2>1. f = Up(RFC3164Date) /\ ends = EndsRFC3164(s)
    BY <1>10 DEF Found, Ends, f, ends
  <2>2. IF PadAtEnd THEN ends = {} ELSE AgreesWith(f, ends)
    BY <2>1, RFC3164Agrees, Zenon DEF s
  <2>3. Agrees(p, f, ends)
    BY <1>10, <2>2 DEF Agrees, AgreesWith
  <2> QED BY <2>3, Zenon DEF s, f, ends
<1> QED BY <1>1, <1>2, <1>3, <1>4, <1>5, <1>6, <1>7, <1>8, <1>9, <1>10 DEF Names, Dates

\* What a call returns agrees with the grammar.
LEMMA ParseAgrees ==
  ASSUME IInv, NEW p \in Names, NEW t, Parse(p, t)
  PROVE  FollowsGrammar'
<1> DEFINE f == Found(p, t)
           s == Text(offs)
           ends == Ends(p, t, s, offs)
           beyond == p = "RFC3164Date" /\ PadAtEnd
<1>1. /\ Ready /\ start' = offs /\ by' = p /\ term' = t /\ MonthAtEnd' = beyond /\ str' = str
      /\ pc' = "back" /\ r' = "wrong" => ~f.ok
      /\ pc' = "back" /\ r' # "wrong" => f.ok
      /\ r' = "ok" => f.ok /\ offs' = f.next
  <2>1. Call(p, t) /\ r # "ok"
    BY CallReady, ParsersAssumption DEF Parse, Refuse, Accept, NoValue, NoString
  <2>2. /\ Ready /\ start' = offs /\ by' = p /\ term' = t /\ MonthAtEnd' = beyond /\ str' = str
    BY <2>1, CallReady DEF Call, input
  <2> HIDE DEF f, beyond
  <2>3. CASE Refuse(p, t)
    BY <2>2, <2>3 DEF Refuse, f
  <2>4. CASE Accept(p, t)
    BY <2>2, <2>4 DEF Accept, f
  <2>5. CASE NoValue(p, t)
    BY <2>1, <2>2, <2>5 DEF NoValue, f
  <2>6. CASE NoString(p, t)
    BY <2>2, <2>6 DEF NoString, f
  <2> QED BY <2>3, <2>4, <2>5, <2>6 DEF Parse
<1>2. Given' = s
  BY <1>1, Zenon DEF Given, Text
<1>3. Ends(by, term, Given, start)' = ends
  BY <1>1, <1>2, Zenon
<1>4. OffsetAtEnd' = (p = "RFC5424Date" /\ ends = {Len(s)})
  BY <1>1, <1>2, <1>3, Zenon DEF OffsetAtEnd
<1>5. Agrees(p, f, ends)
  BY <1>1, FoundAgrees
<1> HIDE DEF f, s, ends, beyond
<1>6. /\ ~f.ok => ends = {} \/ (p = "RFC5424Date" /\ ends = {Len(s)})
      /\ f.ok => ends # {} \/ beyond
      /\ f.ok /\ ~beyond => f.next - offs \in ends
  BY <1>5, Zenon DEF Agrees, s, beyond
<1>7. pc' = "back" =>
        /\ r' = "wrong" => ends = {} \/ OffsetAtEnd'
        /\ r' # "wrong" => ends # {} \/ MonthAtEnd'
        /\ r' = "ok" /\ ~MonthAtEnd' => offs' - start' \in ends
  BY <1>1, <1>4, <1>6
<1> QED BY <1>3, <1>7, Zenon DEF FollowsGrammar

(* A parser accepts exactly the texts that its grammar describes and stops *)
(* where the grammar says, for every string, whatever is behind it in      *)
(* memory and however a call ends, apart from the two cases that are named *)
(* (primitivetype.c:125-857).                                              *)
THEOREM Grammar == Spec => []FollowsGrammar
<1>1. Init => FollowsGrammar
  BY DEF Init, FollowsGrammar
<1>2. IInv /\ FollowsGrammar /\ [Next]_vars => FollowsGrammar'
  <2> SUFFICES ASSUME IInv, FollowsGrammar, [Next]_vars PROVE FollowsGrammar'
    OBVIOUS
  <2>1. CASE \E p \in Names \ {"CharTo"} : Parse(p, None)
    BY <2>1, ParseAgrees
  <2>2. CASE \E t \in Terms : Parse("CharTo", t)
    BY <2>2, ParseAgrees DEF Names
  <2>3. CASE Take \/ Skip
    BY <2>3 DEF Take, Skip, FollowsGrammar
  <2>4. CASE UNCHANGED vars
    BY <2>4 DEF vars, FollowsGrammar, MonthAtEnd, OffsetAtEnd, Given
  <2> QED BY <2>1, <2>2, <2>3, <2>4 DEF Next
<1> QED BY <1>1, <1>2, Invariant, PTL DEF Spec
=============================================================================
