------------------------------ MODULE Parsers ------------------------------
(***************************************************************************)
(* The primitive type parsers (primitivetype.c) and a client that parses a *)
(* string with a sequence of them, each where the last one stopped.        *)
(*                                                                         *)
(* A value is the piece of the buffer that was copied into it; NoStr is a  *)
(* value that was made but got no string.                                  *)
(***************************************************************************)
EXTENDS Cursors

CONSTANTS Inputs,   \* strings to parse, each with the memory behind it
          Terms,    \* terminators that are passed to CharTo
          None, NoStr

\* A byte is a string of one character; "end" stands for the end of a text.
Byte == STRING \ {"end"}

ASSUME ParsersAssumption ==
  /\ Width \in Nat
  /\ \A in \in Inputs : /\ in.str \in Seq(Byte) /\ in.after \in Seq(Byte)
                       /\ Len(in.str) + Len(in.after) < Width
  /\ {None, NoStr} \cap [from : Nat, len : Nat] = {} /\ None \notin {NoStr, "ok"}

VARIABLES
  pc,          \* "client", "back" from a call, or "crashed"
  by, term,    \* the last parser called, its terminator
  start,       \* auxiliary: the offset it was called with
  r, value     \* what it returned, *value

input == <<str, after>>
vars == <<pc, str, after, offs, by, term, start, r, value>>

----------------------------------------------------------------------------
(* The two dates.                                                          *)

HourMinuteSecond(c) == c ** Num(0..23) ** Lit({":"}) ** Num(0..59) ** Lit({":"}) ** Num(0..60)

Fraction(c) == IF IsAt(c, {"."}) THEN c ** Lit({"."}) ** Num(Nat) ELSE c

\* OffsetHour is a char: what hParseInt returns is cut to 8 bits
CharIn(S) == {v \in Nat : ((v + 128) % 256) - 128 \in S}

Zone(c) == CASE IsAt(c, {"Z"}) -> c ** Lit({"Z"})
             [] IsAt(c, {"+", "-"}) ->
                  c ** Lit({"+", "-"}) ** Num(CharIn(0..23)) ** Slip({":"}) ** Num(0..59)
             [] OTHER -> Fail(c)

\* a time may be followed by a space only, which is skipped
Behind(c) == IF c.len > 0 THEN c ** Lit({" "}) ELSE c

RFC5424Date ==
  Behind(Zone(Fraction(HourMinuteSecond(
    Here ** Num(Nat) ** Lit({"-"}) ** Num(1..12) ** Lit({"-"}) ** Num(1..31) ** Lit({"T"})))))

Months == {<<"j", "a", "n">>, <<"f", "e", "b">>, <<"m", "a", "r">>, <<"a", "p", "r">>,
           <<"m", "a", "y">>, <<"j", "u", "n">>, <<"j", "u", "l">>, <<"a", "u", "g">>,
           <<"s", "e", "p">>, <<"o", "c", "t">>, <<"n", "o", "v">>, <<"d", "e", "c">>}
Upper == <<"A", "B", "C", "D", "E", "F", "G", "J", "L", "M", "N", "O", "P", "R", "S", "T", "U", "V", "Y">>
Lower == <<"a", "b", "c", "d", "e", "f", "g", "j", "l", "m", "n", "o", "p", "r", "s", "t", "u", "v", "y">>
LowerCase(ch) == IF ch \in Range(Upper) THEN Lower[CHOOSE k \in DOMAIN Upper : Upper[k] = ch] ELSE ch

Month(c) == Cursor(c.len >= 3 /\ [k \in 1..3 |-> LowerCase(At(c.p + k - 1))] \in Months,
                   c.p + 3, c.len - 3)

\* The blank before a day of one digit is skipped whatever the length is.
PadBlank(c) == IF c.ok /\ At(c.p) = " " THEN Cursor(TRUE, c.p + 1, c.len - 1) ELSE c

\* Cisco devices put a year before the time
YearOrHour(c) ==
  LET y == c ** Num(1971..2099)
  IN  IF c.ok /\ y.ok THEN HourMinuteSecond(y ** Lit({" "})) ELSE HourMinuteSecond(c)

Extra(c) == IF IsAt(c, {":"}) THEN c ** Lit({":"}) ELSE c

RFC3164Date ==
  Extra(YearOrHour(PadBlank(Month(Here) ** Lit({" "})) ** Num(1..31) ** Lit({" "})))

----------------------------------------------------------------------------
(* What a parser finds: the bytes to copy and where the next parse begins. *)

Piece(ok, from, len, next) == [ok |-> ok, from |-> from, len |-> len, next |-> next % Width]

Up(c) == LET used == (Here.len - c.len) % Width
         IN  Piece(c.ok, offs, used, offs + used)

Rest == Len(str) - offs

\* the test is against the begin of the buffer, not of the parse
Number == LET c == Here ** Num(Nat)
          IN  [Up(c) EXCEPT !.ok = c.p # 0]

\* Mutant of Word: without the test of the length (primitivetype.c:545)
WordEmpty == LET n == RunTo(offs, Rest, " ")
             IN  Piece(TRUE, offs, n, offs + n)

Word == LET n == RunTo(offs, Rest, " ")
        IN  Piece(n > 0, offs, n, offs + n)

CharTo(t) == LET n == RunTo(offs, Rest, t)
             IN  Piece(n > 0 /\ n < Rest, offs, n, offs + n)

QuotedString == LET n == RunTo(offs + 1, Rest - 1, "\"")
                IN  Piece(At(offs) = "\"" /\ n + 1 < Rest, offs + 1, n, offs + n + 2)

\* two characters, from the offset i behind offs
Two(i) == <<At(offs + i), At(offs + i + 1)>>

\* Mutant of Fixed: a text that lacks the last byte passes the length test
FixedShort(n, matches) == Piece(n <= Rest + 1 /\ matches, offs, n, offs + n)

Fixed(n, matches) == Piece(n <= Rest /\ matches, offs, n, offs + n)

ISODate ==
  Fixed(10, /\ \A i \in 0..3 : At(offs + i) \in Digit
            /\ At(offs + 4) = "-" /\ At(offs + 7) = "-"
            /\ Two(5) \in ({"0"} \X (Digit \ {"0"})) \cup ({"1"} \X {"0", "1", "2"})
            /\ Two(8) \in ({"0"} \X (Digit \ {"0"})) \cup ({"1", "2"} \X Digit)
                          \cup ({"3"} \X {"0", "1"}))

Time(hours) ==
  Fixed(8, /\ Two(0) \in hours
           /\ At(offs + 2) = ":" /\ At(offs + 5) = ":"
           /\ \A i \in {3, 6} : Two(i) \in {"0", "1", "2", "3", "4", "5"} \X Digit)

Time24hr == Time(({"0", "1"} \X Digit) \cup ({"2"} \X {"0", "1", "2", "3"}))
Time12hr == Time(({"0"} \X Digit) \cup ({"1"} \X {"0", "1", "2"}))

\* how many digits a byte of an address takes, three at most
ByteDigits(c) == LET run == RunOf(c.p, c.len, Digit) IN IF run > 3 THEN 3 ELSE run

\* Mutant of chkIPv4AddrByte: > 256 instead of > 255
ChkByte256(c) ==
  LET n == ByteDigits(c)
  IN  Cursor(c.ok /\ n > 0 /\ DecimalAt(c.p, n) <= 256, c.p + n, c.len - n)

\* one to three digits, not more than 255
chkIPv4AddrByte(c) ==
  LET n == ByteDigits(c)
  IN  Cursor(c.ok /\ n > 0 /\ DecimalAt(c.p, n) <= 255, c.p + n, c.len - n)

IPv4 == LET dot(c) == chkIPv4AddrByte(c) ** Lit({"."})
        IN  IF Rest + 1 < 7 THEN Up(Fail(Here))
            ELSE Up(chkIPv4AddrByte(dot(dot(dot(Here)))))

Dates == {"RFC5424Date", "RFC3164Date"}
Names == Dates \cup {"Number", "Word", "CharTo", "QuotedString", "ISODate",
                     "Time24hr", "Time12hr", "IPv4"}

Found(p, t) == CASE p = "RFC5424Date" -> Up(RFC5424Date)
                 [] p = "RFC3164Date" -> Up(RFC3164Date)
                 [] p = "Number" -> Number
                 [] p = "Word" -> Word
                 [] p = "CharTo" -> CharTo(t)
                 [] p = "QuotedString" -> QuotedString
                 [] p = "ISODate" -> ISODate
                 [] p = "Time24hr" -> Time24hr
                 [] p = "Time12hr" -> Time12hr
                 [] p = "IPv4" -> IPv4

----------------------------------------------------------------------------
(* Calls.  The client calls while there is something left to parse, which  *)
(* the date parsers assert.                                                *)

Init == /\ \E in \in Inputs : str = in.str /\ after = in.after
        /\ pc = "client" /\ offs = 0 /\ start = 0
        /\ by = None /\ term = None /\ r = None /\ value = None

Call(p, t) == /\ pc = "client" /\ offs < Len(str)
              /\ by' = p /\ term' = t /\ start' = offs
              /\ UNCHANGED input

Refuse(p, t) == /\ Call(p, t) /\ ~Found(p, t).ok
                /\ pc' = "back" /\ r' = "wrong" /\ UNCHANGED <<offs, value>>

Accept(p, t) == /\ Call(p, t) /\ Found(p, t).ok
                /\ pc' = "back" /\ r' = "ok" /\ offs' = Found(p, t).next
                /\ value' = [from |-> Found(p, t).from, len |-> Found(p, t).len]

\* Mutant of NoValue: nobody looks whether there is a value.
NoValueUnseen(p, t) == /\ Call(p, t) /\ Found(p, t).ok
                       /\ pc' = "back" /\ r' = "ok" /\ offs' = Found(p, t).next
                       /\ UNCHANGED value

\* ee_newValue has no memory; the date parsers use the NULL
NoValue(p, t) == /\ Call(p, t) /\ Found(p, t).ok
                 /\ IF p \in Dates THEN pc' = "crashed" /\ UNCHANGED r
                                   ELSE pc' = "back" /\ r' = "nomem"
                 /\ UNCHANGED <<offs, value>>

\* the copy has no memory; *value is set all the same, and the parsers that
\* do not look at the copy report a success
NoString(p, t) == /\ Call(p, t) /\ Found(p, t).ok
                  /\ pc' = "back" /\ value' = NoStr
                  /\ IF p \in Dates \cup {"Number"}
                     THEN r' = "ok" /\ offs' = Found(p, t).next
                     ELSE r' = "nomem" /\ UNCHANGED offs

\* the client takes the value and goes on
Take == /\ pc = "back" /\ pc' = "client"
        /\ by' = None /\ term' = None /\ r' = None /\ value' = None /\ start' = 0
        /\ UNCHANGED <<input, offs>>

\* the client steps over a separator of its own
Skip == /\ pc = "client" /\ offs < Len(str) /\ At(offs) = " "
        /\ offs' = offs + 1 /\ UNCHANGED <<pc, input, by, term, start, r, value>>

Parse(p, t) == Refuse(p, t) \/ Accept(p, t) \/ NoValue(p, t) \/ NoString(p, t)

Next == \/ \E p \in Names \ {"CharTo"} : Parse(p, None)
        \/ \E t \in Terms : Parse("CharTo", t)
        \/ Take \/ Skip

Spec == Init /\ [][Next]_vars

----------------------------------------------------------------------------
(* A grammar for each parser, stated without scanning: a text is cut at    *)
(* its characters that are not digits.  Part k is the number before the    *)
(* k-th of them, with its number of digits, that character and its place.  *)

IsDigitOf(t, i) == i <= Len(t) /\ t[i] \in Digit

\* in order, the places where t has no digit, the last one behind its end
Cuts(t) ==
  LET cut[i \in 0..(Len(t) + 1)] ==
        IF i = 0 THEN <<>>
        ELSE IF IsDigitOf(t, i) THEN cut[i - 1] ELSE Append(cut[i - 1], i)
  IN  cut[Len(t) + 1]

Parts(t) ==
  LET cut == Cuts(t)
      from(k) == IF k = 1 THEN 1 ELSE cut[k - 1] + 1
  IN  [k \in 1..Len(cut) |->
         [num |-> Decimal(SubSeq(t, from(k), cut[k] - 1)),
          n   |-> cut[k] - from(k),
          sep |-> IF cut[k] <= Len(t) THEN t[cut[k]] ELSE "end",
          at  |-> cut[k]]]

\* from the k-th part on the numbers are in, and end with, what is listed
Has(parts, k, list) ==
  \A i \in DOMAIN list : /\ k + i - 1 <= Len(parts)
                         /\ parts[k + i - 1].num \in list[i][1]
                         /\ parts[k + i - 1].sep \in list[i][2]
Clock(parts, k) == Has(parts, k, <<<<0..23, {":"}>>, <<0..59, {":"}>>, <<0..60, {parts[k + 2].sep}>>>>)
Sizes(parts, sizes) == [k \in DOMAIN parts |-> parts[k].n] = sizes

\* the blank behind "Z" is part of the date, that behind an offset is not
EndsRFC5424(t) ==
  LET parts == Parts(t)
      z     == IF Len(parts) > 6 /\ parts[6].sep = "." THEN 7 ELSE 6
      date  == /\ Has(parts, 1, <<<<Nat, {"-"}>>, <<1..12, {"-"}>>, <<1..31, {"T"}>>>>)
               /\ Len(parts) > z /\ Clock(parts, 4)
  IN  CASE ~date -> {}
        [] date /\ parts[z].sep = "Z" ->
             IF parts[z + 1].n = 0 /\ parts[z + 1].sep \in {" ", "end"}
             THEN {IF parts[z + 1].sep = " " THEN parts[z + 1].at ELSE Len(t)} ELSE {}
        [] date /\ parts[z].sep \in {"+", "-"} ->
             IF /\ Has(parts, z + 1, <<<<CharIn(0..23), {":"}>>, <<0..59, {" ", "end"}>>>>)
             THEN {parts[z + 2].at - 1} ELSE {}
        [] OTHER -> {}

EndsRFC3164(t) ==
  LET pad   == IF Len(t) > 4 /\ t[5] = " " THEN 5 ELSE 4
      parts == Parts(SubSeq(t, pad + 1, Len(t)))
      h     == IF Has(parts, 2, <<<<1971..2099, {" "}>>>>) THEN 3 ELSE 2
  IN  IF /\ Len(t) >= 4 /\ [k \in 1..3 |-> LowerCase(t[k])] \in Months /\ t[4] = " "
         /\ Has(parts, 1, <<<<1..31, {" "}>>>>) /\ Len(parts) >= h + 2 /\ Clock(parts, h)
      THEN {pad + parts[h + 2].at - (IF parts[h + 2].sep = ":" THEN 0 ELSE 1)} ELSE {}

EndsTime(t, hours) ==
  LET parts == Parts(SubSeq(t, 1, 8))
  IN  IF /\ Len(t) >= 8 /\ Sizes(parts, <<2, 2, 2>>)
         /\ Has(parts, 1, <<<<hours, {":"}>>, <<0..59, {":"}>>, <<0..59, {"end"}>>>>)
      THEN {8} ELSE {}

EndsISODate(t) ==
  LET parts == Parts(SubSeq(t, 1, 10))
  IN  IF /\ Len(t) >= 10 /\ Sizes(parts, <<4, 2, 2>>)
         /\ Has(parts, 1, <<<<Nat, {"-"}>>, <<1..12, {"-"}>>, <<1..31, {"end"}>>>>)
      THEN {10} ELSE {}

\* the last byte takes three digits at most, the others must end with a dot
EndsIPv4(t) ==
  LET parts == Parts(t)
      first == parts[3].at
      last  == CHOOSE n \in 1..3 : n = parts[4].n \/ (n = 3 /\ parts[4].n > 3)
      byte  == Parts(SubSeq(t, first + 1, first + last))[1]
  IN  IF /\ Len(parts) > 3 /\ \A k \in 1..3 : parts[k].n \in 1..3
         /\ Has(parts, 1, <<<<0..255, {"."}>>, <<0..255, {"."}>>, <<0..255, {"."}>>>>)
         /\ parts[4].n > 0 /\ byte.num <= 255
      THEN {first + last} ELSE {}

Free(t, n, S) == \A k \in 1..n : t[k] \notin S

\* how much of t, which begins at offset from, the parser may take; it has to
\* refuse where that is nothing
Ends(p, c, t, from) ==
  CASE p = "RFC5424Date" -> EndsRFC5424(t)
    [] p = "RFC3164Date" -> EndsRFC3164(t)
    [] p = "ISODate"     -> EndsISODate(t)
    [] p = "Time24hr"    -> EndsTime(t, 0..23)
    [] p = "Time12hr"    -> EndsTime(t, 0..12)
    [] p = "IPv4"        -> EndsIPv4(t)
    [] p = "Number"      -> {n \in {Parts(t)[1].n} : n > 0 \/ from > 0}
    [] p = "Word"        -> {n \in 1..Len(t) : Free(t, n, {" "}) /\ (n = Len(t) \/ t[n + 1] = " ")}
    [] p = "CharTo"      -> {n \in 1..(Len(t) - 1) : Free(t, n, {c}) /\ t[n + 1] = c}
    [] p = "QuotedString" -> {n \in 2..Len(t) : t[1] = "\"" /\ t[n] = "\""
                                                /\ Free(Tail(t), n - 2, {"\""})}

----------------------------------------------------------------------------
(* Properties.                                                             *)

Given == SubSeq(str, start + 1, Len(str))

\* A month and a blank end the string: the blank that may follow is looked
\* for behind the string, and the length goes below zero if it is there.
MonthAtEnd == by = "RFC3164Date" /\ Len(Given) = 4 /\ after # <<>> /\ after[1] = " "

\* An offset ends the string: the length that is one too large makes the
\* parser look at the byte behind it.
OffsetAtEnd == by = "RFC5424Date" /\ Ends(by, term, Given, start) = {Len(Given)}

(* Every variable has its type, and what a call returned fits together.    *)
TypeOK ==
  /\ pc \in {"client", "back", "crashed"}
  /\ offs \in 0..(Width - 1) /\ start \in 0..Len(str)
  /\ by \in Names \cup {None} /\ term \in Terms \cup {None}
  /\ r \in {None, "ok", "wrong", "nomem"}
  /\ value \in [from : 0..(Width - 1), len : 0..(Width - 1)] \cup {None, NoStr}
  /\ r = "ok" => value # None

(* A parser accepts exactly the texts of its type, at any offset and       *)
(* whatever comes behind the string: the scan over pointer and length      *)
(* agrees with a grammar that knows neither (primitivetype.c:125-857).     *)
(* The two cases where the memory behind the string decides are named.     *)
FollowsGrammar ==
  pc = "back" =>
    LET ends == Ends(by, term, Given, start)
    IN  /\ r = "wrong" => ends = {} \/ OffsetAtEnd
        /\ r # "wrong" => ends # {} \/ MonthAtEnd
        /\ r = "ok" /\ ~MonthAtEnd => offs - start \in ends

(* A value is made of what was parsed: the bytes between the old offset    *)
(* and the new one, without the quotes of a quoted string, and all of them *)
(* inside the string, so that a client never passes the end without seeing *)
(* it: "offs equals strlen(str) on exit" (primitivetype.h:74-76).          *)
InString ==
  /\ pc = "back" /\ ~MonthAtEnd =>
       /\ offs <= Len(str)
       /\ r = "ok" /\ value # NoStr =>
            /\ value.from >= start /\ value.from + value.len <= offs
            /\ by # "QuotedString" => value.from = start /\ offs = start + value.len

(* A call that does not succeed leaves the offset where it was, so that    *)
(* the next parser tries the same text; one that succeeds gets on, or a    *)
(* client that repeats it would never end.  Only Number accepts nothing at *)
(* all (primitivetype.c:505).                                              *)
GetsOn ==
  [][pc = "client" /\ pc' # "client" =>
       IF r' = "ok" THEN offs' > offs \/ by' = "Number" ELSE offs' = offs]_vars
=============================================================================
