----------------------------- MODULE ApacheDec -----------------------------
(***************************************************************************)
(* The decoder for Apache log files (apache_dec.c).                        *)
(*                                                                         *)
(* A decoder object holds the list of field names.  ee_apacheNameList      *)
(* fills it from a string of names, ee_apacheDec reads lines and makes one *)
(* event of each: the k-th piece of the line becomes the value of the k-th *)
(* name.  A piece is a word, or a text in quotes or brackets.  Lines are   *)
(* sequences of character classes, and offsets count characters consumed.  *)
(*                                                                         *)
(* When nothing but blanks is left where a piece should be, processField   *)
(* returns a code it never set; here that is either branch of its test.    *)
(***************************************************************************)
EXTENDS Integers, Sequences, SequencesExt

CONSTANTS MaxNames,   \* bound: characters of all name strings together
          MaxLen,     \* bound: characters of a line
          MaxLines,   \* bound: lines of a file
          NoStr       \* the content of a value that never got a string

Blank    == " "
Char     == {Blank, "\"", "[", "]", "-", "x"}
Comma    == ","                      \* stands for both separators
NameChar == {Comma, "n"}
Line     == BoundedSeq(Char, MaxLen)
NameStr  == BoundedSeq(NameChar, MaxNames)

ASSUME ApacheAssumption == /\ {MaxNames, MaxLen, MaxLines} \subseteq Nat
                           /\ NoStr \notin Seq(Char)

VARIABLES
  exists, names,            \* the decoder object and its list of names
  pc, r,                    \* the call in progress; what it returned
  str, pos, had,            \* ee_apacheNameList: str, i; auxiliary: old names
  ln, lnNbr, errMsg,        \* ee_apacheDec; the line the message names, or 0
  event, offs, node,        \* processLn: the fields so far, i, the next name
  sent                      \* auxiliary: how many events cbNewEvt received

config == <<exists, names>>
namer  == <<str, pos, had>>
reader == <<ln, lnNbr, errMsg>>
builder == <<event, offs, node>>
vars == <<config, pc, r, namer, reader, builder, sent>>

Init == /\ exists = FALSE /\ names = <<>>
        /\ pc = "client" /\ r = "ok"
        /\ str = <<>> /\ pos = 0 /\ had = 0
        /\ ln = <<>> /\ lnNbr = 0 /\ errMsg = 0
        /\ event = <<>> /\ offs = 0 /\ node = 1 /\ sent = 0

NewApache == /\ pc = "client" /\ ~exists
             /\ exists' = TRUE /\ names' = <<>>
             /\ UNCHANGED <<pc, r, namer, reader, builder, sent>>

DeleteApache == /\ pc = "client" /\ exists
                /\ exists' = FALSE /\ names' = <<>>
                /\ UNCHANGED <<pc, r, namer, reader, builder, sent>>

\* The first place from o on where a character of C, or nothing, follows.
UpTo(s, o, C) == CHOOSE p \in o..Len(s) :
                   /\ p = Len(s) \/ s[p + 1] \in C
                   /\ \A q \in o..(p - 1) : s[q + 1] \notin C
Past(s, p) == IF p < Len(s) THEN p + 1 ELSE p    \* eat what stands there

----------------------------------------------------------------------------
(* ee_apacheNameList: one name per step.                                   *)

Quit(code) == pc' = "client" /\ r' = code       \* its locals are gone
              /\ str' = <<>> /\ pos' = 0 /\ had' = 0

NameList(s) == /\ pc = "client" /\ exists
               /\ Len(names) + Len(s) <= MaxNames
               /\ str' = s /\ pos' = 0 /\ had' = Len(names)
               /\ pc' = "names"
               /\ lnNbr' = 0 /\ errMsg' = 0 /\ sent' = 0
               /\ UNCHANGED <<config, r, ln, builder>>

\* Mutant of NextName: an empty name is accepted.
NextNameEmpty ==
  /\ pc = "names" /\ pos < Len(str)
  /\ LET e == UpTo(str, pos, {Comma})
     IN  names' = Append(names, SubSeq(str, pos + 1, e)) /\ pos' = Past(str, e)
  /\ UNCHANGED <<exists, pc, r, str, had, reader, builder, sent>>

NextName ==
  /\ pc = "names" /\ pos < Len(str)
  /\ LET e == UpTo(str, pos, {Comma})
     IN  \/ Quit("nomem") /\ UNCHANGED names
         \/ e = pos /\ Quit("empty") /\ UNCHANGED names
         \/ /\ e > pos /\ names' = Append(names, SubSeq(str, pos + 1, e))
            /\ pos' = Past(str, e)
            /\ UNCHANGED <<pc, r, str, had>>
  /\ UNCHANGED <<exists, reader, builder, sent>>

NamesDone == /\ pc = "names" /\ pos = Len(str)
             /\ Quit("ok")
             /\ UNCHANGED <<config, reader, builder, sent>>

----------------------------------------------------------------------------
(* ee_apacheDec.                                                           *)

Decode == /\ pc = "client" /\ exists
          /\ pc' = "open" /\ lnNbr' = 1 /\ errMsg' = 0 /\ sent' = 0
          /\ UNCHANGED <<config, r, namer, ln, builder>>

\* Mutant of GetLine: the first line is counted like the others.
GetLineCountsEarly ==
  /\ pc \in {"open", "read"}
  /\ lnNbr' = lnNbr + 1
  /\ \/ lnNbr' <= MaxLines /\ ln' \in Line /\ pc' = "line" /\ UNCHANGED r
     \/ r' \in {"ok", "ioerr"} /\ ln' = <<>> /\ pc' = "client"
  /\ UNCHANGED <<config, namer, errMsg, builder, sent>>

\* cbGetLine: a line, the end of the file (a return of 0), or an error
GetLine ==
  /\ pc \in {"open", "read"}
  /\ lnNbr' = IF pc = "open" THEN lnNbr ELSE lnNbr + 1
  /\ \/ lnNbr' <= MaxLines /\ ln' \in Line /\ pc' = "line" /\ UNCHANGED r
     \/ r' \in {"ok", "ioerr"} /\ ln' = <<>> /\ pc' = "client"
  /\ UNCHANGED <<config, namer, errMsg, builder, sent>>

NoEvent == event' = <<>> /\ offs' = 0 /\ node' = 1

\* processLn failed: the message names the line
Fail(code) == /\ pc' = "client" /\ r' = code /\ errMsg' = lnNbr
              /\ ln' = <<>> /\ NoEvent

NewEvent == /\ pc = "line"
            /\ \/ Fail("nomem")
               \/ pc' = "fields" /\ NoEvent /\ UNCHANGED <<r, errMsg, ln>>
            /\ UNCHANGED <<config, namer, lnNbr, sent>>

\* the character that ends a piece that begins with c
Quote(c)  == c \in {"\"", "["}
Closer(c) == IF c = "\"" THEN "\"" ELSE IF c = "[" THEN "]" ELSE Blank

Blanks(s, o) == UpTo(s, o, Char \ {Blank})
Start(s, o) == IF Quote(s[Blanks(s, o) + 1]) THEN Blanks(s, o) + 1
                                             ELSE Blanks(s, o)
Stop(s, o) == UpTo(s, Start(s, o), {Closer(s[Blanks(s, o) + 1])})

\* just a dash means the field is empty
Text(s) == IF s = <<"-">> THEN <<>> ELSE s

\* Mutant of Piece: the closing character is eaten when there is none, too.
PieceOverruns(s, o) == [val |-> Text(SubSeq(s, Start(s, o) + 1, Stop(s, o))),
                        offs |-> Stop(s, o) + 1]

\* Mutant of Piece: the closing character is left for the next piece.
PieceKeepsCloser(s, o) == [val |-> Text(SubSeq(s, Start(s, o) + 1, Stop(s, o))),
                           offs |-> Stop(s, o)]

\* what processField finds at offset o, and where it leaves the offset
Piece(s, o) == [val |-> Text(SubSeq(s, Start(s, o) + 1, Stop(s, o))),
                offs |-> Past(s, Stop(s, o))]

AddField(val) == /\ event' = Append(event, [name |-> names[node], val |-> val])
                 /\ node' = node + 1
                 /\ UNCHANGED <<pc, r, errMsg, ln>>

More == node <= Len(names) /\ offs < Len(ln)

ProcessField ==
  /\ pc = "fields" /\ More
  /\ \/ Fail("nomem")
     \/ /\ Blanks(ln, offs) < Len(ln)
        /\ LET p == Piece(ln, offs) IN AddField(p.val) /\ offs' = p.offs
     \/ /\ Blanks(ln, offs) = Len(ln)
        /\ \/ Fail("junk")
           \/ AddField(NoStr) /\ UNCHANGED offs
  /\ UNCHANGED <<config, namer, lnNbr, sent>>

\* cbNewEvt
Deliver == /\ pc = "fields" /\ ~More
           /\ sent' = sent + 1
           /\ \/ pc' = "read" /\ ln' = <<>> /\ NoEvent /\ UNCHANGED <<r, errMsg>>
              \/ Fail("cbfail")
           /\ UNCHANGED <<config, namer, lnNbr>>

Next == \/ NewApache \/ DeleteApache
        \/ \E s \in NameStr : NameList(s)
        \/ NextName \/ NamesDone
        \/ Decode \/ GetLine \/ NewEvent \/ ProcessField \/ Deliver

Spec == Init /\ [][Next]_vars

----------------------------------------------------------------------------
(* Properties.                                                             *)

Name == Seq(NameChar \ {Comma})

(* Every variable has its type, and no offset passes the end of its string. *)
TypeOK ==
  /\ exists \in BOOLEAN /\ names \in Seq(Name)
  /\ pc \in {"client", "names", "open", "read", "line", "fields"}
  /\ r \in {"ok", "nomem", "empty", "ioerr", "junk", "cbfail"}
  /\ str \in Seq(NameChar) /\ pos \in 0..Len(str) /\ had \in 0..Len(names)
  /\ ln \in Seq(Char) /\ lnNbr \in Nat /\ errMsg \in Nat
  /\ event \in Seq([name : Name, val : Seq(Char) \cup {NoStr}])
  /\ offs \in 0..Len(ln) /\ node \in 1..(Len(names) + 1) /\ sent \in Nat

(* The names read so far, written with a separator after each, are what    *)
(* was read of the name string, but for a separator missing at its end; no *)
(* name is empty (apache_dec.c:103-118).                                   *)
Joined == FlattenSeq([k \in 1..(Len(names) - had) |->
                        Append(names[had + k], Comma)])
NamesRejoin ==
  pc = "names" => /\ SubSeq(str, 1, pos) \in {Joined,
                                              SubSeq(Joined, 1, Len(Joined) - 1)}
                  /\ \A k \in 1..Len(names) : names[k] # <<>>

(* A second reading of a line, one character at a time: between pieces, or *)
(* in a piece that ends with a certain character.                          *)
Between(done) == [within |-> FALSE, closer |-> Blank, cur |-> <<>>, done |-> done]
Within(c, cur, done) == [within |-> TRUE, closer |-> c, cur |-> cur, done |-> done]
Read1(t, c) ==
  IF ~t.within
  THEN IF c = Blank THEN t
       ELSE Within(Closer(c), IF Quote(c) THEN <<>> ELSE <<c>>, t.done)
  ELSE IF c = t.closer THEN Between(Append(t.done, Text(t.cur)))
                       ELSE Within(t.closer, Append(t.cur, c), t.done)
Reading(s) ==
  LET after[o \in 0..Len(s)] ==
        IF o = 0 THEN Between(<<>>) ELSE Read1(after[o - 1], s[o])
  IN  after
Pieces(t) == IF t.within THEN Append(t.done, Text(t.cur)) ELSE t.done
Tokens(s) == Pieces(Reading(s)[Len(s)])

(* The event of a line pairs the names with the pieces of the line, in     *)
(* order and without a gap, and has all of them when it is handed over; a  *)
(* value without a string only stands where the line has no piece left     *)
(* (apache_dec.c:140-220).                                                 *)
EventIsLine ==
  pc = "fields" =>
    LET t == Tokens(ln)
    IN  /\ Len(event) = node - 1
        /\ \A k \in 1..Len(event) :
             event[k] = [name |-> names[k],
                         val  |-> IF k <= Len(t) THEN t[k] ELSE NoStr]
        /\ ~More => Len(event) = Len(names) \/ Len(event) >= Len(t)

(* Every line before the one in hand was handed over, once; a return of 0  *)
(* means that all were, a failing source is reported as such, and the      *)
(* message names the line that was refused (apache_dec.c:234-254).         *)
OneEventPerLine ==
  lnNbr > 0 =>
    /\ pc # "client" => errMsg = 0 /\ sent = IF pc = "read" THEN lnNbr
                                                            ELSE lnNbr - 1
    /\ pc = "client" =>
         /\ sent = IF r = "cbfail" THEN lnNbr ELSE lnNbr - 1
         /\ errMsg = IF r \in {"ok", "ioerr"} THEN 0 ELSE lnNbr

(* "assert(value->valtype == ee_valtype_str)" (syslog_enc.c:50, and in the *)
(* other encoders): the values of an event handed over have strings.       *)
ValuesHaveStrings ==
  [][Deliver => \A k \in 1..Len(event) : event[k].val # NoStr]_vars
=============================================================================
