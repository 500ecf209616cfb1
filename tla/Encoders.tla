----------------------------- MODULE Encoders -----------------------------
(***************************************************************************)
(* The four encoders (syslog_enc.c, json_enc.c, xml_enc.c, csv_enc.c).     *)
(*                                                                         *)
(* An encoder appends to a string piece by piece, and each append can fail *)
(* for want of memory.  What it does then depends on where the append is:  *)
(* some results are ignored and the piece is just missing, some end the    *)
(* function that writes a field, which nobody notices, and some end the    *)
(* whole call.  So the program of a call is the sequence of its appends,   *)
(* each with the function it is in and whether its result is looked at.    *)
(*                                                                         *)
(* Texts are sequences of tokens: a character, or a word whose characters  *)
(* need not be told apart.  Values are short texts over Char.  Tokens      *)
(* spell a few characters out: quote, comma, lbrace and rbrace, and _ for  *)
(* a blank; the semicolon that ends an entity of XML is left out.          *)
(***************************************************************************)
EXTENDS Integers, Sequences, SequencesExt

CONSTANTS Events,     \* events to encode: tags and fields, or None
          NameLists,  \* name lists for CSV; "" is a name of no characters
          None,       \* no bucket
          MaxFails    \* bound: appends of a call that fail

Char == {"x", "n", "0", "u", "comma", "\\", "quote", "]", "<", "&", "\n", "NUL", "ctl"}

ASSUME EncodersAssumption ==
  /\ MaxFails \in Nat
  /\ NameLists \subseteq Seq(STRING)
  /\ \A e \in Events :
       /\ e.tags = None \/ e.tags \in Seq(STRING)
       /\ e.fields = None
          \/ e.fields \in Seq([name : STRING \ {""}, vals : Seq(Seq(Char))])

VARIABLES
  pc, enc, flags,     \* the call in progress, its encoder, ctx->flags
  event, names,       \* the event; for CSV the name list the encoder made
  todo, out, r,       \* appends still to do; *str; the return code
  fails               \* auxiliary: how many appends have failed

call == <<enc, flags, event, names>>
encVars == <<pc, call, todo, out, r, fails>>

----------------------------------------------------------------------------
(* Appends: in = 0 is the function for the event, in = k that for field k. *)

Add(k, checked, txt) == <<[in |-> k, chk |-> checked, txt |-> txt]>>
Try(k, txt)  == Add(k, TRUE, txt)
Hope(k, txt) == Add(k, FALSE, txt)
\* the text of an append that reads what is not there
Nothing == <<>>
Each(s, Op(_)) == FlattenSeq([i \in 1..Len(s) |-> Op(i)])
\* Op of every element, with sep between two of them
Join(s, sep, Op(_)) == Each(s, LAMBDA i : (IF i > 1 THEN sep ELSE <<>>) \o Op(s[i]))

EscSyslog(c) ==
  CASE c = "NUL" -> <<"\\", "0">> [] c = "\n" -> <<"\\", "n">>
    [] c \in {"comma", "\\", "]", "quote"} -> <<"\\", c>> [] OTHER -> <<c>>

\* Mutant of EscJSON: the backslash is not escaped.
EscJSONNoBackslash(c) ==
  CASE c = "NUL" -> <<"\\", "u", "0000">> [] c = "\n" -> <<"\\", "n">>
    [] c = "quote" -> <<"\\", c>> [] OTHER -> <<c>>

\* JSON and CSV; CharJSON has the other control characters
EscJSON(c) ==
  CASE c = "NUL" -> <<"\\", "u", "0000">> [] c = "\n" -> <<"\\", "n">>
    [] c \in {"quote", "\\"} -> <<"\\", c>> [] OTHER -> <<c>>

EscXML(c) ==
  CASE c = "NUL" -> <<"&", "#00">> [] c = "<" -> <<"&", "lt">>
    [] c = "&" -> <<"&", "amp">> [] OTHER -> <<c>>

\* the syslog encoder appends the two characters of an escape one by one
ValueSyslog(k, v) ==
  Each(v, LAMBDA i : Each(EscSyslog(v[i]), LAMBDA j : Hope(k, <<EscSyslog(v[i])[j]>>)))
\* ... and the other two the digits of an escape on their own, but for NUL
CharJSON(k, c) == IF c = "ctl" THEN Hope(k, <<"\\", "u">>) \o Hope(k, <<"0001">>)
                  ELSE Hope(k, EscJSON(c))
ValueCSV(k, v)  == Each(v, LAMBDA i : CharJSON(k, v[i]))
ValueJSON(k, v) == Hope(k, <<"quote">>) \o ValueCSV(k, v) \o Hope(k, <<"quote">>)
ValueXML(k, v)  == Hope(k, <<"<", "value>">>)
                   \o Each(v, LAMBDA i : Hope(k, EscXML(v[i])))
                   \o Hope(k, <<"<", "/value>">>)

FieldSyslog(k, f) == Try(k, <<f.name>>) \o Try(k, <<"=quote">>)
                     \o Join(f.vals, Try(k, <<"comma">>), LAMBDA v : ValueSyslog(k, v))
                     \o Try(k, <<"quote">>)

FieldJSON(k, f, ultra) ==
  Try(k, <<"quote">>) \o Try(k, <<f.name>>) \o Try(k, <<IF ultra THEN "quote:" ELSE "quote:_">>)
  \o CASE Len(f.vals) = 0 -> Try(k, IF ultra THEN <<"quote">> ELSE <<"quote", "quote">>)
       [] Len(f.vals) = 1 -> ValueJSON(k, f.vals[1])
       [] OTHER -> Try(k, <<"[">>)
                   \o Join(f.vals, Try(k, <<"comma">>), LAMBDA v : ValueJSON(k, v))
                   \o Try(k, <<"]">>)

FieldXML(k, f) == Try(k, <<"<", "Field_name=quote">>) \o Try(k, <<f.name>>)
                  \o Try(k, <<"quote>">>)
                  \o Join(f.vals, <<>>, LAMBDA v : ValueXML(k, v))
                  \o Try(k, <<"<", "/Field>">>)

\* With no value, field->val is read although it was never set.
FieldCSV(k, f) ==
  CASE Len(f.vals) = 0 -> Try(k, <<"[">>) \o Try(k, Nothing)
    [] Len(f.vals) = 1 -> ValueCSV(k, f.vals[1])
    [] OTHER -> Try(k, <<"[">>)
                \o Join(f.vals, Try(k, <<"comma">>), LAMBDA v : ValueCSV(k, v))
                \o Try(k, <<"]">>)

TagsSyslog(tags) ==
  Try(0, <<"_", "event.tags", "=quote">>)
  \o Join(tags, Hope(0, <<"comma">>), LAMBDA t : Try(0, <<t>>)) \o Hope(0, <<"quote">>)

TagsJSON(tags) ==
  Try(0, <<"quote", "event.tags", "quote:", "[">>)
  \o Join(tags, Hope(0, <<"comma">>),
          LAMBDA t : Hope(0, <<"quote">>) \o Try(0, <<t>>) \o Hope(0, <<"quote">>))
  \o Hope(0, <<"]">>)

TagsXML(tags) ==
  Try(0, <<"<", "event.tags>">>)
  \o Join(tags, <<>>,
          LAMBDA t : Try(0, <<"<", "tag>">>) \o Try(0, <<t>>) \o Try(0, <<"<", "/tag>">>))
  \o Try(0, <<"<", "/event.tags>">>)

----------------------------------------------------------------------------
(* The programs of the calls.                                              *)

Opt(tags, Op(_)) == IF tags = None THEN <<>> ELSE Op(tags)
Fields(e) == IF e.fields = None THEN <<>> ELSE e.fields

fmtEventToRFC5424(e) ==
  Hope(0, <<"[cee@115">>) \o Opt(e.tags, TagsSyslog)
  \o Each(Fields(e), LAMBDA k : Hope(0, <<"_">>) \o FieldSyslog(k, Fields(e)[k]))
  \o Hope(0, <<"]">>)

fmtEventToJSON(e, fl) ==
  LET tags == IF "flat" \in fl THEN Opt(e.tags, TagsJSON) ELSE <<>>
      comma(k) == IF k > 1 \/ tags # <<>> THEN Try(0, <<"comma_">>) ELSE <<>>
  IN  Hope(0, <<"lbrace">>) \o tags
      \o Each(Fields(e), LAMBDA k : comma(k) \o FieldJSON(k, Fields(e)[k], "ultra" \in fl))
      \o Hope(0, <<"rbrace">>)

fmtEventToXML(e) ==
  Hope(0, <<"<", "event>">>) \o Opt(e.tags, TagsXML)
  \o Each(Fields(e), LAMBDA k : FieldXML(k, Fields(e)[k]))
  \o Hope(0, <<"<", "/event>">>)

\* the first field with the name; without a field bucket the lookup crashes
Column(k, e, name) ==
  LET found == {i \in DOMAIN Fields(e) : Fields(e)[i].name = name}
  IN  IF e.fields = None THEN Try(0, Nothing)
      ELSE IF found = {} THEN <<>>
      ELSE FieldCSV(k, Fields(e)[CHOOSE i \in found : \A j \in found : i <= j])

fmtEventToCSV(e, ns) ==
  Each(ns, LAMBDA k :
         Try(0, <<"quote">>) \o Column(k, e, ns[k]) \o Try(0, <<"quote">>)
         \o (IF k < Len(ns) THEN Try(0, <<"comma">>) ELSE <<>>))

----------------------------------------------------------------------------
(* The call: one append per step.                                          *)

EncInit == /\ pc = "client" /\ enc = "none" /\ flags = {}
           /\ event = None /\ names = <<>> /\ todo = <<>> /\ out = <<>>
           /\ r = "none" /\ fails = 0

\* Mutant of Begin: r has no value at first.
BeginUnset(fmt, e, ns, program) ==
  /\ enc' = fmt /\ event' = e /\ names' = ns
  /\ out' = <<>> /\ fails' = 0 /\ UNCHANGED r
  /\ \/ pc' = "done" /\ todo' = <<>>
     \/ pc' = "append" /\ todo' = program

\* r is -1 until something sets it; without memory for *str it stays so.
Begin(fmt, e, ns, program) ==
  /\ enc' = fmt /\ event' = e /\ names' = ns
  /\ out' = <<>> /\ fails' = 0 /\ r' = "minus1"
  /\ \/ pc' = "done" /\ todo' = <<>>
     \/ pc' = "append" /\ todo' = program

EncodeSyslog(e) == flags' = {} /\ Begin("syslog", e, <<>>, fmtEventToRFC5424(e))
EncodeXML(e)    == flags' = {} /\ Begin("xml", e, <<>>, fmtEventToXML(e))
EncodeJSON(e, fl) == flags' = fl /\ Begin("json", e, <<>>, fmtEventToJSON(e, fl))

\* genNameList refuses an empty name.  When it cannot store a name it ends
\* without that name and the rest.
NamesMade(list) ==
  (IF "" \in Range(list) THEN {} ELSE {list})
  \cup {SubSeq(list, 1, n) : n \in {m \in 0..(Len(list) - 1) :
                                     "" \notin Range(SubSeq(list, 1, m + 1))}}

EncodeCSV(e, list) ==
  /\ flags' = {}
  /\ \/ \E ns \in NamesMade(list) : Begin("csv", e, ns, fmtEventToCSV(e, ns))
     \/ Begin("csv", e, <<>>, <<>>) /\ pc' = "done"

Piece == Head(todo)
Broken == Piece.txt = Nothing
Goes  == pc = "append" /\ todo # <<>> /\ ~Broken

\* CHKR in the function for the event sets r when the append succeeds, too.
Append1 ==
  /\ Goes
  /\ out' = out \o Piece.txt /\ todo' = Tail(todo)
  /\ r' = IF Piece.chk /\ Piece.in = 0 THEN "ok" ELSE r
  /\ UNCHANGED <<pc, call, fails>>

\* Mutant of AppendFails: a field that fails ends the whole call.
AppendFailsAll ==
  /\ Goes /\ fails < MaxFails /\ fails' = fails + 1
  /\ IF Piece.chk THEN todo' = <<>> ELSE todo' = Tail(todo)
  /\ IF Piece.chk /\ Piece.in = 0 THEN pc' = "done" /\ r' = "nomem"
                                  ELSE UNCHANGED <<pc, r>>
  /\ UNCHANGED <<call, out>>

\* where the appends of a function end that is at work
EndOf(k) == Min({i \in 1..(Len(todo) + 1) : i <= Len(todo) => todo[i].in # k})

AppendFails ==
  /\ Goes /\ fails < MaxFails /\ fails' = fails + 1
  /\ todo' = IF ~Piece.chk THEN Tail(todo)
             ELSE IF Piece.in = 0 THEN <<>>
             ELSE SubSeq(todo, EndOf(Piece.in), Len(todo))
  /\ IF Piece.chk /\ Piece.in = 0 THEN pc' = "done" /\ r' = "nomem"
                                  ELSE UNCHANGED <<pc, r>>
  /\ UNCHANGED <<call, out>>

Crash == /\ pc = "append" /\ todo # <<>> /\ Broken
         /\ pc' = "crashed" /\ todo' = <<>>
         /\ UNCHANGED <<call, out, r, fails>>

Finish == /\ pc = "append" /\ todo = <<>>
          /\ pc' = "done" /\ r' = IF enc = "csv" THEN "ok" ELSE r
          /\ UNCHANGED <<call, todo, out, fails>>

\* the client has the string and the code, which are gone with the call
Taken == /\ pc = "done" /\ pc' = "client" /\ enc' = "none" /\ flags' = {}
         /\ event' = None /\ names' = <<>> /\ todo' = <<>> /\ out' = <<>>
         /\ r' = "none" /\ fails' = 0

Encode(e) == \/ EncodeSyslog(e) \/ EncodeXML(e)
             \/ \E fl \in SUBSET {"ultra", "flat"} : EncodeJSON(e, fl)
             \/ \E list \in NameLists : EncodeCSV(e, list)

EncNext == \/ pc = "client" /\ \E e \in Events : Encode(e)
           \/ Append1 \/ AppendFails \/ Crash \/ Finish \/ Taken

----------------------------------------------------------------------------
(* A reader for each format: what a consumer of the output understands.    *)

State(m, l, n, v, w, d) ==
  [mode |-> m, list |-> l, name |-> n, val |-> v, vals |-> w, done |-> d]
Start        == State("gap", FALSE, "", <<>>, <<>>, <<>>)
Mode(t, m)   == [t EXCEPT !.mode = m]
Name(t, c)   == [t EXCEPT !.name = c]
Open(t, m)   == State(m, FALSE, t.name, <<>>, <<>>, t.done)
List(t)      == State("list", TRUE, t.name, t.val, t.vals, t.done)
Keep(t, c)   == State("text", t.list, t.name, Append(t.val, c), t.vals, t.done)
EndVal(t, m) == State(m, t.list, t.name, <<>>, Append(t.vals, t.val), t.done)
Close(t)     == State("gap", FALSE, "", <<>>, <<>>,
                      Append(t.done, [name |-> t.name, vals |-> t.vals]))

Unescape(c) == CASE c \in {"0", "0000", "#00"} -> "NUL" [] c = "0001" -> "ctl"
                 [] c = "n" -> "\n" [] c = "lt" -> "<" [] c = "amp" -> "&"
                 [] OTHER -> c

\* The digits belong to \u: without them the rest of the text is torn.
ReadText(t, c, end, escape) ==
  CASE t.mode = "esc" -> IF c = "u" THEN Mode(t, "hex") ELSE Keep(t, Unescape(c))
    [] t.mode = "hex" -> IF c \in {"0000", "0001"} THEN Keep(t, Unescape(c)) ELSE Mode(t, "torn")
    [] t.mode = "torn" -> t
    [] t.mode = "text" /\ c = escape -> Mode(t, "esc")
    [] t.mode = "text" /\ c = "quote" -> end
    [] OTHER -> Keep(t, c)

ReadSyslog(t, c) ==
  CASE t.mode = "gap" -> IF c = "=quote" THEN Open(t, "text") ELSE Name(t, c)
    [] t.mode = "text" /\ c = "comma" -> EndVal(t, "text")
    [] OTHER -> ReadText(t, c, Close(EndVal(t, "gap")), "\\")

ReadJSON(t, c) ==
  CASE t.mode = "gap"   -> IF c = "quote" THEN Mode(t, "name") ELSE t
    [] t.mode = "name"  -> IF c \in {"quote:", "quote:_"} THEN Open(t, "value")
                           ELSE Name(t, c)
    [] t.mode = "value" -> IF c = "[" THEN List(t)
                           ELSE Mode(t, "text")
    [] t.mode = "list"  -> IF c = "]" THEN Close(t) ELSE
                           IF c = "quote" THEN Mode(t, "text") ELSE t
    [] OTHER -> ReadText(t, c, IF t.list THEN EndVal(t, "list")
                               ELSE Close(EndVal(t, "gap")), "\\")

ReadXML(t, c) ==
  CASE t.mode = "name" -> IF c = "quote>" THEN Open(t, "gap") ELSE Name(t, c)
    [] t.mode = "gap" ->
         CASE c = "Field_name=quote" -> Mode(t, "name")
           [] c = "event.tags>" -> Open(Name(t, "event.tags"), "gap")
           [] c \in {"value>", "tag>"} -> Mode(t, "text")
           [] c \in {"/Field>", "/event.tags>"} -> Close(t)
           [] OTHER -> t
    [] t.mode = "text" /\ c = "<" -> EndVal(t, "gap")
    [] OTHER -> ReadText(t, c, Keep(t, c), "&")

ReadCSV(t, c) ==
  CASE t.mode = "gap" -> IF c = "quote" THEN Open(t, "text") ELSE t
    [] OTHER -> ReadText(t, c, Close(EndVal(t, "gap")), "\\")

Reader(format, t, c) == CASE format = "syslog" -> ReadSyslog(t, c)
                          [] format = "json"   -> ReadJSON(t, c)
                          [] format = "xml"    -> ReadXML(t, c)
                          [] format = "csv"    -> ReadCSV(t, c)
Read == LET after[n \in 0..Len(out)] ==
              IF n = 0 THEN Start ELSE Reader(enc, after[n - 1], out[n])
        IN  after[Len(out)]

----------------------------------------------------------------------------
(* Properties.                                                             *)

(* Every variable has its type, and a call that returns returns a code.    *)
EncTypeOK ==
  /\ pc \in {"client", "append", "done", "crashed"}
  /\ enc \in {"none", "syslog", "json", "xml", "csv"}
  /\ flags \subseteq {"ultra", "flat"}
  /\ fails \in 0..MaxFails
  /\ \A k \in 1..Len(todo) : todo[k].in \in 0..(Len(names) + Len(Fields(event)))
  /\ r \in {"minus1", "ok", "nomem"} \cup (IF pc = "client" THEN {"none"} ELSE {})

(* What an event says: its tags as a field of their own, then its fields.  *)
(* Only XML tells a field without a value from one with an empty value.    *)
Says == LET tags == IF event.tags = None \/ (enc = "json" /\ "flat" \notin flags)
                    THEN <<>>
                    ELSE <<[name |-> "event.tags",
                            vals |-> [i \in DOMAIN event.tags |-> <<event.tags[i]>>]]>>
        IN  tags \o Fields(event)
Plain(fs) == [i \in DOMAIN fs |-> IF enc # "xml" /\ fs[i].vals = <<>>
                                  THEN [fs[i] EXCEPT !.vals = <<<<>>>>] ELSE fs[i]]

\* the encoder writes a single quote for a field without values (json_enc.c:153)
HalfQuoted == /\ enc = "json" /\ "ultra" \in flags
              /\ \E k \in DOMAIN Fields(event) : Fields(event)[k].vals = <<>>

\* Tags and names are written as they are, so they must not look like the
\* format (e.g. json_enc.c:139, 186).
Reserved == {"comma", "\\", "quote", "<", "&", "=quote", "quote:", "quote:_", "quote>"}
Legible == /\ event.tags # None => Range(event.tags) \cap Reserved = {}
           /\ \A k \in DOMAIN Fields(event) : Fields(event)[k].name \notin Reserved

(* When every append succeeded, a consumer reads back from the output just *)
(* the event that was encoded: tags, names, the order of fields and of     *)
(* values, and every character of every value, also those the format       *)
(* reserves (the encoders' switch statements, e.g. syslog_enc.c:53-93).    *)
ReadsBack ==
  pc = "done" /\ out # <<>> /\ fails = 0 /\ enc # "csv" /\ Legible /\ ~HalfQuoted =>
    Read.mode = "gap" /\ Plain(Read.done) = Plain(Says)

(* A row of CSV that is returned with 0 has one column for each name, also *)
(* when writing a field failed half way and nobody noticed; and when       *)
(* nothing failed, the column has the values of the first field with that  *)
(* name, or nothing if there is none (csv_enc.c:250-262).  One failure is  *)
(* worse: the digits of an escape are missing, so that \u takes what ends  *)
(* the column for its digits (csv_enc.c:198-199).                          *)
Cell(name) ==
  LET found == {i \in DOMAIN Fields(event) : Fields(event)[i].name = name}
      vals  == Fields(event)[CHOOSE i \in found : \A j \in found : i <= j].vals
  IN  IF found = {} THEN <<>>
      ELSE IF Len(vals) = 1 THEN vals[1]
      ELSE <<"[">> \o Join(vals, <<"comma">>, LAMBDA v : v) \o <<"]">>
RowIsWhole ==
  pc = "done" /\ enc = "csv" /\ r = "ok" =>
    \/ Read.mode = "torn" /\ fails > 0
    \/ /\ Read.mode = "gap" /\ Len(Read.done) = Len(names)
       /\ fails = 0 => \A k \in DOMAIN names : Read.done[k].vals = <<Cell(names[k])>>
=============================================================================
