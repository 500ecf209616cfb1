------------------------------- MODULE IntDec -------------------------------
(***************************************************************************)
(* One call of ee_intDec, the decoder of libee's internal line format      *)
(* (int_dec.c; the format is described in int.h:1-50).                     *)
(*                                                                         *)
(* The decoder asks one callback for lines and gives each finished event   *)
(* to another.  Lines build an event: "e" begins one, "f" begins a field   *)
(* of it, "v" adds a value to that field, "#" is a comment.  The field     *)
(* under construction is kept outside the event until the next "f" or "e"  *)
(* line, or the end of the input, finishes it.  Either callback can fail,  *)
(* and so can every allocation.                                            *)
(***************************************************************************)
EXTENDS Integers, Sequences, SequencesExt

CONSTANTS Text,      \* field names and values
          MaxVals,   \* LIBEE_CEE_MAX_VALS_PER_FIELD
          MaxLines,  \* bound: lines the source has
          None       \* a NULL event, field or line

Types == {"#", "e", "f", "v", "bad"}   \* "bad": what decodeLn refuses
Line  == [typ : Types, text : Text]
FieldRec == [name : Text, vals : Seq(Text)]

ASSUME IntDecAssumption == /\ MaxVals \in Nat \ {0}
                           /\ MaxLines \in Nat
                           /\ None \notin FieldRec \cup Seq(FieldRec) \cup Line

VARIABLES
  pc,      \* where ee_intDec is; processLn's calls are steps of their own
  ln,      \* the line in hand: type and value
  lnNbr,   \* its number
  event,   \* the fields finished so far, or None
  field,   \* the field under construction, or None
  r,       \* return code
  errMsg,  \* the line number the error message names; 0 without a message
  given,   \* what cbNewEvt received
  input    \* auxiliary: the lines cbGetLine returned

vars == <<pc, ln, lnNbr, event, field, r, errMsg, given, input>>

Init == /\ pc = "open" /\ ln = None /\ lnNbr = 1 /\ event = None /\ field = None
        /\ r = "ok" /\ errMsg = 0 /\ given = <<>> /\ input = <<>>

\* Mutant of GetLine: the line is counted before the first one was read.
GetLineCountsEarly ==
  /\ pc \in {"open", "read"}
  /\ lnNbr' = lnNbr + 1
  /\ \/ /\ Len(input) < MaxLines
        /\ ln' \in Line
        /\ input' = Append(input, ln')
        /\ pc' = "decode"
        /\ UNCHANGED r
     \/ /\ r' \in {"eof", "ioerr"}
        /\ pc' = "end"
        /\ UNCHANGED <<ln, input>>
  /\ UNCHANGED <<event, field, errMsg, given>>

(* cbGetLine: a line, the end of the file, or an error.  The first call    *)
(* comes before the loop, the others at its end, where lnNbr counts.       *)
GetLine == /\ pc \in {"open", "read"}
           /\ lnNbr' = IF pc = "open" THEN lnNbr ELSE lnNbr + 1
           /\ \/ /\ Len(input) < MaxLines
                 /\ ln' \in Line
                 /\ input' = Append(input, ln')
                 /\ pc' = "decode"
                 /\ UNCHANGED r
              \/ /\ r' \in {"eof", "ioerr"}
                 /\ pc' = "end"
                 /\ UNCHANGED <<ln, input>>
           /\ UNCHANGED <<event, field, errMsg, given>>

\* decodeLn or processLn failed: the message names the line
Fail(code) == pc' = "done" /\ r' = code /\ errMsg' = lnNbr

DecodeLn == /\ pc = "decode"
            /\ \/ ln.typ = "bad" /\ Fail("invldfmt")
               \/ ln.typ # "bad" /\ Fail("nomem")
               \/ ln.typ # "bad" /\ pc' = "process" /\ UNCHANGED <<r, errMsg>>
            /\ UNCHANGED <<ln, lnNbr, event, field, given, input>>

Process(typ) == /\ pc = "process" /\ ln.typ = typ
                /\ UNCHANGED <<ln, lnNbr, input>>

Comment == /\ Process("#")
           /\ pc' = "read"
           /\ UNCHANGED <<event, field, r, errMsg, given>>

\* Mutant of Finished: it is not asked whether there is a field.
FinishedAlways == Append(event, field)

\* event and field after finishField found the memory it needs
Finished == IF field = None THEN event ELSE Append(event, field)

\* Mutant of StartEvent: the event is handed over without its last field,
\* which stays to be finished with the next one.
StartEventKeepsField ==
  /\ Process("e")
  /\ \/ event = None /\ pc' = "new" /\ UNCHANGED <<r, errMsg>>
     \/ event # None /\ pc' = "deliver" /\ UNCHANGED <<r, errMsg>>
  /\ UNCHANGED <<event, field, given>>

\* "e": the event so far is finished and handed over before the new one
StartEvent == /\ Process("e")
              /\ \/ /\ event = None /\ pc' = "new"
                    /\ UNCHANGED <<event, field, r, errMsg>>
                 \/ /\ event # None /\ field # None /\ Fail("nomem")
                    /\ UNCHANGED <<event, field>>
                 \/ /\ event # None
                    /\ event' = Finished /\ field' = None
                    /\ pc' = "deliver"
                    /\ UNCHANGED <<r, errMsg>>
              /\ UNCHANGED given

\* Mutant of Deliver: a consumer that fails is asked again.
DeliverRetries == /\ pc = "deliver"
                  /\ \/ given' = Append(given, event) /\ pc' = "new"
                     \/ pc' = "process" /\ UNCHANGED given
                  /\ UNCHANGED <<ln, lnNbr, event, field, r, errMsg, input>>

\* cbNewEvt from processLn
Deliver == /\ pc = "deliver"
           /\ given' = Append(given, event)
           /\ \/ pc' = "new" /\ UNCHANGED <<r, errMsg>>
              \/ Fail("cbfail")
           /\ UNCHANGED <<ln, lnNbr, event, field, input>>

NewEvent == /\ pc = "new"
            /\ \/ event' = None /\ Fail("nomem")
               \/ event' = <<>> /\ pc' = "read" /\ UNCHANGED <<r, errMsg>>
            /\ UNCHANGED <<ln, lnNbr, field, given, input>>

\* Mutant of StartField: the field so far is overwritten.
StartFieldDrops == /\ Process("f")
                   /\ \/ event = None /\ Fail("invldfmt") /\ UNCHANGED field
                      \/ event # None /\ Fail("nomem") /\ UNCHANGED field
                      \/ /\ event # None
                         /\ field' = [name |-> ln.text, vals |-> <<>>]
                         /\ pc' = "read" /\ UNCHANGED <<r, errMsg>>
                   /\ UNCHANGED <<event, given>>

(* "f": the field so far is finished, then the new one is made and named;  *)
(* a field that gets no name is dropped with the event.                    *)
StartField == /\ Process("f")
              /\ \/ /\ event = None /\ Fail("invldfmt")
                    /\ UNCHANGED <<event, field>>
                 \/ /\ event # None /\ field # None /\ Fail("nomem")
                    /\ UNCHANGED <<event, field>>
                 \/ /\ event # None /\ Fail("nomem")
                    /\ event' = Finished /\ field' = None
                 \/ /\ event # None
                    /\ event' = Finished
                    /\ field' = [name |-> ln.text, vals |-> <<>>]
                    /\ pc' = "read" /\ UNCHANGED <<r, errMsg>>
              /\ UNCHANGED given

\* "v": ee_addValueToField refuses a value too many
AddValue == /\ Process("v")
            /\ \/ field = None /\ Fail("invldfmt") /\ UNCHANGED field
               \/ field # None /\ Fail("nomem") /\ UNCHANGED field
               \/ /\ field # None /\ Len(field.vals) >= MaxVals
                  /\ Fail("toomany") /\ UNCHANGED field
               \/ /\ field # None /\ Len(field.vals) < MaxVals
                  /\ field' = [field EXCEPT !.vals = Append(@, ln.text)]
                  /\ pc' = "read" /\ UNCHANGED <<r, errMsg>>
            /\ UNCHANGED <<event, given>>

\* Mutant of EndOfInput: only the end of the file submits the last event.
EndOfInputDrops ==
  /\ pc = "end"
  /\ \/ /\ event = None \/ field = None
        /\ r' = IF r = "eof" THEN "ok" ELSE r
        /\ pc' = "done" /\ UNCHANGED <<event, field>>
     \/ /\ event # None /\ field # None
        /\ event' = Finished /\ field' = None
        /\ pc' = "final" /\ UNCHANGED r
  /\ UNCHANGED <<ln, lnNbr, errMsg, given, input>>

(* After the loop: whatever ended it, the last event is submitted, and r   *)
(* is overwritten on the way.                                              *)
EndOfInput == /\ pc = "end"
              /\ \/ /\ event = None
                    /\ r' = IF r = "eof" THEN "ok" ELSE r
                    /\ pc' = "done" /\ UNCHANGED <<event, field>>
                 \/ /\ event # None /\ field # None
                    /\ r' = "nomem" /\ pc' = "done"
                    /\ UNCHANGED <<event, field>>
                 \/ /\ event # None
                    /\ event' = Finished /\ field' = None
                    /\ pc' = "final" /\ UNCHANGED r
              /\ UNCHANGED <<ln, lnNbr, errMsg, given, input>>

DeliverLast == /\ pc = "final"
               /\ given' = Append(given, event)
               /\ r' \in {"ok", "cbfail"}
               /\ pc' = "done"
               /\ UNCHANGED <<ln, lnNbr, event, field, errMsg, input>>

Next == \/ GetLine \/ DecodeLn \/ Comment \/ StartEvent \/ Deliver
        \/ NewEvent \/ StartField \/ AddValue \/ EndOfInput \/ DeliverLast

Spec == Init /\ [][Next]_vars

(* The decoder runs on its caller's thread, and the callbacks return.      *)
FairSpec == Spec /\ WF_vars(Next)

----------------------------------------------------------------------------
(* Properties.                                                             *)

(* Every variable has its type.                                            *)
TypeOK ==
  /\ pc \in {"open", "read", "decode", "process", "deliver", "new", "end",
             "final", "done"}
  /\ ln \in Line \cup {None}
  /\ lnNbr \in Nat \ {0} /\ errMsg \in Nat
  /\ event \in Seq(FieldRec) \cup {None}
  /\ field \in FieldRec \cup {None}
  /\ r \in {"ok", "eof", "ioerr", "invldfmt", "nomem", "toomany", "cbfail"}
  /\ given \in Seq(Seq(FieldRec)) /\ input \in Seq(Line)

(* A field is only ever under construction together with an event, and     *)
(* never while an event is handed over: finishField and the callbacks get  *)
(* no NULL event, and no field crosses into the next event                 *)
(* (int_dec.c:79-90, 111-126, 181-186).                                    *)
FieldInEvent ==
  /\ field # None => event # None
  /\ pc \in {"deliver", "new", "final"} => field = None
  /\ pc \in {"deliver", "final"} => event # None

(* The error message names the line that was refused, counted from one,    *)
(* and comes with an error code (int_dec.c:159-177).                       *)
MessageNamesLine ==
  errMsg # 0 => errMsg = Len(input) /\ r \notin {"ok", "eof"}

\* What a line says, and what an event says, in terms of lines.
Says(l) == CASE l.typ = "#" -> <<>>
             [] l.typ = "e" -> <<<<"e">>>>
             [] OTHER       -> <<<<l.typ, l.text>>>>
Said == FlattenSeq([k \in 1..Len(input) |-> Says(input[k])])
FieldLines(f) == <<<<"f", f.name>>>>
                 \o [k \in 1..Len(f.vals) |-> <<"v", f.vals[k]>>]
EventLines(e) == <<<<"e">>>>
                 \o FlattenSeq([k \in 1..Len(e) |-> FieldLines(e[k])])
Lines(evs) == FlattenSeq([k \in 1..Len(evs) |-> EventLines(evs[k])])

(* Written out as lines again, the events handed over are always an        *)
(* initial part of the input without its comments: nothing is invented,    *)
(* dropped, delivered twice or moved to another field or event.  Between   *)
(* two lines only the event under construction is missing, and after a     *)
(* return of 0 nothing is.                                                 *)
RoundTrip ==
  /\ IsPrefix(Lines(given), Said)
  /\ pc = "read" =>
       Said = Lines(given) \o
              (IF event = None THEN <<>> ELSE EventLines(Finished))
  /\ pc = "done" /\ r = "ok" => Said = Lines(given)

(* The decoder with its separate field and its hand-over in the middle of  *)
(* a line implements the stream of events.                                 *)
Handed == pc \in {"new", "done"}
Stream == INSTANCE EventStream
            WITH sent <- given, over <- (pc = "done"),
                 open <- IF Handed \/ event = None THEN None ELSE Finished
ImplementsStream == Stream!Spec

(* The call returns, also when the source fails (int_dec.c:161-177).       *)
Returns == <>(pc = "done")

(* "returns 0 on success, something else otherwise" (int.h:111), and       *)
(* cbGetLine returns "something else" than 0 and EE_EOF when it fails      *)
(* (int.h:104-105): a failure of the source is not a success.              *)
ReadErrorTold == [][r = "ioerr" => r' # "ok"]_vars
=============================================================================
