---------------------------- MODULE IntDecProofs ----------------------------
(* Theorems about IntDec for every set of texts and every limit.           *)
EXTENDS IntDec, SequenceLemmas

(* Where the decoder is says what it has in hand: a line that was read is  *)
(* the last one and lnNbr is its number, and no message exists before the  *)
(* decoder has stopped.                                                    *)
LineOK == /\ pc = "open" => lnNbr = 1 /\ input = <<>>
          /\ pc \in {"read", "decode", "process", "deliver", "new"} =>
               lnNbr = Len(input) /\ ln \in Line
          /\ pc # "done" => errMsg = 0

IInv == TypeOK /\ FieldInEvent /\ LineOK /\ MessageNamesLine

(* The decoder starts in a state that satisfies the inductive invariant.   *)
LEMMA InitInv == Init => IInv
  BY IntDecAssumption DEF Init, IInv, TypeOK, FieldInEvent, LineOK, MessageNamesLine

(* Finishing a field makes an event of an event.                           *)
LEMMA FinishedType == TypeOK /\ event # None => Finished \in Seq(FieldRec)
  BY AppendProperties DEF TypeOK, Finished

(* Every step keeps the types.                                             *)
LEMMA TypeStep == IInv /\ [Next]_vars => TypeOK'
<1> SUFFICES ASSUME IInv, [Next]_vars PROVE TypeOK'
  OBVIOUS
<1>0. TypeOK /\ FieldInEvent /\ LineOK
  BY DEF IInv
<1>1. CASE GetLine
  <2>1. input' \in Seq(Line) /\ ln' \in Line \cup {None}
    <3>1. CASE ln' \in Line /\ input' = Append(input, ln')
      BY <1>0, <3>1, AppendProperties DEF TypeOK
    <3>2. CASE UNCHANGED <<ln, input>>
      BY <1>0, <3>2 DEF TypeOK
    <3>3. QED
      BY <1>1, <3>1, <3>2 DEF GetLine
  <2>2. lnNbr' \in Nat \ {0}
    BY <1>0, <1>1 DEF TypeOK, GetLine
  <2>3. pc' \in {"decode", "end"} /\ r' \in {"eof", "ioerr", r}
    BY <1>1 DEF GetLine
  <2>4. UNCHANGED <<event, field, errMsg, given>>
    BY <1>1 DEF GetLine
  <2>5. QED
    BY <1>0, <2>1, <2>2, <2>3, <2>4 DEF TypeOK
<1>2. CASE DecodeLn
  BY <1>0, <1>2 DEF TypeOK, DecodeLn, Fail
<1>3. CASE Comment
  BY <1>0, <1>3 DEF TypeOK, Comment, Process
<1>4. CASE StartEvent
  <2>1. event' \in Seq(FieldRec) \cup {None} /\ field' \in FieldRec \cup {None}
    BY <1>0, <1>4, FinishedType DEF TypeOK, StartEvent
  <2>2. /\ pc' \in {"new", "deliver", "done"} /\ r' \in {r, "nomem"}
        /\ errMsg' \in {errMsg, lnNbr} /\ UNCHANGED <<ln, lnNbr, input, given>>
    BY <1>4 DEF StartEvent, Process, Fail
  <2>3. QED
    BY <1>0, <2>1, <2>2 DEF TypeOK
<1>5. CASE Deliver
  <2>1. given' \in Seq(Seq(FieldRec))
    BY <1>0, <1>5, AppendProperties DEF TypeOK, FieldInEvent, Deliver
  <2>2. /\ pc' \in {"new", "done"} /\ r' \in {r, "cbfail"}
        /\ errMsg' \in {errMsg, lnNbr}
        /\ UNCHANGED <<ln, lnNbr, event, field, input>>
    BY <1>5 DEF Deliver, Fail
  <2>3. QED
    BY <1>0, <2>1, <2>2 DEF TypeOK
<1>6. CASE NewEvent
  <2>1. event' \in Seq(FieldRec) \cup {None}
    BY <1>6, EmptySeq DEF NewEvent
  <2>2. /\ pc' \in {"read", "done"} /\ r' \in {r, "nomem"}
        /\ errMsg' \in {errMsg, lnNbr}
        /\ UNCHANGED <<ln, lnNbr, field, given, input>>
    BY <1>6 DEF NewEvent, Fail
  <2>3. QED
    BY <1>0, <2>1, <2>2 DEF TypeOK
<1>7. CASE StartField
  <2>1. ln.text \in Text
    BY <1>0, <1>7 DEF LineOK, StartField, Process, Line
  <2>2. [name |-> ln.text, vals |-> <<>>] \in FieldRec
    BY <2>1, EmptySeq DEF FieldRec
  <2>3. event' \in Seq(FieldRec) \cup {None} /\ field' \in FieldRec \cup {None}
    BY <1>0, <1>7, <2>2, FinishedType DEF TypeOK, StartField
  <2>4. /\ pc' \in {"read", "done"} /\ r' \in {r, "nomem", "invldfmt"}
        /\ errMsg' \in {errMsg, lnNbr} /\ UNCHANGED <<ln, lnNbr, input, given>>
    BY <1>7 DEF StartField, Process, Fail
  <2>5. QED
    BY <1>0, <2>3, <2>4 DEF TypeOK
<1>8. CASE AddValue
  <2>1. ln.text \in Text
    BY <1>0, <1>8 DEF LineOK, AddValue, Process, Line
  <2>2. field # None =>
          [field EXCEPT !.vals = Append(@, ln.text)] \in FieldRec
    BY <1>0, <2>1, AppendProperties DEF TypeOK, FieldRec
  <2>3. field' \in FieldRec \cup {None}
    BY <1>0, <1>8, <2>2 DEF TypeOK, AddValue
  <2>4. /\ pc' \in {"read", "done"} /\ r' \in {r, "nomem", "invldfmt", "toomany"}
        /\ errMsg' \in {errMsg, lnNbr}
        /\ UNCHANGED <<ln, lnNbr, input, event, given>>
    BY <1>8 DEF AddValue, Process, Fail
  <2>5. QED
    BY <1>0, <2>3, <2>4 DEF TypeOK
<1>9. CASE EndOfInput
  <2>1. event' \in Seq(FieldRec) \cup {None} /\ field' \in FieldRec \cup {None}
    BY <1>0, <1>9, FinishedType DEF TypeOK, EndOfInput
  <2>2. /\ pc' \in {"final", "done"} /\ r' \in {r, "ok", "nomem"}
        /\ UNCHANGED <<ln, lnNbr, errMsg, given, input>>
    BY <1>9 DEF EndOfInput
  <2>3. QED
    BY <1>0, <2>1, <2>2 DEF TypeOK
<1>10. CASE DeliverLast
  <2>1. given' \in Seq(Seq(FieldRec))
    BY <1>0, <1>10, AppendProperties DEF TypeOK, FieldInEvent, DeliverLast
  <2>2. /\ pc' = "done" /\ r' \in {"ok", "cbfail"}
        /\ UNCHANGED <<ln, lnNbr, event, field, errMsg, input>>
    BY <1>10 DEF DeliverLast
  <2>3. QED
    BY <1>0, <2>1, <2>2 DEF TypeOK
<1>11. CASE UNCHANGED vars
  BY <1>0, <1>11 DEF TypeOK, vars
<1>12. QED
  BY <1>1, <1>2, <1>3, <1>4, <1>5, <1>6, <1>7, <1>8, <1>9, <1>10, <1>11 DEF Next

(* Every step keeps the pairing of field and event.                        *)
LEMMA FieldStep == IInv /\ [Next]_vars => FieldInEvent'
<1> SUFFICES ASSUME IInv, [Next]_vars PROVE FieldInEvent'
  OBVIOUS
<1>0. TypeOK /\ FieldInEvent
  BY DEF IInv
<1>f. event # None => Finished # None
  BY <1>0, FinishedType, IntDecAssumption
<1> USE <1>0, <1>f DEF FieldInEvent, Process, Fail
<1>1. CASE GetLine
  BY <1>1 DEF GetLine
<1>2. CASE DecodeLn
  BY <1>2 DEF DecodeLn
<1>3. CASE Comment
  BY <1>3 DEF Comment
<1>4. CASE StartEvent
  BY <1>4 DEF StartEvent
<1>5. CASE Deliver
  BY <1>5 DEF Deliver
<1>6. CASE NewEvent
  BY <1>6, IntDecAssumption, EmptySeq DEF NewEvent
<1>7. CASE StartField
  BY <1>7 DEF StartField
<1>8. CASE AddValue
  BY <1>8 DEF AddValue
<1>9. CASE EndOfInput
  BY <1>9 DEF EndOfInput
<1>10. CASE DeliverLast
  BY <1>10 DEF DeliverLast
<1>11. CASE UNCHANGED vars
  BY <1>11 DEF vars
<1>12. QED
  BY <1>1, <1>2, <1>3, <1>4, <1>5, <1>6, <1>7, <1>8, <1>9, <1>10, <1>11 DEF Next

(* Every step keeps the line in hand and its number together.              *)
LEMMA LineStep == IInv /\ [Next]_vars => LineOK' /\ MessageNamesLine'
<1> SUFFICES ASSUME IInv, [Next]_vars PROVE LineOK' /\ MessageNamesLine'
  OBVIOUS
<1>0. TypeOK /\ LineOK /\ MessageNamesLine
  BY DEF IInv
<1> USE <1>0 DEF LineOK, MessageNamesLine
<1>1. CASE GetLine
  <2>1. CASE ln' \in Line /\ input' = Append(input, ln') /\ pc' = "decode"
    <3>1. Len(input') = Len(input) + 1
      BY <2>1, AppendProperties DEF TypeOK
    <3>2. lnNbr' = Len(input')
      BY <1>1, <3>1, EmptySeq DEF GetLine, TypeOK
    <3>3. QED
      BY <1>1, <2>1, <3>2 DEF GetLine
  <2>2. CASE pc' = "end"
    BY <1>1, <2>2 DEF GetLine
  <2>3. QED
    BY <1>1, <2>1, <2>2 DEF GetLine
<1>2. CASE DecodeLn
  BY <1>2 DEF DecodeLn, Fail
<1>3. CASE Comment
  BY <1>3 DEF Comment, Process
<1>4. CASE StartEvent
  BY <1>4 DEF StartEvent, Process, Fail
<1>5. CASE Deliver
  BY <1>5 DEF Deliver, Fail
<1>6. CASE NewEvent
  BY <1>6 DEF NewEvent, Fail
<1>7. CASE StartField
  BY <1>7 DEF StartField, Process, Fail
<1>8. CASE AddValue
  BY <1>8 DEF AddValue, Process, Fail
<1>9. CASE EndOfInput
  BY <1>9 DEF EndOfInput
<1>10. CASE DeliverLast
  BY <1>10 DEF DeliverLast
<1>11. CASE UNCHANGED vars
  BY <1>11 DEF vars
<1>12. QED
  BY <1>1, <1>2, <1>3, <1>4, <1>5, <1>6, <1>7, <1>8, <1>9, <1>10, <1>11 DEF Next

(* The inductive invariant holds in every reachable state.                 *)
THEOREM Invariance == Spec => []IInv
<1>1. IInv /\ [Next]_vars => IInv'
  BY TypeStep, FieldStep, LineStep DEF IInv
<1>2. QED
  BY InitInv, <1>1, PTL DEF Spec

(* The variables of the decoder keep their types (int_dec.c:144-192).      *)
THEOREM TypeCorrect == Spec => []TypeOK
<1>1. IInv => TypeOK
  BY DEF IInv
<1>2. QED
  BY Invariance, <1>1, PTL

(* finishField and the callbacks never get a NULL event, and no field      *)
(* crosses from one event into the next (int_dec.c:79-126, 181-186).       *)
THEOREM FieldSafe == Spec => []FieldInEvent
<1>1. IInv => FieldInEvent
  BY DEF IInv
<1>2. QED
  BY Invariance, <1>1, PTL

(* Whatever the length of the input, the error message names the line that *)
(* was refused (int_dec.c:159-177).                                        *)
THEOREM MessageCorrect == Spec => []MessageNamesLine
<1>1. IInv => MessageNamesLine
  BY DEF IInv
<1>2. QED
  BY Invariance, <1>1, PTL

----------------------------------------------------------------------------
(* Refinement of EventStream.                                              *)

OpenEvent == IF Handed \/ event = None THEN None ELSE Finished

\* A step that neither hands over nor changes the event is a stutter.
LEMMA Stutter ==
  ASSUME given' = given, OpenEvent' = OpenEvent, (pc' = "done") <=> (pc = "done")
  PROVE  UNCHANGED Stream!evars
  BY DEF Stream!evars, OpenEvent

\* A step that gives up is a Stop.
LEMMA GivesUp ==
  ASSUME given' = given, pc # "done", pc' = "done"
  PROVE  Stream!Stop
  BY DEF Stream!Stop, Handed

\* Appending to the last element of a sequence that was just appended.
LEMMA ReplaceLast ==
  ASSUME NEW S, NEW s \in Seq(S), NEW x \in S, NEW y \in S
  PROVE  /\ Len(Append(s, x)) = Len(s) + 1
         /\ Append(s, x)[Len(Append(s, x))] = x
         /\ Append(s, x) # <<>>
         /\ [Append(s, x) EXCEPT ![Len(Append(s, x))] = y] = Append(s, y)
<1> DEFINE t == Append(s, x)
           n == Len(t)
           u == [t EXCEPT ![n] = y]
<1>1. t \in Seq(S) /\ n = Len(s) + 1 /\ t[n] = x /\ t # <<>>
  BY AppendProperties
<1>2. n \in 1..Len(t)
  BY <1>1, LenProperties
<1>3. u \in Seq(S) /\ Len(u) = n
  BY <1>1, <1>2, ExceptSeq, LenProperties
<1>4. Append(s, y) \in Seq(S) /\ Len(Append(s, y)) = n
  BY <1>1, AppendProperties
<1>5. \A k \in 1..n : u[k] = Append(s, y)[k]
  <2> SUFFICES ASSUME NEW k \in 1..n PROVE u[k] = Append(s, y)[k]
    OBVIOUS
  <2>1. CASE k = n
    BY <1>1, <1>2, <2>1, AppendProperties DEF u
  <2>2. CASE k # n
    <3>1. k \in 1..Len(s)
      BY <1>1, <2>2, LenProperties
    <3>2. t[k] = s[k] /\ Append(s, y)[k] = s[k]
      BY <3>1, AppendProperties
    <3>3. u[k] = t[k]
      BY <1>1, <2>2, LenProperties
    <3>4. QED
      BY <3>2, <3>3
  <2>3. QED
    BY <2>1, <2>2
<1>6. u = Append(s, y)
  <2>1. \A k \in 1..Len(u) : u[k] = Append(s, y)[k]
    BY <1>3, <1>5
  <2>2. Len(u) = Len(Append(s, y))
    BY <1>3, <1>4
  <2> HIDE DEF u
  <2>3. QED
    BY <1>3, <1>4, <2>1, <2>2, SeqEqual
<1>7. QED
  BY <1>1, <1>6

(* The decoder starts where the stream of events starts.                   *)
LEMMA StreamInit == Init => Stream!Init
  BY DEF Init, Stream!Init

(* Every step of the decoder is a step of the stream, or none.             *)
LEMMA StreamStep == IInv /\ [Next]_vars => [Stream!Next]_Stream!evars
<1> SUFFICES ASSUME IInv, [Next]_vars PROVE Stream!Next \/ UNCHANGED Stream!evars
  OBVIOUS
<1>0. TypeOK /\ FieldInEvent /\ LineOK
  BY DEF IInv
<1>f. event # None => Finished # None /\ Finished \in Seq(FieldRec)
  BY <1>0, FinishedType, IntDecAssumption
<1>1. CASE GetLine
  <2>1. OpenEvent' = OpenEvent
    BY <1>1 DEF GetLine, OpenEvent, Handed, Finished
  <2>2. QED
    BY <1>1, <2>1, Stutter DEF GetLine
<1>2. CASE DecodeLn
  <2>1. CASE pc' = "done"
    BY <1>2, <2>1, GivesUp DEF DecodeLn, Stream!Next
  <2>2. CASE pc' = "process"
    <3>1. OpenEvent' = OpenEvent
      BY <1>2, <2>2 DEF DecodeLn, OpenEvent, Handed, Finished
    <3>2. QED
      BY <1>2, <2>2, <3>1, Stutter DEF DecodeLn
  <2>3. QED
    BY <1>2, <2>1, <2>2 DEF DecodeLn, Fail
<1>3. CASE Comment
  <2>1. OpenEvent' = OpenEvent
    BY <1>3 DEF Comment, Process, OpenEvent, Handed, Finished
  <2>2. QED
    BY <1>3, <2>1, Stutter DEF Comment, Process
<1>4. CASE StartEvent
  <2>1. CASE pc' = "done"
    BY <1>4, <2>1, GivesUp DEF StartEvent, Process, Stream!Next
  <2>2. CASE event = None /\ pc' = "new"
    <3>1. OpenEvent' = OpenEvent
      BY <2>2 DEF OpenEvent, Handed
    <3>2. QED
      BY <1>4, <2>2, <3>1, Stutter DEF StartEvent, Process
  <2>3. CASE event # None /\ event' = Finished /\ field' = None /\ pc' = "deliver"
    <3>1. OpenEvent' = OpenEvent
      BY <1>4, <1>f, <2>3 DEF StartEvent, Process, OpenEvent, Handed, Finished
    <3>2. QED
      BY <1>4, <2>3, <3>1, Stutter DEF StartEvent, Process
  <2>4. QED
    BY <1>4, <2>1, <2>2, <2>3 DEF StartEvent, Fail
<1>5. CASE Deliver
  <2>1. OpenEvent = event /\ event # None
    BY <1>0, <1>5 DEF Deliver, FieldInEvent, OpenEvent, Handed, Finished
  <2>2. pc # "done" /\ pc' \in {"new", "done"} /\ given' = Append(given, event)
    BY <1>5 DEF Deliver, Fail
  <2>3. Stream!Send
    BY <2>1, <2>2 DEF Stream!Send, OpenEvent, Handed
  <2>4. QED
    BY <2>3 DEF Stream!Next
<1>6. CASE NewEvent
  <2>1. CASE pc' = "done"
    BY <1>6, <2>1, GivesUp DEF NewEvent, Stream!Next
  <2>2. CASE event' = <<>> /\ pc' = "read"
    <3>1. <<>> # None
      BY IntDecAssumption, EmptySeq
    <3>2. Stream!Begin
      BY <1>0, <1>6, <2>2, <3>1
      DEF NewEvent, FieldInEvent, Stream!Begin, Handed, Finished
    <3>3. QED
      BY <3>2 DEF Stream!Next
  <2>3. QED
    BY <1>6, <2>1, <2>2 DEF NewEvent, Fail
<1>7. CASE StartField
  <2>1. CASE pc' = "done"
    BY <1>7, <2>1, GivesUp DEF StartField, Process, Stream!Next
  <2>2. CASE /\ event # None /\ event' = Finished /\ pc' = "read"
             /\ field' = [name |-> ln.text, vals |-> <<>>]
    <3>1. ln.text \in Text
      BY <1>0, <1>7 DEF LineOK, StartField, Process, Line
    <3>2. field' \in FieldRec
      BY <3>1, <2>2, EmptySeq DEF FieldRec
    <3>3. field' # None /\ event' # None
      BY <1>f, <2>2, <3>2, IntDecAssumption
    <3>4. /\ OpenEvent = Finished /\ OpenEvent # None
          /\ OpenEvent' = Append(Finished, field')
      BY <1>7, <1>f, <2>2, <3>3
      DEF StartField, Process, OpenEvent, Handed, Finished
    <3>5. Stream!NewField(ln.text)
      BY <1>7, <2>2, <3>4 DEF StartField, Process, Stream!NewField, OpenEvent
    <3>6. QED
      BY <3>1, <3>5 DEF Stream!Next
  <2>3. QED
    BY <1>7, <2>1, <2>2 DEF StartField, Fail
<1>8. CASE AddValue
  <2>1. CASE pc' = "done"
    BY <1>8, <2>1, GivesUp DEF AddValue, Process, Stream!Next
  <2>2. CASE /\ field # None /\ Len(field.vals) < MaxVals /\ pc' = "read"
             /\ field' = [field EXCEPT !.vals = Append(@, ln.text)]
    <3>1. ln.text \in Text
      BY <1>0, <1>8 DEF LineOK, AddValue, Process, Line
    <3>2. event # None /\ event' = event /\ event \in Seq(FieldRec)
      BY <1>0, <1>8, <2>2 DEF TypeOK, FieldInEvent, AddValue
    <3>3. /\ field \in FieldRec
          /\ field' = [name |-> field.name, vals |-> Append(field.vals, ln.text)]
          /\ field' \in FieldRec
      BY <1>0, <2>2, <3>1, AppendProperties DEF TypeOK, FieldRec
    <3>4. OpenEvent = Append(event, field) /\ OpenEvent' = Append(event, field')
      BY <1>8, <2>2, <3>2, <3>3, IntDecAssumption
      DEF AddValue, Process, OpenEvent, Handed, Finished
    <3>5. /\ OpenEvent # <<>> /\ OpenEvent[Len(OpenEvent)] = field
          /\ OpenEvent' = [OpenEvent EXCEPT ![Len(OpenEvent)] = field']
      <4>1. event \in Seq(FieldRec) /\ field \in FieldRec /\ field' \in FieldRec
        BY <3>2, <3>3
      <4> DEFINE a == Append(event, field)
      <4>3. /\ a # <<>> /\ a[Len(a)] = field
            /\ [a EXCEPT ![Len(a)] = field'] = Append(event, field')
        BY <4>1, ReplaceLast
      <4>4. QED
        BY <3>4, <4>3
    <3>6. OpenEvent # None
      <4>1. event \in Seq(FieldRec) /\ field \in FieldRec
        BY <3>2, <3>3
      <4>2. Append(event, field) \in Seq(FieldRec)
        BY <4>1, AppendProperties
      <4>3. QED
        BY <3>4, <4>2, IntDecAssumption
    <3>7. Stream!NewValue(ln.text)
      BY <1>8, <2>2, <3>3, <3>5, <3>6
      DEF AddValue, Process, Stream!NewValue, OpenEvent
    <3>8. QED
      BY <3>1, <3>7 DEF Stream!Next
  <2>3. QED
    BY <1>8, <2>1, <2>2 DEF AddValue, Fail
<1>9. CASE EndOfInput
  <2>1. CASE pc' = "done"
    BY <1>9, <2>1, GivesUp DEF EndOfInput, Stream!Next
  <2>2. CASE event # None /\ event' = Finished /\ field' = None /\ pc' = "final"
    <3>1. OpenEvent' = OpenEvent
      BY <1>9, <1>f, <2>2 DEF EndOfInput, OpenEvent, Handed, Finished
    <3>2. QED
      BY <1>9, <2>2, <3>1, Stutter DEF EndOfInput
  <2>3. QED
    BY <1>9, <2>1, <2>2 DEF EndOfInput
<1>10. CASE DeliverLast
  <2>1. OpenEvent = event /\ event # None
    BY <1>0, <1>10 DEF DeliverLast, FieldInEvent, OpenEvent, Handed, Finished
  <2>2. pc # "done" /\ pc' = "done" /\ given' = Append(given, event)
    BY <1>10 DEF DeliverLast
  <2>3. Stream!Send
    BY <2>1, <2>2 DEF Stream!Send, OpenEvent, Handed
  <2>4. QED
    BY <2>3 DEF Stream!Next
<1>11. CASE UNCHANGED vars
  BY <1>11 DEF vars, Stream!evars, Handed, Finished
<1>12. QED
  BY <1>1, <1>2, <1>3, <1>4, <1>5, <1>6, <1>7, <1>8, <1>9, <1>10, <1>11 DEF Next

(* The decoder, with the field it keeps apart and its hand-over in the     *)
(* middle of a line, implements the stream of events: for input of any     *)
(* length every accepted line acts at once, and every event is handed over *)
(* once, whole and in order.                                               *)
THEOREM Refinement == Spec => ImplementsStream
<1>1. Stream!Spec <=> Stream!Init /\ [][Stream!Next]_Stream!evars
  BY DEF Stream!Spec
<1>2. QED
  BY Invariance, StreamInit, StreamStep, <1>1, PTL DEF Spec, ImplementsStream

----------------------------------------------------------------------------
(* Round trip.  What the input said is split into what was handed over,    *)
(* what is pending, and what the line in hand has not done yet; the lemmas *)
(* about Lines, EventLines and FieldLines say what one more event, field   *)
(* or value appends.                                                       *)

\* what lines can say
Saying == {<<"e">>} \cup (Types \X Text)

\* what a line says is made of sayings
LEMMA SaysType == \A l \in Line : Says(l) \in Seq(Saying)
<1> SUFFICES ASSUME NEW l \in Line PROVE Says(l) \in Seq(Saying)
  OBVIOUS
<1>1. l.typ \in Types /\ l.text \in Text
  BY DEF Line
<1>2. <<l.typ, l.text>> \in Saying /\ <<"e">> \in Saying
  BY <1>1 DEF Saying
<1> QED BY <1>2 DEF Says

\* and so is a field written out
LEMMA FieldLinesType == \A f \in FieldRec : FieldLines(f) \in Seq(Saying)
<1> SUFFICES ASSUME NEW f \in FieldRec PROVE FieldLines(f) \in Seq(Saying)
  OBVIOUS
<1>1. f.name \in Text /\ f.vals \in Seq(Text) /\ Len(f.vals) \in Nat
  BY DEF FieldRec
<1>2. <<"f", f.name>> \in Saying /\ \A k \in 1..Len(f.vals) : <<"v", f.vals[k]>> \in Saying
  BY <1>1 DEF Saying, Types
<1>3. /\ <<<<"f", f.name>>>> \in Seq(Saying)
      /\ [k \in 1..Len(f.vals) |-> <<"v", f.vals[k]>>] \in Seq(Saying)
  BY <1>1, <1>2
<1> QED BY <1>3 DEF FieldLines

\* a field that gets one more value
LEMMA FieldLinesAppend ==
  ASSUME NEW name \in Text, NEW vals \in Seq(Text), NEW x \in Text
  PROVE  FieldLines([name |-> name, vals |-> Append(vals, x)])
           = FieldLines([name |-> name, vals |-> vals]) \o <<<<"v", x>>>>
<1> DEFINE n == Len(vals)
           s == [k \in 1..n |-> <<"v", vals[k]>>]
           t == [k \in 1..Len(Append(vals, x)) |-> <<"v", Append(vals, x)[k]>>]
<1>1. n \in Nat /\ Len(Append(vals, x)) = n + 1 /\ Append(vals, x)[n + 1] = x
      /\ \A k \in 1..n : Append(vals, x)[k] = vals[k]
  BY AppendProperties
<1>2. \A k \in 1..n : vals[k] \in Text
  OBVIOUS
<1>3. /\ \A k \in 1..n : <<"v", vals[k]>> \in Saying
      /\ <<"v", x>> \in Saying /\ <<"f", name>> \in Saying
  BY <1>2 DEF Saying, Types
<1>4. s \in Seq(Saying) /\ Len(s) = n /\ \A k \in 1..n : s[k] = <<"v", vals[k]>>
  BY <1>1, <1>3
<1>5. /\ t \in Seq(Saying) /\ Len(t) = n + 1 /\ t[n + 1] = <<"v", x>>
      /\ \A k \in 1..n : t[k] = <<"v", vals[k]>>
  <2> DEFINE u == [k \in 1..(n + 1) |-> IF k = n + 1 THEN <<"v", x>> ELSE <<"v", vals[k]>>]
  <2>1. t = u
    BY <1>1
  <2>2. \A k \in 1..(n + 1) : k \in 1..n \/ k = n + 1
    BY <1>1
  <2>3. \A k \in 1..(n + 1) : u[k] \in Saying
    BY <1>3, <2>2
  <2>4. u \in Seq(Saying) /\ Len(u) = n + 1
    BY <1>1, <2>3
  <2>5. u[n + 1] = <<"v", x>> /\ \A k \in 1..n : u[k] = <<"v", vals[k]>>
    BY <1>1
  <2> HIDE DEF t, u
  <2> QED BY <2>1, <2>4, <2>5
<1> HIDE DEF s, t
<1>6. t = s \o <<<<"v", x>>>>
  <2>1. /\ s \o <<<<"v", x>>>> \in Seq(Saying) /\ Len(s \o <<<<"v", x>>>>) = n + 1
        /\ (s \o <<<<"v", x>>>>)[n + 1] = <<"v", x>>
        /\ \A k \in 1..n : (s \o <<<<"v", x>>>>)[k] = s[k]
    BY <1>1, <1>3, <1>4
  <2>2. ASSUME NEW k \in 1..(n + 1) PROVE t[k] = (s \o <<<<"v", x>>>>)[k]
    <3>1. k \in 1..n \/ k = n + 1
      BY <1>1
    <3> QED BY <1>4, <1>5, <2>1, <3>1
  <2> QED BY <1>5, <2>1, <2>2, SeqEqual
<1>7. <<<<"f", name>>>> \in Seq(Saying) /\ <<<<"v", x>>>> \in Seq(Saying)
  BY <1>3
<1>8. <<<<"f", name>>>> \o t = (<<<<"f", name>>>> \o s) \o <<<<"v", x>>>>
  BY <1>4, <1>6, <1>7, ConcatAssociative
<1> QED BY <1>8 DEF FieldLines, s, t

\* an event without fields, and no event
LEMMA EventLinesOne == EventLines(<<>>) = <<<<"e">>>> /\ Lines(<<>>) = <<>>
<1>1. [k \in 1..Len(<<>>) |-> FieldLines(<<>>[k])] = <<>>
  OBVIOUS
<1>2. [k \in 1..Len(<<>>) |-> EventLines(<<>>[k])] = <<>>
  OBVIOUS
<1>3. FlattenSeq(<<>>) = <<>>
  BY DEF FlattenSeq
<1>4. <<<<"e">>>> \o <<>> = <<<<"e">>>>
  OBVIOUS
<1> QED BY <1>1, <1>2, <1>3, <1>4 DEF EventLines, Lines

\* an event that gets one more field
LEMMA EventLinesAppend ==
  ASSUME NEW e \in Seq(FieldRec)
  PROVE  /\ EventLines(e) \in Seq(Saying)
         /\ \A f \in FieldRec : EventLines(Append(e, f)) = EventLines(e) \o FieldLines(f)
<1> DEFINE m == [k \in 1..Len(e) |-> FieldLines(e[k])]
<1>0. Len(e) \in Nat /\ \A k \in 1..Len(e) : e[k] \in FieldRec
  OBVIOUS
<1>1. \A k \in 1..Len(e) : FieldLines(e[k]) \in Seq(Saying)
  BY <1>0, FieldLinesType
<1>2. m \in Seq(Seq(Saying))
  BY <1>0, <1>1
<1>3. <<<<"e">>>> \in Seq(Saying)
  BY DEF Saying
<1>4. FlattenSeq(m) \in Seq(Saying)
  BY <1>2, FlattenType
<1>5. EventLines(e) \in Seq(Saying)
  BY <1>3, <1>4 DEF EventLines
<1>6. ASSUME NEW f \in FieldRec PROVE EventLines(Append(e, f)) = EventLines(e) \o FieldLines(f)
  <2> DEFINE a == Append(e, f)
             w == [k \in 1..Len(a) |-> FieldLines(a[k])]
  <2>1. FieldLines(f) \in Seq(Saying)
    BY FieldLinesType
  <2>2. Len(a) = Len(e) + 1 /\ a[Len(e) + 1] = f /\ \A k \in 1..Len(e) : a[k] = e[k]
    BY AppendProperties
  <2>3. w = Append(m, FieldLines(f))
    BY <1>0, <2>2
  <2>4. FlattenSeq(w) = FlattenSeq(m) \o FieldLines(f)
    BY <1>2, <2>1, <2>3, FlattenAppend
  <2>5. <<<<"e">>>> \o FlattenSeq(w) = (<<<<"e">>>> \o FlattenSeq(m)) \o FieldLines(f)
    <3> HIDE DEF m, w
    <3> QED BY <1>3, <1>4, <2>1, <2>4, ConcatAssociative
  <2> QED BY <2>5 DEF EventLines
<1> QED BY <1>5, <1>6

\* one more event
LEMMA LinesAppend ==
  ASSUME NEW evs \in Seq(Seq(FieldRec))
  PROVE  /\ Lines(evs) \in Seq(Saying)
         /\ \A e \in Seq(FieldRec) : Lines(Append(evs, e)) = Lines(evs) \o EventLines(e)
<1> DEFINE m == [k \in 1..Len(evs) |-> EventLines(evs[k])]
<1>0. Len(evs) \in Nat /\ \A k \in 1..Len(evs) : evs[k] \in Seq(FieldRec)
  OBVIOUS
<1>1. \A k \in 1..Len(evs) : EventLines(evs[k]) \in Seq(Saying)
  BY <1>0, EventLinesAppend
<1>2. m \in Seq(Seq(Saying))
  BY <1>0, <1>1
<1>3. Lines(evs) \in Seq(Saying)
  BY <1>2, FlattenType DEF Lines
<1>4. ASSUME NEW e \in Seq(FieldRec) PROVE Lines(Append(evs, e)) = Lines(evs) \o EventLines(e)
  <2> DEFINE a == Append(evs, e)
             w == [k \in 1..Len(a) |-> EventLines(a[k])]
  <2>1. EventLines(e) \in Seq(Saying)
    BY EventLinesAppend
  <2>2. Len(a) = Len(evs) + 1 /\ a[Len(evs) + 1] = e /\ \A k \in 1..Len(evs) : a[k] = evs[k]
    BY AppendProperties
  <2>3. w = Append(m, EventLines(e))
    BY <1>0, <2>2
  <2> QED BY <1>2, <2>1, <2>3, FlattenAppend DEF Lines
<1> QED BY <1>3, <1>4

\* one more line of input
LEMMA SaidAppend ==
  ASSUME input \in Seq(Line), NEW l \in Line
  PROVE  /\ Said \in Seq(Saying)
         /\ input' = Append(input, l) => Said' = Said \o Says(l)
<1> DEFINE m == [k \in 1..Len(input) |-> Says(input[k])]
<1>0. Len(input) \in Nat /\ \A k \in 1..Len(input) : input[k] \in Line
  OBVIOUS
<1>1. \A k \in 1..Len(input) : Says(input[k]) \in Seq(Saying)
  BY <1>0, SaysType
<1>2. m \in Seq(Seq(Saying))
  BY <1>0, <1>1
<1>3. Said \in Seq(Saying)
  BY <1>2, FlattenType DEF Said
<1>4. ASSUME input' = Append(input, l) PROVE Said' = Said \o Says(l)
  <2> DEFINE a == Append(input, l)
             w == [k \in 1..Len(a) |-> Says(a[k])]
  <2>1. Says(l) \in Seq(Saying)
    BY SaysType
  <2>2. Len(a) = Len(input) + 1 /\ a[Len(input) + 1] = l /\ \A k \in 1..Len(input) : a[k] = input[k]
    BY AppendProperties
  <2>3. w = Append(m, Says(l))
    BY <1>0, <2>2
  <2>4. Said' = FlattenSeq(w)
    BY <1>4 DEF Said
  <2> QED BY <1>2, <2>1, <2>3, <2>4, FlattenAppend DEF Said
<1> QED BY <1>3, <1>4

\* The event under construction written out, and all that was built so far.
Pending == IF event = None THEN <<>> ELSE EventLines(Finished)
Built   == Lines(given) \o Pending

\* The strengthening of RoundTrip: one equation for every place in the call.
RoundInv ==
  /\ pc = "open" => input = <<>> /\ given = <<>> /\ event = None
  /\ pc \in {"read", "end", "final"} => Said = Built
  /\ pc \in {"decode", "process"} => Said = Built \o Says(ln)
  /\ pc = "deliver" => Said = Built \o <<<<"e">>>>
  /\ pc = "new" => Said = Lines(given) \o <<<<"e">>>>
  /\ pc = "done" => IsPrefix(Lines(given), Said) /\ (r = "ok" => Said = Lines(given))

\* all of it is made of sayings
LEMMA RoundTypes ==
  ASSUME TypeOK
  PROVE  /\ Lines(given) \in Seq(Saying) /\ Pending \in Seq(Saying) /\ Built \in Seq(Saying)
         /\ Said \in Seq(Saying)
<1>1. Lines(given) \in Seq(Saying)
  BY LinesAppend DEF TypeOK
<1>2. Pending \in Seq(Saying)
  <2>1. event # None => EventLines(Finished) \in Seq(Saying)
    BY FinishedType, EventLinesAppend
  <2>2. <<>> \in Seq(Saying)
    OBVIOUS
  <2> QED BY <2>1, <2>2 DEF Pending
<1>3. Built \in Seq(Saying)
  BY <1>1, <1>2 DEF Built
<1>4. Said \in Seq(Saying)
  <2>1. CASE input = <<>>
    <3>1. [k \in 1..Len(input) |-> Says(input[k])] = <<>>
      BY <2>1
    <3> QED BY <3>1 DEF Said, FlattenSeq
  <2>2. CASE input # <<>>
    <3>1. input \in Seq(Line)
      BY DEF TypeOK
    <3>2. input[1] \in Line
      BY <2>2, <3>1
    <3> QED BY <3>1, <3>2, SaidAppend
  <2> QED BY <2>1, <2>2
<1> QED BY <1>1, <1>2, <1>3, <1>4

\* nothing was said before the first line
LEMMA NothingSaid == ASSUME pc = "open", RoundInv PROVE Said = Built /\ Lines(given) = <<>>
<1>1. input = <<>> /\ given = <<>> /\ event = None
  BY DEF RoundInv
<1>2. [k \in 1..Len(input) |-> Says(input[k])] = <<>>
  BY <1>1
<1>3. Said = <<>>
  BY <1>2 DEF Said, FlattenSeq
<1>4. Lines(given) = <<>>
  BY <1>1, EventLinesOne
<1>5. Built = <<>>
  BY <1>1, <1>4 DEF Built, Pending
<1> QED BY <1>3, <1>4, <1>5

\* what was handed over begins what was said, whatever is still pending
LEMMA GivenIsPrefix == ASSUME IInv, RoundInv PROVE IsPrefix(Lines(given), Said)
<1>1. /\ Lines(given) \in Seq(Saying) /\ Pending \in Seq(Saying) /\ Built \in Seq(Saying)
      /\ <<<<"e">>>> \in Seq(Saying) /\ (ln \in Line => Says(ln) \in Seq(Saying))
      /\ pc \in {"open", "read", "decode", "process", "deliver", "new", "end", "final", "done"}
  BY RoundTypes, SaysType DEF IInv, TypeOK, Saying
<1>2. ASSUME NEW x \in Seq(Saying), Said = Built \o x PROVE IsPrefix(Lines(given), Said)
  <2>1. Said = Lines(given) \o (Pending \o x)
    BY <1>1, <1>2, ConcatAssociative DEF Built
  <2>2. Pending \o x \in Seq(Saying)
    BY <1>1
  <2> QED BY <1>1, <2>1, <2>2, ConcatPrefix
<1>3. CASE pc \in {"open", "read", "end", "final"}
  <2>1. Said = Built
    BY <1>3, NothingSaid DEF RoundInv
  <2> QED BY <1>1, <2>1, ConcatPrefix DEF Built
<1>4. CASE pc \in {"decode", "process"}
  BY <1>1, <1>2, <1>4 DEF RoundInv, IInv, LineOK
<1>5. CASE pc = "deliver"
  BY <1>1, <1>2, <1>5 DEF RoundInv
<1>6. CASE pc = "new"
  BY <1>1, <1>6, ConcatPrefix DEF RoundInv
<1>7. CASE pc = "done"
  BY <1>7 DEF RoundInv
<1> QED BY <1>1, <1>3, <1>4, <1>5, <1>6, <1>7

\* A step that refuses the line, or gives up.
LEMMA RefusedRound ==
  ASSUME IInv, RoundInv, given' = given, input' = input, pc' = "done", r' # "ok"
  PROVE  RoundInv'
<1>1. Lines(given)' = Lines(given) /\ Said' = Said
  BY DEF Said
<1> QED BY <1>1, GivenIsPrefix DEF RoundInv

\* One lemma per action that every step keeps the equations.
LEMMA GetLineRound == ASSUME IInv, RoundInv, GetLine PROVE RoundInv'
<1>1. Said = Built /\ UNCHANGED <<event, field, given>>
  BY NothingSaid DEF GetLine, RoundInv
<1>2. Built' = Built
  BY <1>1 DEF Built, Pending, Finished
<1>3. CASE ln' \in Line /\ input' = Append(input, ln') /\ pc' = "decode"
  <2>1. PICK l \in Line : l = ln'
    BY <1>3
  <2>2. Said' = Said \o Says(l)
    BY <1>3, <2>1, SaidAppend DEF IInv, TypeOK
  <2> QED BY <1>1, <1>2, <1>3, <2>1, <2>2 DEF RoundInv
<1>4. CASE pc' = "end" /\ UNCHANGED input
  <2>1. Said' = Said
    BY <1>4 DEF Said
  <2> QED BY <1>1, <1>2, <1>4, <2>1 DEF RoundInv
<1> QED BY <1>3, <1>4 DEF GetLine

LEMMA DecodeRound == ASSUME IInv, RoundInv, DecodeLn PROVE RoundInv'
<1>1. CASE pc' = "done"
  BY <1>1, RefusedRound DEF DecodeLn, Fail
<1>2. CASE pc' = "process"
  <2>1. Built' = Built /\ Said' = Said /\ ln' = ln
    BY DEF DecodeLn, Built, Pending, Finished, Said
  <2> QED BY <1>2, <2>1 DEF DecodeLn, RoundInv
<1> QED BY <1>1, <1>2 DEF DecodeLn, Fail

LEMMA CommentRound == ASSUME IInv, RoundInv, Comment PROVE RoundInv'
<1>1. Built' = Built /\ Said' = Said /\ pc' = "read"
  BY DEF Comment, Process, Built, Pending, Finished, Said
<1>2. Said = Built \o <<>>
  BY DEF Comment, Process, RoundInv, Says
<1>3. Built \o <<>> = Built
  BY RoundTypes DEF IInv
<1> QED BY <1>1, <1>2, <1>3 DEF RoundInv

LEMMA StartEventRound == ASSUME IInv, RoundInv, StartEvent PROVE RoundInv'
<1>0. pc = "process" /\ Said = Built \o <<<<"e">>>>
  BY DEF StartEvent, Process, RoundInv, Says
<1>1. CASE pc' = "done"
  BY <1>1, RefusedRound DEF StartEvent, Process, Fail
<1>2. CASE event = None /\ pc' = "new"
  <2>1. Built = Lines(given)
    BY <1>2, RoundTypes DEF Built, Pending, IInv
  <2>2. Said' = Said /\ Lines(given)' = Lines(given)
    BY DEF StartEvent, Process, Said
  <2> QED BY <1>0, <1>2, <2>1, <2>2 DEF RoundInv
<1>3. CASE event # None /\ event' = Finished /\ field' = None /\ pc' = "deliver"
  <2>1. Finished # None
    BY <1>3, FinishedType, IntDecAssumption DEF IInv
  <2>2. Pending' = Pending
    BY <1>3, <2>1 DEF Pending, Finished
  <2>3. Said' = Said /\ Built' = Built
    BY <2>2 DEF StartEvent, Process, Said, Built
  <2> QED BY <1>0, <1>3, <2>3 DEF RoundInv
<1> QED BY <1>1, <1>2, <1>3 DEF StartEvent, Fail

LEMMA DeliverRound == ASSUME IInv, RoundInv, Deliver PROVE RoundInv'
<1>1. event # None /\ field = None /\ event \in Seq(FieldRec) /\ given \in Seq(Seq(FieldRec))
  BY DEF Deliver, IInv, FieldInEvent, TypeOK
<1>2. Built = Lines(given) \o EventLines(event)
  BY <1>1 DEF Built, Pending, Finished
<1>3. Lines(given)' = Built
  BY <1>1, <1>2, LinesAppend DEF Deliver
<1>4. Said' = Lines(given)' \o <<<<"e">>>>
  BY <1>3 DEF Deliver, RoundInv, Said
<1>5. IsPrefix(Lines(given)', Said')
  <2>1. <<<<"e">>>> \in Seq(Saying) /\ Lines(given)' \in Seq(Saying)
    BY <1>3, RoundTypes DEF IInv, Saying
  <2> QED BY <1>4, <2>1, ConcatPrefix
<1>6. pc' = "new" \/ (pc' = "done" /\ r' = "cbfail")
  <2>1. (pc' = "new" /\ UNCHANGED <<r, errMsg>>) \/ Fail("cbfail")
    BY Zenon DEF Deliver
  <2> QED BY <2>1 DEF Fail
<1> QED BY <1>4, <1>5, <1>6 DEF RoundInv

LEMMA NewEventRound == ASSUME IInv, RoundInv, NewEvent PROVE RoundInv'
<1>1. CASE pc' = "done"
  BY <1>1, RefusedRound DEF NewEvent, Fail
<1>2. CASE event' = <<>> /\ pc' = "read"
  <2>1. field' = None /\ event' # None
    BY <1>2, IntDecAssumption, EmptySeq DEF NewEvent, IInv, FieldInEvent
  <2>2. Pending' = <<<<"e">>>>
    BY <1>2, <2>1, EventLinesOne DEF Pending, Finished
  <2>3. Said' = Said /\ Built' = Lines(given) \o <<<<"e">>>>
    BY <2>2 DEF NewEvent, Said, Built
  <2> QED BY <1>2, <2>3 DEF NewEvent, RoundInv
<1> QED BY <1>1, <1>2 DEF NewEvent, Fail

\* What is pending grows by what the line says.
LEMMA PendingGrows ==
  ASSUME IInv, RoundInv, pc = "process", pc' = "read", given' = given, input' = input,
         Says(ln) \in Seq(Saying), Pending' = Pending \o Says(ln)
  PROVE  RoundInv'
<1>1. Said' = Said /\ Said = (Lines(given) \o Pending) \o Says(ln)
  BY DEF Said, RoundInv, Built
<1>2. Built' = Lines(given) \o (Pending \o Says(ln))
  BY DEF Built
<1>3. Lines(given) \in Seq(Saying) /\ Pending \in Seq(Saying)
  BY RoundTypes DEF IInv
<1>4. (Lines(given) \o Pending) \o Says(ln) = Lines(given) \o (Pending \o Says(ln))
  BY <1>3, ConcatAssociative
<1>5. Built' = Said'
  BY <1>1, <1>2, <1>4
<1> QED BY <1>5 DEF RoundInv

LEMMA StartFieldRound == ASSUME IInv, RoundInv, StartField PROVE RoundInv'
<1>1. CASE pc' = "done"
  BY <1>1, RefusedRound DEF StartField, Process, Fail
<1>2. CASE /\ event # None /\ event' = Finished /\ pc' = "read"
           /\ field' = [name |-> ln.text, vals |-> <<>>]
  <2>1. ln \in Line /\ ln.text \in Text /\ ln.typ = "f"
    BY DEF IInv, LineOK, StartField, Process, Line
  <2>2. field' \in FieldRec /\ Finished \in Seq(FieldRec)
    BY <1>2, <2>1, EmptySeq, FinishedType DEF FieldRec, IInv
  <2>3. Finished' = Append(Finished, field') /\ event' # None
    BY <1>2, <2>2, IntDecAssumption DEF Finished
  <2>4. FieldLines(field') = Says(ln)
    <3>1. field'.name = ln.text /\ field'.vals = <<>>
      BY <1>2
    <3>2. [k \in 1..Len(<<>>) |-> <<"v", <<>>[k]>>] = <<>>
      OBVIOUS
    <3>3. <<<<"f", ln.text>>>> \o <<>> = <<<<"f", ln.text>>>>
      OBVIOUS
    <3> QED BY <2>1, <3>1, <3>2, <3>3 DEF FieldLines, Says
  <2>5. PICK f \in FieldRec : f = field'
    BY <2>2
  <2>6. EventLines(Append(Finished, f)) = EventLines(Finished) \o FieldLines(f)
    BY <2>2, EventLinesAppend
  <2>7. Pending' = Pending \o Says(ln)
    BY <1>2, <2>3, <2>4, <2>5, <2>6 DEF Pending
  <2>8. Says(ln) \in Seq(Saying)
    BY <2>1, SaysType
  <2> QED BY <1>2, <2>7, <2>8, PendingGrows DEF StartField, Process
<1> QED BY <1>1, <1>2 DEF StartField, Fail

LEMMA AddValueRound == ASSUME IInv, RoundInv, AddValue PROVE RoundInv'
<1>1. CASE pc' = "done"
  BY <1>1, RefusedRound DEF AddValue, Process, Fail
<1>2. CASE /\ field # None /\ pc' = "read"
           /\ field' = [field EXCEPT !.vals = Append(@, ln.text)]
  <2>1. ln \in Line /\ ln.text \in Text /\ ln.typ = "v"
    BY DEF IInv, LineOK, AddValue, Process, Line
  <2>2. event # None /\ event \in Seq(FieldRec) /\ field \in FieldRec /\ event' = event
    BY <1>2 DEF IInv, TypeOK, FieldInEvent, AddValue
  <2>3. field = [name |-> field.name, vals |-> field.vals] /\ field.name \in Text
        /\ field.vals \in Seq(Text)
    BY <2>2 DEF FieldRec
  <2>4. PICK f : f = [name |-> field.name, vals |-> Append(field.vals, ln.text)]
    OBVIOUS
  <2>5. field' = f /\ f \in FieldRec
    <3>1. Append(field.vals, ln.text) \in Seq(Text)
      BY <2>1, <2>3, AppendProperties
    <3>2. f \in FieldRec
      BY <2>3, <2>4, <3>1 DEF FieldRec
    <3>3. field' = [name |-> field.name, vals |-> Append(field.vals, ln.text)]
      <4> DEFINE n == field.name
                 v == field.vals
      <4>1. field = [name |-> n, vals |-> v]
        BY <2>3
      <4> HIDE DEF n, v
      <4>2. field' = [field EXCEPT !.vals = Append(field.vals, ln.text)]
        BY <1>2
      <4>3. field' = [name |-> n, vals |-> Append(field.vals, ln.text)]
        BY <4>1, <4>2
      <4> QED BY <4>3 DEF n
    <3> QED BY <2>4, <3>2, <3>3
  <2>6. FieldLines(f) = FieldLines(field) \o Says(ln)
    <3>1. Says(ln) = <<<<"v", ln.text>>>>
      BY <2>1 DEF Says
    <3> DEFINE n == field.name
               v == field.vals
    <3>2. field = [name |-> n, vals |-> v] /\ f = [name |-> n, vals |-> Append(v, ln.text)]
      BY <2>3, <2>4
    <3>3. n \in Text /\ v \in Seq(Text)
      BY <2>3
    <3> HIDE DEF n, v
    <3>4. FieldLines([name |-> n, vals |-> Append(v, ln.text)])
            = FieldLines([name |-> n, vals |-> v]) \o <<<<"v", ln.text>>>>
      BY <2>1, <3>3, FieldLinesAppend
    <3> QED BY <3>1, <3>2, <3>4, Zenon
  <2>7. Says(ln) \in Seq(Saying) /\ FieldLines(field) \in Seq(Saying)
        /\ EventLines(event) \in Seq(Saying)
    BY <2>1, <2>2, SaysType, FieldLinesType, EventLinesAppend
  <2>8. Pending = EventLines(event) \o FieldLines(field)
    BY <1>2, <2>2, EventLinesAppend DEF Pending, Finished
  <2>9. Pending' = EventLines(event) \o FieldLines(f)
    <3>1. field' # None
      BY <2>5, IntDecAssumption
    <3> QED BY <2>2, <2>5, <3>1, EventLinesAppend DEF Pending, Finished
  <2>10. Pending' = Pending \o Says(ln)
    BY <2>6, <2>7, <2>8, <2>9, ConcatAssociative
  <2> QED BY <1>2, <2>7, <2>10, PendingGrows DEF AddValue, Process
<1> QED BY <1>1, <1>2 DEF AddValue, Fail

LEMMA EndRound == ASSUME IInv, RoundInv, EndOfInput PROVE RoundInv'
<1>0. Said' = Said /\ Said = Built /\ Lines(given)' = Lines(given)
  BY DEF EndOfInput, RoundInv, Said
<1>1. CASE event = None /\ pc' = "done"
  <2>1. Built = Lines(given)
    BY <1>1, RoundTypes DEF Built, Pending, IInv
  <2> QED BY <1>0, <1>1, <2>1, GivenIsPrefix DEF RoundInv
<1>2. CASE r' = "nomem" /\ pc' = "done"
  BY <1>2, RefusedRound DEF EndOfInput
<1>3. CASE event # None /\ event' = Finished /\ field' = None /\ pc' = "final"
  <2>1. Finished # None
    BY <1>3, FinishedType, IntDecAssumption DEF IInv
  <2>2. Pending' = Pending
    BY <1>3, <2>1 DEF Pending, Finished
  <2> QED BY <1>0, <1>3, <2>2 DEF RoundInv, Built
<1> QED BY <1>1, <1>2, <1>3 DEF EndOfInput

LEMMA DeliverLastRound == ASSUME IInv, RoundInv, DeliverLast PROVE RoundInv'
<1>1. event # None /\ field = None /\ event \in Seq(FieldRec) /\ given \in Seq(Seq(FieldRec))
  BY DEF DeliverLast, IInv, FieldInEvent, TypeOK
<1>2. Built = Lines(given) \o EventLines(event)
  BY <1>1 DEF Built, Pending, Finished
<1>3. Lines(given)' = Built
  BY <1>1, <1>2, LinesAppend DEF DeliverLast
<1>4. Said' = Lines(given)' /\ Said' \in Seq(Saying)
  BY <1>3, RoundTypes DEF DeliverLast, RoundInv, Said, IInv
<1>5. IsPrefix(Lines(given)', Said')
  <2>1. <<>> \in Seq(Saying) /\ Said' \o <<>> = Said'
    BY <1>4
  <2> QED BY <1>4, <2>1, ConcatPrefix
<1> QED BY <1>4, <1>5 DEF DeliverLast, RoundInv

LEMMA RoundStep == ASSUME IInv, RoundInv, [Next]_vars PROVE RoundInv'
<1>1. CASE UNCHANGED vars
  BY <1>1 DEF vars, RoundInv, Built, Pending, Finished, Said
<1> QED BY <1>1, GetLineRound, DecodeRound, CommentRound, StartEventRound, DeliverRound,
           NewEventRound, StartFieldRound, AddValueRound, EndRound, DeliverLastRound DEF Next

(* Whatever the input, the events handed over, written out as lines again, *)
(* are an initial part of it, between two lines only the event under       *)
(* construction is missing, and after a return of 0 nothing is             *)
(* (int_dec.c:59-192).                                                     *)
THEOREM RoundTripCorrect == Spec => []RoundTrip
<1>1. Init => RoundInv
  BY DEF Init, RoundInv
<1>2. IInv /\ RoundInv => RoundTrip
  <2> SUFFICES ASSUME IInv, RoundInv PROVE RoundTrip
    OBVIOUS
  <2> QED BY GivenIsPrefix DEF RoundInv, RoundTrip, Built, Pending
<1>3. IInv /\ RoundInv /\ [Next]_vars => RoundInv'
  BY RoundStep
<1> QED BY <1>1, <1>2, <1>3, Invariance, PTL DEF Spec
=============================================================================
