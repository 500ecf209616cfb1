-------------------------- MODULE ApacheDecProofs --------------------------
(***************************************************************************)
(* Theorems about the Apache decoder: for names, lines and files of any    *)
(* length its offsets stay in their strings, its list of names is what the *)
(* name string said, the event of a line has the pieces of the line, and   *)
(* every line gives one event or the message that names it.                *)
(***************************************************************************)
EXTENDS ApacheDec, SequenceLemmas

----------------------------------------------------------------------------
(* The scans.                                                              *)

\* UpTo finds a place between where it starts and the end of the string.
LEMMA UpToPlace ==
  ASSUME NEW S, NEW s \in Seq(S), NEW o \in 0..Len(s), NEW C
  PROVE  /\ UpTo(s, o, C) \in o..Len(s)
         /\ UpTo(s, o, C) = Len(s) \/ s[UpTo(s, o, C) + 1] \in C
         /\ \A q \in o..(UpTo(s, o, C) - 1) : s[q + 1] \notin C
<1> DEFINE T == {p \in o..Len(s) : p = Len(s) \/ s[p + 1] \in C}
<1>1. Len(s) \in Nat /\ T \in SUBSET Nat /\ Len(s) \in T
  OBVIOUS
<1>2. PICK p \in T : \A q \in T : p <= q
  <2> HIDE DEF T
  <2> QED BY <1>1, Least
<1>3. p \in o..Len(s) /\ (p = Len(s) \/ s[p + 1] \in C)
  OBVIOUS
<1>4. \A q \in o..(p - 1) : s[q + 1] \notin C
  <2> SUFFICES ASSUME NEW q \in o..(p - 1), s[q + 1] \in C PROVE FALSE
    OBVIOUS
  <2>1. q \in T /\ q < p
    BY <1>1, <1>3
  <2> QED BY <1>1, <1>2, <1>3, <2>1
<1> QED BY <1>3, <1>4 DEF UpTo

\* The part of a string between two offsets is a string over the same set.
LEMMA PartType ==
  ASSUME NEW S, NEW s \in Seq(S), NEW a \in Nat, NEW b \in 0..Len(s)
  PROVE  SubSeq(s, a + 1, b) \in Seq(S)
<1>1. \A i \in (a + 1)..b : s[i] \in S
  OBVIOUS
<1> QED BY <1>1, SubSeqProperties

\* Where a piece follows, processField finds a string and stays in the line.
LEMMA PieceType ==
  ASSUME NEW s \in Seq(Char), NEW o \in 0..Len(s), Blanks(s, o) < Len(s)
  PROVE  Piece(s, o).val \in Seq(Char) /\ Piece(s, o).offs \in 0..Len(s)
<1> DEFINE b == Blanks(s, o)
<1>1. b \in 0..Len(s) /\ b + 1 \in 0..Len(s) /\ Len(s) \in Nat
  <2>1. b \in o..Len(s)
    BY UpToPlace DEF Blanks
  <2> QED BY <2>1
<1>2. Start(s, o) \in 0..Len(s)
  BY <1>1 DEF Start
<1>3. Stop(s, o) \in 0..Len(s)
  BY <1>2, UpToPlace DEF Stop
<1>4. SubSeq(s, Start(s, o) + 1, Stop(s, o)) \in Seq(Char)
  BY <1>1, <1>2, <1>3, PartType
<1>5. Text(SubSeq(s, Start(s, o) + 1, Stop(s, o))) \in Seq(Char)
  BY <1>4 DEF Text
<1>6. Past(s, Stop(s, o)) \in 0..Len(s)
  BY <1>1, <1>3 DEF Past
<1> QED BY <1>5, <1>6 DEF Piece

----------------------------------------------------------------------------
(* The inductive invariant.                                                *)

\* Between the calls, and before a line's first piece, the locals are gone;
\* the line number is counted while lines are read, and only then.
Idle ==
  /\ pc # "names" => str = <<>> /\ pos = 0 /\ had = 0
  /\ pc # "fields" => event = <<>> /\ offs = 0 /\ node = 1
  /\ pc = "names" => lnNbr = 0
  /\ pc \in {"open", "read", "line", "fields"} => lnNbr > 0

IInv == TypeOK /\ Idle /\ OneEventPerLine

\* One lemma per action that it keeps the invariant.
LEMMA InitIInv == Init => IInv
<1> SUFFICES ASSUME Init PROVE IInv
  OBVIOUS
<1>1. TypeOK
  <2>1. str = <<>> /\ ln = <<>> /\ event = <<>> /\ names = <<>>
    BY DEF Init
  <2>2. str \in Seq(NameChar) /\ ln \in Seq(Char) /\ names \in Seq(Name)
        /\ event \in Seq([name : Name, val : Seq(Char) \cup {NoStr}])
    BY <2>1
  <2>3. /\ exists \in BOOLEAN /\ pos = 0 /\ had = 0 /\ offs = 0 /\ node = 1 /\ sent = 0
        /\ lnNbr = 0 /\ errMsg = 0 /\ pc = "client" /\ r = "ok"
    BY DEF Init
  <2>4. Len(str) = 0 /\ Len(ln) = 0 /\ Len(names) = 0
    BY <2>1
  <2> QED BY <2>2, <2>3, <2>4 DEF TypeOK
<1>2. Idle /\ OneEventPerLine
  BY DEF Init, Idle, OneEventPerLine
<1> QED BY <1>1, <1>2 DEF IInv

\* What a failed processLn leaves behind.
LEMMA FailIInv ==
  ASSUME IInv, NEW code \in {"nomem", "junk", "cbfail"}, Fail(code),
         UNCHANGED <<config, namer, lnNbr>>,
         pc \in {"line", "fields"}, sent' = IF code = "cbfail" THEN sent + 1 ELSE sent
  PROVE  IInv'
<1>1. TypeOK'
  BY EmptySeq DEF IInv, TypeOK, Idle, Fail, NoEvent, config, namer
<1>2. Idle'
  BY DEF IInv, Idle, Fail, NoEvent, config, namer
<1>3. OneEventPerLine'
  BY DEF IInv, TypeOK, Idle, OneEventPerLine, Fail
<1> QED BY <1>1, <1>2, <1>3 DEF IInv

LEMMA ClientIInv == ASSUME IInv, NewApache \/ DeleteApache PROVE IInv'
<1>1. TypeOK'
  <2>1. pc = "client" /\ exists' \in BOOLEAN /\ names' = <<>>
        /\ UNCHANGED <<pc, r, namer, reader, builder, sent>>
    BY DEF NewApache, DeleteApache
  <2>2. had' = 0 /\ node' = 1 /\ names' \in Seq(Name) /\ Len(names') = 0
    BY <2>1 DEF IInv, Idle, namer, builder
  <2> QED BY <2>1, <2>2 DEF IInv, TypeOK, namer, reader, builder
<1>2. Idle' /\ OneEventPerLine'
  BY DEF IInv, Idle, OneEventPerLine, NewApache, DeleteApache, namer, reader, builder
<1> QED BY <1>1, <1>2 DEF IInv

LEMMA NameListIInv == ASSUME IInv, NEW s \in NameStr, NameList(s) PROVE IInv'
<1>1. s \in Seq(NameChar)
  BY DEF NameStr, BoundedSeq, SeqOf
<1>2. TypeOK'
  BY <1>1 DEF IInv, TypeOK, NameList, config, builder
<1>3. Idle' /\ OneEventPerLine'
  BY DEF IInv, Idle, OneEventPerLine, NameList, builder
<1> QED BY <1>2, <1>3 DEF IInv

\* the next name: not empty, without a separator, and inside the string
LEMMA NameFound ==
  ASSUME NEW s \in Seq(NameChar), NEW o \in 0..Len(s), o < Len(s)
  PROVE  /\ UpTo(s, o, {Comma}) \in o..Len(s)
         /\ SubSeq(s, o + 1, UpTo(s, o, {Comma})) \in Name
         /\ Past(s, UpTo(s, o, {Comma})) \in 0..Len(s)
<1> DEFINE e == UpTo(s, o, {Comma})
<1>1. e \in o..Len(s) /\ \A q \in o..(e - 1) : s[q + 1] \notin {Comma}
  BY UpToPlace
<1> HIDE DEF e
<1>2. Len(s) \in Nat /\ o \in Nat /\ e \in Nat
  BY <1>1
<1>3. \A i \in (o + 1)..e : s[i] \in NameChar \ {Comma}
  <2> SUFFICES ASSUME NEW i \in (o + 1)..e PROVE s[i] \in NameChar \ {Comma}
    OBVIOUS
  <2>1. i - 1 \in o..(e - 1) /\ i = (i - 1) + 1 /\ i \in 1..Len(s)
    BY <1>1, <1>2
  <2>2. s[i] \in NameChar
    BY <2>1
  <2> QED BY <1>1, <2>1, <2>2
<1>4. SubSeq(s, o + 1, e) \in Name
  BY <1>2, <1>3, SubSeqProperties DEF Name
<1>5. Past(s, e) \in 0..Len(s)
  BY <1>1, <1>2 DEF Past
<1> QED BY <1>1, <1>4, <1>5 DEF e

LEMMA NextNameIInv == ASSUME IInv, NextName PROVE IInv'
<1> DEFINE e == UpTo(str, pos, {Comma})
<1>0. pc = "names" /\ pos < Len(str) /\ UNCHANGED <<exists, reader, builder, sent>>
  BY DEF NextName
<1>1. CASE UNCHANGED names /\ \E code \in {"nomem", "empty"} : Quit(code)
  <2>1. TypeOK'
    BY <1>0, <1>1, EmptySeq DEF IInv, TypeOK, Quit, reader, builder
  <2>2. Idle' /\ OneEventPerLine'
    BY <1>0, <1>1 DEF IInv, Idle, OneEventPerLine, Quit, reader, builder
  <2> QED BY <2>1, <2>2 DEF IInv
<1>2. CASE /\ names' = Append(names, SubSeq(str, pos + 1, e))
           /\ pos' = Past(str, e)
           /\ UNCHANGED <<pc, r, str, had>>
  <2>1. SubSeq(str, pos + 1, e) \in Name /\ Past(str, e) \in 0..Len(str)
    BY <1>0, NameFound DEF IInv, TypeOK
  <2>2. names' \in Seq(Name) /\ Len(names') = Len(names) + 1
    BY <1>2, <2>1, AppendProperties DEF IInv, TypeOK
  <2> HIDE DEF e
  <2>3. TypeOK'
    BY <1>0, <1>2, <2>1, <2>2 DEF IInv, TypeOK, reader, builder
  <2>4. Idle' /\ OneEventPerLine'
    BY <1>0, <1>2 DEF IInv, Idle, OneEventPerLine, reader, builder
  <2> QED BY <2>3, <2>4 DEF IInv
<1> QED BY <1>1, <1>2 DEF NextName

LEMMA NamesDoneIInv == ASSUME IInv, NamesDone PROVE IInv'
<1>1. TypeOK'
  BY EmptySeq DEF IInv, TypeOK, NamesDone, Quit, config, reader, builder
<1>2. Idle' /\ OneEventPerLine'
  BY DEF IInv, Idle, OneEventPerLine, NamesDone, Quit, reader, builder
<1> QED BY <1>1, <1>2 DEF IInv

LEMMA DecodeIInv == ASSUME IInv, Decode PROVE IInv'
<1>1. TypeOK'
  BY DEF IInv, TypeOK, Decode, config, namer, builder
<1>2. Idle' /\ OneEventPerLine'
  BY DEF IInv, Idle, OneEventPerLine, Decode, namer, builder
<1> QED BY <1>1, <1>2 DEF IInv

LEMMA GetLineIInv == ASSUME IInv, GetLine PROVE IInv'
<1>1. lnNbr' \in Nat /\ lnNbr' > 0 /\ lnNbr' - 1 = sent /\ errMsg = 0
  BY DEF IInv, TypeOK, Idle, OneEventPerLine, GetLine
<1>2. event = <<>> /\ offs = 0 /\ node = 1 /\ str = <<>> /\ pos = 0 /\ had = 0
  BY DEF IInv, Idle, GetLine
<1>3. ln' \in Seq(Char) /\ Len(ln') \in Nat
  <2>1. ln' \in Line \/ ln' = <<>>
    BY DEF GetLine
  <2>2. Line \subseteq Seq(Char)
    <3>1. \A n \in 0..MaxLen : [1..n -> Char] \subseteq Seq(Char)
      BY ApacheAssumption
    <3>2. Line = UNION {[1..n -> Char] : n \in 0..MaxLen}
      BY Zenon DEF Line, BoundedSeq, SeqOf
    <3> QED BY <3>1, <3>2
  <2>3. ln' \in Seq(Char)
    BY <2>1, <2>2, EmptySeq, Zenon
  <2> QED BY <2>3
<1>4. UNCHANGED <<config, namer, errMsg, builder, sent>> /\ pc' \in {"line", "client"}
      /\ (pc' = "line" => r' = r) /\ (pc' = "client" => r' \in {"ok", "ioerr"})
  BY DEF GetLine
<1>5. TypeOK'
  BY <1>1, <1>2, <1>3, <1>4 DEF IInv, TypeOK, config, namer, builder
<1>6. Idle'
  BY <1>1, <1>2, <1>4 DEF Idle, namer, builder
<1>7. OneEventPerLine'
  BY <1>1, <1>4 DEF OneEventPerLine
<1> QED BY <1>5, <1>6, <1>7 DEF IInv

LEMMA NewEventIInv == ASSUME IInv, NewEvent PROVE IInv'
<1>1. CASE Fail("nomem")
  BY <1>1, FailIInv DEF NewEvent
<1>2. CASE pc' = "fields" /\ NoEvent /\ UNCHANGED <<r, errMsg, ln>>
  <2>1. TypeOK'
    BY <1>2, EmptySeq DEF IInv, TypeOK, NewEvent, NoEvent, config, namer
  <2>2. Idle' /\ OneEventPerLine'
    BY <1>2 DEF IInv, Idle, OneEventPerLine, NewEvent, namer
  <2> QED BY <2>1, <2>2 DEF IInv
<1> QED BY <1>1, <1>2 DEF NewEvent

\* A field added for the name at hand.
LEMMA FieldAdded ==
  ASSUME IInv, pc = "fields", More, NEW val \in Seq(Char) \cup {NoStr}, AddField(val),
         offs' \in 0..Len(ln), UNCHANGED <<config, namer, lnNbr, sent>>
  PROVE  IInv'
<1>1. node \in 1..Len(names) /\ Len(names) \in Nat /\ names[node] \in Name
  BY DEF IInv, TypeOK, More
<1>2. event' \in Seq([name : Name, val : Seq(Char) \cup {NoStr}])
  <2>1. [name |-> names[node], val |-> val] \in [name : Name, val : Seq(Char) \cup {NoStr}]
    BY <1>1
  <2> QED BY <2>1, AppendProperties DEF IInv, TypeOK, AddField
<1>3. node' \in 1..(Len(names) + 1)
  BY <1>1 DEF AddField
<1>4. TypeOK'
  BY <1>2, <1>3 DEF IInv, TypeOK, AddField, config, namer
<1>5. Idle' /\ OneEventPerLine'
  BY DEF IInv, Idle, OneEventPerLine, AddField, namer
<1> QED BY <1>4, <1>5 DEF IInv

LEMMA ProcessFieldIInv == ASSUME IInv, ProcessField PROVE IInv'
<1>0. pc = "fields" /\ More /\ UNCHANGED <<config, namer, lnNbr, sent>>
      /\ ln \in Seq(Char) /\ offs \in 0..Len(ln)
  BY DEF ProcessField, IInv, TypeOK
<1>1. CASE Fail("nomem") \/ Fail("junk")
  BY <1>0, <1>1, FailIInv
<1>2. CASE /\ Blanks(ln, offs) < Len(ln)
           /\ AddField(Piece(ln, offs).val) /\ offs' = Piece(ln, offs).offs
  <2>1. Piece(ln, offs).val \in Seq(Char) /\ offs' \in 0..Len(ln)
    BY <1>0, <1>2, PieceType
  <2> QED BY <1>0, <1>2, <2>1, FieldAdded
<1>3. CASE AddField(NoStr) /\ UNCHANGED offs
  BY <1>0, <1>3, FieldAdded
<1> QED BY <1>1, <1>2, <1>3 DEF ProcessField

LEMMA DeliverIInv == ASSUME IInv, Deliver PROVE IInv'
<1>1. CASE Fail("cbfail")
  BY <1>1, FailIInv DEF Deliver
<1>2. CASE pc' = "read" /\ ln' = <<>> /\ NoEvent /\ UNCHANGED <<r, errMsg>>
  <2>1. TypeOK'
    BY <1>2, EmptySeq DEF IInv, TypeOK, Deliver, NoEvent, config, namer
  <2>2. Idle'
    BY <1>2 DEF IInv, Idle, Deliver, NoEvent, namer
  <2>3. OneEventPerLine'
    BY <1>2 DEF IInv, TypeOK, Idle, OneEventPerLine, Deliver
  <2> QED BY <2>1, <2>2, <2>3 DEF IInv
<1> QED BY <1>1, <1>2 DEF Deliver

LEMMA Step == ASSUME IInv, [Next]_vars PROVE IInv'
<1>1. CASE UNCHANGED vars
  BY <1>1 DEF vars, config, namer, reader, builder, IInv, TypeOK, Idle, OneEventPerLine
<1> QED BY <1>1, ClientIInv, NameListIInv, NextNameIInv, NamesDoneIInv, DecodeIInv, GetLineIInv,
           NewEventIInv, ProcessFieldIInv, DeliverIInv DEF Next

(* The invariant holds in every state of the decoder.                      *)
THEOREM Invariance == Spec => []IInv
  BY InitIInv, Step, PTL DEF Spec

(* The decoder's variables keep their types, and no offset passes the end  *)
(* of the name string or of the line (apache_dec.c:103-118, 140-220).      *)
THEOREM TypeCorrect == Spec => []TypeOK
<1>1. IInv => TypeOK
  BY DEF IInv
<1> QED BY <1>1, Invariance, PTL

(* Every line gives one event, or ends the call with a message that names  *)
(* it (apache_dec.c:234-254).                                              *)
THEOREM Counting == Spec => []OneEventPerLine
<1>1. IInv => OneEventPerLine
  BY DEF IInv
<1> QED BY <1>1, Invariance, PTL

----------------------------------------------------------------------------
(* The list of names.  NamesRejoin is not inductive as it stands: that the *)
(* separator is missing must only happen at the end of the name string.    *)

NamesInv ==
  /\ \A k \in 1..Len(names) : names[k] # <<>>
  /\ pc = "names" =>
       \/ SubSeq(str, 1, pos) = Joined
       \/ pos = Len(str) /\ SubSeq(str, 1, pos) = SubSeq(Joined, 1, Len(Joined) - 1)

\* one more name
LEMMA JoinedAppend ==
  ASSUME TypeOK, NEW x \in Name, names' = Append(names, x), had' = had
  PROVE  /\ Joined \in Seq(NameChar) /\ x \in Seq(NameChar)
         /\ Joined' = (Joined \o x) \o <<Comma>>
<1> DEFINE n == Len(names) - had
           m == [k \in 1..n |-> Append(names[had + k], Comma)]
           w == [k \in 1..(n + 1) |-> Append(names'[had + k], Comma)]
<1>0. names \in Seq(Name) /\ had \in 0..Len(names) /\ Len(names) \in Nat /\ had \in Nat
  BY DEF TypeOK
<1>1. n \in Nat /\ Len(names') = Len(names) + 1 /\ names'[Len(names) + 1] = x
      /\ \A k \in 1..Len(names) : names'[k] = names[k]
  BY <1>0, AppendProperties
<1>2. Name \subseteq Seq(NameChar) /\ Comma \in NameChar
  BY DEF Name, NameChar
<1>3. \A k \in 1..n : names[had + k] \in Seq(NameChar)
  BY <1>0, <1>2
<1>4. m \in Seq(Seq(NameChar))
  <2>1. \A k \in 1..n : Append(names[had + k], Comma) \in Seq(NameChar)
    BY <1>2, <1>3
  <2>2. m \in [1..n -> Seq(NameChar)]
    <3> HIDE DEF n
    <3> QED BY <2>1
  <2> HIDE DEF n, m
  <2> QED BY <1>1, <2>2
<1>5. x \in Seq(NameChar) /\ Append(x, Comma) \in Seq(NameChar)
      /\ Append(x, Comma) = x \o <<Comma>> /\ <<Comma>> \in Seq(NameChar)
  BY <1>2, AppendIsConcat
<1>6. w = Append(m, Append(x, Comma))
  <2>1. Len(m) = n /\ had + (n + 1) = Len(names) + 1
    BY <1>0, <1>1
  <2>2. \A k \in 1..(n + 1) :
           w[k] = IF k = n + 1 THEN Append(x, Comma) ELSE m[k]
    <3>1. \A k \in 1..(n + 1) : k # n + 1 => k \in 1..n /\ had + k \in 1..Len(names)
      BY <1>0, <1>1
    <3>2. \A k \in 1..n : names'[had + k] = names[had + k]
      BY <1>0, <1>1
    <3>3. names'[had + (n + 1)] = x
      BY <1>1, <2>1
    <3> HIDE DEF n
    <3> QED BY <1>1, <3>1, <3>2, <3>3
  <2>3. w = [k \in 1..(n + 1) |-> w[k]]
    OBVIOUS
  <2> HIDE DEF n, m, w
  <2> QED BY <1>1, <1>4, <1>5, <2>1, <2>2, <2>3
<1>7. Joined = FlattenSeq(m) /\ Joined' = FlattenSeq(w)
  <2>1. Len(names') - had' = n + 1
    BY <1>0, <1>1
  <2>2. Joined' = FlattenSeq([k \in 1..(Len(names') - had') |->
                                Append(names'[had' + k], Comma)])
    BY DEF Joined
  <2> QED BY <2>1, <2>2 DEF Joined
<1>8. Joined \in Seq(NameChar) /\ Joined' = Joined \o Append(x, Comma)
  <2> HIDE DEF m, w
  <2> QED BY <1>4, <1>5, <1>6, <1>7, FlattenType, FlattenAppend
<1> QED BY <1>5, <1>8, ConcatAssociative

\* What was read grows by the name, and by the separator where one follows.
LEMMA ReadOn ==
  ASSUME NEW S, NEW s \in Seq(S), NEW o \in 0..Len(s), NEW e \in (o + 1)..Len(s)
  PROVE  /\ SubSeq(s, 1, o) \o SubSeq(s, o + 1, e) = SubSeq(s, 1, e)
         /\ e < Len(s) => SubSeq(s, 1, e + 1) = SubSeq(s, 1, e) \o <<s[e + 1]>>
<1>1. Len(s) \in Nat /\ o \in Nat /\ e \in 1..Len(s)
  OBVIOUS
<1>2. SubSeq(s, 1, o) \o SubSeq(s, o + 1, e) = SubSeq(s, 1, e)
  BY <1>1, ConcatAdjacentSubSeq
<1>3. ASSUME e < Len(s) PROVE SubSeq(s, 1, e + 1) = SubSeq(s, 1, e) \o <<s[e + 1]>>
  BY <1>1, <1>3, SubSeqRecursiveSecond
<1> QED BY <1>2, <1>3

\* The front of a sequence that was appended to is the sequence.
LEMMA FrontOfConcat ==
  ASSUME NEW S, NEW s \in Seq(S), NEW x \in S
  PROVE  SubSeq(s \o <<x>>, 1, Len(s \o <<x>>) - 1) = s
  OBVIOUS

\* the next name, and a new name string
LEMMA NextNameNames == ASSUME IInv, NamesInv, NextName PROVE NamesInv'
<1> DEFINE e == UpTo(str, pos, {Comma})
           x == SubSeq(str, pos + 1, e)
<1>0. pc = "names" /\ pos < Len(str) /\ str \in Seq(NameChar) /\ pos \in 0..Len(str)
      /\ names \in Seq(Name) /\ Len(str) \in Nat
  BY DEF NextName, IInv, TypeOK
<1>1. CASE UNCHANGED names /\ pc' = "client"
  BY <1>1 DEF NamesInv
<1>2. CASE /\ e > pos /\ names' = Append(names, x) /\ pos' = Past(str, e)
           /\ UNCHANGED <<pc, r, str, had>>
  <2>1. SubSeq(str, 1, pos) = Joined
    BY <1>0 DEF NamesInv
  <2>2. e \in pos..Len(str) /\ x \in Name /\ (e = Len(str) \/ str[e + 1] = Comma)
    BY <1>0, NameFound, UpToPlace
  <2>3. e \in (pos + 1)..Len(str) /\ Len(x) = e - pos
    <3> HIDE DEF e
    <3>1. e \in (pos + 1)..Len(str)
      BY <1>0, <1>2, <2>2
    <3>2. \A i \in (pos + 1)..e : str[i] \in NameChar
      BY <1>0, <3>1
    <3> QED BY <1>0, <3>1, <3>2, SubSeqProperties
  <2> HIDE DEF e, x
  <2>4. names' \in Seq(Name) /\ \A k \in 1..Len(names') : names'[k] # <<>>
    <3>1. x # <<>>
      BY <1>0, <2>3
    <3>2. /\ Len(names') = Len(names) + 1 /\ names'[Len(names) + 1] = x /\ Len(names) \in Nat
          /\ names' \in Seq(Name) /\ \A k \in 1..Len(names) : names'[k] = names[k]
      BY <1>0, <1>2, <2>2, AppendProperties
    <3> QED BY <3>1, <3>2 DEF NamesInv
  <2>5. /\ Joined' = (Joined \o x) \o <<Comma>>
        /\ Joined \in Seq(NameChar) /\ x \in Seq(NameChar)
    BY <1>2, <2>2, JoinedAppend DEF IInv
  <2>6. SubSeq(str, 1, e) = Joined \o x
    BY <1>0, <2>1, <2>3, ReadOn DEF x
  <2>7. CASE e < Len(str)
    <3>1. pos' = e + 1 /\ SubSeq(str, 1, e + 1) = SubSeq(str, 1, e) \o <<Comma>>
      BY <1>0, <1>2, <2>2, <2>3, <2>7, ReadOn DEF Past
    <3>2. SubSeq(str', 1, pos') = Joined'
      BY <1>2, <2>5, <2>6, <3>1
    <3> QED BY <2>4, <3>2 DEF NamesInv
  <2>8. CASE e = Len(str)
    <3>1. pos' = Len(str') /\ SubSeq(str', 1, pos') = Joined \o x
      BY <1>2, <2>6, <2>8 DEF Past
    <3>2. Comma \in NameChar /\ Joined \o x \in Seq(NameChar)
      BY <2>5 DEF NameChar
    <3>3. SubSeq(Joined', 1, Len(Joined') - 1) = Joined \o x
      BY <2>5, <3>2, FrontOfConcat
    <3> QED BY <2>4, <3>1, <3>3 DEF NamesInv
  <2> QED BY <2>2, <2>7, <2>8, <1>0
<1> QED BY <1>1, <1>2 DEF NextName, Quit

LEMMA NameListNames == ASSUME IInv, NamesInv, NEW s \in NameStr, NameList(s) PROVE NamesInv'
<1>1. names' = names /\ pos' = 0 /\ had' = Len(names) /\ names \in Seq(Name)
  BY DEF NameList, config, IInv, TypeOK
<1>2. Joined' = <<>>
  <2>1. [k \in 1..(Len(names') - had') |-> Append(names'[had' + k], Comma)] = <<>>
    BY <1>1
  <2> QED BY <2>1 DEF Joined, FlattenSeq
<1>3. SubSeq(str', 1, pos') = <<>>
  BY <1>1
<1> QED BY <1>1, <1>2, <1>3 DEF NamesInv

LEMMA NamesStep == ASSUME IInv, NamesInv, [Next]_vars PROVE NamesInv'
<1>1. CASE UNCHANGED <<config, namer, pc>>
  BY <1>1 DEF NamesInv, Joined, config, namer
<1>2. CASE pc' # "names" /\ (names' = names \/ names' = <<>>)
  BY <1>2 DEF NamesInv
<1>3. ASSUME NEW s \in NameStr, NameList(s) PROVE NamesInv'
  BY <1>3, NameListNames
<1>4. CASE NextName
  BY <1>4, NextNameNames
<1>5. CASE NewApache \/ DeleteApache \/ NamesDone \/ Decode \/ GetLine \/ NewEvent
  BY <1>2, <1>5 DEF NewApache, DeleteApache, NamesDone, Quit, Decode, GetLine,
                     NewEvent, Fail, config
<1>6. CASE ProcessField \/ Deliver
  BY <1>2, <1>6 DEF ProcessField, AddField, Deliver, Fail, config
<1> QED BY <1>1, <1>3, <1>4, <1>5, <1>6 DEF Next, vars

(* Whatever the name string, the names read so far, with a separator after *)
(* each, are what was read of it, and none is empty                        *)
(* (apache_dec.c:103-118).                                                 *)
THEOREM NamesCorrect == Spec => []NamesRejoin
<1>1. Init => NamesInv
  BY DEF Init, NamesInv
<1>2. IInv /\ NamesInv /\ [Next]_vars => NamesInv'
  BY NamesStep
<1>3. NamesInv => NamesRejoin
  BY DEF NamesInv, NamesRejoin
<1> QED BY <1>1, <1>2, <1>3, Invariance, PTL DEF Spec

----------------------------------------------------------------------------
(* The event of a line.  The second reading is a function of the place in  *)
(* the line; the lemmas say that it exists, what it does across a piece as *)
(* processField finds it, and that the pieces it is done with stay.        *)

\* g is the reading of the first n characters of s.
Reads(g, s, n) ==
  g = [o \in 0..n |-> IF o = 0 THEN Between(<<>>) ELSE Read1(g[o - 1], s[o])]

\* For every length there is one, so that CHOOSE finds it.
LEMMA ReadsExist == ASSUME NEW s, NEW m \in Nat PROVE \E g : Reads(g, s, m)
<1> DEFINE T == {n \in Nat : ~\E g : Reads(g, s, n)}
<1> SUFFICES ASSUME T # {} PROVE FALSE
  OBVIOUS
<1>1. PICK n \in T : \A k \in T : n <= k
  <2> HIDE DEF T
  <2>1. T \in SUBSET Nat
    BY DEF T
  <2> QED BY <2>1, Least
<1>2. ~\E g : Reads(g, s, n)
  OBVIOUS
<1>3. n # 0
  <2> SUFFICES ASSUME n = 0 PROVE FALSE
    OBVIOUS
  <2> DEFINE g == [o \in 0..0 |-> Between(<<>>)]
  <2>1. g = [o \in 0..0 |-> IF o = 0 THEN Between(<<>>) ELSE Read1(g[o - 1], s[o])]
    OBVIOUS
  <2>2. Reads(g, s, 0)
    BY <2>1 DEF Reads
  <2> QED BY <1>2, <2>2
<1>4. n - 1 \in Nat /\ n - 1 \notin T
  BY <1>1, <1>3
<1>5. PICK g : Reads(g, s, n - 1)
  BY <1>4
<1> DEFINE h == [o \in 0..n |-> IF o = n THEN Read1(g[n - 1], s[n]) ELSE g[o]]
<1>6. \A o \in 0..n : h[o] = IF o = 0 THEN Between(<<>>) ELSE Read1(h[o - 1], s[o])
  <2> SUFFICES ASSUME NEW o \in 0..n
               PROVE  h[o] = IF o = 0 THEN Between(<<>>) ELSE Read1(h[o - 1], s[o])
    OBVIOUS
  <2>1. CASE o = n
    BY <1>3, <2>1
  <2>2. CASE o # n
    <3>1. /\ o \in 0..(n - 1) /\ h[o] = g[o]
          /\ o # 0 => o - 1 \in 0..n /\ o - 1 # n /\ h[o - 1] = g[o - 1]
      BY <2>2
    <3>2. g[o] = IF o = 0 THEN Between(<<>>) ELSE Read1(g[o - 1], s[o])
      BY <1>5, <3>1 DEF Reads
    <3> QED BY <3>1, <3>2
  <2> QED BY <2>1, <2>2
<1>7. h = [o \in 0..n |-> h[o]]
  OBVIOUS
<1>8. Reads(h, s, n)
  <2> HIDE DEF h
  <2> QED BY <1>6, <1>7 DEF Reads
<1> QED BY <1>2, <1>8

\* The reading starts between pieces and takes one character at a time.
LEMMA ReadingIs ==
  ASSUME NEW S, NEW s \in Seq(S)
  PROVE  /\ Reading(s)[0] = Between(<<>>)
         /\ \A o \in 1..Len(s) : Reading(s)[o] = Read1(Reading(s)[o - 1], s[o])
<1>1. Len(s) \in Nat
  OBVIOUS
<1> DEFINE g == CHOOSE f : f = [o \in 0..Len(s) |->
                        IF o = 0 THEN Between(<<>>) ELSE Read1(f[o - 1], s[o])]
<1>2. Reads(g, s, Len(s))
  <2>1. PICK f : Reads(f, s, Len(s))
    BY <1>1, ReadsExist
  <2> QED BY <2>1 DEF Reads
<1>3. Reading(s) = g
  BY DEF Reading
<1> HIDE DEF g
<1>4. \A o \in 0..Len(s) : g[o] = IF o = 0 THEN Between(<<>>) ELSE Read1(g[o - 1], s[o])
  BY <1>2, Zenon DEF Reads
<1> QED BY <1>1, <1>3, <1>4

\* In the blanks before a piece nothing is read.
LEMMA ReadingGap ==
  ASSUME NEW s \in Seq(Char), NEW o \in 0..Len(s), ~Reading(s)[o].within
  PROVE  Reading(s)[Blanks(s, o)] = Reading(s)[o]
<1> DEFINE b == Blanks(s, o)
           R == Reading(s)
           T == {p \in o..b : R[p] # R[o]}
<1>1. b \in o..Len(s) /\ \A q \in o..(b - 1) : s[q + 1] \notin Char \ {Blank}
  BY UpToPlace DEF Blanks
<1>2. \A q \in o..(b - 1) : s[q + 1] = Blank
  <2>1. \A q \in o..(b - 1) : q + 1 \in 1..Len(s)
    <3> HIDE DEF b
    <3> QED BY <1>1
  <2> QED BY <1>1, <2>1
<1> HIDE DEF b, R
<1> SUFFICES ASSUME T # {} PROVE FALSE
  BY <1>1 DEF R, b
<1>3. PICK p \in T : \A q \in T : p <= q
  <2>1. T \in SUBSET Nat
    BY <1>1
  <2> HIDE DEF T
  <2> QED BY <2>1, Least
<1>4. p \in o..b /\ R[p] # R[o]
  OBVIOUS
<1>5. p - 1 \in o..b /\ p - 1 \notin T /\ p - 1 \in o..(b - 1)
      /\ p \in 1..Len(s) /\ p - 1 + 1 = p
  BY <1>1, <1>3, <1>4
<1>6. R[p - 1] = R[o] /\ s[p] = Blank
  BY <1>2, <1>5
<1>7. R[p] = Read1(R[p - 1], s[p])
  BY <1>5, ReadingIs DEF R
<1>8. R[p] = R[o]
  BY <1>6, <1>7 DEF Read1, R
<1> QED BY <1>4, <1>8

\* Within a piece its characters are gathered, up to the one that ends it.
LEMMA ReadingPiece ==
  ASSUME NEW s \in Seq(Char), NEW o \in 0..Len(s), NEW e \in o..Len(s),
         NEW a \in 0..o, NEW c, NEW d,
         Reading(s)[o] = Within(c, SubSeq(s, a + 1, o), d),
         \A q \in o..(e - 1) : s[q + 1] # c
  PROVE  Reading(s)[e] = Within(c, SubSeq(s, a + 1, e), d)
<1> DEFINE R == Reading(s)
           T == {p \in o..e : R[p] # Within(c, SubSeq(s, a + 1, p), d)}
<1> SUFFICES ASSUME T # {} PROVE FALSE
  OBVIOUS
<1> HIDE DEF R
<1>3. PICK p \in T : \A q \in T : p <= q
  <2>1. T \in SUBSET Nat
    OBVIOUS
  <2> HIDE DEF T
  <2> QED BY <2>1, Least
<1>4. p \in o..e /\ R[p] # Within(c, SubSeq(s, a + 1, p), d)
  OBVIOUS
<1>5. p # o
  BY <1>4 DEF R
<1>6. p - 1 \in o..e /\ p - 1 \notin T /\ p - 1 \in o..(e - 1) /\ p \in 1..Len(s)
      /\ p - 1 + 1 = p /\ a + 1 \in 1..Len(s) /\ p \in (a + 1)..Len(s)
  BY <1>3, <1>4, <1>5
<1>7. R[p - 1] = Within(c, SubSeq(s, a + 1, p - 1), d) /\ s[p] # c
  BY <1>6
<1>8. R[p] = Read1(R[p - 1], s[p])
  BY <1>6, ReadingIs DEF R
<1>9. R[p] = Within(c, Append(SubSeq(s, a + 1, p - 1), s[p]), d)
  BY <1>7, <1>8 DEF Read1, Within
<1>10. SubSeq(s, a + 1, p) = Append(SubSeq(s, a + 1, p - 1), s[p])
  <2>1. SubSeq(s, a + 1, p) = SubSeq(s, a + 1, p - 1) \o <<s[p]>>
    BY <1>6, SubSeqRecursiveSecond
  <2>2. SubSeq(s, a + 1, p - 1) \in Seq(Char) /\ s[p] \in Char
    BY <1>6, PartType
  <2> QED BY <2>1, <2>2, AppendIsConcat
<1> QED BY <1>4, <1>9, <1>10

\* A piece as processField finds it is the next piece of the reading.
LEMMA PieceRead ==
  ASSUME NEW s \in Seq(Char), NEW o \in 0..Len(s), ~Reading(s)[o].within, Blanks(s, o) < Len(s)
  PROVE  LET p == Piece(s, o)
         IN  /\ Pieces(Reading(s)[p.offs]) = Append(Reading(s)[o].done, p.val)
             /\ ~Reading(s)[p.offs].within \/ p.offs = Len(s)
             /\ p.offs \in 0..Len(s)
<1> DEFINE b == Blanks(s, o)
           c == Closer(s[b + 1])
           a == Start(s, o)
           e == Stop(s, o)
           R == Reading(s)
<1>1. b \in o..Len(s) /\ (b = Len(s) \/ s[b + 1] \in Char \ {Blank})
  BY UpToPlace DEF Blanks
<1>2. b \in 0..Len(s) /\ b + 1 \in 1..Len(s) /\ s[b + 1] # Blank
  BY <1>1
<1>3. R[b + 1] = Read1(R[b], s[b + 1]) /\ R[b] = R[o]
  <2>1. b + 1 - 1 = b
    BY <1>2
  <2> QED BY <1>2, <2>1, ReadingGap, ReadingIs
<1>4. R[b + 1] = Within(c, IF Quote(s[b + 1]) THEN <<>> ELSE <<s[b + 1]>>, R[o].done)
  BY <1>2, <1>3 DEF Read1
<1>5. /\ a \in 0..(b + 1) /\ a \in 0..Len(s)
      /\ SubSeq(s, a + 1, b + 1) = IF Quote(s[b + 1]) THEN <<>> ELSE <<s[b + 1]>>
  <2>1. a = IF Quote(s[b + 1]) THEN b + 1 ELSE b
    BY DEF Start
  <2> HIDE DEF a, b
  <2>2. SubSeq(s, (b + 1) + 1, b + 1) = <<>>
    BY <1>2, SubSeqEmpty
  <2>3. SubSeq(s, b + 1, b + 1) = <<s[b + 1]>>
    <3>1. SubSeq(s, b + 1, b + 1) = SubSeq(s, b + 1, b + 1 - 1) \o <<s[b + 1]>>
      BY <1>2, SubSeqRecursiveSecond
    <3>2. SubSeq(s, b + 1, b + 1 - 1) = <<>>
      BY <1>2, SubSeqEmpty
    <3>3. <<>> \o <<s[b + 1]>> = <<s[b + 1]>>
      BY <1>2, ConcatEmptySeq
    <3> QED BY <3>1, <3>2, <3>3, Zenon
  <2>4. CASE Quote(s[b + 1])
    BY <1>2, <2>1, <2>2, <2>4
  <2>5. CASE ~Quote(s[b + 1])
    BY <1>2, <2>1, <2>3, <2>5
  <2> QED BY <2>4, <2>5
<1>6. e \in a..Len(s) /\ (e = Len(s) \/ s[e + 1] = c) /\ \A q \in a..(e - 1) : s[q + 1] # c
  <2>1. e = UpTo(s, a, {c})
    BY DEF Stop
  <2> HIDE DEF a, c, e
  <2> QED BY <1>5, <2>1, UpToPlace
<1>7. e \in (b + 1)..Len(s)
  <2>1. CASE Quote(s[b + 1])
    BY <1>2, <1>6, <2>1 DEF Start
  <2>2. CASE ~Quote(s[b + 1])
    <3>1. a = b /\ c = Blank
      BY <2>2 DEF Start, Closer, Quote
    <3> HIDE DEF a, b, c, e
    <3> QED BY <1>2, <1>6, <3>1
  <2> QED BY <2>1, <2>2
<1> HIDE DEF a, b, c, e, R
<1>9. R[e] = Within(c, SubSeq(s, a + 1, e), R[o].done)
  <2>1. R[b + 1] = Within(c, SubSeq(s, a + 1, b + 1), R[o].done)
    BY <1>4, <1>5
  <2>2. \A q \in (b + 1)..(e - 1) : s[q + 1] # c
    BY <1>2, <1>5, <1>6, <1>7
  <2>3. b + 1 \in 0..Len(s)
    BY <1>2
  <2>4. Reading(s)[b + 1] = Within(c, SubSeq(s, a + 1, b + 1), R[o].done)
    BY <2>1 DEF R
  <2>5. Reading(s)[e] = Within(c, SubSeq(s, a + 1, e), R[o].done)
    <3>1. a \in 0..(b + 1)
      BY <1>5
    <3>2. PICK k \in 0..Len(s) : k = b + 1
      BY <2>3
    <3>3. /\ e \in k..Len(s) /\ a \in 0..k /\ \A q \in k..(e - 1) : s[q + 1] # c
          /\ Reading(s)[k] = Within(c, SubSeq(s, a + 1, k), R[o].done)
      BY <1>7, <2>2, <2>4, <3>1, <3>2
    <3> QED BY <3>3, ReadingPiece
  <2> QED BY <2>5 DEF R
<1>10. Piece(s, o) = [val |-> Text(SubSeq(s, a + 1, e)), offs |-> Past(s, e)]
  BY DEF Piece, a, e
<1>11. CASE e = Len(s)
  <2>1. Past(s, e) = e
    BY <1>11 DEF Past
  <2>2. Pieces(R[e]) = Append(R[o].done, Text(SubSeq(s, a + 1, e)))
    BY <1>9 DEF Pieces, Within
  <2> QED BY <1>10, <1>11, <2>1, <2>2 DEF R
<1>12. CASE e < Len(s)
  <2>1. Past(s, e) = e + 1 /\ s[e + 1] = c /\ e + 1 \in 1..Len(s)
    BY <1>2, <1>6, <1>7, <1>12 DEF Past
  <2>2. R[e + 1] = Read1(R[e], c)
    <3>1. \A k \in 1..Len(s) : R[k] = Read1(R[k - 1], s[k])
      BY ReadingIs DEF R
    <3>2. PICK k \in 1..Len(s) : k = e + 1
      BY <2>1
    <3>3. R[k] = Read1(R[k - 1], s[k])
      BY <3>1
    <3>4. k - 1 = e
      BY <1>6, <3>2
    <3> QED BY <2>1, <3>2, <3>3, <3>4
  <2>3. R[e + 1] = Between(Append(R[o].done, Text(SubSeq(s, a + 1, e))))
    BY <1>9, <2>2 DEF Read1, Within
  <2>4. Pieces(R[e + 1]) = Append(R[o].done, Text(SubSeq(s, a + 1, e))) /\ ~R[e + 1].within
    BY <2>3 DEF Pieces, Between
  <2> QED BY <1>10, <2>1, <2>4 DEF R
<1> QED BY <1>6, <1>7, <1>11, <1>12

\* e begins with d.
Keeps(d, e) == Len(d) <= Len(e) /\ \A k \in 1..Len(d) : e[k] = d[k]

\* which is transitive
LEMMA KeepsAll ==
  ASSUME NEW S, NEW a \in Seq(S), NEW b \in Seq(S), NEW c \in Seq(S), Keeps(a, b), Keeps(b, c)
  PROVE  Keeps(a, c)
<1>1. Len(a) \in Nat /\ Len(b) \in Nat /\ Len(c) \in Nat /\ Len(a) <= Len(b) /\ Len(b) <= Len(c)
  BY DEF Keeps
<1>2. ASSUME NEW k \in 1..Len(a) PROVE c[k] = a[k]
  <2>1. k \in 1..Len(b)
    BY <1>1
  <2> QED BY <2>1 DEF Keeps
<1> QED BY <1>1, <1>2 DEF Keeps

\* One character adds at most one piece to those the reading is done with.
LEMMA Read1Done ==
  ASSUME NEW t, t.cur \in Seq(Char), t.done \in Seq(Seq(Char)), NEW c \in Char
  PROVE  /\ Read1(t, c).cur \in Seq(Char) /\ Read1(t, c).done \in Seq(Seq(Char))
         /\ Keeps(t.done, Read1(t, c).done)
         /\ Pieces(t) \in Seq(Seq(Char)) /\ Keeps(t.done, Pieces(t))
<1> DEFINE more == Append(t.done, Text(t.cur))
<1>1. Text(t.cur) \in Seq(Char)
  BY DEF Text
<1>2. more \in Seq(Seq(Char)) /\ Keeps(t.done, more)
  BY <1>1, AppendProperties DEF Keeps
<1>3. Keeps(t.done, t.done)
  BY DEF Keeps
<1>4. Append(t.cur, c) \in Seq(Char) /\ <<c>> \in Seq(Char) /\ <<>> \in Seq(Char)
  OBVIOUS
<1> HIDE DEF more
<1>5. CASE ~t.within /\ c = Blank
  BY <1>3, <1>5 DEF Read1, Pieces
<1>6. CASE ~t.within /\ c # Blank
  BY <1>3, <1>4, <1>6 DEF Read1, Within, Pieces
<1>7. CASE t.within /\ c = t.closer
  BY <1>2, <1>4, <1>7 DEF Read1, Between, Pieces, more
<1>8. CASE t.within /\ c # t.closer
  BY <1>2, <1>3, <1>4, <1>8 DEF Read1, Within, Pieces, more
<1> QED BY <1>5, <1>6, <1>7, <1>8

\* what the reading is done with, and what it gathers, are strings
LEMMA ReadingType ==
  ASSUME NEW s \in Seq(Char)
  PROVE  \A o \in 0..Len(s) : /\ Reading(s)[o].cur \in Seq(Char)
                              /\ Reading(s)[o].done \in Seq(Seq(Char))
<1> DEFINE R == Reading(s)
           OK(o) == R[o].cur \in Seq(Char) /\ R[o].done \in Seq(Seq(Char))
           T == {o \in 0..Len(s) : ~OK(o)}
<1> SUFFICES ASSUME T # {} PROVE FALSE
  OBVIOUS
<1>1. PICK p \in T : \A q \in T : p <= q
  <2>1. T \in SUBSET Nat
    OBVIOUS
  <2> HIDE DEF T
  <2> QED BY <2>1, Least
<1>2. p \in 0..Len(s) /\ ~OK(p) /\ Len(s) \in Nat
  OBVIOUS
<1>3. p # 0
  <2>1. OK(0)
    <3>1. R[0].cur = <<>> /\ R[0].done = <<>>
      BY ReadingIs DEF Between
    <3> QED BY <3>1
  <2> QED BY <1>2, <2>1
<1>4. p \in 1..Len(s) /\ p - 1 \in 0..Len(s) /\ OK(p - 1)
  BY <1>1, <1>2, <1>3
<1>5. R[p] = Read1(R[p - 1], s[p]) /\ s[p] \in Char
  BY <1>4, ReadingIs
<1> HIDE DEF R
<1>6. OK(p)
  BY <1>4, <1>5, Read1Done
<1> QED BY <1>2, <1>6

\* The pieces the reading is done with begin the pieces of the line.
LEMMA DoneStays ==
  ASSUME NEW s \in Seq(Char), NEW o \in 0..Len(s)
  PROVE  Keeps(Reading(s)[o].done, Tokens(s)) /\ Tokens(s) \in Seq(Seq(Char))
<1> DEFINE R == Reading(s)
           d == R[o].done
           T == {p \in o..Len(s) : ~Keeps(d, R[p].done)}
<1>1. \A p \in o..Len(s) : R[p].cur \in Seq(Char) /\ R[p].done \in Seq(Seq(Char))
  BY ReadingType
<1>2. T = {}
  <2> SUFFICES ASSUME T # {} PROVE FALSE
    OBVIOUS
  <2>1. PICK p \in T : \A q \in T : p <= q
    <3>1. T \in SUBSET Nat
      OBVIOUS
    <3> HIDE DEF T
    <3> QED BY <3>1, Least
  <2>2. p \in o..Len(s) /\ ~Keeps(d, R[p].done) /\ Len(s) \in Nat
    OBVIOUS
  <2>3. p # o
    BY <2>2 DEF Keeps
  <2>4. p \in 1..Len(s) /\ p - 1 \in o..Len(s) /\ Keeps(d, R[p - 1].done)
    BY <2>1, <2>2, <2>3
  <2>5. R[p] = Read1(R[p - 1], s[p]) /\ s[p] \in Char
    BY <2>4, ReadingIs
  <2>6. o \in o..Len(s)
    OBVIOUS
  <2> HIDE DEF R
  <2>7. Keeps(R[p - 1].done, R[p].done)
    BY <1>1, <2>4, <2>5, Read1Done
  <2>8. d \in Seq(Seq(Char)) /\ R[p - 1].done \in Seq(Seq(Char)) /\ R[p].done \in Seq(Seq(Char))
    BY <1>1, <2>2, <2>4, <2>6
  <2>9. Keeps(d, R[p].done)
    <3> HIDE DEF d
    <3> QED BY <2>4, <2>7, <2>8, KeepsAll
  <2> QED BY <2>2, <2>9
<1>3. Len(s) \in o..Len(s) /\ o \in o..Len(s)
  OBVIOUS
<1> HIDE DEF R
<1>4. Keeps(d, R[Len(s)].done)
  BY <1>2, <1>3
<1>5. /\ Keeps(R[Len(s)].done, Tokens(s)) /\ Tokens(s) \in Seq(Seq(Char))
  <2>1. Blank \in Char
    BY DEF Char
  <2> QED BY <1>1, <1>3, <2>1, Read1Done DEF Tokens, R
<1>6. d \in Seq(Seq(Char)) /\ R[Len(s)].done \in Seq(Seq(Char))
  BY <1>1, <1>3
<1> HIDE DEF d
<1>7. Keeps(d, Tokens(s))
  BY <1>4, <1>5, <1>6, SMTT(30) DEF Keeps
<1> QED BY <1>5, <1>7 DEF d, R

(* The strengthening of EventIsLine: the pieces of what was consumed are   *)
(* in the event, and values without a string follow only when nothing but  *)
(* blanks is left.                                                         *)
Got == Pieces(Reading(ln)[offs])
LineInv ==
  pc = "fields" =>
    /\ Len(event) = node - 1
    /\ ~Reading(ln)[offs].within \/ offs = Len(ln)
    /\ \A k \in 1..Len(event) :
         event[k] = [name |-> names[k], val |-> IF k <= Len(Got) THEN Got[k] ELSE NoStr]
    /\ Len(Got) <= Len(event)
    /\ Len(Got) < Len(event) => Got = Tokens(ln) /\ Blanks(ln, offs) = Len(ln)

\* it implies EventIsLine: the pieces so far stay the first of the line
LEMMA EventIsLineHolds == ASSUME IInv, LineInv PROVE EventIsLine
<1> SUFFICES ASSUME pc = "fields"
             PROVE  /\ Len(event) = node - 1
                    /\ \A k \in 1..Len(event) :
                         event[k] = [name |-> names[k],
                                     val  |-> IF k <= Len(Tokens(ln)) THEN Tokens(ln)[k]
                                              ELSE NoStr]
                    /\ ~More => Len(event) = Len(names) \/ Len(event) >= Len(Tokens(ln))
  BY DEF EventIsLine
<1>1. ln \in Seq(Char) /\ offs \in 0..Len(ln) /\ node \in 1..(Len(names) + 1)
      /\ Len(names) \in Nat
  BY DEF IInv, TypeOK
<1>2. Len(event) = node - 1
  BY DEF LineInv
<1>3. offs = Len(ln) => Got = Tokens(ln)
  BY DEF Got, Tokens
<1>4. Len(Got) \in Nat /\ Len(Tokens(ln)) \in Nat
  <2>1. /\ Reading(ln)[offs].cur \in Seq(Char)
        /\ Reading(ln)[offs].done \in Seq(Seq(Char)) /\ Blank \in Char
    BY <1>1, ReadingType DEF Char
  <2>2. Got \in Seq(Seq(Char)) /\ Tokens(ln) \in Seq(Seq(Char))
    BY <1>1, <2>1, Read1Done, DoneStays DEF Got
  <2> QED BY <2>2
<1>5. Len(Got) < Len(event) => Got = Tokens(ln)
  BY DEF LineInv
<1>6. Got # Tokens(ln) => Keeps(Got, Tokens(ln)) /\ Len(Got) = Len(event)
  <2> SUFFICES ASSUME Got # Tokens(ln) PROVE Keeps(Got, Tokens(ln)) /\ Len(Got) = Len(event)
    OBVIOUS
  <2>1. ~Reading(ln)[offs].within
    BY <1>3 DEF LineInv
  <2>2. Got = Reading(ln)[offs].done
    BY <2>1 DEF Got, Pieces
  <2>3. Keeps(Got, Tokens(ln))
    BY <1>1, <2>2, DoneStays
  <2>4. Len(Got) = Len(event)
    BY <1>1, <1>2, <1>4, <1>5 DEF LineInv
  <2> QED BY <2>3, <2>4
<1>7. ASSUME NEW k \in 1..Len(event)
      PROVE  event[k] = [name |-> names[k],
                         val  |-> IF k <= Len(Tokens(ln)) THEN Tokens(ln)[k] ELSE NoStr]
  <2>1. event[k] = [name |-> names[k], val |-> IF k <= Len(Got) THEN Got[k] ELSE NoStr]
    BY DEF LineInv
  <2>2. (IF k <= Len(Got) THEN Got[k] ELSE NoStr)
          = (IF k <= Len(Tokens(ln)) THEN Tokens(ln)[k] ELSE NoStr)
    BY <1>1, <1>2, <1>4, <1>6 DEF Keeps
  <2> QED BY <2>1, <2>2
<1>8. ~More => Len(event) = Len(names) \/ Len(event) >= Len(Tokens(ln))
  <2> SUFFICES ASSUME ~More PROVE Len(event) = Len(names) \/ Len(event) >= Len(Tokens(ln))
    OBVIOUS
  <2>1. node = Len(names) + 1 \/ offs = Len(ln)
    BY <1>1 DEF More
  <2>2. Len(Got) <= Len(event)
    BY DEF LineInv
  <2> QED BY <1>1, <1>2, <1>3, <1>4, <2>1, <2>2
<1> QED BY <1>2, <1>7, <1>8

\* the next piece, or a value without a string
LEMMA ProcessFieldLine == ASSUME IInv, LineInv, ProcessField PROVE LineInv'
<1>0. /\ pc = "fields" /\ More /\ names' = names /\ ln \in Seq(Char)
      /\ offs \in 0..(Len(ln) - 1)
      /\ offs \in 0..Len(ln) /\ Len(ln) \in Nat /\ node \in Nat /\ Len(event) = node - 1
      /\ event \in Seq([name : Name, val : Seq(Char) \cup {NoStr}])
  BY DEF ProcessField, More, IInv, TypeOK, LineInv, config
<1>1. ~Reading(ln)[offs].within /\ Got = Reading(ln)[offs].done /\ Got \in Seq(Seq(Char))
  <2>1. ~Reading(ln)[offs].within
    BY <1>0 DEF LineInv
  <2> QED BY <1>0, <2>1, ReadingType DEF Got, Pieces
<1>2. CASE pc' = "client"
  BY <1>2 DEF LineInv
<1>3. ASSUME NEW val, AddField(val)
      PROVE  /\ event' = Append(event, [name |-> names[node], val |-> val]) /\ node' = node + 1
             /\ Len(event') = node /\ Len(event') = node' - 1 /\ ln' = ln /\ pc' = pc
             /\ event'[node] = [name |-> names[node], val |-> val]
             /\ \A k \in 1..(node - 1) : event'[k] = event[k]
  <2>1. /\ event' = Append(event, [name |-> names[node], val |-> val]) /\ node' = node + 1
        /\ ln' = ln /\ pc' = pc
    BY <1>3 DEF AddField
  <2> QED BY <1>0, <2>1
<1>4. CASE /\ Blanks(ln, offs) < Len(ln)
           /\ AddField(Piece(ln, offs).val) /\ offs' = Piece(ln, offs).offs
  <2> DEFINE v == Piece(ln, offs).val
  <2>1. /\ Got' = Append(Got, v) /\ v \in Seq(Char)
        /\ ~Reading(ln')[offs'].within \/ offs' = Len(ln')
    <3>1. /\ Pieces(Reading(ln)[Piece(ln, offs).offs]) = Append(Got, v)
          /\ ~Reading(ln)[Piece(ln, offs).offs].within \/ Piece(ln, offs).offs = Len(ln)
      BY <1>0, <1>1, <1>4, PieceRead
    <3>2. v \in Seq(Char)
      BY <1>0, <1>4, PieceType
    <3>3. Got' = Pieces(Reading(ln')[offs'])
      BY DEF Got
    <3> QED BY <1>3, <1>4, <3>1, <3>2, <3>3
  <2>2. Len(Got) = Len(event)
    BY <1>0, <1>1, <1>4 DEF LineInv
  <2> HIDE DEF v
  <2>3. /\ Len(Got') = node /\ Got'[node] = v
        /\ \A k \in 1..(node - 1) : Got'[k] = Got[k]
    BY <1>0, <1>1, <2>1, <2>2, AppendProperties
  <2>4. \A k \in 1..(node - 1) : event[k] = [name |-> names[k], val |-> Got[k]]
    BY <1>0, <2>2 DEF LineInv
  <2>5. event'[node] = [name |-> names[node], val |-> v]
    BY <1>3, <1>4 DEF v
  <2>6. \A k \in 1..Len(event') :
          event'[k] = [name |-> names'[k], val |-> IF k <= Len(Got') THEN Got'[k] ELSE NoStr]
    <3> SUFFICES ASSUME NEW k \in 1..Len(event')
                 PROVE  event'[k] = [name |-> names'[k],
                                     val |-> IF k <= Len(Got') THEN Got'[k] ELSE NoStr]
      OBVIOUS
    <3>1. Len(event') = node /\ k <= Len(Got')
      <4>1. Len(event') = node
        BY <1>3, <1>4
      <4> QED BY <1>0, <2>3, <4>1
    <3>2. CASE k = node
      BY <1>0, <2>3, <2>5, <3>1, <3>2
    <3>3. CASE k # node
      <4>1. k \in 1..(node - 1)
        BY <1>0, <3>1, <3>3
      <4>2. event'[k] = event[k] /\ Got'[k] = Got[k]
        BY <1>3, <1>4, <2>3, <4>1
      <4> QED BY <1>0, <2>4, <3>1, <4>1, <4>2
    <3> QED BY <3>2, <3>3
  <2>7. Len(event') = node' - 1 /\ Len(Got') = Len(event') /\ Len(Got') \in Nat
    BY <1>0, <1>3, <1>4, <2>3
  <2> QED BY <2>1, <2>6, <2>7 DEF LineInv
<1>5. CASE Blanks(ln, offs) = Len(ln) /\ AddField(NoStr) /\ offs' = offs
  <2>1. Got' = Got
    BY <1>3, <1>5 DEF Got
  <2>2. Got = Tokens(ln)
    BY <1>0, <1>1, <1>5, ReadingGap DEF Tokens, Pieces
  <2>3. \A k \in 1..(node - 1) :
          event[k] = [name |-> names[k], val |-> IF k <= Len(Got) THEN Got[k] ELSE NoStr]
    BY <1>0 DEF LineInv
  <2>4. Len(Got) <= node - 1 /\ Len(Got) \in Nat
    BY <1>0, <1>1 DEF LineInv
  <2>5. \A k \in 1..Len(event') :
          event'[k] = [name |-> names'[k], val |-> IF k <= Len(Got') THEN Got'[k] ELSE NoStr]
    <3> SUFFICES ASSUME NEW k \in 1..Len(event')
                 PROVE  event'[k] = [name |-> names'[k],
                                     val |-> IF k <= Len(Got') THEN Got'[k] ELSE NoStr]
      OBVIOUS
    <3>1. Len(event') = node
      BY <1>3, <1>5
    <3>2. CASE k = node
      <4>1. event'[k] = [name |-> names[k], val |-> NoStr] /\ ~(k <= Len(Got))
        BY <1>0, <1>3, <1>5, <2>4, <3>2
      <4> QED BY <1>0, <2>1, <4>1
    <3>3. CASE k # node
      <4>1. k \in 1..(node - 1)
        BY <1>0, <3>1, <3>3
      <4>2. event'[k] = event[k]
        BY <1>3, <1>5, <4>1
      <4> QED BY <1>0, <2>1, <2>3, <4>1, <4>2
    <3> QED BY <3>2, <3>3
  <2>6. Len(event') = node' - 1 /\ Len(Got') < Len(event') /\ Len(Got') <= Len(event')
    <3>1. Len(event') = node /\ Len(event') = node' - 1
      BY <1>3, <1>5
    <3> QED BY <1>0, <2>1, <2>4, <3>1
  <2>7. Got' = Tokens(ln') /\ Blanks(ln', offs') = Len(ln') /\ ~Reading(ln')[offs'].within
    BY <1>1, <1>3, <1>5, <2>1, <2>2
  <2> QED BY <2>5, <2>6, <2>7 DEF LineInv
<1> QED BY <1>0, <1>2, <1>4, <1>5 DEF ProcessField, Fail

LEMMA LineStep == ASSUME IInv, LineInv, [Next]_vars PROVE LineInv'
<1>1. CASE UNCHANGED vars
  BY <1>1 DEF LineInv, Got, vars, config, reader, builder
<1>2. CASE pc' # "fields"
  BY <1>2 DEF LineInv
<1>3. CASE NewEvent
  <2>1. CASE Fail("nomem")
    BY <1>2, <2>1 DEF Fail
  <2>2. CASE NoEvent /\ UNCHANGED ln
    <3>1. event' = <<>> /\ offs' = 0 /\ node' = 1 /\ ln' \in Seq(Char)
      BY <2>2 DEF NoEvent, IInv, TypeOK
    <3>2. Reading(ln')[offs'] = Between(<<>>)
      BY <3>1, ReadingIs
    <3>3. Got' = <<>> /\ ~Reading(ln')[offs'].within
      BY <3>2 DEF Got, Pieces, Between
    <3> QED BY <3>1, <3>3 DEF LineInv
  <2> QED BY <1>3, <2>1, <2>2 DEF NewEvent
<1>4. CASE ProcessField
  BY <1>4, ProcessFieldLine
<1>5. ASSUME NEW s \in NameStr, NameList(s) PROVE LineInv'
  BY <1>2, <1>5 DEF NameList
<1>6. CASE NewApache \/ DeleteApache \/ NextName \/ NamesDone \/ Decode \/ GetLine \/ Deliver
  BY <1>2, <1>6 DEF NewApache, DeleteApache, NextName, NamesDone, Quit, Decode, GetLine,
                     Deliver, Fail
<1> QED BY <1>1, <1>3, <1>4, <1>5, <1>6 DEF Next

(* Whatever the line, its event pairs the names with the pieces of the     *)
(* line, in order and without a gap, and has all of them when it is handed *)
(* over (apache_dec.c:140-220).                                            *)
THEOREM EventCorrect == Spec => []EventIsLine
<1>1. Init => LineInv
  BY DEF Init, LineInv
<1>2. IInv /\ LineInv /\ [Next]_vars => LineInv'
  BY LineStep
<1>3. IInv /\ LineInv => EventIsLine
  BY EventIsLineHolds
<1> QED BY <1>1, <1>2, <1>3, Invariance, PTL DEF Spec
=============================================================================
