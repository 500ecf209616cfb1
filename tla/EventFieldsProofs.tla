------------------------- MODULE EventFieldsProofs -------------------------
(***************************************************************************)
(* Theorems about EventFields for every set of events, fields, values and  *)
(* names: unless the error cleanup misused the heap, each field and value  *)
(* has one owner, so that deleting an event frees nothing twice, and an    *)
(* event's fields keep their order.                                        *)
(***************************************************************************)
EXTENDS EventFields, TLAPS

----------------------------------------------------------------------------
(* Fields and their places.                                                *)

\* FieldsOnce and ValuesOnce are the two halves of OwnedOnce.
Apart == \A d, e \in Event : \A i \in 1..Len(FieldsOf(d)), j \in 1..Len(FieldsOf(e)) :
            FieldsOf(d)[i] = FieldsOf(e)[j] => d = e /\ i = j

FieldsOnce == /\ Apart
              /\ mineF \cap InEvents = {} /\ liveF = mineF \cup InEvents

ValuesOnce == /\ \A f \in liveF : IsInjective(fvals[f])
              /\ \A f, g \in liveF : f # g => Vals(f) \cap Vals(g) = {}
              /\ mineV \cap InFields = {} /\ lost \cap (mineV \cup InFields) = {}
              /\ liveV = mineV \cup InFields \cup lost

LEMMA OwnedOnceIs == OwnedOnce <=> (~fault => FieldsOnce /\ ValuesOnce)
<1>1. Apart <=> \A p, q \in Places : FieldAt(p) = FieldAt(q) => p = q
  <2>1. ASSUME Apart, NEW p \in Places, NEW q \in Places, FieldAt(p) = FieldAt(q) PROVE p = q
    <3>1. PICK d \in Event : \E i \in 1..Len(FieldsOf(d)) : p = <<d, i>>
      BY DEF Places
    <3>2. PICK i \in 1..Len(FieldsOf(d)) : p = <<d, i>>
      BY <3>1
    <3>3. PICK e \in Event : \E j \in 1..Len(FieldsOf(e)) : q = <<e, j>>
      BY DEF Places
    <3>4. PICK j \in 1..Len(FieldsOf(e)) : q = <<e, j>>
      BY <3>3
    <3>5. FieldsOf(d)[i] = FieldsOf(e)[j]
      BY <2>1, <3>2, <3>4 DEF FieldAt
    <3> QED BY <2>1, <3>2, <3>4, <3>5 DEF Apart
  <2>2. ASSUME \A p, q \in Places : FieldAt(p) = FieldAt(q) => p = q,
               NEW d \in Event, NEW e \in Event,
               NEW i \in 1..Len(FieldsOf(d)), NEW j \in 1..Len(FieldsOf(e)),
               FieldsOf(d)[i] = FieldsOf(e)[j]
        PROVE  d = e /\ i = j
    <3>1. <<d, i>> \in Places /\ <<e, j>> \in Places
      BY DEF Places
    <3>2. FieldAt(<<d, i>>) = FieldAt(<<e, j>>)
      BY <2>2 DEF FieldAt
    <3>3. <<d, i>> = <<e, j>>
      BY <2>2, <3>1, <3>2
    <3> QED BY <3>3
  <2> QED BY <2>1, <2>2 DEF Apart
<1> QED BY <1>1 DEF OwnedOnce, FieldsOnce, ValuesOnce

LEMMA InEventsIs ==
  \A f : f \in InEvents <=> \E e \in Event : \E i \in 1..Len(FieldsOf(e)) : f = FieldsOf(e)[i]
<1>1. ASSUME NEW f \in InEvents
      PROVE  \E e \in Event : \E i \in 1..Len(FieldsOf(e)) : f = FieldsOf(e)[i]
  <2>1. PICK p \in Places : f = FieldAt(p)
    BY DEF InEvents
  <2>2. PICK e \in Event : \E i \in 1..Len(FieldsOf(e)) : p = <<e, i>>
    BY DEF Places
  <2>3. PICK i \in 1..Len(FieldsOf(e)) : p = <<e, i>>
    BY <2>2
  <2> QED BY <2>1, <2>3 DEF FieldAt
<1>2. ASSUME NEW e \in Event, NEW i \in 1..Len(FieldsOf(e)) PROVE FieldsOf(e)[i] \in InEvents
  <2>1. <<e, i>> \in Places /\ FieldAt(<<e, i>>) = FieldsOf(e)[i]
    BY DEF Places, FieldAt
  <2> QED BY <2>1 DEF InEvents
<1> QED BY <1>1, <1>2

\* the same of the next state
LEMMA InEventsNext ==
  \A f : f \in InEvents' <=> \E e \in Event : \E i \in 1..Len(FieldsOf(e)') : f = FieldsOf(e)'[i]
<1>1. ASSUME NEW f \in InEvents'
      PROVE  \E e \in Event : \E i \in 1..Len(FieldsOf(e)') : f = FieldsOf(e)'[i]
  <2>1. PICK p \in Places' : f = FieldAt(p)'
    BY DEF InEvents
  <2>2. PICK e \in Event : \E i \in 1..Len(FieldsOf(e)') : p = <<e, i>>
    BY DEF Places
  <2>3. PICK i \in 1..Len(FieldsOf(e)') : p = <<e, i>>
    BY <2>2
  <2> QED BY <2>1, <2>3 DEF FieldAt
<1>2. ASSUME NEW e \in Event, NEW i \in 1..Len(FieldsOf(e)') PROVE FieldsOf(e)'[i] \in InEvents'
  <2>1. <<e, i>> \in Places' /\ FieldAt(<<e, i>>)' = FieldsOf(e)'[i]
    BY DEF Places, FieldAt
  <2> QED BY <2>1 DEF InEvents
<1> QED BY <1>1, <1>2

LEMMA InFieldsIs == \A v : v \in InFields <=> \E f \in liveF : v \in Vals(f)
BY DEF InFields

LEMMA InFieldsNext == \A v : v \in InFields' <=> \E f \in liveF' : v \in Vals(f)'
BY DEF InFields

\* A value at the end of a list, and the list of one value.
LEMMA ValueAtEnd ==
  ASSUME NEW s \in Seq(Value), NEW v
  PROVE  /\ Range(Append(s, v)) = Range(s) \cup {v}
         /\ IsInjective(s) /\ v \notin Range(s) => IsInjective(Append(s, v))
<1>1. /\ Len(s) \in Nat /\ DOMAIN s = 1..Len(s) /\ DOMAIN Append(s, v) = 1..(Len(s) + 1)
      /\ \A i \in 1..Len(s) : Append(s, v)[i] = s[i]
      /\ Append(s, v)[Len(s) + 1] = v
  OBVIOUS
<1> DEFINE t == Append(s, v)
           n == Len(s)
<1> HIDE DEF t, n
<1>2. n \in Nat /\ DOMAIN s = 1..n /\ DOMAIN t = 1..(n + 1) /\ t[n + 1] = v
      /\ \A i \in 1..n : t[i] = s[i]
  BY <1>1 DEF t, n
<1>3. Range(t) = Range(s) \cup {v}
  <2>1. \A i \in 1..(n + 1) : i \in 1..n \/ i = n + 1
    BY <1>2
  <2>2. \A i \in 1..n : i \in 1..(n + 1)
    BY <1>2
  <2>3. n + 1 \in 1..(n + 1)
    BY <1>2
  <2> QED BY <1>2, <2>1, <2>2, <2>3 DEF Range
<1>4. ASSUME IsInjective(s), v \notin Range(s) PROVE IsInjective(t)
  <2>1. \A i \in 1..n : s[i] # v
    BY <1>2, <1>4 DEF Range
  <2>2. \A i, j \in 1..n : s[i] = s[j] => i = j
    BY <1>2, <1>4 DEF IsInjective
  <2> QED BY <1>2, <2>1, <2>2 DEF IsInjective
<1> QED BY <1>3, <1>4 DEF t

LEMMA NoValue == Range(<<>>) = {} /\ IsInjective(<<>>)
BY DEF Range, IsInjective

LEMMA OneValue == ASSUME NEW v PROVE Range(<<v>>) = {v} /\ IsInjective(<<v>>)
<1>1. DOMAIN <<v>> = {1} /\ <<v>>[1] = v
  OBVIOUS
<1> QED BY <1>1 DEF Range, IsInjective

----------------------------------------------------------------------------
(* The inductive invariant: there is no list without an event.             *)

NoStray == \A e \in Event \ events : fields[e] = None

IInv == TypeOK /\ NoStray /\ (~fault => FieldsOnce /\ ValuesOnce)

LEMMA ListsAre ==
  ASSUME TypeOK
  PROVE  \A e \in Event : /\ FieldsOf(e) \in Seq(Field) /\ Len(FieldsOf(e)) \in Nat
                          /\ fields[e] = None => FieldsOf(e) = <<>>
                          /\ fields[e] # None => FieldsOf(e) = fields[e]
<1> SUFFICES ASSUME NEW e \in Event
             PROVE  /\ FieldsOf(e) \in Seq(Field) /\ Len(FieldsOf(e)) \in Nat
                    /\ fields[e] = None => FieldsOf(e) = <<>>
                    /\ fields[e] # None => FieldsOf(e) = fields[e]
  OBVIOUS
<1>1. fields[e] \in Seq(Field) \cup {None}
  BY DEF TypeOK
<1>2. FieldsOf(e) \in Seq(Field)
  BY <1>1 DEF FieldsOf
<1> QED BY <1>2 DEF FieldsOf

\* Lists that keep their fields keep their owners.
LEMMA ListsStay ==
  ASSUME FieldsOnce, \A e \in Event : FieldsOf(e)' = FieldsOf(e)
  PROVE  Apart' /\ InEvents' = InEvents
<1>1. Apart'
  BY DEF FieldsOnce, Apart
<1>2. \A f : f \in InEvents' <=> \E e \in Event : \E i \in 1..Len(FieldsOf(e)') : f = FieldsOf(e)'[i]
  BY InEventsNext
<1>3. \A f : f \in InEvents' <=> f \in InEvents
  BY <1>2, InEventsIs
<1> QED BY <1>1, <1>3

\* An event's bucket is made, with nothing in it.
LEMMA BucketMade ==
  ASSUME TypeOK, NEW e \in Event, fields' = [fields EXCEPT ![e] = FieldsOf(e)]
  PROVE  /\ fields' \in [Event -> Seq(Field) \cup {None}]
         /\ \A d \in Event : FieldsOf(d)' = FieldsOf(d)
<1>1. fields \in [Event -> Seq(Field) \cup {None}] /\ FieldsOf(e) \in Seq(Field)
  BY ListsAre DEF TypeOK
<1>2. fields' \in [Event -> Seq(Field) \cup {None}]
  BY <1>1
<1>3. FieldsOf(e) # None
  BY <1>1, EventFieldsAssumption
<1>4. \A d \in Event : fields'[d] = IF d = e THEN FieldsOf(e) ELSE fields[d]
  BY <1>1
<1> QED BY <1>2, <1>3, <1>4 DEF FieldsOf

\* A field is added at the end of an event's list.
LEMMA FieldAppended ==
  ASSUME TypeOK, NEW e \in Event, NEW f \in Field,
         fields' = [fields EXCEPT ![e] = Append(FieldsOf(e), f)]
  PROVE  /\ fields' \in [Event -> Seq(Field) \cup {None}]
         /\ FieldsOf(e)' = Append(FieldsOf(e), f)
         /\ \A d \in Event \ {e} : FieldsOf(d)' = FieldsOf(d)
         /\ FieldsOnce /\ f \notin InEvents => Apart' /\ InEvents' = InEvents \cup {f}
<1>1. fields \in [Event -> Seq(Field) \cup {None}] /\ Append(FieldsOf(e), f) \in Seq(Field)
  BY ListsAre DEF TypeOK
<1>2. fields' \in [Event -> Seq(Field) \cup {None}]
  BY <1>1
<1>3. Append(FieldsOf(e), f) # None
  BY <1>1, EventFieldsAssumption
<1>4. \A d \in Event : fields'[d] = IF d = e THEN Append(FieldsOf(e), f) ELSE fields[d]
  BY <1>1
<1>5. FieldsOf(e)' = Append(FieldsOf(e), f) /\ \A d \in Event \ {e} : FieldsOf(d)' = FieldsOf(d)
  BY <1>3, <1>4 DEF FieldsOf
<1>6. ASSUME FieldsOnce, f \notin InEvents PROVE Apart' /\ InEvents' = InEvents \cup {f}
  <2> DEFINE s == FieldsOf(e)
  <2>1. s \in Seq(Field) /\ Len(s) \in Nat
    BY ListsAre
  <2>2. /\ Len(FieldsOf(e)') = Len(s) + 1 /\ FieldsOf(e)'[Len(s) + 1] = f
        /\ \A i \in 1..Len(s) : FieldsOf(e)'[i] = s[i]
    BY <1>5, <2>1
  <2>3. \A d \in Event : \A i \in 1..Len(FieldsOf(d)) : FieldsOf(d)[i] # f
    BY <1>6, InEventsIs
  <2>4. \A d \in Event : Len(FieldsOf(d)) \in Nat
    BY ListsAre
  <2>5. ASSUME NEW d \in Event, NEW i \in 1..Len(FieldsOf(d)')
        PROVE  \/ i \in 1..Len(FieldsOf(d)) /\ FieldsOf(d)'[i] = FieldsOf(d)[i]
               \/ d = e /\ i = Len(s) + 1 /\ FieldsOf(d)'[i] = f
    <3>1. CASE d = e
      BY <2>1, <2>2, <2>5, <3>1
    <3>2. CASE d # e
      BY <1>5, <2>5, <3>2
    <3> QED BY <3>1, <3>2
  <2>6. ASSUME NEW d \in Event, NEW i \in 1..Len(FieldsOf(d))
        PROVE  i \in 1..Len(FieldsOf(d)') /\ FieldsOf(d)'[i] = FieldsOf(d)[i]
    <3>1. CASE d = e
      BY <2>1, <2>2, <2>6, <3>1
    <3>2. CASE d # e
      BY <1>5, <2>6, <3>2
    <3> QED BY <3>1, <3>2
  <2>7. Apart'
    <3> SUFFICES ASSUME NEW c \in Event, NEW d \in Event,
                        NEW i \in 1..Len(FieldsOf(c)'), NEW j \in 1..Len(FieldsOf(d)'),
                        FieldsOf(c)'[i] = FieldsOf(d)'[j]
                 PROVE  c = d /\ i = j
      BY DEF Apart
    <3> HIDE DEF s
    <3> QED BY <1>6, <2>3, <2>5 DEF FieldsOnce, Apart
  <2>8. \A g : g \in InEvents' <=> \E d \in Event : \E i \in 1..Len(FieldsOf(d)') : g = FieldsOf(d)'[i]
    BY InEventsNext
  <2>9. \A g : g \in InEvents' => g \in InEvents \cup {f}
    <3> HIDE DEF s
    <3> QED BY <2>5, <2>8, InEventsIs
  <2>10. \A g : g \in InEvents => g \in InEvents'
    BY <2>6, <2>8, InEventsIs
  <2>11. f \in InEvents'
    <3>1. Len(s) + 1 \in 1..Len(FieldsOf(e)')
      BY <2>1, <2>2
    <3> QED BY <2>2, <2>8, <3>1
  <2> QED BY <2>7, <2>9, <2>10, <2>11
<1> QED BY <1>2, <1>5, <1>6

\* An event's list is given up.
LEMMA ListDropped ==
  ASSUME TypeOK, NEW e \in Event, fields' = [fields EXCEPT ![e] = None]
  PROVE  /\ fields' \in [Event -> Seq(Field) \cup {None}]
         /\ \A d \in Event \ {e} : FieldsOf(d)' = FieldsOf(d)
         /\ FieldsOnce =>
              /\ Apart'
              /\ InEvents' = InEvents \ {FieldsOf(e)[k] : k \in 1..Len(FieldsOf(e))}
<1>1. fields \in [Event -> Seq(Field) \cup {None}]
  BY DEF TypeOK
<1>2. fields' \in [Event -> Seq(Field) \cup {None}]
  BY <1>1
<1>3. \A d \in Event : fields'[d] = IF d = e THEN None ELSE fields[d]
  BY <1>1
<1>4. Len(FieldsOf(e)') = 0 /\ \A d \in Event \ {e} : FieldsOf(d)' = FieldsOf(d)
  <2>1. Len(<<>>) = 0
    OBVIOUS
  <2> QED BY <1>3, <2>1 DEF FieldsOf
<1>5. ASSUME NEW d \in Event, NEW i \in 1..Len(FieldsOf(d)') PROVE d # e
  BY <1>4, <1>5
<1>6. ASSUME FieldsOnce
      PROVE  /\ Apart'
             /\ InEvents' = InEvents \ {FieldsOf(e)[k] : k \in 1..Len(FieldsOf(e))}
  <2>1. Apart'
    BY <1>4, <1>5, <1>6 DEF FieldsOnce, Apart
  <2>2. \A g : g \in InEvents' <=> \E d \in Event : \E i \in 1..Len(FieldsOf(d)') : g = FieldsOf(d)'[i]
    BY InEventsNext
  <2>3. ASSUME NEW g \in InEvents'
        PROVE  g \in InEvents /\ g \notin {FieldsOf(e)[k] : k \in 1..Len(FieldsOf(e))}
    <3>1. PICK d \in Event : \E i \in 1..Len(FieldsOf(d)') : g = FieldsOf(d)'[i]
      BY <2>2
    <3>2. PICK i \in 1..Len(FieldsOf(d)') : g = FieldsOf(d)'[i]
      BY <3>1
    <3>3. d # e /\ i \in 1..Len(FieldsOf(d)) /\ g = FieldsOf(d)[i]
      BY <1>4, <1>5, <3>2
    <3> QED BY <1>6, <3>3, InEventsIs DEF FieldsOnce, Apart
  <2>4. ASSUME NEW g \in InEvents, g \notin {FieldsOf(e)[k] : k \in 1..Len(FieldsOf(e))}
        PROVE  g \in InEvents'
    <3>1. PICK d \in Event : \E i \in 1..Len(FieldsOf(d)) : g = FieldsOf(d)[i]
      BY InEventsIs
    <3>2. PICK i \in 1..Len(FieldsOf(d)) : g = FieldsOf(d)[i]
      BY <3>1
    <3>3. d # e
      BY <2>4, <3>2
    <3> QED BY <1>4, <2>2, <3>2, <3>3
  <2> QED BY <2>1, <2>3, <2>4
<1> QED BY <1>2, <1>4, <1>6

----------------------------------------------------------------------------
(* Every call keeps the invariant and the fields of every event that lives *)
(* on, up to one more at the end.                                          *)

Kept == \A d \in events \cap events' :
          \/ FieldsOf(d)' = FieldsOf(d)
          \/ rc' = "ok" /\ \E f \in Field : FieldsOf(d)' = Append(FieldsOf(d), f)

\* Nothing but what is returned, and perhaps the fault, changes.
LEMMA NothingMoved ==
  ASSUME IInv, fault = FALSE, UNCHANGED <<objs, aux>>, fault' \in BOOLEAN,
         rc' \in {"ok", "nomem", "-1", "null"}, found' \subseteq Field
  PROVE  IInv' /\ Kept
<1> USE DEF objs, aux
<1>1. \A e \in Event : FieldsOf(e)' = FieldsOf(e)
  BY DEF FieldsOf
<1>2. TypeOK' /\ NoStray'
  BY DEF IInv, TypeOK, NoStray
<1>3. FieldsOnce /\ ValuesOnce
  BY DEF IInv
<1>4. FieldsOnce'
  BY <1>1, <1>3, ListsStay DEF FieldsOnce
<1>5. InFields' = InFields
  BY DEF InFields, Vals
<1>6. ValuesOnce'
  BY <1>3, <1>5 DEF ValuesOnce, Vals
<1> QED BY <1>1, <1>2, <1>4, <1>6 DEF IInv, Kept, TypeOK

LEMMA NoMemIInv == ASSUME IInv, fault = FALSE, NoMem PROVE IInv' /\ Kept
BY NothingMoved DEF NoMem, Returns, IInv, TypeOK

LEMMA NewEventIInv == ASSUME IInv, fault = FALSE, NewEvent PROVE IInv' /\ Kept
<1>1. CASE NoMem
  BY <1>1, NoMemIInv
<1>2. ASSUME NEW e \in Event \ events,
             events' = events \cup {e}, fields' = [fields EXCEPT ![e] = None],
             Returns("ok"), UNCHANGED <<liveF, liveV, fname, fvals, aux, fault>>
      PROVE  IInv' /\ Kept
  <2> USE DEF aux
  <2>1. TypeOK /\ NoStray /\ FieldsOnce /\ ValuesOnce
    BY DEF IInv
  <2>2. fields \in [Event -> Seq(Field) \cup {None}] /\ fields[e] = None
    BY <2>1 DEF TypeOK, NoStray
  <2>3. fields' = fields
    BY <1>2, <2>2
  <2>4. \A d \in Event : FieldsOf(d)' = FieldsOf(d)
    BY <2>3 DEF FieldsOf
  <2>5. TypeOK' /\ NoStray'
    BY <1>2, <2>1, <2>3 DEF TypeOK, NoStray, Returns
  <2>6. FieldsOnce'
    BY <1>2, <2>1, <2>4, ListsStay DEF FieldsOnce
  <2>7. InFields' = InFields
    BY <1>2 DEF InFields, Vals
  <2>8. ValuesOnce'
    BY <1>2, <2>1, <2>7 DEF ValuesOnce, Vals
  <2> QED BY <2>4, <2>5, <2>6, <2>8, <2>1 DEF IInv, Kept, TypeOK
<1> QED BY <1>1, <1>2 DEF NewEvent

LEMMA NewValueIInv == ASSUME IInv, fault = FALSE, NewValue PROVE IInv' /\ Kept
<1>1. CASE NoMem
  BY <1>1, NoMemIInv
<1>2. ASSUME NEW v \in Value \ liveV,
             liveV' = liveV \cup {v}, mineV' = mineV \cup {v}, Returns("ok"),
             UNCHANGED <<events, liveF, fields, fname, fvals, mineF, lost, fault>>
      PROVE  IInv' /\ Kept
  <2>1. TypeOK /\ NoStray /\ FieldsOnce /\ ValuesOnce
    BY DEF IInv
  <2>2. \A d \in Event : FieldsOf(d)' = FieldsOf(d)
    BY <1>2 DEF FieldsOf
  <2>3. TypeOK' /\ NoStray'
    BY <1>2, <2>1 DEF TypeOK, NoStray, Returns
  <2>4. FieldsOnce'
    BY <1>2, <2>1, <2>2, ListsStay DEF FieldsOnce
  <2>5. InFields' = InFields
    BY <1>2 DEF InFields, Vals
  <2>6. ValuesOnce'
    BY <1>2, <2>1, <2>5 DEF ValuesOnce, Vals
  <2> QED BY <2>2, <2>3, <2>4, <2>6, <2>1 DEF IInv, Kept, TypeOK
<1> QED BY <1>1, <1>2 DEF NewValue

LEMMA NewFieldIInv ==
  ASSUME IInv, fault = FALSE, NEW name \in Name, NewField(name) PROVE IInv' /\ Kept
<1>1. CASE NoMem
  BY <1>1, NoMemIInv
<1>2. ASSUME NEW f \in Field \ liveF,
             liveF' = liveF \cup {f}, mineF' = mineF \cup {f},
             fname' = [fname EXCEPT ![f] = name], fvals' = [fvals EXCEPT ![f] = <<>>],
             Returns("ok"), UNCHANGED <<events, liveV, fields, mineV, lost, fault>>
      PROVE  IInv' /\ Kept
  <2>1. TypeOK /\ NoStray /\ FieldsOnce /\ ValuesOnce
    BY DEF IInv
  <2>2. \A d \in Event : FieldsOf(d)' = FieldsOf(d)
    BY <1>2 DEF FieldsOf
  <2>3. TypeOK' /\ NoStray'
    BY <1>2, <2>1 DEF TypeOK, NoStray, Returns
  <2>4. Apart' /\ InEvents' = InEvents
    BY <2>1, <2>2, ListsStay
  <2>5. FieldsOnce'
    BY <1>2, <2>1, <2>4 DEF FieldsOnce
  <2>5a. \A g \in liveF' : fvals'[g] = IF g = f THEN <<>> ELSE fvals[g]
    BY <1>2, <2>1 DEF TypeOK
  <2>6. \A g \in liveF' : /\ Vals(g)' = IF g = f THEN {} ELSE Vals(g)
                          /\ g # f => fvals'[g] = fvals[g]
    BY <2>5a, NoValue DEF Vals
  <2>7. \A v : v \in InFields' <=> v \in InFields
    BY <1>2, <2>6, InFieldsIs, InFieldsNext
  <2>8a. \A g \in liveF' : IsInjective(fvals'[g])
    BY <1>2, <2>1, <2>5a, NoValue DEF ValuesOnce
  <2>8. ValuesOnce'
    BY <1>2, <2>1, <2>6, <2>7, <2>8a DEF ValuesOnce
  <2> QED BY <2>2, <2>3, <2>5, <2>8, <2>1 DEF IInv, Kept, TypeOK
<1> QED BY <1>1, <1>2 DEF NewField

LEMMA AddValueIInv ==
  ASSUME IInv, fault = FALSE, NEW f \in Field, NEW v \in Value, AddValueToField(f, v)
  PROVE  IInv' /\ Kept
<1>1. CASE NoMem
  BY <1>1, NoMemIInv
<1>2. ASSUME f \in mineF, v \in mineV, fvals' = [fvals EXCEPT ![f] = Append(@, v)],
             mineV' = mineV \ {v}, Returns("ok"),
             UNCHANGED <<events, liveF, liveV, fields, fname, mineF, lost, fault>>
      PROVE  IInv' /\ Kept
  <2>1. TypeOK /\ NoStray /\ FieldsOnce /\ ValuesOnce
    BY DEF IInv
  <2>2. \A d \in Event : FieldsOf(d)' = FieldsOf(d)
    BY <1>2 DEF FieldsOf
  <2>3. TypeOK' /\ NoStray'
    BY <1>2, <2>1 DEF TypeOK, NoStray, Returns
  <2>4. FieldsOnce'
    BY <1>2, <2>1, <2>2, ListsStay DEF FieldsOnce
  <2>5. f \in liveF
    BY <1>2, <2>1 DEF FieldsOnce
  <2>5a. /\ fvals[f] \in Seq(Value)
         /\ \A g \in liveF' : fvals'[g] = IF g = f THEN Append(fvals[f], v) ELSE fvals[g]
    BY <1>2, <2>1 DEF TypeOK
  <2>6. \A g \in liveF' : Vals(g)' = IF g = f THEN Vals(f) \cup {v} ELSE Vals(g)
    BY <2>5a, ValueAtEnd DEF Vals
  <2>7. \A w : w \in InFields' <=> w \in InFields \/ w = v
    BY <1>2, <2>5, <2>6, InFieldsIs, InFieldsNext
  <2>8. v \notin InFields /\ v \notin lost /\ \A g \in liveF : v \notin Vals(g)
    BY <1>2, <2>1, InFieldsIs DEF ValuesOnce
  <2>9. \A g, h \in liveF' : g # h => Vals(g)' \cap Vals(h)' = {}
    BY <1>2, <2>1, <2>6, <2>8 DEF ValuesOnce
  <2>9a. \A g \in liveF' : IsInjective(fvals'[g])
    <3>1. IsInjective(fvals[f]) /\ v \notin Range(fvals[f])
      BY <2>1, <2>5, <2>8 DEF ValuesOnce, Vals
    <3>2. IsInjective(Append(fvals[f], v))
      BY <2>5a, <3>1, ValueAtEnd
    <3> QED BY <1>2, <2>1, <2>5a, <3>2 DEF ValuesOnce
  <2>10. ValuesOnce'
    BY <1>2, <2>1, <2>7, <2>8, <2>9, <2>9a DEF ValuesOnce
  <2> QED BY <2>2, <2>3, <2>4, <2>10, <2>1 DEF IInv, Kept, TypeOK
<1> QED BY <1>1, <1>2 DEF AddValueToField

\* Deleting a list of allocated fields frees each of their values once.
LEMMA FieldsDeleted ==
  ASSUME TypeOK, ValuesOnce, NEW F, IsInjective(F), Range(F) \subseteq liveF, DeleteFields(F),
         UNCHANGED <<mineV, lost>>
  PROVE  /\ fault' = FALSE /\ liveF' = liveF \ Range(F) /\ liveV' \subseteq liveV
         /\ fvals' \in [Field -> Seq(Value)] /\ ValuesOnce'
<1> DEFINE D == Range(F)
           V == UNION {Vals(f) : f \in D}
<1>1. /\ fault' = ~FreesOnce(F) /\ liveF' = liveF \ D /\ liveV' = liveV \ V
      /\ fvals' = [f \in Field |-> IF f \in D THEN <<>> ELSE fvals[f]]
  BY DEF DeleteFields
<1>2. \A w : w \in V <=> \E f \in D : w \in Vals(f)
  OBVIOUS
<1>3. D \subseteq liveF
  OBVIOUS
<1>4. FreesOnce(F)
  BY InFieldsIs DEF FreesOnce, ValuesOnce
<1> HIDE DEF D, V
<1>5. fvals' \in [Field -> Seq(Value)]
  BY <1>1 DEF TypeOK
<1>6. \A g \in liveF' : g \in liveF /\ g \notin D /\ fvals'[g] = fvals[g] /\ Vals(g)' = Vals(g)
  BY <1>1 DEF TypeOK, Vals
<1>7. V \subseteq InFields
  BY <1>2, <1>3, InFieldsIs
<1>8. \A w : w \in InFields' <=> w \in InFields /\ w \notin V
  <2>1. ASSUME NEW w \in InFields' PROVE w \in InFields /\ w \notin V
    <3>1. PICK g \in liveF' : w \in Vals(g)'
      BY InFieldsNext
    <3>2. g \in liveF /\ g \notin D /\ w \in Vals(g)
      BY <1>6, <3>1
    <3>3. ASSUME NEW h \in D PROVE w \notin Vals(h)
      BY <1>3, <3>2 DEF ValuesOnce
    <3> QED BY <1>2, <3>2, <3>3, InFieldsIs
  <2>2. ASSUME NEW w \in InFields, w \notin V PROVE w \in InFields'
    <3>1. PICK g \in liveF : w \in Vals(g)
      BY InFieldsIs
    <3>2. g \in liveF' /\ Vals(g)' = Vals(g)
      BY <1>1, <1>2, <1>6, <2>2, <3>1
    <3> QED BY <3>1, <3>2, InFieldsNext
  <2> QED BY <2>1, <2>2
<1>9. ValuesOnce'
  BY <1>1, <1>6, <1>7, <1>8 DEF ValuesOnce
<1> QED BY <1>1, <1>4, <1>5, <1>9 DEF D

LEMMA DeleteFieldIInv ==
  ASSUME IInv, fault = FALSE, NEW f \in Field, DeleteField(f)
  PROVE  IInv' /\ Kept /\ fault' = FALSE
<1>1. TypeOK /\ NoStray /\ FieldsOnce /\ ValuesOnce /\ f \in mineF
  BY DEF IInv, DeleteField
<1>2. \A d \in Event : FieldsOf(d)' = FieldsOf(d)
  BY DEF DeleteField, FieldsOf
<1>3. Range(<<f>>) = {f} /\ IsInjective(<<f>>) /\ f \in liveF
  BY <1>1, OneValue DEF FieldsOnce
<1>4. /\ fault' = FALSE /\ liveF' = liveF \ {f} /\ liveV' \subseteq liveV
      /\ fvals' \in [Field -> Seq(Value)] /\ ValuesOnce'
  BY <1>1, <1>3, FieldsDeleted DEF DeleteField
<1>5. /\ events' = events /\ fields' = fields /\ fname' = fname /\ mineF' = mineF \ {f}
      /\ mineV' = mineV /\ lost' = lost /\ rc' = "ok" /\ found' = {}
  BY DEF DeleteField, Returns
<1>6. TypeOK' /\ NoStray'
  BY <1>1, <1>4, <1>5 DEF TypeOK, NoStray
<1>7. Apart' /\ InEvents' = InEvents
  BY <1>1, <1>2, ListsStay
<1>8. FieldsOnce'
  BY <1>1, <1>4, <1>5, <1>7 DEF FieldsOnce
<1> QED BY <1>1, <1>2, <1>4, <1>6, <1>8 DEF IInv, Kept, TypeOK

\* The event has a bucket now and nothing else changed in what is held.
LEMMA BucketKept ==
  ASSUME IInv, fault = FALSE, NEW e \in events, fields' = [fields EXCEPT ![e] = FieldsOf(e)],
         UNCHANGED <<events, liveF, fname, fvals, mineF>>
  PROVE  /\ fields' \in [Event -> Seq(Field) \cup {None}] /\ NoStray' /\ FieldsOnce'
         /\ InFields' = InFields /\ Kept
<1>1. TypeOK /\ NoStray /\ FieldsOnce /\ e \in Event
  BY DEF IInv, TypeOK
<1>2. /\ fields' \in [Event -> Seq(Field) \cup {None}]
      /\ \A d \in Event : FieldsOf(d)' = FieldsOf(d)
  BY <1>1, BucketMade
<1>3. NoStray'
  BY <1>1 DEF NoStray, TypeOK
<1>4. FieldsOnce'
  BY <1>1, <1>2, ListsStay DEF FieldsOnce
<1> QED BY <1>1, <1>2, <1>3, <1>4 DEF Kept, TypeOK, InFields, Vals

LEMMA AddFieldIInv ==
  ASSUME IInv, fault = FALSE, NEW e \in Event, NEW f \in Field, AddFieldToEvent(e, f)
  PROVE  IInv' /\ Kept
<1>1. TypeOK /\ NoStray /\ FieldsOnce /\ ValuesOnce /\ e \in events /\ f \in mineF
  BY DEF IInv, AddFieldToEvent
<1>2. CASE NoMem
  BY <1>2, NoMemIInv
<1>3. ASSUME fields' = [fields EXCEPT ![e] = FieldsOf(e)], Returns("nomem"),
             UNCHANGED <<events, liveF, liveV, fname, fvals, aux, fault>>
      PROVE  IInv' /\ Kept
  <2> USE DEF aux
  <2>1. /\ fields' \in [Event -> Seq(Field) \cup {None}] /\ NoStray' /\ FieldsOnce'
        /\ InFields' = InFields /\ Kept
    BY <1>1, <1>3, BucketKept
  <2>2. TypeOK'
    BY <1>1, <1>3, <2>1 DEF TypeOK, Returns
  <2>3. ValuesOnce'
    BY <1>1, <1>3, <2>1 DEF ValuesOnce, Vals
  <2> QED BY <2>1, <2>2, <2>3 DEF IInv
<1>4. ASSUME fields' = [fields EXCEPT ![e] = Append(FieldsOf(e), f)], mineF' = mineF \ {f},
             Returns("ok"),
             UNCHANGED <<events, liveF, liveV, fname, fvals, mineV, lost, fault>>
      PROVE  IInv' /\ Kept
  <2>1. f \notin InEvents
    BY <1>1 DEF FieldsOnce
  <2>2. /\ fields' \in [Event -> Seq(Field) \cup {None}]
        /\ FieldsOf(e)' = Append(FieldsOf(e), f)
        /\ \A d \in Event \ {e} : FieldsOf(d)' = FieldsOf(d)
        /\ Apart' /\ InEvents' = InEvents \cup {f}
    BY <1>1, <1>4, <2>1, FieldAppended
  <2>3. TypeOK' /\ NoStray'
    BY <1>1, <1>4, <2>2 DEF TypeOK, Returns, NoStray
  <2>4. FieldsOnce'
    BY <1>1, <1>4, <2>2 DEF FieldsOnce
  <2>5. InFields' = InFields
    BY <1>4 DEF InFields, Vals
  <2>6. ValuesOnce'
    BY <1>1, <1>4, <2>5 DEF ValuesOnce, Vals
  <2>7. Kept
    BY <1>1, <1>4, <2>2 DEF Kept, Returns, TypeOK
  <2> QED BY <2>3, <2>4, <2>6, <2>7 DEF IInv
<1> QED BY <1>2, <1>3, <1>4 DEF AddFieldToEvent

LEMMA MakeAndAddIInv ==
  ASSUME IInv, fault = FALSE, NEW e \in events, NEW name \in Name,
         NEW v \in Value \ liveV, NEW f \in Field \ liveF, MakeAndAdd(e, name, v, f)
  PROVE  IInv' /\ Kept
<1> USE DEF MakeAndAdd, aux
<1>1. TypeOK /\ NoStray /\ FieldsOnce /\ ValuesOnce /\ e \in Event
  BY DEF IInv, TypeOK
<1>2. f \notin InEvents /\ f \notin mineF
  BY <1>1 DEF FieldsOnce
<1>3. /\ fields' \in [Event -> Seq(Field) \cup {None}]
      /\ FieldsOf(e)' = Append(FieldsOf(e), f)
      /\ \A d \in Event \ {e} : FieldsOf(d)' = FieldsOf(d)
      /\ Apart' /\ InEvents' = InEvents \cup {f}
  BY <1>1, <1>2, FieldAppended
<1>4. TypeOK'
  BY <1>1, <1>3 DEF TypeOK, Returns
<1>5. NoStray'
  BY <1>1 DEF NoStray, TypeOK
<1>6. FieldsOnce'
  BY <1>1, <1>2, <1>3 DEF FieldsOnce
<1>6a. \A g \in liveF' : fvals'[g] = IF g = f THEN <<v>> ELSE fvals[g]
  BY <1>1 DEF TypeOK
<1>7. \A g \in liveF' : Vals(g)' = IF g = f THEN {v} ELSE Vals(g)
  <2>1. Range(<<v>>) = {v}
    BY OneValue
  <2> HIDE DEF MakeAndAdd
  <2> QED BY <1>6a, <2>1 DEF Vals
<1>8. \A w : w \in InFields' <=> w \in InFields \/ w = v
  BY <1>7, InFieldsIs, InFieldsNext
<1>9. v \notin InFields /\ v \notin lost /\ v \notin mineV /\ \A g \in liveF : v \notin Vals(g)
  BY <1>1, InFieldsIs DEF ValuesOnce
<1>10. /\ \A g, h \in liveF' : g # h => Vals(g)' \cap Vals(h)' = {}
       /\ \A g \in liveF' : IsInjective(fvals'[g])
  <2>1. \A g, h \in liveF' : g # h => Vals(g)' \cap Vals(h)' = {}
    BY <1>1, <1>7, <1>9 DEF ValuesOnce
  <2>2. \A g \in liveF' : IsInjective(fvals'[g])
    BY <1>1, <1>6a, OneValue DEF ValuesOnce
  <2> QED BY <2>1, <2>2
<1>11. ValuesOnce'
  BY <1>1, <1>8, <1>9, <1>10 DEF ValuesOnce
<1>12. Kept
  BY <1>1, <1>3 DEF Kept, Returns, TypeOK
<1> QED BY <1>4, <1>5, <1>6, <1>11, <1>12 DEF IInv

LEMMA AddStrFieldIInv ==
  ASSUME IInv, fault = FALSE, NEW e \in Event, NEW name \in Name, AddStrFieldToEvent(e, name)
  PROVE  IInv' /\ Kept
<1> USE DEF aux
<1>1. TypeOK /\ NoStray /\ FieldsOnce /\ ValuesOnce /\ e \in events
  BY DEF IInv, AddStrFieldToEvent
<1>2. CASE Returns("-1") /\ UNCHANGED <<objs, aux, fault>>
  BY <1>1, <1>2, NothingMoved DEF Returns
<1>3. ASSUME fields' = [fields EXCEPT ![e] = FieldsOf(e)], Returns("-1"),
             UNCHANGED <<events, liveF, liveV, fname, fvals, aux, fault>>
      PROVE  IInv' /\ Kept
  <2>1. /\ fields' \in [Event -> Seq(Field) \cup {None}] /\ NoStray' /\ FieldsOnce'
        /\ InFields' = InFields /\ Kept
    BY <1>1, <1>3, BucketKept
  <2>2. TypeOK' /\ ValuesOnce'
    BY <1>1, <1>3, <2>1 DEF TypeOK, Returns, ValuesOnce, Vals
  <2> QED BY <2>1, <2>2 DEF IInv
<1>4. ASSUME NEW v \in Value \ liveV, fields' = [fields EXCEPT ![e] = FieldsOf(e)],
             liveV' = liveV \cup {v}, lost' = lost \cup {v}, Returns("ok"),
             UNCHANGED <<events, liveF, fname, fvals, mineF, mineV, fault>>
      PROVE  IInv' /\ Kept
  <2>1. /\ fields' \in [Event -> Seq(Field) \cup {None}] /\ NoStray' /\ FieldsOnce'
        /\ InFields' = InFields /\ Kept
    BY <1>1, <1>4, BucketKept
  <2>2. TypeOK' /\ ValuesOnce'
    BY <1>1, <1>4, <2>1 DEF TypeOK, Returns, ValuesOnce, Vals
  <2> QED BY <2>1, <2>2 DEF IInv
<1>5. ASSUME fields' = [fields EXCEPT ![e] = FieldsOf(e)], fault' = TRUE, Returns("nomem"),
             UNCHANGED <<events, liveF, liveV, fname, fvals, aux>>
      PROVE  IInv' /\ Kept
  <2>1. /\ fields' \in [Event -> Seq(Field) \cup {None}] /\ NoStray' /\ Kept
    BY <1>1, <1>5, BucketKept
  <2>2. TypeOK'
    BY <1>1, <1>5, <2>1 DEF TypeOK, Returns
  <2> QED BY <1>5, <2>1, <2>2 DEF IInv
<1>6. ASSUME NEW v \in Value \ liveV, NEW f \in Field \ liveF, MakeAndAdd(e, name, v, f)
      PROVE  IInv' /\ Kept
  BY <1>1, <1>6, MakeAndAddIInv
<1> QED BY <1>2, <1>3, <1>4, <1>5, <1>6 DEF AddStrFieldToEvent

LEMMA GetEventFieldIInv ==
  ASSUME IInv, fault = FALSE, NEW e \in Event, NEW name \in Name, GetEventField(e, name)
  PROVE  IInv' /\ Kept
<1>1. TypeOK
  BY DEF IInv
<1>2. FieldsOf(e) \in Seq(Field) /\ Matches(e, name) \subseteq 1..Len(FieldsOf(e))
  BY <1>1, ListsAre DEF Matches
<1>3. \A i \in Matches(e, name) : FieldsOf(e)[i] \in Field
  BY <1>2
<1>4. found' \subseteq Field
  BY <1>3 DEF GetEventField
<1>5. fault' \in BOOLEAN /\ rc' \in {"ok", "nomem", "-1", "null"} /\ UNCHANGED <<objs, aux>>
  BY DEF GetEventField
<1> QED BY <1>4, <1>5, NothingMoved

LEMMA DeleteEventIInv ==
  ASSUME IInv, fault = FALSE, NEW e \in Event, DeleteEvent(e)
  PROVE  IInv' /\ Kept /\ fault' = FALSE
<1> DEFINE F == {FieldsOf(e)[k] : k \in 1..Len(FieldsOf(e))}
<1>1. TypeOK /\ NoStray /\ FieldsOnce /\ ValuesOnce /\ e \in events
  BY DEF IInv, DeleteEvent
<1>2. FieldsOf(e) \in Seq(Field)
  BY <1>1, ListsAre
<1>3. Range(FieldsOf(e)) = F /\ IsInjective(FieldsOf(e))
  <2>1. DOMAIN FieldsOf(e) = 1..Len(FieldsOf(e))
    BY <1>2
  <2> QED BY <1>1, <2>1 DEF Range, IsInjective, FieldsOnce, Apart
<1>4. F \subseteq InEvents
  BY InEventsIs
<1>5. /\ events' = events \ {e} /\ fields' = [fields EXCEPT ![e] = None] /\ rc' = "ok" /\ found' = {}
      /\ DeleteFields(FieldsOf(e)) /\ fname' = fname /\ mineF' = mineF /\ mineV' = mineV
      /\ lost' = lost
  BY DEF DeleteEvent, Returns, aux
<1>6. /\ fields' \in [Event -> Seq(Field) \cup {None}]
      /\ \A d \in Event \ {e} : FieldsOf(d)' = FieldsOf(d)
      /\ Apart' /\ InEvents' = InEvents \ F
  BY <1>1, <1>5, ListDropped
<1> HIDE DEF F
<1>7. F \subseteq liveF /\ F \cap mineF = {}
  BY <1>1, <1>4 DEF FieldsOnce
<1>8. /\ fault' = FALSE /\ liveF' = liveF \ F /\ liveV' \subseteq liveV
      /\ fvals' \in [Field -> Seq(Value)] /\ ValuesOnce'
  BY <1>1, <1>3, <1>5, <1>7, FieldsDeleted
<1>9. TypeOK' /\ NoStray'
  BY <1>1, <1>5, <1>6, <1>8 DEF TypeOK, NoStray
<1>10. FieldsOnce'
  BY <1>1, <1>5, <1>6, <1>7, <1>8 DEF FieldsOnce
<1>11. Kept
  BY <1>1, <1>5, <1>6 DEF Kept, TypeOK
<1> QED BY <1>8, <1>9, <1>10, <1>11 DEF IInv

LEMMA InitIInv == Init => IInv
<1> SUFFICES ASSUME Init PROVE IInv
  OBVIOUS
<1>1. TypeOK /\ NoStray
  <2>1. [f \in Field |-> <<>>] \in [Field -> Seq(Value)]
    OBVIOUS
  <2>2. [e \in Event |-> None] \in [Event -> Seq(Field) \cup {None}]
    OBVIOUS
  <2> QED BY <2>1, <2>2 DEF Init, TypeOK, NoStray
<1>2. \A e \in Event : FieldsOf(e) = <<>>
  BY DEF Init, FieldsOf
<1>3. Apart /\ InEvents = {}
  <2>1. Len(<<>>) = 0
    OBVIOUS
  <2> QED BY <1>2, <2>1, InEventsIs DEF Apart
<1>4. FieldsOnce
  BY <1>3 DEF Init, FieldsOnce
<1>5. InFields = {}
  BY InFieldsIs DEF Init
<1>6. ValuesOnce
  BY <1>5 DEF Init, ValuesOnce
<1> QED BY <1>1, <1>4, <1>6 DEF IInv

LEMMA CallIInv == ASSUME IInv, fault = FALSE, Call PROVE IInv' /\ Kept
BY NewEventIInv, NewValueIInv, NewFieldIInv, AddValueIInv, DeleteFieldIInv,
   AddFieldIInv, AddStrFieldIInv, GetEventFieldIInv, DeleteEventIInv DEF Call

LEMMA NextIInv == ASSUME IInv, [Next]_vars PROVE IInv'
<1>1. CASE UNCHANGED vars
  <2>1. TypeOK' /\ NoStray' /\ (FieldsOnce /\ ValuesOnce)' = (FieldsOnce /\ ValuesOnce)
    BY <1>1 DEF vars, objs, aux, IInv, TypeOK, NoStray, FieldsOnce, ValuesOnce, Apart,
                InEvents, InFields, Places, FieldAt, FieldsOf, Vals
  <2> QED BY <1>1, <2>1 DEF vars, IInv
<1>2. CASE fault = FALSE /\ Call
  BY <1>2, CallIInv
<1> QED BY <1>1, <1>2 DEF Next, IInv, TypeOK

----------------------------------------------------------------------------
(* The theorems.                                                           *)

LEMMA Invariant == Spec => []IInv
BY InitIInv, NextIInv, PTL DEF Spec

(* Every variable keeps its type, whatever calls succeed or fail           *)
(* (event.h:34, fieldbucket.h:35-46).                                      *)
THEOREM TypeCorrect == Spec => []TypeOK
<1>1. IInv => TypeOK
  BY DEF IInv
<1> QED BY <1>1, Invariant, PTL

(* Until the heap is misused every field and every value has one owner:    *)
(* the client, one place of one event, one field, or nothing at all for    *)
(* the values a failed call lost (event.c:113-158, fieldbucket.c:58-96).   *)
THEOREM Ownership == Spec => []OwnedOnce
<1>1. IInv => OwnedOnce
  BY OwnedOnceIs DEF IInv
<1> QED BY <1>1, Invariant, PTL

(* ee_deleteEvent and ee_deleteField never free twice                      *)
(* (event.c:64-73, fieldbucket.c:58-72).                                   *)
THEOREM Deleting == Spec => DeleteIsSafe
<1>1. IInv /\ [Next]_vars =>
        [\A e \in Event, f \in Field :
           DeleteEvent(e) \/ DeleteField(f) => fault' = FALSE]_vars
  <2> SUFFICES ASSUME IInv, ~UNCHANGED vars, Next, NEW e \in Event, NEW f \in Field,
                      DeleteEvent(e) \/ DeleteField(f)
               PROVE  fault' = FALSE
    OBVIOUS
  <2>1. fault = FALSE
    BY DEF Next, IInv, TypeOK
  <2> QED BY <2>1, DeleteEventIInv, DeleteFieldIInv
<1> QED BY <1>1, Invariant, PTL DEF Spec, DeleteIsSafe

(* The fields of an event that lives on keep their order; at most one is   *)
(* added, at the end, and none by a call that returns an error             *)
(* (event.c:113-158, fieldbucket.c:77-96).                                 *)
THEOREM Ordered == Spec => FieldsInOrder
<1>1. ASSUME IInv, Next, ~UNCHANGED vars, NEW e \in events \cap events'
      PROVE  /\ IsPrefix(FieldsOf(e), FieldsOf(e)')
             /\ Len(FieldsOf(e)') <= Len(FieldsOf(e)) + (IF rc' = "ok" THEN 1 ELSE 0)
  <2> DEFINE s == FieldsOf(e)
  <2>1. fault = FALSE /\ Call
    BY <1>1 DEF Next, IInv, TypeOK
  <2>2. Kept
    BY <1>1, <2>1, CallIInv
  <2>3. s \in Seq(Field) /\ Len(s) \in Nat
    BY <1>1, ListsAre DEF IInv, TypeOK
  <2>4. CASE FieldsOf(e)' = s
    BY <2>3, <2>4 DEF IsPrefix
  <2>5. ASSUME NEW f \in Field, rc' = "ok", FieldsOf(e)' = Append(s, f)
        PROVE  /\ IsPrefix(s, FieldsOf(e)')
               /\ Len(FieldsOf(e)') <= Len(s) + (IF rc' = "ok" THEN 1 ELSE 0)
    <3> HIDE DEF s
    <3>1. Len(Append(s, f)) = Len(s) + 1
      BY <2>3
    <3>2. SubSeq(s, 1, Len(s)) = SubSeq(Append(s, f), 1, Len(s))
      BY <2>3
    <3> QED BY <2>3, <2>5, <3>1, <3>2 DEF IsPrefix
  <2> QED BY <2>2, <2>4, <2>5 DEF Kept
<1>2. IInv /\ [Next]_vars =>
        [\A e \in events \cap events' :
           LET old == FieldsOf(e)
               now == FieldsOf(e)'
           IN  /\ IsPrefix(old, now)
               /\ Len(now) <= Len(old) + (IF rc' = "ok" THEN 1 ELSE 0)]_vars
  BY <1>1
<1> QED BY <1>2, Invariant, PTL DEF Spec, FieldsInOrder
=============================================================================
