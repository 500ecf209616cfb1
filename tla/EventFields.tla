---------------------------- MODULE EventFields ----------------------------
(***************************************************************************)
(* The fields of events (event.c, fieldbucket.c): who owns each field and  *)
(* value while events are built, and what happens when memory runs out     *)
(* half way.  A field is reduced to the values it owns (module Field has   *)
(* the rest); its list and the list of a field bucket are sequences.  The  *)
(* client uses and deletes only what it holds, and names every field.      *)
(***************************************************************************)
EXTENDS Integers, Sequences, SequencesExt

CONSTANTS Event, Field, Value,   \* addresses of the objects
          Name,                  \* field names
          None                   \* an event without a field bucket

ASSUME EventFieldsAssumption == None \notin Seq(Field)

VARIABLES
  events, liveF, liveV,   \* the allocated objects
  fields,     \* event->fields: None, or the fields in the bucket's list
  fname,      \* name of each field
  fvals,      \* the list of values of each field
  mineF, mineV,           \* auxiliary: what the client holds
  lost,       \* auxiliary: values that nothing refers to any more
  fault,      \* auxiliary: a call read or freed what is not allocated
  rc, found   \* what the last call returned: code, field

objs == <<events, liveF, liveV, fields, fname, fvals>>
aux  == <<mineF, mineV, lost>>
vars == <<objs, aux, fault, rc, found>>

Init == /\ events = {} /\ liveF = {} /\ liveV = {}
        /\ fields = [e \in Event |-> None]
        /\ fname \in [Field -> Name] /\ fvals = [f \in Field |-> <<>>]
        /\ mineF = {} /\ mineV = {} /\ lost = {} /\ fault = FALSE
        /\ rc = "ok" /\ found = {}

Returns(e) == rc' = e /\ found' = {}
NoMem == Returns("nomem") /\ UNCHANGED <<objs, aux, fault>>
FieldsOf(e) == IF fields[e] = None THEN <<>> ELSE fields[e]
Vals(f) == Range(fvals[f])

----------------------------------------------------------------------------
(* The client's own objects.                                               *)

NewEvent == \/ NoMem
            \/ \E e \in Event \ events :
                 /\ events' = events \cup {e}
                 /\ fields' = [fields EXCEPT ![e] = None]
                 /\ Returns("ok")
                 /\ UNCHANGED <<liveF, liveV, fname, fvals, aux, fault>>

NewValue == \/ NoMem
            \/ \E v \in Value \ liveV :
                 /\ liveV' = liveV \cup {v} /\ mineV' = mineV \cup {v}
                 /\ Returns("ok")
                 /\ UNCHANGED <<events, liveF, fields, fname, fvals, mineF,
                                lost, fault>>

\* ee_newField and ee_nameField
NewField(name) == \/ NoMem
                  \/ \E f \in Field \ liveF :
                       /\ liveF' = liveF \cup {f} /\ mineF' = mineF \cup {f}
                       /\ fname' = [fname EXCEPT ![f] = name]
                       /\ fvals' = [fvals EXCEPT ![f] = <<>>]
                       /\ Returns("ok")
                       /\ UNCHANGED <<events, liveV, fields, mineV, lost, fault>>

AddValueToField(f, v) ==
  /\ f \in mineF /\ v \in mineV
  /\ \/ NoMem
     \/ /\ fvals' = [fvals EXCEPT ![f] = Append(@, v)]
        /\ mineV' = mineV \ {v}
        /\ Returns("ok")
        /\ UNCHANGED <<events, liveF, liveV, fields, fname, mineF, lost, fault>>

\* Every object that deleting a list of fields frees is allocated, and is
\* freed once: no field or value is in it twice.
FreesOnce(F) ==
  /\ IsInjective(F) /\ Range(F) \subseteq liveF
  /\ \A f \in Range(F) : IsInjective(fvals[f]) /\ Vals(f) \subseteq liveV
  /\ \A f, g \in Range(F) : f # g => Vals(f) \cap Vals(g) = {}

\* ee_deleteField on each field of a list
DeleteFields(F) ==
  /\ fault' = ~FreesOnce(F)
  /\ liveF' = liveF \ Range(F)
  /\ liveV' = liveV \ UNION {Vals(f) : f \in Range(F)}
  /\ fvals' = [f \in Field |-> IF f \in Range(F) THEN <<>> ELSE fvals[f]]

DeleteField(f) == /\ f \in mineF
                  /\ DeleteFields(<<f>>)
                  /\ mineF' = mineF \ {f}
                  /\ Returns("ok")
                  /\ UNCHANGED <<events, fields, fname, mineV, lost>>

----------------------------------------------------------------------------
(* Event calls.                                                            *)

\* Mutant of AddFieldToEvent: the client still holds the field it added.
AddFieldKept(e, f) ==
  /\ e \in events /\ f \in mineF
  /\ fields' = [fields EXCEPT ![e] = Append(FieldsOf(e), f)]
  /\ Returns("ok")
  /\ UNCHANGED <<events, liveF, liveV, fname, fvals, aux, fault>>

(* The bucket is made first and stays when the list node cannot be made;   *)
(* the client keeps the field unless it was added.                         *)
AddFieldToEvent(e, f) ==
  /\ e \in events /\ f \in mineF
  /\ \/ fields[e] = None /\ NoMem
     \/ /\ fields' = [fields EXCEPT ![e] = FieldsOf(e)]
        /\ Returns("nomem")
        /\ UNCHANGED <<events, liveF, liveV, fname, fvals, aux, fault>>
     \/ /\ fields' = [fields EXCEPT ![e] = Append(FieldsOf(e), f)]
        /\ mineF' = mineF \ {f}
        /\ Returns("ok")
        /\ UNCHANGED <<events, liveF, liveV, fname, fvals, mineV, lost, fault>>

\* Mutant of MakeAndAdd: a field of that name is pushed out by the new one.
MakeAndReplace(e, name, v, f) ==
  /\ fname' = [fname EXCEPT ![f] = name]
  /\ fvals' = [fvals EXCEPT ![f] = <<v>>]
  /\ liveF' = liveF \cup {f}
  /\ fields' = [fields EXCEPT ![e] =
                  Append(SelectSeq(FieldsOf(e), LAMBDA g : fname[g] # name), f)]
  /\ liveV' = liveV \cup {v}
  /\ Returns("ok")
  /\ UNCHANGED <<events, aux, fault>>

\* Mutant of MakeAndAdd: the copy of the name is not stored.
MakeUnnamed(e, name, v, f) ==
  /\ fname' = [fname EXCEPT ![f] = None]
  /\ fvals' = [fvals EXCEPT ![f] = <<v>>]
  /\ liveF' = liveF \cup {f}
  /\ fields' = [fields EXCEPT ![e] = Append(FieldsOf(e), f)]
  /\ liveV' = liveV \cup {v}
  /\ Returns("ok")
  /\ UNCHANGED <<events, aux, fault>>

MakeAndAdd(e, name, v, f) ==
  /\ fname' = [fname EXCEPT ![f] = name]
  /\ fvals' = [fvals EXCEPT ![f] = <<v>>]
  /\ liveF' = liveF \cup {f}
  /\ fields' = [fields EXCEPT ![e] = Append(FieldsOf(e), f)]
  /\ liveV' = liveV \cup {v}
  /\ Returns("ok")
  /\ UNCHANGED <<events, aux, fault>>

(* ee_addStrFieldToEvent makes the bucket, the value, the field and the    *)
(* list node.  Without memory for the field it returns the 0 that          *)
(* ee_setStrValue left in r; without memory for the node its cleanup       *)
(* deletes the value and then the field, which deletes the value again.    *)
AddStrFieldToEvent(e, name) ==
  /\ e \in events
  /\ \/ fields[e] = None /\ Returns("-1") /\ UNCHANGED <<objs, aux, fault>>
     \/ /\ fields' = [fields EXCEPT ![e] = FieldsOf(e)]
        /\ Returns("-1")
        /\ UNCHANGED <<events, liveF, liveV, fname, fvals, aux, fault>>
     \/ \E v \in Value \ liveV :
          /\ fields' = [fields EXCEPT ![e] = FieldsOf(e)]
          /\ liveV' = liveV \cup {v} /\ lost' = lost \cup {v}
          /\ Returns("ok")
          /\ UNCHANGED <<events, liveF, fname, fvals, mineF, mineV, fault>>
     \/ \E v \in Value \ liveV, f \in Field \ liveF :
          /\ fields' = [fields EXCEPT ![e] = FieldsOf(e)]
          /\ fault' = TRUE
          /\ Returns("nomem")
          /\ UNCHANGED <<events, liveF, liveV, fname, fvals, aux>>
     \/ \E v \in Value \ liveV, f \in Field \ liveF : MakeAndAdd(e, name, v, f)

\* where in the list the fields of that name are
Matches(e, name) == {i \in 1..Len(FieldsOf(e)) : fname[FieldsOf(e)[i]] = name}

(* ee_getEventField: the first field of that name, or NULL; the bucket is  *)
(* read without asking whether there is one.                               *)
GetEventField(e, name) ==
  /\ e \in events
  /\ fault' = (fields[e] = None)
  /\ LET M == Matches(e, name)
     IN  /\ found' = {FieldsOf(e)[i] : i \in {j \in M : \A k \in M : j <= k}}
         /\ rc' = IF M = {} THEN "null" ELSE "ok"
  /\ UNCHANGED <<objs, aux>>

\* Mutant of DeleteEvent: only the bucket is freed.
DeleteEventOnly(e) ==
  /\ e \in events
  /\ events' = events \ {e}
  /\ fields' = [fields EXCEPT ![e] = None]
  /\ Returns("ok")
  /\ UNCHANGED <<liveF, liveV, fname, fvals, aux, fault>>

DeleteEvent(e) ==
  /\ e \in events
  /\ events' = events \ {e}
  /\ DeleteFields(FieldsOf(e))
  /\ fields' = [fields EXCEPT ![e] = None]
  /\ Returns("ok")
  /\ UNCHANGED <<fname, aux>>

----------------------------------------------------------------------------
Call == \/ NewEvent \/ NewValue
        \/ \E name \in Name : NewField(name)
        \/ \E f \in Field, v \in Value : AddValueToField(f, v)
        \/ \E f \in Field : DeleteField(f)
        \/ \E e \in Event, f \in Field : AddFieldToEvent(e, f)
        \/ \E e \in Event, name \in Name : AddStrFieldToEvent(e, name)
        \/ \E e \in Event, name \in Name : GetEventField(e, name)
        \/ \E e \in Event : DeleteEvent(e)

\* nothing is said of a process that has misused the heap
Next == \/ ~fault /\ Call
        \/ fault /\ UNCHANGED vars

Spec == Init /\ [][Next]_vars

----------------------------------------------------------------------------
(* Every variable has its type.                                            *)
TypeOK == /\ events \subseteq Event /\ liveF \subseteq Field
          /\ liveV \subseteq Value /\ lost \subseteq Value
          /\ fields \in [Event -> Seq(Field) \cup {None}]
          /\ fname \in [Field -> Name] /\ fvals \in [Field -> Seq(Value)]
          /\ mineF \subseteq Field /\ mineV \subseteq Value
          /\ fault \in BOOLEAN /\ rc \in {"ok", "nomem", "-1", "null"}
          /\ found \subseteq Field

Places == UNION {{e} \X (1..Len(FieldsOf(e))) : e \in Event}
FieldAt(p) == FieldsOf(p[1])[p[2]]
InEvents == {FieldAt(p) : p \in Places}
InFields == UNION {Vals(f) : f \in liveF}

(* Unless the heap was misused, every field has one owner, the client or   *)
(* one place in one event's list, and every value one owner, the client or *)
(* one place in one field's list; the values lost when a field could not   *)
(* be made are all that is allocated besides.  So deleting an event        *)
(* releases all it holds.                                                  *)
OwnedOnce ==
  ~fault =>
    /\ \A p, q \in Places : FieldAt(p) = FieldAt(q) => p = q
    /\ mineF \cap InEvents = {} /\ liveF = mineF \cup InEvents
    /\ \A f \in liveF : IsInjective(fvals[f])
    /\ \A f, g \in liveF : f # g => Vals(f) \cap Vals(g) = {}
    /\ mineV \cap InFields = {} /\ lost \cap (mineV \cup InFields) = {}
    /\ liveV = mineV \cup InFields \cup lost

(* ee_deleteEvent and ee_deleteField free nothing twice, whatever calls    *)
(* succeeded or failed before (event.c:64-73, fieldbucket.c:58-72).        *)
DeleteIsSafe ==
  [][\A e \in Event, f \in Field :
       DeleteEvent(e) \/ DeleteField(f) => fault' = FALSE]_vars

(* An event's fields keep their order: a call on an event that lives on    *)
(* adds at most one field, at the end, and a call that returns an error    *)
(* adds none, to no event (event.c:113-158, fieldbucket.c:77-96).          *)
FieldsInOrder ==
  [][\A e \in events \cap events' :
       LET old == FieldsOf(e)
           now == FieldsOf(e)'
       IN  /\ IsPrefix(old, now)
           /\ Len(now) <= Len(old) + (IF rc' = "ok" THEN 1 ELSE 0)]_vars

(* "central error cleanup" (event.c:150): a call that fails has released   *)
(* what it made, once.                                                     *)
CleanupIsSafe ==
  [][\A e \in Event, name \in Name :
       AddStrFieldToEvent(e, name) => fault' = FALSE]_vars
=============================================================================
