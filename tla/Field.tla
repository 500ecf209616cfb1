------------------------------- MODULE Field -------------------------------
(***************************************************************************)
(* One ee_field and the objects it owns (field.c, value.c, valnode.h).     *)
(*                                                                         *)
(* The first value of a field is stored in the structure, the 2nd and      *)
(* later ones in a singly linked list of ee_valnode objects with a tail    *)
(* pointer, and nVals, an unsigned char, counts them.  The model keeps the *)
(* pointers, the counter with its width and the heap: which objects are    *)
(* allocated, who owns each, and whether a call touched memory that was    *)
(* not allocated.  Every loop of the code is a loop here, one iteration    *)
(* per step, and every malloc may fail.  Addresses are recycled.           *)
(***************************************************************************)
EXTENDS Integers, Sequences

CONSTANTS Value,    \* addresses malloc can return for an ee_value
          Node,     \* addresses malloc can return for an ee_valnode
          Null,     \* the NULL pointer
          Junk,     \* a pointer that was never initialised
          MaxVals,  \* LIBEE_CEE_MAX_VALS_PER_FIELD (libee.h:182), 255
          Width     \* number of values of the type of nVals, 256

ASSUME FieldAssumption == /\ MaxVals \in Nat \ {0}
                          /\ Width \in Nat
                          /\ MaxVals < Width
                          /\ Null \notin Value \cup Node
                          /\ Junk \notin Value \cup Node \cup {Null}

VARIABLES
  liveV, liveN,             \* the allocated value and valnode objects
  node,                     \* contents of the valnode objects
  exists, named,            \* the field object, and whether it has a name
  nVals, val, valroot, valtail,     \* its members
  pc, cur, i, n, new,       \* the call in progress: loop, curNode, i, n, val
  rc, out,                  \* what the last call returned: code, strings
  caller,                   \* values that belong to the caller
  chain, lost, fault        \* auxiliary: see below

(***************************************************************************)
(* Three auxiliary variables record what the pointers cannot say, and no   *)
(* guard reads them: chain is the list's nodes in the order they were      *)
(* linked, lost the values no pointer reaches any more, and fault is set   *)
(* when a call reads or frees an object that is not allocated.  i is the   *)
(* loop counter of the two loops that have one, and counts the iterations  *)
(* of the other two as well.                                               *)
(***************************************************************************)
heap  == <<liveV, liveN, node>>
fld   == <<exists, named, nVals, val, valroot, valtail>>
loop  == <<pc, cur, i, n, new>>
ghost == <<chain, lost, fault>>
vars  == <<heap, fld, loop, rc, out, caller, ghost>>

Garbage == [val |-> Junk, next |-> Junk]     \* a node that is not allocated

Init == /\ liveV = {} /\ liveN = {}
        /\ node = [q \in Node |-> Garbage]
        /\ exists = FALSE /\ named = FALSE /\ nVals = 0 /\ val = Junk
        /\ valroot = Null /\ valtail = Null
        /\ pc = "client" /\ cur = Null /\ i = 1 /\ n = 0 /\ new = Null
        /\ rc = "ok" /\ out = <<>> /\ caller = {}
        /\ chain = <<>> /\ lost = {} /\ fault = FALSE

Idle     == pc = "client"
Call     == Idle /\ exists
Fails(e) == rc' = e /\ UNCHANGED <<heap, fld, loop, out, caller, ghost>>

ValOf(p)  == IF p \in Node THEN node[p].val  ELSE Junk
NextOf(p) == IF p \in Node THEN node[p].next ELSE Junk

----------------------------------------------------------------------------
(* Values: made and discarded by the client.                               *)

NewValue == /\ Idle
            /\ \/ Fails("nomem")
               \/ \E v \in Value \ liveV :
                    /\ liveV' = liveV \cup {v}
                    /\ caller' = caller \cup {v}
                    /\ rc' = "ok"
                    /\ UNCHANGED <<liveN, node, fld, loop, out, ghost>>

DeleteValue(v) == /\ Idle /\ v \in caller
                  /\ liveV' = liveV \ {v}
                  /\ caller' = caller \ {v}
                  /\ rc' = "ok"
                  /\ UNCHANGED <<liveN, node, fld, loop, out, ghost>>

----------------------------------------------------------------------------
(* Construction.  ee_newField leaves field->val uninitialised.             *)

\* Mutant of NewField: the root pointer is left uninitialised as well.
NewFieldNoRoot == /\ Idle /\ ~exists
                  /\ exists' = TRUE /\ named' = FALSE
                  /\ nVals' = 0 /\ val' = Junk
                  /\ valroot' = Junk /\ valtail' = Null
                  /\ rc' = "ok"
                  /\ UNCHANGED <<heap, loop, out, caller, ghost>>

NewField == /\ Idle /\ ~exists
            /\ \/ Fails("nomem")
               \/ /\ exists' = TRUE /\ named' = FALSE
                  /\ nVals' = 0 /\ val' = Junk
                  /\ valroot' = Null /\ valtail' = Null
                  /\ rc' = "ok"
                  /\ UNCHANGED <<heap, loop, out, caller, ghost>>

NewFieldFromNV(v) == /\ Idle /\ ~exists /\ v \in caller
                     /\ \/ Fails("nomem")
                        \/ /\ exists' = TRUE /\ named' = TRUE
                           /\ nVals' = 1 /\ val' = v
                           /\ valroot' = Null /\ valtail' = Null
                           /\ caller' = caller \ {v}
                           /\ rc' = "ok"
                           /\ UNCHANGED <<heap, loop, out, ghost>>

NameField == /\ Call
             /\ \/ named /\ Fails("hasname")
                \/ ~named /\ Fails("nomem")
                \/ /\ ~named /\ named' = TRUE /\ rc' = "ok"
                   /\ UNCHANGED <<heap, exists, nVals, val, valroot, valtail,
                                  loop, out, caller, ghost>>

----------------------------------------------------------------------------
(* ee_addValueToField, for a value v the heap holds as vs says.            *)

\* Mutant of Full: the limit is tested after it was passed.
FullLate == nVals > MaxVals

Full == nVals = MaxVals

AddFirst(v) == /\ nVals = 0
               /\ nVals' = 1 /\ val' = v
               /\ UNCHANGED <<liveN, node, valroot, valtail, chain>>

\* Mutant of AddToList: the node is linked in front of the list.
Prepend(v) ==
  /\ nVals # 0 /\ ~Full
  /\ \E p \in Node \ liveN :
       /\ liveN' = liveN \cup {p}
       /\ nVals' = (nVals + 1) % Width
       /\ node' = [node EXCEPT ![p] = [val |-> v, next |-> valroot]]
       /\ valroot' = p
       /\ valtail' = IF valtail = Null THEN p ELSE valtail
       /\ chain' = <<p>> \o chain
  /\ UNCHANGED val

\* Mutant of AddToList: next of the new node is not set to NULL.
AddToListUnset(v) ==
  /\ nVals # 0 /\ ~Full
  /\ \E p \in Node \ liveN :
       /\ liveN' = liveN \cup {p}
       /\ nVals' = (nVals + 1) % Width
       /\ node' = [q \in Node |->
                     IF q = p THEN [val |-> v, next |-> Junk]
                     ELSE IF q = valtail THEN [node[q] EXCEPT !.next = p]
                     ELSE node[q]]
       /\ valroot' = IF valtail = Null THEN p ELSE valroot
       /\ valtail' = p
       /\ chain' = Append(chain, p)
  /\ UNCHANGED val

AddToList(v) ==
  /\ nVals # 0 /\ ~Full
  /\ \E p \in Node \ liveN :
       /\ liveN' = liveN \cup {p}
       /\ nVals' = (nVals + 1) % Width
       /\ node' = [q \in Node |->
                     IF q = p THEN [val |-> v, next |-> Null]
                     ELSE IF q = valtail THEN [node[q] EXCEPT !.next = p]
                     ELSE node[q]]
       /\ valroot' = IF valtail = Null THEN p ELSE valroot
       /\ valtail' = p
       /\ chain' = Append(chain, p)
  /\ UNCHANGED val

Add(v) == AddFirst(v) \/ AddToList(v)

\* why ee_addValueToField can fail
AddError == {e \in {"toomany", "nomem"} :
               nVals # 0 /\ (Full <=> e = "toomany")}

AddValue(v) == /\ Call /\ v \in caller
               /\ \/ \E e \in AddError : Fails(e)
                  \/ /\ Add(v)
                     /\ caller' = caller \ {v}
                     /\ rc' = "ok"
                     /\ UNCHANGED <<liveV, exists, named, loop, out, lost, fault>>

(* ee_addStrValueToField makes the value itself; when the add fails the    *)
(* value it made is not released.                                          *)
AddStrValue ==
  /\ Call
  /\ \/ Fails("nomem")
     \/ \E v \in Value \ liveV :
          /\ liveV' = liveV \cup {v}
          /\ \/ \E e \in AddError :
                  /\ rc' = e /\ lost' = lost \cup {v}
                  /\ UNCHANGED <<liveN, node, fld, chain>>
             \/ /\ Add(v) /\ rc' = "ok"
                /\ UNCHANGED <<exists, named, lost>>
          /\ UNCHANGED <<loop, out, caller, fault>>

----------------------------------------------------------------------------
(* The calls that walk the list.  A call that reads or frees the value p,  *)
(* or reads the node p, sets fault when p is not allocated.                *)

Enter(call, k, v) == /\ pc' = call /\ cur' = valroot /\ i' = 1
                     /\ n' = k /\ new' = v

Return(e) == /\ pc' = "client" /\ rc' = e /\ cur' = Null /\ i' = 1
             /\ n' = 0 /\ new' = Null

Uses(p, live) == fault' = (fault \/ p \notin live)

Advance == /\ cur' = NextOf(cur) /\ i' = i + 1
           /\ Uses(cur, liveN)
           /\ UNCHANGED <<pc, n, new>>

FreeValues(S) == liveV' = liveV \ S

\* ee_replaceValueInField: entry, one iteration, and the replacement itself
Replace(v, k) ==
  /\ Call /\ v \in caller
  /\ \/ k >= nVals /\ Fails("range")
     \/ /\ k < nVals /\ k = 0
        /\ FreeValues({val}) /\ val' = v
        /\ Uses(val, liveV)
        /\ caller' = caller \ {v} /\ rc' = "ok"
        /\ UNCHANGED <<liveN, node, exists, named, nVals, valroot, valtail,
                       loop, out, chain, lost>>
     \/ /\ k < nVals /\ k # 0
        /\ Enter("replace", k, v)
        /\ caller' = caller \ {v}
        /\ UNCHANGED <<heap, fld, rc, out, ghost>>

ReplaceStep == /\ pc = "replace" /\ i < n
               /\ Advance
               /\ UNCHANGED <<heap, fld, rc, out, caller, chain, lost>>

\* Mutant of ReplaceEnd: the old value is not released.
ReplaceLeaks ==
  /\ pc = "replace" /\ i >= n
  /\ node' = [q \in Node |-> IF q = cur THEN [node[q] EXCEPT !.val = new]
                             ELSE node[q]]
  /\ Return("ok")
  /\ UNCHANGED <<liveV, liveN, fld, out, caller, ghost>>

ReplaceEnd ==
  /\ pc = "replace" /\ i >= n
  /\ FreeValues({ValOf(cur)})
  /\ fault' = (fault \/ cur \notin liveN \/ ValOf(cur) \notin liveV)
  /\ node' = [q \in Node |-> IF q = cur THEN [node[q] EXCEPT !.val = new]
                             ELSE node[q]]
  /\ Return("ok")
  /\ UNCHANGED <<liveN, fld, out, caller, chain, lost>>

\* ee_getFieldValueAsStr; the loop gives up on a NULL node
GetValue(k) ==
  /\ Call
  /\ \/ /\ k >= nVals /\ rc' = "null" /\ out' = <<>>
        /\ UNCHANGED <<loop, fault>>
     \/ /\ k < nVals /\ k = 0
        /\ Uses(val, liveV)
        /\ \/ rc' = "ok" /\ out' = <<val>>
           \/ rc' = "nomem" /\ out' = <<>>
        /\ UNCHANGED loop
     \/ /\ k < nVals /\ k # 0
        /\ Enter("get", k, Null) /\ out' = <<>>
        /\ UNCHANGED <<rc, fault>>
  /\ UNCHANGED <<heap, fld, caller, chain, lost>>

GetStep == /\ pc = "get" /\ i < n
           /\ IF cur = Null
              THEN Return("null") /\ UNCHANGED fault
              ELSE Advance /\ UNCHANGED rc
           /\ UNCHANGED <<heap, fld, out, caller, chain, lost>>

GetEnd == /\ pc = "get" /\ i >= n
          /\ fault' = (fault \/ cur \notin liveN \/ ValOf(cur) \notin liveV)
          /\ \/ out' = <<ValOf(cur)>> /\ Return("ok")
             \/ UNCHANGED out /\ Return("nomem")
          /\ UNCHANGED <<heap, fld, caller, chain, lost>>

(* ee_getFieldAsString appends every value; EE_ERR when there is none, and *)
(* a partial result when an append fails.                                  *)
GetAll ==
  /\ Call
  /\ \/ nVals = 0 /\ rc' = "err" /\ out' = <<>> /\ UNCHANGED <<loop, fault>>
     \/ rc' = "nomem" /\ out' = <<>> /\ UNCHANGED <<loop, fault>>
     \/ /\ nVals # 0
        /\ Uses(val, liveV)
        /\ out' = <<val>>
        /\ Enter("all", 0, Null)
        /\ UNCHANGED rc
  /\ UNCHANGED <<heap, fld, caller, chain, lost>>

GetAllStep ==
  /\ pc = "all" /\ cur # Null
  /\ \/ /\ out' = Append(out, ValOf(cur))
        /\ cur' = NextOf(cur) /\ i' = i + 1
        /\ UNCHANGED <<pc, n, new, rc>>
     \/ UNCHANGED out /\ Return("nomem")
  /\ fault' = (fault \/ cur \notin liveN \/ ValOf(cur) \notin liveV)
  /\ UNCHANGED <<heap, fld, caller, chain, lost>>

\* Mutant of GetAllEnd: the loop tests node->next and misses the last node.
GetAllEndEarly == /\ pc = "all" /\ cur \in {Null, valtail}
                  /\ Return("ok")
                  /\ UNCHANGED <<heap, fld, out, caller, ghost>>

GetAllEnd == /\ pc = "all" /\ cur = Null
             /\ Return("ok")
             /\ UNCHANGED <<heap, fld, out, caller, ghost>>

----------------------------------------------------------------------------
(* ee_deleteField: the inline value when there is one, then the list.      *)

\* Mutant of Delete: the inline value is freed without looking at nVals.
DeleteAlways ==
  /\ Call
  /\ FreeValues({val})
  /\ Uses(val, liveV)
  /\ pc' = "delete" /\ i' = 1
  /\ cur' = IF nVals > 1 THEN valroot ELSE Null
  /\ UNCHANGED <<liveN, node, fld, n, new, rc, out, caller, chain, lost>>

Delete ==
  /\ Call
  /\ FreeValues(IF nVals > 0 THEN {val} ELSE {})
  /\ fault' = (fault \/ (nVals > 0 /\ val \notin liveV))
  /\ pc' = "delete" /\ i' = 1
  /\ cur' = IF nVals > 1 THEN valroot ELSE Null
  /\ UNCHANGED <<liveN, node, fld, n, new, rc, out, caller, chain, lost>>

\* Mutant of DeleteStep: the node is freed before next is read from it.
DeleteStepLate ==
  /\ pc = "delete" /\ cur # Null
  /\ FreeValues({ValOf(cur)})
  /\ cur' = Junk
  /\ liveN' = liveN \ {cur}
  /\ node' = [q \in Node |-> IF q = cur THEN Garbage ELSE node[q]]
  /\ UNCHANGED <<fld, pc, i, n, new, rc, out, caller, ghost>>

DeleteStep ==
  /\ pc = "delete" /\ cur # Null
  /\ FreeValues({ValOf(cur)})
  /\ fault' = (fault \/ cur \notin liveN \/ ValOf(cur) \notin liveV)
  /\ cur' = NextOf(cur) /\ i' = i + 1
  /\ liveN' = liveN \ {cur}
  /\ node' = [q \in Node |-> IF q = cur THEN Garbage ELSE node[q]]
  /\ UNCHANGED <<fld, pc, n, new, rc, out, caller, chain, lost>>

DeleteEnd ==
  /\ pc = "delete" /\ cur = Null
  /\ exists' = FALSE /\ named' = FALSE /\ nVals' = 0 /\ val' = Junk
  /\ valroot' = Null /\ valtail' = Null /\ chain' = <<>>
  /\ Return("ok")
  /\ UNCHANGED <<heap, out, caller, lost, fault>>

----------------------------------------------------------------------------
Client == \/ NewValue
          \/ \E v \in Value : DeleteValue(v)
          \/ NewField
          \/ \E v \in Value : NewFieldFromNV(v)
          \/ NameField
          \/ \E v \in Value : AddValue(v)
          \/ AddStrValue
          \/ \E v \in Value, k \in 0..MaxVals : Replace(v, k)
          \/ \E k \in 0..MaxVals : GetValue(k)
          \/ GetAll
          \/ Delete

Running == \/ ReplaceStep \/ ReplaceEnd
           \/ GetStep \/ GetEnd
           \/ GetAllStep \/ GetAllEnd
           \/ DeleteStep \/ DeleteEnd

Next == Client \/ Running

Spec == Init /\ [][Next]_vars

\* A call goes on until it returns; the client need not make another one.
FairSpec == Spec /\ WF_vars(Running)

----------------------------------------------------------------------------
(* Properties.                                                             *)

\* The k-th value, first one inline and the others along the chain.
Slot(k) == IF k = 1 THEN val ELSE node[chain[k - 1]].val
Vals    == [k \in 1..nVals |-> Slot(k)]

\* The slots the field still owns: while it is being deleted, those the
\* loop has not reached.
Held == IF ~exists THEN {}
        ELSE IF pc = "delete" THEN (i + 1)..nVals ELSE 1..nVals

(* Every variable has its type; nVals never exceeds the limit, which is    *)
(* below the width of its unsigned char (field.h:52, libee.h:182).         *)
TypeOK ==
  /\ liveV \subseteq Value /\ liveN \subseteq Node
  /\ node \in [Node -> [val : Value \cup {Junk},
                        next : Node \cup {Null, Junk}]]
  /\ exists \in BOOLEAN /\ named \in BOOLEAN
  /\ nVals \in 0..MaxVals
  /\ val \in Value \cup {Junk}
  /\ valroot \in Node \cup {Null} /\ valtail \in Node \cup {Null}
  /\ pc \in {"client", "replace", "get", "all", "delete"}
  /\ cur \in Node \cup {Null, Junk}
  /\ i \in 1..MaxVals /\ n \in 0..MaxVals /\ new \in Value \cup {Null}
  /\ rc \in {"ok", "nomem", "hasname", "toomany", "range", "null", "err"}
  /\ out \in Seq(Value \cup {Junk})
  /\ caller \subseteq Value /\ lost \subseteq Value
  /\ chain \in Seq(Node) /\ fault \in BOOLEAN

(* The root pointer, the next pointers, the tail pointer and nVals tell    *)
(* one story: the list holds nVals - 1 distinct nodes, the tail is the     *)
(* last one, and exactly these nodes are allocated, also half way through  *)
(* ee_deleteField (field.c:57-77, 121-150).                                *)
Left == (IF pc = "delete" THEN i ELSE 1)..Len(chain)
ListOK ==
  /\ Len(chain) = IF nVals > 0 THEN nVals - 1 ELSE 0
  /\ valroot = IF chain = <<>> THEN Null ELSE chain[1]
  /\ valtail = IF chain = <<>> THEN Null ELSE chain[Len(chain)]
  /\ \A k \in Left :
       node[chain[k]].next = IF k < Len(chain) THEN chain[k + 1] ELSE Null
  /\ \A j, k \in 1..Len(chain) : chain[j] = chain[k] => j = k
  /\ liveN = {chain[k] : k \in Left}

(* No call reads, frees or frees twice an object that is not allocated:    *)
(* not the val that ee_newField leaves uninitialised, not a value replaced *)
(* earlier, not a node past the end of the list (field.c:57-77, 154-270).  *)
NoFault == fault = FALSE

(* Every allocated value has exactly one owner: the caller, one slot of    *)
(* the field, the replacement in progress, or nobody any more (the leak of *)
(* ee_addStrValueToField).  In particular replacing and deleting release   *)
(* what they take out, and a failed add leaves the value with its maker.   *)
Pending == IF pc = "replace" THEN {new} ELSE {}
InField == {Slot(k) : k \in Held}
OwnedOnce ==
  /\ \A j, k \in Held : Slot(j) = Slot(k) => j = k
  /\ liveV = caller \cup lost \cup Pending \cup InField
  /\ caller \cap lost = {}
  /\ (caller \cup lost) \cap (Pending \cup InField) = {}
  /\ Pending \cap InField = {}

(* What a completed read returns: ee_getFieldValueAsStr(n) the n-th value, *)
(* counted from zero and wherever it is stored, and ee_getFieldAsString    *)
(* all of them in order (field.c:212-270).                                 *)
ReadsAreRight ==
  [][/\ pc = "get" /\ pc' = "client" => rc' \in {"ok", "nomem"}
     /\ pc = "get" /\ pc' = "client" /\ rc' = "ok" => out' = <<Slot(n + 1)>>
     /\ pc = "all" /\ pc' = "client" /\ rc' = "ok" => out' = Vals]_vars

(* To its users the field is a bounded sequence of values: the inline      *)
(* slot, the list and the counter implement ValueSeq.                      *)
Open == exists /\ pc # "delete"
Seq_ == INSTANCE ValueSeq WITH open <- Open,
                               vals <- IF Open THEN Vals ELSE <<>>
ImplementsValueSeq == Seq_!Spec

(* Each iteration of a loop moves to a node nearer the end of the list:    *)
(* the part of the list from curNode on gets smaller, however the nodes    *)
(* were linked, so no call runs round a cycle, past the end, or twice over *)
(* a node (field.c:69-74, 173-175, 228-234, 265-267).                      *)
Ahead == {k \in 1..Len(chain) : \E j \in 1..k : chain[j] = cur}
WalksShorten ==
  [][pc # "client" /\ pc' # "client" => Ahead' \subseteq Ahead /\ Ahead' # Ahead]_vars

(* Every call that has begun returns, also those whose loop has no counter *)
(* and stops at a NULL alone (field.c:69-74, 265-267).                     *)
CallsReturn == (pc # "client") ~> Idle
=============================================================================
