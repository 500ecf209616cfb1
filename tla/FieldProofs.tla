---------------------------- MODULE FieldProofs ----------------------------
(* Theorems about Field for every set of addresses and every limit.        *)
EXTENDS Field, SequenceTheorems, TLAPS

(* Where a call that walks the list is: the n-th value was asked for and   *)
(* the i-th node is in hand, or every node up to the i-th was passed.      *)
At(k) == IF k \in 1..Len(chain) THEN chain[k] ELSE Null
CursorOK ==
  /\ pc = "client" => cur = Null /\ i = 1 /\ n = 0 /\ new = Null
  /\ pc # "client" => exists /\ i \in 1..(Len(chain) + 1) /\ cur = At(i)
  /\ pc \in {"get", "replace"} => n \in 1..Len(chain) /\ i <= n
  /\ (pc = "replace") <=> (new # Null)
  /\ pc = "all" => /\ nVals > 0 /\ Len(out) = i
                   /\ \A j \in 1..i : out[j] = Slot(j)
  /\ ~exists => nVals = 0

IInv == TypeOK /\ ListOK /\ NoFault /\ OwnedOnce /\ CursorOK

(* The field does not exist yet: no list, no owner.                        *)
LEMMA InitInv == Init => IInv
<1> SUFFICES ASSUME Init PROVE IInv
  OBVIOUS
<1>1. Len(chain) = 0 /\ chain \in Seq(Node) /\ out \in Seq(Value \cup {Junk})
  BY EmptySeq DEF Init
<1>9. Garbage \in [val : Value \cup {Junk}, next : Node \cup {Null, Junk}]
  BY DEF Garbage
<1>10. node \in [Node -> [val : Value \cup {Junk}, next : Node \cup {Null, Junk}]]
  BY <1>9 DEF Init
<1>11. i \in 1..MaxVals /\ n \in 0..MaxVals /\ nVals \in 0..MaxVals
  BY FieldAssumption DEF Init
<1>2. TypeOK
  BY <1>1, <1>10, <1>11 DEF Init, TypeOK
<1>3. Left = {}
  BY <1>1 DEF Init, Left
<1>4. ListOK
  BY <1>1, <1>3 DEF Init, ListOK
<1>5. Held = {} /\ Pending = {} /\ InField = {}
  BY DEF Init, Held, Pending, InField
<1>6. OwnedOnce
  BY <1>5 DEF Init, OwnedOnce
<1>7. CursorOK
  BY DEF Init, CursorOK
<1>8. NoFault
  BY DEF Init, NoFault
<1> QED
  BY <1>2, <1>4, <1>6, <1>7, <1>8 DEF IInv

(* A step that leaves the heap, the field, the loop and the owners alone.  *)
Quiet == UNCHANGED <<heap, exists, nVals, val, valroot, valtail, loop, caller,
                     ghost>>
LEMMA QuietStep ==
  ASSUME IInv, Quiet, named' \in BOOLEAN, pc = "client",
         rc' \in {"ok", "nomem", "hasname", "toomany", "range", "null", "err"},
         out' \in Seq(Value \cup {Junk})
  PROVE  IInv'
<1> USE DEF Quiet, heap, loop, ghost
<1>1. TypeOK'
  BY DEF IInv, TypeOK
<1>2. ListOK'
  BY DEF IInv, ListOK, Left
<1>3. OwnedOnce'
  BY DEF IInv, OwnedOnce, Held, Pending, InField, Slot
<1>4. CursorOK'
  BY DEF IInv, CursorOK, At, Slot
<1> QED
  BY <1>1, <1>2, <1>3, <1>4 DEF IInv, NoFault

(* A value is made for the caller.                                         *)
LEMMA NewValueStep == ASSUME IInv, NewValue PROVE IInv'
<1>1. CASE Fails("nomem")
  <2>1. out \in Seq(Value \cup {Junk}) /\ named \in BOOLEAN
    BY DEF IInv, TypeOK
  <2> QED
  BY <1>1, <2>1, QuietStep DEF Fails, Quiet, fld, NewValue, Idle
<1>2. ASSUME NEW v \in Value \ liveV,
             liveV' = liveV \cup {v}, caller' = caller \cup {v}, rc' = "ok",
             UNCHANGED <<liveN, node, fld, loop, out, ghost>>
      PROVE  IInv'
  <2> USE DEF fld, loop, ghost
  <2>1. TypeOK'
    BY <1>2 DEF IInv, TypeOK
  <2>2. ListOK'
    BY <1>2 DEF IInv, ListOK, Left
  <2>3. InField' = InField /\ Pending' = Pending /\ Held' = Held /\ \A k : Slot(k)' = Slot(k)
    BY <1>2 DEF Held, Pending, InField, Slot
  <2>4. OwnedOnce'
    BY <1>2, <2>3 DEF IInv, OwnedOnce
  <2>5. CursorOK'
    BY <1>2 DEF IInv, CursorOK, At, NewValue, Idle
  <2> QED
    BY <1>2, <2>1, <2>2, <2>4, <2>5 DEF IInv, NoFault
<1> QED
  BY <1>1, <1>2 DEF NewValue
(* What the invariant says of the list's nodes and of the values held.     *)
LEMMA ListFacts ==
  ASSUME IInv
  PROVE  /\ Len(chain) \in Nat /\ (chain = <<>> <=> Len(chain) = 0)
         /\ \A k \in 1..Len(chain) : chain[k] \in Node
         /\ \A k \in Left : chain[k] \in liveN
         /\ \A k \in Held : Slot(k) \in liveV /\ Slot(k) \in Value
         /\ Left \subseteq 1..Len(chain) /\ Held \subseteq 1..nVals
<1>1. chain \in Seq(Node)
  BY DEF IInv, TypeOK
<1>2. Len(chain) \in Nat /\ (chain = <<>> <=> Len(chain) = 0)
  BY <1>1, EmptySeq, LenProperties
<1>3. \A k \in 1..Len(chain) : chain[k] \in Node
  BY <1>1, ElementOfSeq
<1>4. \A k \in Left : chain[k] \in liveN
  BY DEF IInv, ListOK
<1>5. \A k \in Held : Slot(k) \in liveV /\ Slot(k) \in Value
  BY DEF IInv, OwnedOnce, InField, TypeOK
<1>6. i \in Nat /\ i >= 1 /\ nVals \in Nat
  BY FieldAssumption DEF IInv, TypeOK
<1>7. Left \subseteq 1..Len(chain)
  BY <1>2, <1>6 DEF Left
<1>8. Held \subseteq 1..nVals
  BY <1>6 DEF Held
<1> QED
  BY <1>2, <1>3, <1>4, <1>5, <1>7, <1>8

(* The caller discards a value it owns.                                    *)
LEMMA DeleteValueStep == ASSUME IInv, NEW v \in Value, DeleteValue(v) PROVE IInv'
<1> USE DEF fld, loop, ghost
<1>1. /\ liveV' = liveV \ {v} /\ caller' = caller \ {v} /\ rc' = "ok" /\ v \in caller
      /\ UNCHANGED <<liveN, node, fld, loop, out, ghost>> /\ pc = "client"
  BY DEF DeleteValue, Idle
<1>2. TypeOK'
  BY <1>1 DEF IInv, TypeOK
<1>3. ListOK'
  BY <1>1 DEF IInv, ListOK, Left
<1>4. InField' = InField /\ Pending' = Pending /\ Held' = Held /\ \A k : Slot(k)' = Slot(k)
  BY <1>1 DEF Held, Pending, InField, Slot
<1>5. OwnedOnce'
  BY <1>1, <1>4 DEF IInv, OwnedOnce
<1>6. CursorOK'
  BY <1>1 DEF IInv, CursorOK, At
<1> QED
  BY <1>1, <1>2, <1>3, <1>5, <1>6 DEF IInv, NoFault

(* A field is made: empty, or with the caller's value in the inline slot.  *)
LEMMA NewFieldStep ==
  ASSUME IInv, NewField \/ \E v \in Value : NewFieldFromNV(v)
  PROVE  IInv'
<1> USE DEF loop, ghost, heap
<1>1. pc = "client" /\ ~exists
  BY DEF NewField, NewFieldFromNV, Idle
<1>2. nVals = 0 /\ chain = <<>> /\ Len(chain) = 0
  BY <1>1, ListFacts DEF IInv, CursorOK, ListOK
<1>3. CASE Fails("nomem")
  <2>1. out \in Seq(Value \cup {Junk}) /\ named \in BOOLEAN
    BY DEF IInv, TypeOK
  <2> QED
    BY <1>1, <1>3, <2>1, QuietStep DEF Fails, Quiet, fld
<1>4. ASSUME NEW v \in Value \cup {Junk}, NEW k \in {0, 1},
             v \in caller <=> k = 1,
             exists', named' \in BOOLEAN, nVals' = k, val' = v,
             valroot' = Null, valtail' = Null, caller' = caller \ {v}, rc' = "ok",
             UNCHANGED <<heap, loop, out, ghost>>
      PROVE  IInv'
  <2>1. k \in 0..MaxVals /\ 0 \in 0..MaxVals
    BY FieldAssumption
  <2>2. TypeOK'
    BY <1>4, <2>1 DEF IInv, TypeOK
  <2>3. ListOK'
    BY <1>1, <1>2, <1>4 DEF IInv, ListOK, Left
  <2>4. Held' = 1..k /\ Pending' = {} /\ Held = {} /\ Pending = {} /\ InField = {}
    BY <1>1, <1>4 DEF Held, Pending, InField
  <2>5. Slot(1)' = v
    BY <1>4 DEF Slot
  <2>10. 1..0 = {} /\ 1..1 = {1}
    OBVIOUS
  <2>6. Held' = IF k = 1 THEN {1} ELSE {}
    BY <1>4, <2>4, <2>10
  <2>7. InField' = IF k = 1 THEN {v} ELSE {}
    BY <2>5, <2>6 DEF InField
  <2>8. OwnedOnce'
    BY <1>4, <2>4, <2>6, <2>7 DEF IInv, OwnedOnce
  <2>9. CursorOK'
    BY <1>1, <1>4 DEF IInv, CursorOK, At
  <2> QED
    BY <1>4, <2>2, <2>3, <2>8, <2>9 DEF IInv, NoFault
<1>5. Junk \notin caller
  BY FieldAssumption DEF IInv, TypeOK
<1>6. CASE NewField /\ ~Fails("nomem")
  <2>1. /\ exists' = TRUE /\ named' = FALSE /\ nVals' = 0 /\ val' = Junk
        /\ valroot' = Null /\ valtail' = Null /\ caller' = caller /\ rc' = "ok"
        /\ UNCHANGED <<heap, loop, out, ghost>>
    BY <1>6 DEF NewField
  <2>2. caller' = caller \ {Junk} /\ exists' \in BOOLEAN /\ named' \in BOOLEAN
    BY <1>5, <2>1
  <2>3. Junk \in Value \cup {Junk} /\ 0 \in {0, 1} /\ (Junk \in caller <=> 0 = 1)
    BY <1>5
  <2> QED
    BY <1>4, <2>1, <2>2, <2>3
<1>7. ASSUME NEW v \in Value, NewFieldFromNV(v), ~Fails("nomem") PROVE IInv'
  BY <1>4, <1>7 DEF NewFieldFromNV
<1> QED
  BY <1>3, <1>6, <1>7
(* A counter below the width of its type does not wrap.                    *)
LEMMA ModSmall == \A x, w \in Nat : x < w => x % w = x
  OBVIOUS

(* A value nobody in the field holds becomes its last one.                 *)
LEMMA AddOK ==
  ASSUME IInv, Call, NEW v \in Value, Add(v),
         v \notin lost, v \notin InField,
         liveV' = liveV \cup {v}, caller' = caller \ {v}, rc' = "ok",
         UNCHANGED <<exists, named, loop, out, lost, fault>>
  PROVE  IInv' /\ Vals' = Append(Vals, v)
<1> USE DEF loop
<1>1. pc = "client" /\ exists /\ nVals \in 0..MaxVals /\ new = Null
  BY DEF Call, Idle, IInv, TypeOK, CursorOK
<1>2. Held = 1..nVals /\ Pending = {} /\ Left = 1..Len(chain)
  BY <1>1 DEF Held, Pending, Left
<1>3. Pending' = {}
  BY <1>1 DEF Pending
<1>4. nVals' = nVals + 1 /\ nVals' \in 1..MaxVals
  <2>1. CASE AddFirst(v)
    BY <2>1, FieldAssumption DEF AddFirst
  <2>2. CASE AddToList(v)
    <3>1. nVals + 1 \in Nat /\ nVals + 1 <= MaxVals /\ nVals + 1 < Width
          /\ Width \in Nat
      BY <1>1, <2>2, FieldAssumption DEF AddToList, Full
    <3>2. nVals' = (nVals + 1) % Width
      BY <2>2 DEF AddToList
    <3> QED
      BY <1>1, <3>1, <3>2, ModSmall
  <2> QED
    BY <2>1, <2>2 DEF Add
<1>5. Held' = 1..(nVals + 1)
  BY <1>1, <1>4 DEF Held
<1>6. TypeOK' /\ ListOK' /\ (\A k \in 1..nVals : Slot(k)' = Slot(k))
      /\ (\A k \in Int : k = nVals + 1 => Slot(k)' = v)
  <2>1. CASE AddFirst(v)
    <3>1. nVals = 0 /\ nVals' = 1 /\ val' = v
          /\ UNCHANGED <<liveN, node, valroot, valtail, chain>>
      BY <2>1 DEF AddFirst
    <3>2. TypeOK'
      BY <3>1, <1>4 DEF IInv, TypeOK
    <3>3. ListOK'
      BY <3>1, <1>1 DEF IInv, ListOK, Left
    <3>4. \A k \in Int : k = nVals + 1 => Slot(k)' = v
      BY <3>1 DEF Slot
    <3> QED
      BY <3>1, <3>2, <3>3, <3>4
  <2>2. CASE AddToList(v)
    <3>1. PICK p \in Node \ liveN :
            /\ liveN' = liveN \cup {p}
            /\ node' = [q \in Node |->
                          IF q = p THEN [val |-> v, next |-> Null]
                          ELSE IF q = valtail THEN [node[q] EXCEPT !.next = p]
                          ELSE node[q]]
            /\ valroot' = IF valtail = Null THEN p ELSE valroot
            /\ valtail' = p
            /\ chain' = Append(chain, p)
      BY <2>2 DEF AddToList
    <3>2. /\ chain' \in Seq(Node) /\ Len(chain') = Len(chain) + 1
          /\ \A k \in 1..Len(chain) : chain'[k] = chain[k]
          /\ chain'[Len(chain) + 1] = p
      BY <3>1, AppendProperties DEF IInv, TypeOK
    <3>3. node' \in [Node -> [val : Value \cup {Junk},
                             next : Node \cup {Null, Junk}]]
      BY <3>1 DEF IInv, TypeOK
    <3>4. UNCHANGED val /\ nVals # 0
      BY <2>2 DEF AddToList
    <3>5. TypeOK'
      BY <1>4, <3>1, <3>2, <3>3, <3>4 DEF IInv, TypeOK
    <3>6. /\ Len(chain) = nVals - 1 /\ Len(chain) \in Nat
          /\ \A k \in 1..Len(chain) : chain[k] \in liveN /\ chain[k] \in Node
      BY <1>1, <1>2, <3>4, ListFacts DEF IInv, ListOK
    <3>7. /\ node'[p].val = v /\ node'[p].next = Null
          /\ \A q \in Node \ {p} : node'[q].val = node[q].val
          /\ \A q \in Node \ {p, valtail} : node'[q].next = node[q].next
          /\ valtail \in Node \ {p} => node'[valtail].next = p
      BY <3>1 DEF IInv, TypeOK
    <3>8. \A k \in 1..nVals : Slot(k)' = Slot(k)
      <4> SUFFICES ASSUME NEW k \in 1..nVals, k # 1 PROVE Slot(k)' = Slot(k)
        BY <3>4 DEF Slot
      <4>1. k - 1 \in 1..Len(chain)
        BY <3>6, <1>1
      <4>2. chain'[k - 1] = chain[k - 1] /\ chain[k - 1] \in Node \ {p}
        BY <3>1, <3>2, <3>6, <4>1
      <4> QED
        BY <3>7, <4>2 DEF Slot
    <3>9. \A k \in Int : k = nVals + 1 => Slot(k)' = v
      BY <1>1, <3>2, <3>4, <3>6, <3>7 DEF Slot
    <3>10. ListOK'
      <4>1. Left' = 1..(Len(chain) + 1)
        BY <1>1, <3>2 DEF Left
      <4>2. Len(chain') = nVals' - 1 /\ nVals' > 0 /\ chain' # <<>>
        BY <1>1, <1>4, <3>2, <3>6, EmptySeq
      <4>3. valroot' = chain'[1] /\ valtail' = chain'[Len(chain')]
        BY <1>1, <3>1, <3>2, <3>6, EmptySeq, FieldAssumption
           DEF IInv, ListOK
      <4>4. \A k \in Left' : node'[chain'[k]].next =
              IF k < Len(chain') THEN chain'[k + 1] ELSE Null
        <5> SUFFICES ASSUME NEW k \in 1..(Len(chain) + 1)
                     PROVE  node'[chain'[k]].next =
                              IF k < Len(chain') THEN chain'[k + 1] ELSE Null
          BY <4>1
        <5>1. CASE k = Len(chain) + 1
          BY <3>2, <3>7, <5>1, <3>6
        <5>2. CASE k = Len(chain)
          <6>1. chain[k] = valtail /\ chain[k] \in Node \ {p} /\ chain'[k] = chain[k]
            BY <3>1, <3>2, <3>6, <5>2, ListFacts DEF IInv, ListOK
          <6>2. chain'[k + 1] = p /\ k < Len(chain')
            BY <3>2, <3>6, <5>2
          <6> QED
            BY <3>7, <6>1, <6>2
        <5>3. CASE k < Len(chain)
          <6>1. k \in 1..Len(chain) /\ k + 1 \in 1..Len(chain) /\ Len(chain) \in 1..Len(chain)
            BY <3>6, <5>3
          <6>2. valtail = chain[Len(chain)] /\ chain[k] # valtail
            <7>1. chain # <<>> /\ (chain[k] = chain[Len(chain)] => k = Len(chain))
              BY <3>6, <6>1, ListFacts DEF IInv, ListOK
            <7> QED
              BY <5>3, <7>1 DEF IInv, ListOK
          <6>3. chain'[k] = chain[k] /\ chain'[k + 1] = chain[k + 1]
                /\ chain[k] \in Node \ {p, valtail}
            BY <3>1, <3>2, <3>6, <6>1, <6>2
          <6>4. node[chain[k]].next = chain[k + 1]
            BY <1>2, <5>3, <6>1 DEF IInv, ListOK
          <6> QED
            BY <3>2, <3>6, <3>7, <5>3, <6>3, <6>4
        <5> QED
          BY <3>6, <5>1, <5>2, <5>3
      <4>5. \A j, k \in 1..Len(chain') : chain'[j] = chain'[k] => j = k
        BY <3>1, <3>2, <3>6 DEF IInv, ListOK
      <4>6. liveN' = {chain'[k] : k \in Left'}
        BY <1>2, <3>1, <3>2, <3>6, <4>1 DEF IInv, ListOK
      <4> QED
        BY <4>2, <4>3, <4>4, <4>5, <4>6 DEF ListOK
    <3> QED
      BY <3>5, <3>8, <3>9, <3>10
  <2> QED
    BY <2>1, <2>2 DEF Add
<1>10. InField' = InField \cup {v}
  <2>1. \A k \in Held' : k \in Held \/ k = nVals + 1
    BY <1>1, <1>2, <1>5
  <2>2. nVals + 1 \in Held' /\ Held \subseteq Held'
    BY <1>1, <1>2, <1>5
  <2> QED
    BY <1>1, <1>2, <1>6, <2>1, <2>2 DEF InField
<1>11. \A j, k \in Held' : Slot(j)' = Slot(k)' => j = k
  <2> SUFFICES ASSUME NEW j \in 1..(nVals + 1), NEW k \in 1..(nVals + 1),
                      Slot(j)' = Slot(k)'
               PROVE  j = k
    BY <1>5
  <2>1. \A m \in 1..nVals : Slot(m)' # v
    BY <1>2, <1>6 DEF InField
  <2>2. CASE j \in 1..nVals /\ k \in 1..nVals
    BY <1>2, <1>6, <2>2 DEF IInv, OwnedOnce
  <2> QED
    BY <1>1, <1>6, <2>1, <2>2
<1>7. OwnedOnce'
  BY <1>2, <1>3, <1>10, <1>11 DEF IInv, OwnedOnce
<1>8. CursorOK'
  BY <1>1, <1>4 DEF IInv, CursorOK
<1>9. Vals' = Append(Vals, v)
  BY <1>1, <1>4, <1>6 DEF Vals
<1> QED
  BY <1>6, <1>7, <1>8, <1>9 DEF IInv, NoFault
(* The caller's value is added, or stays with it.                          *)
LEMMA AddValueStep == ASSUME IInv, NEW v \in Value, AddValue(v) PROVE IInv'
<1>1. v \in caller /\ Call
  BY DEF AddValue
<1>2. ASSUME NEW e \in AddError, Fails(e) PROVE IInv'
  <2>1. out \in Seq(Value \cup {Junk}) /\ named \in BOOLEAN
    BY DEF IInv, TypeOK
  <2> QED
    BY <1>1, <1>2, <2>1, QuietStep DEF Fails, Quiet, fld, Call, Idle, AddError
<1>3. CASE /\ Add(v) /\ caller' = caller \ {v} /\ rc' = "ok"
           /\ UNCHANGED <<liveV, exists, named, loop, out, lost, fault>>
  <2>1. v \in liveV /\ v \notin lost /\ v \notin InField
    BY <1>1 DEF IInv, OwnedOnce
  <2>2. liveV' = liveV \cup {v}
    BY <1>3, <2>1
  <2> QED
    BY <1>1, <1>3, <2>1, <2>2, AddOK
<1> QED
  BY <1>2, <1>3 DEF AddValue

(* A value is made and added, or made and lost.                            *)
LEMMA AddStrValueStep == ASSUME IInv, AddStrValue PROVE IInv'
<1> USE DEF loop, heap, fld, ghost
<1>1. Call /\ pc = "client"
  BY DEF AddStrValue, Call, Idle
<1>2. CASE Fails("nomem")
  <2>1. out \in Seq(Value \cup {Junk}) /\ named \in BOOLEAN
    BY DEF IInv, TypeOK
  <2> QED
    BY <1>1, <1>2, <2>1, QuietStep DEF Fails, Quiet
<1>3. ASSUME NEW v \in Value \ liveV, liveV' = liveV \cup {v},
             \/ \E e \in AddError : /\ rc' = e /\ lost' = lost \cup {v}
                                    /\ UNCHANGED <<liveN, node, fld, chain>>
             \/ Add(v) /\ rc' = "ok" /\ UNCHANGED <<exists, named, lost>>,
             UNCHANGED <<loop, out, caller, fault>>
      PROVE  IInv'
  <2>1. v \notin lost /\ v \notin InField /\ v \notin caller
    BY <1>3 DEF IInv, OwnedOnce
  <2>2. CASE Add(v) /\ rc' = "ok" /\ UNCHANGED <<exists, named, lost>>
    <3>1. caller' = caller \ {v}
      BY <1>3, <2>1
    <3> QED
      BY <1>1, <1>3, <2>1, <2>2, <3>1, AddOK
  <2>3. CASE /\ rc' \in AddError /\ lost' = lost \cup {v}
             /\ UNCHANGED <<liveN, node, fld, chain>>
    <3>1. TypeOK'
      BY <1>3, <2>3 DEF IInv, TypeOK, AddError
    <3>2. ListOK'
      BY <1>3, <2>3 DEF IInv, ListOK, Left
    <3>3. InField' = InField /\ Pending' = Pending /\ Held' = Held
          /\ \A k : Slot(k)' = Slot(k)
      BY <1>3, <2>3 DEF Held, Pending, InField, Slot
    <3>4. Pending = {}
      BY <1>1 DEF Pending
    <3>5. OwnedOnce'
      BY <1>3, <2>1, <2>3, <3>3, <3>4 DEF IInv, OwnedOnce
    <3>6. CursorOK'
      BY <1>1, <1>3, <2>3 DEF IInv, CursorOK
    <3> QED
      BY <1>3, <3>1, <3>2, <3>5, <3>6 DEF IInv, NoFault
  <2> QED
    BY <1>3, <2>2, <2>3
<1> QED
  BY <1>2, <1>3 DEF AddStrValue
(* What the node in hand holds, and what follows it.                       *)
LEMMA InHand ==
  ASSUME IInv, pc # "client", i \in 1..Len(chain)
  PROVE  /\ cur = chain[i] /\ cur \in Node /\ cur \in liveN
         /\ ValOf(cur) = Slot(i + 1)
         /\ NextOf(cur) = At(i + 1)
         /\ nVals = Len(chain) + 1 /\ i + 1 \in 2..nVals
<1>1. Len(chain) \in Nat /\ nVals \in Nat /\ nVals = Len(chain) + 1
  BY ListFacts, FieldAssumption DEF IInv, TypeOK, ListOK
<1>2. i \in Left /\ i + 1 \in 2..nVals
  BY <1>1 DEF Left
<1>3. cur = chain[i] /\ cur \in Node /\ cur \in liveN
  BY <1>2, ListFacts DEF IInv, CursorOK, At
<1>4. ValOf(cur) = Slot(i + 1)
  BY <1>1, <1>3 DEF ValOf, Slot
<1>5. NextOf(cur) = At(i + 1)
  BY <1>1, <1>2, <1>3 DEF IInv, ListOK, NextOf, At
<1> QED
  BY <1>1, <1>2, <1>3, <1>4, <1>5

(* The value of the node in hand is allocated, unless it is being deleted. *)
LEMMA ValueInHand ==
  ASSUME IInv, pc # "client", i \in 1..Len(chain)
  PROVE  ValOf(cur) \in liveV /\ ValOf(cur) \in Value /\ i + 1 \in Held
<1>1. i + 1 \in Held
  BY InHand, FieldAssumption DEF Held, IInv, CursorOK, TypeOK
<1> QED
  BY <1>1, InHand, ListFacts

(* A loop that counts moves on to the next node.                           *)
LEMMA AdvanceStep ==
  ASSUME IInv, pc \in {"get", "replace"}, i < n, Advance,
         UNCHANGED <<heap, fld, rc, out, caller, chain, lost>>
  PROVE  IInv'
<1> USE DEF heap, fld, Advance
<1>1. n \in 1..Len(chain) /\ i \in 1..Len(chain) /\ i + 1 \in 1..Len(chain)
      /\ Len(chain) \in Nat
  BY ListFacts, FieldAssumption DEF IInv, CursorOK, TypeOK
<1>2. cur \in liveN /\ cur' = chain[i + 1] /\ i' = i + 1 /\ fault' = fault
      /\ chain[i + 1] \in Node
  BY <1>1, InHand, ListFacts DEF At, Uses, IInv, TypeOK
<1>3. i' \in 1..MaxVals
  BY <1>1, <1>2, InHand, FieldAssumption DEF IInv, TypeOK
<1>4. TypeOK'
  BY <1>2, <1>3 DEF IInv, TypeOK
<1>5. ListOK'
  BY DEF IInv, ListOK, Left
<1>6. InField' = InField /\ Pending' = Pending /\ Held' = Held
      /\ \A k : Slot(k)' = Slot(k)
  BY DEF Held, Pending, InField, Slot
<1>7. OwnedOnce'
  BY <1>6 DEF IInv, OwnedOnce
<1>8. At(i)' = chain[i + 1]
  BY <1>1, <1>2 DEF At
<1>9. CursorOK'
  BY <1>1, <1>2, <1>8 DEF IInv, CursorOK
<1> QED
  BY <1>2, <1>4, <1>5, <1>7, <1>9 DEF IInv, NoFault

(* A call that only read the field returns.                                *)
LEMMA ReturnStep ==
  ASSUME IInv, pc \in {"get", "all"}, NEW e \in {"ok", "nomem", "null"},
         Return(e), out' \in Seq(Value \cup {Junk}), fault' = fault,
         UNCHANGED <<heap, fld, caller, chain, lost>>
  PROVE  IInv'
<1> USE DEF heap, fld, Return
<1>1. TypeOK'
  BY FieldAssumption DEF IInv, TypeOK
<1>2. ListOK'
  BY DEF IInv, ListOK, Left
<1>3. InField' = InField /\ Pending' = Pending /\ Held' = Held
      /\ \A k : Slot(k)' = Slot(k)
  BY DEF Held, Pending, InField, Slot
<1>4. OwnedOnce'
  BY <1>3 DEF IInv, OwnedOnce
<1>5. CursorOK'
  BY DEF IInv, CursorOK
<1> QED
  BY <1>1, <1>2, <1>4, <1>5 DEF IInv, NoFault
(* One value takes another's slot, and the other is released.              *)
LEMMA SwapOK ==
  ASSUME IInv, exists, pc # "delete", NEW m \in 1..nVals, NEW v,
         v \in caller \cup Pending, Pending \subseteq {v},
         exists', pc' = "client", nVals' = nVals, lost' = lost,
         caller' = caller \ {v}, liveV' = liveV \ {Slot(m)},
         \A k \in 1..nVals : Slot(k)' = IF k = m THEN v ELSE Slot(k)
  PROVE  OwnedOnce' /\ Vals' = [Vals EXCEPT ![m] = v]
<1>1. Held = 1..nVals /\ Held' = 1..nVals /\ Pending' = {}
  BY DEF Held, Pending
<1>2. v \notin InField /\ v \notin lost /\ v \in liveV
  BY DEF IInv, OwnedOnce
<1>3. \A j, k \in 1..nVals : Slot(j) = Slot(k) => j = k
  BY <1>1 DEF IInv, OwnedOnce
<1>4. Slot(m) \in InField
  BY <1>1 DEF InField
<1>5. InField' = (InField \ {Slot(m)}) \cup {v}
  BY <1>1, <1>3 DEF InField
<1>6. \A j, k \in Held' : Slot(j)' = Slot(k)' => j = k
  <2>1. \A k \in 1..nVals : Slot(k) # v
    BY <1>1, <1>2 DEF InField
  <2> QED
    BY <1>1, <1>3, <2>1
<1>7. OwnedOnce'
  <2>1. liveV' = caller' \cup lost' \cup Pending' \cup InField'
    BY <1>1, <1>2, <1>4, <1>5 DEF IInv, OwnedOnce
  <2>2. /\ caller' \cap lost' = {}
        /\ (caller' \cup lost') \cap (Pending' \cup InField') = {}
    BY <1>1, <1>2, <1>5 DEF IInv, OwnedOnce
  <2> QED
    BY <1>1, <1>6, <2>1, <2>2 DEF OwnedOnce
<1>8. Vals' = [Vals EXCEPT ![m] = v]
  BY DEF Vals
<1> QED
  BY <1>7, <1>8

(* ee_replaceValueInField is entered, or done at once for the inline value. *)
LEMMA ReplaceCallStep ==
  ASSUME IInv, NEW v \in Value, NEW k \in 0..MaxVals, Replace(v, k)
  PROVE  IInv' /\ (UNCHANGED Vals \/ (k = 0 /\ Vals' = [Vals EXCEPT ![1] = v]))
<1> USE DEF heap, fld, loop, ghost
<1>1. pc = "client" /\ exists /\ v \in caller /\ nVals \in Nat /\ k \in Nat
      /\ MaxVals \in Nat /\ nVals <= MaxVals
  BY FieldAssumption DEF Replace, Call, Idle, IInv, TypeOK
<1>2. CASE Fails("range")
  <2>1. out \in Seq(Value \cup {Junk}) /\ named \in BOOLEAN
    BY DEF IInv, TypeOK
  <2>2. UNCHANGED Vals
    BY <1>2 DEF Fails, Vals, Slot
  <2> QED
    BY <1>1, <1>2, <2>1, <2>2, QuietStep DEF Fails, Quiet
<1>3. CASE /\ k < nVals /\ k = 0
           /\ FreeValues({val}) /\ val' = v
           /\ Uses(val, liveV)
           /\ caller' = caller \ {v} /\ rc' = "ok"
           /\ UNCHANGED <<liveN, node, exists, named, nVals, valroot, valtail,
                          loop, out, chain, lost>>
  <2>1. 1 \in 1..nVals /\ Slot(1) = val
    BY <1>1, <1>3 DEF Slot
  <2>2. val \in liveV /\ fault' = fault /\ liveV' = liveV \ {Slot(1)}
    <3>1. 1 \in Held
      BY <1>1, <2>1 DEF Held
    <3> QED
      BY <1>3, <2>1, <3>1, ListFacts DEF Uses, FreeValues, IInv, TypeOK
  <2>3. \A j \in 1..nVals : Slot(j)' = IF j = 1 THEN v ELSE Slot(j)
    BY <1>3 DEF Slot
  <2>4. Pending = {}
    BY <1>1 DEF Pending
  <2>5. OwnedOnce' /\ Vals' = [Vals EXCEPT ![1] = v]
    BY <1>1, <1>3, <2>1, <2>2, <2>3, <2>4, SwapOK
  <2>6. TypeOK'
    BY <1>3, <2>2 DEF IInv, TypeOK
  <2>7. ListOK'
    BY <1>3 DEF IInv, ListOK, Left
  <2>8. CursorOK'
    BY <1>1, <1>3 DEF IInv, CursorOK
  <2> QED
    BY <1>3, <2>2, <2>5, <2>6, <2>7, <2>8 DEF IInv, NoFault
<1>4. CASE /\ k < nVals /\ k # 0 /\ Enter("replace", k, v)
           /\ caller' = caller \ {v} /\ UNCHANGED <<heap, fld, rc, out, ghost>>
  <2> USE DEF Enter
  <2>1. k \in 1..Len(chain) /\ 1 \in 1..Len(chain) /\ Len(chain) \in Nat
    BY <1>1, <1>4, ListFacts DEF IInv, ListOK
  <2>2. valroot = chain[1] /\ valroot \in Node /\ v # Null
    BY <2>1, ListFacts, FieldAssumption DEF IInv, ListOK
  <2>3. TypeOK'
    BY <1>1, <1>4, <2>2 DEF IInv, TypeOK
  <2>4. ListOK'
    BY <1>1, <1>4 DEF IInv, ListOK, Left
  <2>5. InField' = InField /\ Held' = Held /\ \A j : Slot(j)' = Slot(j)
    BY <1>1, <1>4 DEF Held, InField, Slot
  <2>6. Pending = {} /\ Pending' = {v}
    BY <1>1, <1>4 DEF Pending
  <2>7. OwnedOnce'
    BY <1>1, <1>4, <2>5, <2>6 DEF IInv, OwnedOnce
  <2>8. CursorOK'
    BY <1>1, <1>4, <2>1, <2>2 DEF IInv, CursorOK, At
  <2>9. UNCHANGED Vals
    BY <1>4 DEF Vals, Slot
  <2> QED
    BY <1>4, <2>3, <2>4, <2>7, <2>8, <2>9 DEF IInv, NoFault
<1> QED
  BY <1>2, <1>3, <1>4 DEF Replace

(* The value in the n-th node is replaced.                                 *)
LEMMA ReplaceEndStep ==
  ASSUME IInv, ReplaceEnd
  PROVE  IInv' /\ Vals' = [Vals EXCEPT ![n + 1] = new] /\ new \in Value
         /\ n + 1 \in 1..nVals
<1> USE DEF fld, Return
<1>1. /\ pc = "replace" /\ exists /\ i = n /\ i \in 1..Len(chain)
      /\ new # Null /\ new \in Value
  BY FieldAssumption, ListFacts DEF ReplaceEnd, IInv, CursorOK, TypeOK
<1>2. /\ FreeValues({ValOf(cur)})
      /\ fault' = (fault \/ cur \notin liveN \/ ValOf(cur) \notin liveV)
      /\ node' = [q \in Node |-> IF q = cur THEN [node[q] EXCEPT !.val = new]
                                 ELSE node[q]]
      /\ Return("ok")
      /\ UNCHANGED <<liveN, fld, out, caller, chain, lost>>
  BY DEF ReplaceEnd
<1>3. /\ cur = chain[n] /\ cur \in Node /\ cur \in liveN /\ ValOf(cur) = Slot(n + 1)
      /\ nVals = Len(chain) + 1 /\ n + 1 \in 2..nVals /\ ValOf(cur) \in liveV
  BY <1>1, InHand, ValueInHand
<1>4. fault' = fault /\ liveV' = liveV \ {Slot(n + 1)}
  BY <1>2, <1>3 DEF FreeValues, IInv, TypeOK
<1>5. node' \in [Node -> [val : Value \cup {Junk}, next : Node \cup {Null, Junk}]]
  BY <1>1, <1>2 DEF IInv, TypeOK
<1>6. /\ node'[cur].val = new
      /\ \A q \in Node \ {cur} : node'[q] = node[q]
      /\ \A q \in Node : node'[q].next = node[q].next
  BY <1>2, <1>3 DEF IInv, TypeOK
<1>7. \A k \in 1..nVals : Slot(k)' = IF k = n + 1 THEN new ELSE Slot(k)
  <2> SUFFICES ASSUME NEW k \in 1..nVals
               PROVE  Slot(k)' = IF k = n + 1 THEN new ELSE Slot(k)
    OBVIOUS
  <2>1. CASE k = 1
    BY <1>2, <1>3, <2>1 DEF Slot
  <2>2. CASE k = n + 1
    BY <1>1, <1>2, <1>3, <1>6, <2>2 DEF Slot
  <2>3. CASE k # 1 /\ k # n + 1
    <3>1. k - 1 \in 1..Len(chain) /\ k - 1 # n /\ n \in 1..Len(chain)
      BY <1>1, <1>3, <2>3, ListFacts
    <3>2. chain[k - 1] \in Node \ {cur}
      BY <1>3, <3>1, ListFacts DEF IInv, ListOK
    <3> QED
      BY <1>2, <1>6, <2>3, <3>2 DEF Slot
  <2> QED
    BY <2>1, <2>2, <2>3
<1>8. Pending = {new} /\ new \notin caller
  BY <1>1 DEF Pending, IInv, OwnedOnce
<1>9. n + 1 \in 1..nVals
  BY <1>3
<1>10. OwnedOnce' /\ Vals' = [Vals EXCEPT ![n + 1] = new]
  BY <1>1, <1>2, <1>4, <1>7, <1>8, <1>9, SwapOK
<1>11. TypeOK'
  BY <1>2, <1>4, <1>5, FieldAssumption DEF IInv, TypeOK
<1>12. ListOK'
  <2>1. Left' = Left /\ Left \subseteq 1..Len(chain)
    BY <1>1, <1>2, ListFacts DEF Left
  <2> QED
    BY <1>2, <1>6, <2>1, ListFacts DEF IInv, ListOK
<1>13. CursorOK'
  BY <1>1, <1>2 DEF CursorOK
<1> QED
  BY <1>1, <1>4, <1>9, <1>10, <1>11, <1>12, <1>13 DEF IInv, NoFault
(* The calls that read one value.                                          *)
LEMMA GetValueStep ==
  ASSUME IInv, NEW k \in 0..MaxVals, GetValue(k) PROVE IInv'
<1> USE DEF heap, fld, loop, ghost
<1>1. /\ pc = "client" /\ exists /\ nVals \in Nat /\ k \in Nat
      /\ MaxVals \in Nat /\ nVals <= MaxVals
      /\ UNCHANGED <<heap, fld, caller, chain, lost>>
  BY FieldAssumption DEF GetValue, Call, Idle, IInv, TypeOK
<1>2. <<>> \in Seq(Value \cup {Junk}) /\ named \in BOOLEAN
  BY EmptySeq DEF IInv, TypeOK
<1>3. CASE /\ k >= nVals /\ rc' = "null" /\ out' = <<>>
           /\ UNCHANGED <<loop, fault>>
  BY <1>1, <1>2, <1>3, QuietStep DEF Quiet
<1>4. CASE /\ k < nVals /\ k = 0 /\ Uses(val, liveV) /\ UNCHANGED loop
           /\ \/ rc' = "ok" /\ out' = <<val>>
              \/ rc' = "nomem" /\ out' = <<>>
  <2>1. 1 \in Held /\ Slot(1) = val
    BY <1>1, <1>4 DEF Held, Slot
  <2>2. val \in liveV /\ <<val>> \in Seq(Value \cup {Junk})
    BY <2>1, ListFacts
  <2>3. fault' = fault
    BY <1>4, <2>2 DEF Uses, IInv, TypeOK
  <2> QED
    BY <1>1, <1>2, <1>4, <2>2, <2>3, QuietStep DEF Quiet
<1>5. CASE /\ k < nVals /\ k # 0 /\ Enter("get", k, Null) /\ out' = <<>>
           /\ UNCHANGED <<rc, fault>>
  <2> USE DEF Enter
  <2>1. k \in 1..Len(chain) /\ 1 \in 1..Len(chain) /\ Len(chain) \in Nat
    BY <1>1, <1>5, ListFacts DEF IInv, ListOK
  <2>2. valroot = chain[1] /\ valroot \in Node
    BY <2>1, ListFacts DEF IInv, ListOK
  <2>3. TypeOK'
    BY <1>1, <1>2, <1>5, <2>2 DEF IInv, TypeOK
  <2>4. ListOK'
    BY <1>1, <1>5 DEF IInv, ListOK, Left
  <2>5. InField' = InField /\ Held' = Held /\ Pending' = Pending
        /\ \A j : Slot(j)' = Slot(j)
    BY <1>1, <1>5 DEF Held, InField, Slot, Pending
  <2>6. OwnedOnce'
    BY <1>1, <1>5, <2>5 DEF IInv, OwnedOnce
  <2>7. CursorOK'
    BY <1>1, <1>5, <2>1, <2>2 DEF IInv, CursorOK, At
  <2> QED
    BY <1>5, <2>3, <2>4, <2>6, <2>7 DEF IInv, NoFault
<1> QED
  BY <1>1, <1>3, <1>4, <1>5 DEF GetValue

LEMMA GetStepStep == ASSUME IInv, GetStep PROVE IInv'
<1>1. pc = "get" /\ i < n /\ n \in 1..Len(chain) /\ i \in 1..Len(chain)
  BY ListFacts, FieldAssumption DEF GetStep, IInv, CursorOK, TypeOK
<1>2. cur # Null
  BY <1>1, InHand, FieldAssumption
<1> QED
  BY <1>1, <1>2, AdvanceStep DEF GetStep

LEMMA GetEndStep ==
  ASSUME IInv, GetEnd PROVE IInv' /\ (out' = <<Slot(n + 1)>> \/ rc' # "ok")
<1>1. pc = "get" /\ i = n /\ i \in 1..Len(chain)
  BY FieldAssumption, ListFacts DEF GetEnd, IInv, CursorOK, TypeOK
<1>2. /\ ValOf(cur) = Slot(n + 1) /\ cur \in liveN /\ ValOf(cur) \in liveV
      /\ ValOf(cur) \in Value
  BY <1>1, InHand, ValueInHand
<1>3. fault' = fault
  BY <1>2 DEF GetEnd, IInv, TypeOK
<1>4. <<ValOf(cur)>> \in Seq(Value \cup {Junk}) /\ out \in Seq(Value \cup {Junk})
  BY <1>2 DEF IInv, TypeOK
<1>5. PICK e \in {"ok", "nomem"} :
        Return(e) /\ (e = "ok" => out' = <<ValOf(cur)>>)
        /\ out' \in Seq(Value \cup {Junk})
  BY <1>4 DEF GetEnd
<1> QED
  BY <1>1, <1>2, <1>3, <1>5, ReturnStep DEF GetEnd, Return

(* The call that reads all values: so far it has the first i of them.      *)
LEMMA GetAllCallStep == ASSUME IInv, GetAll PROVE IInv'
<1> USE DEF heap, fld, loop, ghost
<1>1. /\ pc = "client" /\ exists /\ nVals \in Nat
      /\ UNCHANGED <<heap, fld, caller, chain, lost>>
  BY FieldAssumption DEF GetAll, Call, Idle, IInv, TypeOK
<1>2. <<>> \in Seq(Value \cup {Junk}) /\ named \in BOOLEAN
  BY EmptySeq DEF IInv, TypeOK
<1>3. CASE /\ rc' \in {"err", "nomem"} /\ out' = <<>> /\ UNCHANGED <<loop, fault>>
  BY <1>1, <1>2, <1>3, QuietStep DEF Quiet
<1>4. CASE /\ nVals # 0 /\ Uses(val, liveV) /\ out' = <<val>>
           /\ Enter("all", 0, Null) /\ UNCHANGED rc
  <2> USE DEF Enter
  <2>1. 1 \in Held /\ Slot(1) = val
    BY <1>1, <1>4 DEF Held, Slot
  <2>2. val \in liveV /\ <<val>> \in Seq(Value \cup {Junk})
    BY <2>1, ListFacts
  <2>3. fault' = fault
    BY <1>4, <2>2 DEF Uses, IInv, TypeOK
  <2>4. TypeOK'
    BY <1>1, <1>4, <2>2, <2>3, FieldAssumption DEF IInv, TypeOK
  <2>5. ListOK'
    BY <1>1, <1>4 DEF IInv, ListOK, Left
  <2>6. InField' = InField /\ Held' = Held /\ Pending' = Pending
        /\ \A j : Slot(j)' = Slot(j)
    BY <1>1, <1>4 DEF Held, InField, Slot, Pending
  <2>7. OwnedOnce'
    BY <1>1, <1>4, <2>6 DEF IInv, OwnedOnce
  <2>8. valroot = At(1) /\ Len(chain) \in Nat
    BY ListFacts DEF IInv, ListOK, At
  <2>9. Len(out') = 1 /\ out'[1] = val
    BY <1>4
  <2>10. CursorOK'
    BY <1>1, <1>4, <2>1, <2>8, <2>9 DEF IInv, CursorOK, At, Slot
  <2> QED
    BY <2>3, <2>4, <2>5, <2>7, <2>10 DEF IInv, NoFault
<1> QED
  BY <1>1, <1>3, <1>4 DEF GetAll

LEMMA GetAllStepStep == ASSUME IInv, GetAllStep PROVE IInv'
<1> USE DEF heap, fld
<1>1. pc = "all" /\ i \in 1..Len(chain) /\ nVals > 0 /\ Len(out) = i
      /\ Len(chain) \in Nat /\ \A j \in 1..i : out[j] = Slot(j)
  BY ListFacts, FieldAssumption DEF GetAllStep, IInv, CursorOK, At
<1>2. /\ ValOf(cur) = Slot(i + 1) /\ NextOf(cur) = At(i + 1) /\ cur \in liveN
      /\ ValOf(cur) \in liveV /\ ValOf(cur) \in Value /\ nVals = Len(chain) + 1
  BY <1>1, InHand, ValueInHand
<1>3. fault' = fault /\ out \in Seq(Value \cup {Junk})
  BY <1>2 DEF GetAllStep, IInv, TypeOK
<1>4. CASE UNCHANGED out /\ Return("nomem")
  BY <1>1, <1>3, <1>4, ReturnStep DEF GetAllStep
<1>5. CASE /\ out' = Append(out, ValOf(cur))
           /\ cur' = NextOf(cur) /\ i' = i + 1
           /\ UNCHANGED <<pc, n, new, rc>>
  <2>1. UNCHANGED <<heap, fld, caller, chain, lost>>
    BY DEF GetAllStep
  <2>2. /\ out' \in Seq(Value \cup {Junk}) /\ Len(out') = i + 1
        /\ out'[i + 1] = ValOf(cur) /\ \A j \in 1..i : out'[j] = out[j]
    BY <1>1, <1>2, <1>3, <1>5, AppendProperties
  <2>3. At(i + 1) \in Node \cup {Null} /\ i + 1 \in 1..MaxVals
    BY <1>1, <1>2, ListFacts, FieldAssumption DEF At, IInv, TypeOK
  <2>4. TypeOK'
    BY <1>2, <1>3, <1>5, <2>1, <2>2, <2>3 DEF IInv, TypeOK
  <2>5. ListOK'
    BY <1>1, <1>5, <2>1 DEF IInv, ListOK, Left
  <2>6. InField' = InField /\ Held' = Held /\ Pending' = Pending
        /\ \A j : Slot(j)' = Slot(j)
    BY <1>1, <1>5, <2>1 DEF Held, InField, Slot, Pending
  <2>7. OwnedOnce'
    BY <2>1, <2>6 DEF IInv, OwnedOnce
  <2>8. \A j \in 1..(i + 1) : out'[j] = Slot(j)
    BY <1>1, <1>2, <2>2
  <2>9. cur' = At(i)' /\ i' \in 1..(Len(chain) + 1)
    BY <1>1, <1>2, <1>5, <2>1 DEF At
  <2>10. CursorOK'
    BY <1>1, <1>5, <2>1, <2>2, <2>6, <2>8, <2>9 DEF IInv, CursorOK
  <2> QED
    BY <1>3, <2>4, <2>5, <2>7, <2>10 DEF IInv, NoFault
<1> QED
  BY <1>4, <1>5 DEF GetAllStep

LEMMA GetAllEndStep == ASSUME IInv, GetAllEnd PROVE IInv' /\ out' = Vals
<1>1. pc = "all" /\ cur = Null /\ Return("ok")
      /\ UNCHANGED <<heap, fld, out, caller, ghost>>
  BY DEF GetAllEnd
<1>2. /\ i = Len(chain) + 1 /\ nVals = Len(chain) + 1 /\ Len(out) = i
      /\ \A j \in 1..i : out[j] = Slot(j)
  BY <1>1, ListFacts, FieldAssumption DEF IInv, CursorOK, At, ListOK, TypeOK
<1>3. out \in Seq(Value \cup {Junk})
  BY DEF IInv, TypeOK
<1>4. out = [k \in 1..nVals |-> Slot(k)]
  BY <1>2, <1>3, LenProperties
<1> QED
  BY <1>1, <1>3, <1>4, ReturnStep DEF Vals, ghost
(* ee_deleteField frees the inline value and enters its loop.              *)
LEMMA DeleteCallStep == ASSUME IInv, Delete PROVE IInv'
<1> USE DEF fld
<1>1. /\ pc = "client" /\ exists /\ nVals \in Nat /\ Len(chain) \in Nat /\ n = 0 /\ new = Null
      /\ pc' = "delete" /\ i' = 1 /\ cur' = IF nVals > 1 THEN valroot ELSE Null
      /\ UNCHANGED <<liveN, node, fld, n, new, rc, out, caller, chain, lost>>
  BY ListFacts, FieldAssumption DEF Delete, Call, Idle, IInv, TypeOK, CursorOK
<1>2. /\ liveV' = liveV \ (IF nVals > 0 THEN {val} ELSE {})
      /\ fault' = (fault \/ (nVals > 0 /\ val \notin liveV))
  BY DEF Delete, FreeValues
<1>3. nVals > 0 => 1 \in Held /\ Slot(1) = val /\ val \in liveV
  <2>1. nVals > 0 => 1 \in Held /\ Slot(1) = val
    BY <1>1 DEF Held, Slot
  <2> QED
    BY <2>1, ListFacts
<1>4. fault' = fault
  BY <1>2, <1>3 DEF IInv, TypeOK
<1>5. cur' = At(1) /\ At(1) \in Node \cup {Null}
  BY <1>1, ListFacts DEF At, IInv, ListOK
<1>6. TypeOK'
  BY <1>1, <1>2, <1>4, <1>5, FieldAssumption DEF IInv, TypeOK
<1>7. ListOK'
  BY <1>1 DEF IInv, ListOK, Left
<1>8. Held = 1..nVals /\ Held' = 2..nVals /\ Pending = {} /\ Pending' = {}
      /\ \A j : Slot(j)' = Slot(j)
  BY <1>1 DEF Held, Pending, Slot
<1>9. InField' = InField \ (IF nVals > 0 THEN {val} ELSE {})
  <2>1. \A j, k \in 1..nVals : Slot(j) = Slot(k) => j = k
    BY <1>8 DEF IInv, OwnedOnce
  <2>2. \A j \in 1..nVals : j = 1 \/ j \in 2..nVals
    BY <1>1
  <2>3. \A j \in 2..nVals : j \in 1..nVals /\ j # 1 /\ nVals > 0 /\ 1 \in 1..nVals
    BY <1>1
  <2>4. InField' = {Slot(j) : j \in 2..nVals} /\ InField = {Slot(j) : j \in 1..nVals}
    BY <1>8 DEF InField
  <2>5. CASE nVals = 0
    <3>1. 2..nVals = {} /\ 1..nVals = {}
      BY <2>5
    <3> QED
      BY <2>4, <2>5, <3>1
  <2>6. CASE nVals > 0
    BY <1>3, <2>1, <2>2, <2>3, <2>4, <2>6
  <2> QED
    BY <1>1, <2>5, <2>6
<1>10. OwnedOnce'
  <2>1. \A j, k \in Held' : Slot(j)' = Slot(k)' => j = k
    <3>1. Held' \subseteq Held
      BY <1>1, <1>8
    <3> QED
      BY <1>8, <3>1 DEF IInv, OwnedOnce
  <2>2. nVals > 0 => val \in InField
    BY <1>3 DEF InField
  <2>3. liveV' = caller' \cup lost' \cup Pending' \cup InField'
    BY <1>1, <1>2, <1>8, <1>9, <2>2 DEF IInv, OwnedOnce
  <2>4. /\ caller' \cap lost' = {}
        /\ (caller' \cup lost') \cap (Pending' \cup InField') = {}
    BY <1>1, <1>8, <1>9 DEF IInv, OwnedOnce
  <2> QED
    BY <1>8, <2>1, <2>3, <2>4 DEF OwnedOnce
<1>11. CursorOK'
  BY <1>1, <1>5 DEF CursorOK, At
<1> QED
  BY <1>4, <1>6, <1>7, <1>10, <1>11 DEF IInv, NoFault

(* One iteration frees one value and its node.                             *)
LEMMA DeleteStepStep == ASSUME IInv, DeleteStep PROVE IInv'
<1> USE DEF fld
<1>1. /\ pc = "delete" /\ exists /\ i \in 1..Len(chain) /\ Len(chain) \in Nat
      /\ nVals \in Nat /\ new = Null
  BY ListFacts, FieldAssumption DEF DeleteStep, IInv, CursorOK, At, TypeOK
<1>2. /\ cur = chain[i] /\ cur \in Node /\ cur \in liveN
      /\ ValOf(cur) = Slot(i + 1) /\ ValOf(cur) \in liveV
      /\ NextOf(cur) = At(i + 1) /\ nVals = Len(chain) + 1
  BY <1>1, InHand, ValueInHand
<1>3. /\ liveV' = liveV \ {Slot(i + 1)} /\ fault' = fault
      /\ cur' = At(i + 1) /\ i' = i + 1 /\ liveN' = liveN \ {chain[i]}
      /\ node' = [q \in Node |-> IF q = chain[i] THEN Garbage ELSE node[q]]
      /\ UNCHANGED <<fld, pc, n, new, rc, out, caller, chain, lost>>
  BY <1>2 DEF DeleteStep, FreeValues, IInv, TypeOK
<1>4. i + 1 \in 1..MaxVals /\ At(i + 1) \in Node \cup {Null}
  BY <1>1, <1>2, ListFacts, FieldAssumption DEF IInv, TypeOK, At
<1>5. node' \in [Node -> [val : Value \cup {Junk}, next : Node \cup {Null, Junk}]]
  BY <1>3 DEF IInv, TypeOK, Garbage
<1>6. TypeOK'
  BY <1>3, <1>4, <1>5 DEF IInv, TypeOK
<1>7. Left = i..Len(chain) /\ Left' = (i + 1)..Len(chain)
  BY <1>1, <1>3 DEF Left
<1>8. \A k \in (i + 1)..Len(chain) :
         /\ k \in Left /\ chain[k] \in Node \ {chain[i]}
         /\ node'[chain[k]] = node[chain[k]]
  <2> SUFFICES ASSUME NEW k \in (i + 1)..Len(chain)
               PROVE  /\ k \in Left /\ chain[k] \in Node \ {chain[i]}
                      /\ node'[chain[k]] = node[chain[k]]
    OBVIOUS
  <2>1. k \in Left /\ k \in 1..Len(chain) /\ k # i
    BY <1>1, <1>7
  <2>2. chain[k] \in Node \ {chain[i]}
    BY <1>1, <2>1, ListFacts DEF IInv, ListOK
  <2> QED
    BY <1>3, <2>1, <2>2 DEF IInv, TypeOK
<1>9. ListOK'
  <2>1. \A k \in Left' : node'[chain'[k]].next =
          IF k < Len(chain') THEN chain'[k + 1] ELSE Null
    BY <1>3, <1>7, <1>8 DEF IInv, ListOK
  <2>2. liveN' = {chain'[k] : k \in Left'}
    <3>1. liveN = {chain[k] : k \in Left}
      BY DEF IInv, ListOK
    <3>2. \A k \in Left : k = i \/ k \in (i + 1)..Len(chain)
      BY <1>1, <1>7
    <3> QED
      BY <1>3, <1>7, <1>8, <3>1, <3>2
  <2> QED
    BY <1>3, <2>1, <2>2 DEF IInv, ListOK
<1>10. Held = (i + 1)..nVals /\ Held' = (i + 2)..nVals /\ Pending = {} /\ Pending' = {}
  BY <1>1, <1>3 DEF Held, Pending
<1>11. \A k \in (i + 2)..nVals : k \in Held /\ k # i + 1 /\ Slot(k)' = Slot(k)
  <2> SUFFICES ASSUME NEW k \in (i + 2)..nVals
               PROVE  k \in Held /\ k # i + 1 /\ Slot(k)' = Slot(k)
    OBVIOUS
  <2>1. k - 1 \in (i + 1)..Len(chain) /\ k # 1
    BY <1>1, <1>2
  <2>2. node'[chain[k - 1]] = node[chain[k - 1]]
    BY <1>8, <2>1
  <2>3. Slot(k)' = Slot(k)
    BY <1>3, <2>1, <2>2 DEF Slot
  <2> QED
    BY <1>1, <1>10, <2>3
<1>12. i + 1 \in Held /\ \A k \in Held : k = i + 1 \/ k \in (i + 2)..nVals
  BY <1>1, <1>2, <1>10
<1>13. Slot(i + 1) \in InField
  BY <1>12 DEF InField
<1>14. InField' = InField \ {Slot(i + 1)}
  <2>1. \A j, k \in Held : Slot(j) = Slot(k) => j = k
    BY DEF IInv, OwnedOnce
  <2>2. InField' = {Slot(k) : k \in (i + 2)..nVals}
    BY <1>10, <1>11 DEF InField
  <2> QED
    BY <1>11, <1>12, <2>1, <2>2 DEF InField
<1>15. OwnedOnce'
  <2>1. \A j, k \in Held' : Slot(j)' = Slot(k)' => j = k
    BY <1>10, <1>11 DEF IInv, OwnedOnce
  <2>2. liveV' = caller' \cup lost' \cup Pending' \cup InField'
    BY <1>3, <1>10, <1>13, <1>14 DEF IInv, OwnedOnce
  <2>3. /\ caller' \cap lost' = {}
        /\ (caller' \cup lost') \cap (Pending' \cup InField') = {}
    BY <1>3, <1>10, <1>14 DEF IInv, OwnedOnce
  <2> QED
    BY <1>10, <2>1, <2>2, <2>3 DEF OwnedOnce
<1>16. CursorOK'
  <2>1. i' \in 1..(Len(chain') + 1) /\ cur' = At(i)'
    BY <1>1, <1>3 DEF At
  <2> QED
    BY <1>1, <1>3, <2>1 DEF CursorOK
<1> QED
  BY <1>3, <1>6, <1>9, <1>15, <1>16 DEF IInv, NoFault

(* After the last node nothing is left and the field is freed.             *)
LEMMA DeleteEndStep == ASSUME IInv, DeleteEnd PROVE IInv'
<1> USE DEF heap, Return
<1>1. /\ pc = "delete" /\ cur = Null /\ exists' = FALSE /\ named' = FALSE /\ nVals' = 0
      /\ val' = Junk /\ valroot' = Null /\ valtail' = Null /\ chain' = <<>>
      /\ Return("ok") /\ UNCHANGED <<heap, out, caller, lost, fault>>
  BY DEF DeleteEnd
<1>2. /\ i = Len(chain) + 1 /\ Len(chain) \in Nat /\ exists /\ nVals \in Nat
      /\ nVals <= Len(chain) + 1
  BY <1>1, ListFacts, FieldAssumption DEF IInv, CursorOK, At, ListOK, TypeOK
<1>3. Left = {} /\ Held = {}
  BY <1>1, <1>2 DEF Left, Held
<1>4. Left' = {} /\ Held' = {} /\ chain' \in Seq(Node) /\ Len(chain') = 0
  BY <1>1, EmptySeq DEF Left, Held
<1>10. 1 \in 1..MaxVals /\ 0 \in 0..MaxVals
  BY FieldAssumption
<1>5. TypeOK'
  BY <1>1, <1>4, <1>10 DEF IInv, TypeOK
<1>6. ListOK'
  BY <1>1, <1>3, <1>4 DEF IInv, ListOK
<1>7. Pending = {} /\ Pending' = {} /\ InField = {} /\ InField' = {}
  BY <1>1, <1>3, <1>4 DEF Pending, InField
<1>8. OwnedOnce'
  BY <1>1, <1>4, <1>7 DEF IInv, OwnedOnce
<1>9. CursorOK'
  BY <1>1 DEF CursorOK
<1> QED
  BY <1>1, <1>5, <1>6, <1>8, <1>9 DEF IInv, NoFault
(* Every step keeps the invariant.                                         *)
LEMMA NextInv == IInv /\ [Next]_vars => IInv'
<1> SUFFICES ASSUME IInv, [Next]_vars PROVE IInv'
  OBVIOUS
<1>1. CASE UNCHANGED vars
  <2> USE DEF vars, heap, fld, loop, ghost
  <2>1. TypeOK'
    BY <1>1 DEF IInv, TypeOK
  <2>2. ListOK'
    BY <1>1 DEF IInv, ListOK, Left
  <2>3. OwnedOnce'
    BY <1>1 DEF IInv, OwnedOnce, Held, Pending, InField, Slot
  <2>4. CursorOK'
    BY <1>1 DEF IInv, CursorOK, At, Slot
  <2> QED
    BY <1>1, <2>1, <2>2, <2>3, <2>4 DEF IInv, NoFault
<1>2. CASE NameField
  <2>1. /\ pc = "client" /\ Quiet /\ named' \in BOOLEAN /\ UNCHANGED out
        /\ rc' \in {"ok", "nomem", "hasname"}
    BY <1>2 DEF NameField, Call, Idle, Fails, Quiet, heap, fld, loop, ghost, IInv, TypeOK
  <2>2. out \in Seq(Value \cup {Junk})
    BY DEF IInv, TypeOK
  <2> QED
    BY <2>1, <2>2, QuietStep
<1>3. ASSUME NEW v \in Value,
             DeleteValue(v) \/ NewFieldFromNV(v) \/ AddValue(v)
             \/ \E k \in 0..MaxVals : Replace(v, k)
      PROVE  IInv'
  BY <1>3, DeleteValueStep, NewFieldStep, AddValueStep, ReplaceCallStep
<1>4. CASE Client
  BY <1>2, <1>3, <1>4, NewValueStep, NewFieldStep, AddStrValueStep,
     GetValueStep, GetAllCallStep, DeleteCallStep DEF Client
<1>5. CASE ReplaceStep
  <2>1. pc \in {"get", "replace"} /\ i < n /\ Advance
        /\ UNCHANGED <<heap, fld, rc, out, caller, chain, lost>>
    BY <1>5 DEF ReplaceStep
  <2> QED
    BY <2>1, AdvanceStep
<1>6. CASE Running
  BY <1>5, <1>6, ReplaceEndStep, GetStepStep, GetEndStep, GetAllStepStep,
     GetAllEndStep, DeleteStepStep, DeleteEndStep DEF Running
<1> QED
  BY <1>1, <1>4, <1>6 DEF Next

(* The strengthened invariant holds in every state.                        *)
THEOREM Invariance == Spec => []IInv
<1>1. Init => IInv
  BY InitInv
<1>2. IInv /\ [Next]_vars => IInv'
  BY NextInv
<1> QED
  BY <1>1, <1>2, PTL DEF Spec

(* The types: the counter never passes the limit and never wraps.          *)
THEOREM TypeCorrect == Spec => []TypeOK
<1>1. IInv => TypeOK
  BY DEF IInv
<1> QED
  BY <1>1, Invariance, PTL

(* Root, next and tail pointers, the counter and the allocated nodes agree. *)
THEOREM ListCorrect == Spec => []ListOK
<1>1. IInv => ListOK
  BY DEF IInv
<1> QED
  BY <1>1, Invariance, PTL

(* No call reads or frees what is not allocated.                           *)
THEOREM HeapSafe == Spec => []NoFault
<1>1. IInv => NoFault
  BY DEF IInv
<1> QED
  BY <1>1, Invariance, PTL

(* Every allocated value has exactly one owner.                            *)
THEOREM Ownership == Spec => []OwnedOnce
<1>1. IInv => OwnedOnce
  BY DEF IInv
<1> QED
  BY <1>1, Invariance, PTL

(* Only the calls with a loop are under way between two steps.             *)
LEMMA ClientIdle == Client => pc = "client"
  BY DEF Client, NewValue, DeleteValue, NewField, NewFieldFromNV, NameField,
         AddValue, AddStrValue, Replace, GetValue, GetAll, Delete, Call, Idle

(* A completed read returns the value or the values asked for.             *)
THEOREM Reads == Spec => ReadsAreRight
<1> DEFINE R == /\ pc = "get" /\ pc' = "client" => rc' \in {"ok", "nomem"}
                /\ pc = "get" /\ pc' = "client" /\ rc' = "ok"
                     => out' = <<Slot(n + 1)>>
                /\ pc = "all" /\ pc' = "client" /\ rc' = "ok" => out' = Vals
<1>1. IInv /\ [Next]_vars => [R]_vars
  <2> SUFFICES ASSUME IInv, Next PROVE R
    OBVIOUS
  <2>1. CASE Client
    BY <2>1, ClientIdle
  <2>2. CASE ReplaceStep \/ ReplaceEnd \/ DeleteStep \/ DeleteEnd
    BY <2>2 DEF ReplaceStep, ReplaceEnd, DeleteStep, DeleteEnd
  <2>3. CASE GetStep
    <3>1. pc = "get" /\ i < n /\ n \in 1..Len(chain) /\ i \in 1..Len(chain)
      BY <2>3, ListFacts, FieldAssumption DEF GetStep, IInv, CursorOK, TypeOK
    <3>2. cur # Null
      BY <3>1, InHand, FieldAssumption
    <3>3. pc' = pc
      BY <2>3, <3>2 DEF GetStep, Advance
    <3> QED
      BY <3>1, <3>3
  <2>4. CASE GetEnd
    <3>1. pc = "get" /\ rc' \in {"ok", "nomem"}
      BY <2>4 DEF GetEnd, Return
    <3> QED
      BY <2>4, <3>1, GetEndStep
  <2>5. CASE GetAllStep
    BY <2>5 DEF GetAllStep, Return
  <2>6. CASE GetAllEnd
    <3>1. pc = "all"
      BY <2>6 DEF GetAllEnd
    <3> QED
      BY <2>6, <3>1, GetAllEndStep
  <2> QED
    BY <2>1, <2>2, <2>3, <2>4, <2>5, <2>6 DEF Next, Running
<1> QED
  BY <1>1, Invariance, PTL DEF Spec, ReadsAreRight

(* The part of the list that is ahead of a call begins at its i-th node.   *)
AheadOK == pc # "client" => Ahead = i..Len(chain)
LEMMA AheadIs == IInv => AheadOK
<1> SUFFICES ASSUME IInv, pc # "client" PROVE Ahead = i..Len(chain)
  BY DEF AheadOK
<1>1. Len(chain) \in Nat /\ \A k \in 1..Len(chain) : chain[k] \in Node
  BY ListFacts
<1>2. i \in 1..(Len(chain) + 1) /\ cur = At(i)
  BY DEF IInv, CursorOK
<1>3. \A j, k \in 1..Len(chain) : chain[j] = chain[k] => j = k
  BY DEF IInv, ListOK
<1>4. \A j \in 1..Len(chain) : chain[j] = cur <=> j = i
  BY <1>1, <1>2, <1>3, FieldAssumption DEF At
<1> QED
  BY <1>1, <1>2, <1>4 DEF Ahead

(* An iteration moves on from a node of the list.                          *)
LEMMA Iterates ==
  ASSUME IInv, Next, pc # "client", pc' # "client"
  PROVE  i' = i + 1 /\ chain' = chain /\ i \in 1..Len(chain) /\ Len(chain) \in Nat
<1>1. Len(chain) \in Nat /\ i \in 1..(Len(chain) + 1) /\ cur = At(i)
  BY ListFacts DEF IInv, CursorOK
<1>2. pc \in {"get", "replace"} => n \in 1..Len(chain)
  BY DEF IInv, CursorOK
<1>3. cur # Null => i \in 1..Len(chain)
  BY <1>1 DEF At
<1>4. Running
  BY ClientIdle DEF Next
<1>5. CASE ReplaceStep
  BY <1>1, <1>2, <1>5 DEF ReplaceStep, Advance
<1>6. CASE GetStep
  BY <1>1, <1>3, <1>6 DEF GetStep, Advance, Return
<1>7. CASE GetAllStep
  BY <1>1, <1>3, <1>7 DEF GetAllStep, Return
<1>8. CASE DeleteStep
  BY <1>1, <1>3, <1>8 DEF DeleteStep
<1> QED
  BY <1>4, <1>5, <1>6, <1>7, <1>8
     DEF Running, ReplaceEnd, GetEnd, GetAllEnd, DeleteEnd, Return

(* Each iteration leaves less of the list ahead of it.                     *)
THEOREM Loops == Spec => WalksShorten
<1>1. IInv /\ AheadOK /\ AheadOK' /\ [Next]_vars =>
        [pc # "client" /\ pc' # "client" => Ahead' \subseteq Ahead /\ Ahead' # Ahead]_vars
  <2> SUFFICES ASSUME IInv, AheadOK, AheadOK', Next, pc # "client", pc' # "client"
               PROVE  Ahead' \subseteq Ahead /\ Ahead' # Ahead
    OBVIOUS
  <2>1. i' = i + 1 /\ chain' = chain /\ i \in 1..Len(chain) /\ Len(chain) \in Nat
    BY Iterates
  <2>2. Ahead = i..Len(chain) /\ Ahead' = (i + 1)..Len(chain)
    BY <2>1 DEF AheadOK
  <2>3. i \in Ahead /\ i \notin Ahead'
    BY <2>1, <2>2
  <2> QED
    BY <2>1, <2>2, <2>3
<1> QED
  BY <1>1, AheadIs, Invariance, PTL DEF Spec, WalksShorten

(* The values form a sequence of nVals members.                            *)
LEMMA ValsLen == IInv => Len(Vals) = nVals /\ nVals \in 0..MaxVals
<1> SUFFICES ASSUME IInv PROVE Len(Vals) = nVals /\ nVals \in 0..MaxVals
  OBVIOUS
<1>1. nVals \in 0..MaxVals /\ nVals \in Nat
  BY FieldAssumption DEF IInv, TypeOK
<1> QED
  BY <1>1 DEF Vals

(* A step on which the sequence does not change.                           *)
LEMMA Stutter == UNCHANGED <<Open, Vals>> => UNCHANGED Seq_!svars
  BY DEF Seq_!svars

(* Every step is a step of the sequence or leaves it alone.                *)
LEMMA SeqStep == IInv /\ [Next]_vars => [Seq_!Next]_Seq_!svars
<1> SUFFICES ASSUME IInv, [Next]_vars PROVE [Seq_!Next]_Seq_!svars
  OBVIOUS
<1> USE DEF heap, fld, loop, ghost
<1>1. ASSUME UNCHANGED <<exists, nVals, val, node, chain>>,
             \/ pc \in {"client", "get", "all", "replace"} /\ pc' # "delete"
             \/ pc' = pc
      PROVE  UNCHANGED Seq_!svars
  <2>1. UNCHANGED <<Open, Vals>>
    BY <1>1 DEF Open, Vals, Slot
  <2> QED
    BY <2>1, Stutter
<1>2. CASE UNCHANGED vars
  BY <1>1, <1>2 DEF vars
<1>3. CASE NewValue \/ NameField
  BY <1>1, <1>3 DEF NewValue, NameField, Fails
<1>4. ASSUME NEW v \in Value, DeleteValue(v) PROVE UNCHANGED Seq_!svars
  BY <1>1, <1>4 DEF DeleteValue
<1>5. CASE NewField
  <2>1. CASE Fails("nomem")
    BY <1>1, <2>1 DEF Fails
  <2>2. CASE exists' /\ nVals' = 0 /\ UNCHANGED loop
    <3>1. pc = "client" /\ ~exists
      BY <1>5 DEF NewField, Idle
    <3>2. ~Open /\ Open' /\ Vals' = <<>>
      BY <2>2, <3>1 DEF Open, Vals
    <3> QED
      BY <3>2 DEF Seq_!Next, Seq_!Open
  <2> QED
    BY <1>5, <2>1, <2>2 DEF NewField
<1>6. ASSUME NEW v \in Value, NewFieldFromNV(v) PROVE [Seq_!Next]_Seq_!svars
  <2>1. CASE Fails("nomem")
    BY <1>1, <2>1 DEF Fails
  <2>2. CASE exists' /\ nVals' = 1 /\ val' = v /\ UNCHANGED loop
    <3>1. pc = "client" /\ ~exists
      BY <1>6 DEF NewFieldFromNV, Idle
    <3>2. Slot(1)' = v
      BY <2>2 DEF Slot
    <3>3. 1..1 = {1} /\ Vals' = [k \in 1..1 |-> Slot(k)']
      BY <2>2 DEF Vals
    <3>4. Vals' = <<v>>
      BY <3>2, <3>3
    <3>5. ~Open /\ Open'
      BY <2>2, <3>1 DEF Open
    <3> QED
      BY <3>4, <3>5 DEF Seq_!Next, Seq_!Open
  <2> QED
    BY <1>6, <2>1, <2>2 DEF NewFieldFromNV
<1>16. ASSUME NEW v \in Value, Call, Add(v), Vals' = Append(Vals, v),
              UNCHANGED <<exists, loop>>
       PROVE  [Seq_!Next]_Seq_!svars
  <2>1. Open /\ Open'
    BY <1>16 DEF Call, Idle, Open
  <2>2. Len(Vals) < MaxVals
    BY <1>16, ValsLen, FieldAssumption DEF Add, AddFirst, AddToList, Full
  <2>3. Seq_!Add(v)
    BY <1>16, <2>1, <2>2 DEF Seq_!Add
  <2> QED
    BY <2>3 DEF Seq_!Next
<1>7. ASSUME NEW v \in Value, AddValue(v) PROVE [Seq_!Next]_Seq_!svars
  <2>1. CASE \E e \in AddError : Fails(e)
    BY <1>1, <2>1 DEF Fails
  <2>2. CASE /\ Add(v) /\ caller' = caller \ {v} /\ rc' = "ok"
             /\ UNCHANGED <<liveV, exists, named, loop, out, lost, fault>>
    <3>1. v \in caller /\ Call /\ v \notin lost /\ v \notin InField
          /\ liveV' = liveV \cup {v}
      BY <1>7, <2>2 DEF AddValue, IInv, OwnedOnce
    <3>2. Vals' = Append(Vals, v)
      BY <2>2, <3>1, AddOK
    <3> QED
      BY <1>16, <2>2, <3>1, <3>2
  <2> QED
    BY <1>7, <2>1, <2>2 DEF AddValue
<1>8. CASE AddStrValue
  <2>1. CASE Fails("nomem")
    BY <1>1, <2>1 DEF Fails
  <2>2. CASE /\ UNCHANGED <<liveN, node, fld, chain>> /\ UNCHANGED loop
    BY <1>1, <2>2
  <2>3. ASSUME NEW v \in Value \ liveV, liveV' = liveV \cup {v}, Add(v),
               rc' = "ok", UNCHANGED <<exists, named, lost>>,
               UNCHANGED <<loop, out, caller, fault>>
        PROVE  [Seq_!Next]_Seq_!svars
    <3>1. Call /\ v \notin lost /\ v \notin InField /\ caller' = caller \ {v}
      BY <1>8, <2>3 DEF AddStrValue, IInv, OwnedOnce
    <3>2. Vals' = Append(Vals, v)
      BY <2>3, <3>1, AddOK
    <3> QED
      BY <1>16, <2>3, <3>1, <3>2
  <2> QED
    BY <1>8, <2>1, <2>2, <2>3 DEF AddStrValue
<1>17. ASSUME NEW v \in Value, NEW k \in 1..nVals, Open, Open',
              Vals' = [Vals EXCEPT ![k] = v]
       PROVE  [Seq_!Next]_Seq_!svars
  <2>1. k \in 1..Len(Vals) /\ k \in 1..MaxVals
    BY ValsLen, FieldAssumption
  <2>2. Seq_!Put(k, v)
    BY <1>17, <2>1 DEF Seq_!Put
  <2> QED
    BY <2>1, <2>2 DEF Seq_!Next
<1>9. ASSUME NEW v \in Value, NEW k \in 0..MaxVals, Replace(v, k)
      PROVE  [Seq_!Next]_Seq_!svars
  <2>1. pc = "client" /\ exists /\ Open /\ Open'
    BY <1>9 DEF Replace, Call, Idle, Open, Fails, Enter
  <2>2. CASE UNCHANGED Vals
    BY <2>1, <2>2, Stutter
  <2>3. CASE k = 0 /\ Vals' = [Vals EXCEPT ![1] = v] /\ k < nVals
    <3>1. 1 \in 1..nVals
      BY <2>3, ValsLen, FieldAssumption
    <3> QED
      BY <1>17, <2>1, <2>3, <3>1
  <2>4. k < nVals \/ UNCHANGED Vals
    BY <1>9 DEF Replace, Fails, Vals, Slot
  <2> QED
    BY <1>9, <2>2, <2>3, <2>4, ReplaceCallStep
<1>10. CASE ReplaceEnd
  <2>1. exists /\ pc = "replace" /\ exists' /\ pc' = "client"
    BY <1>10 DEF ReplaceEnd, Return, IInv, CursorOK
  <2>2. Open /\ Open'
    BY <2>1 DEF Open
  <2> QED
    BY <1>10, <1>17, <2>2, ReplaceEndStep
<1>11. ASSUME NEW k \in 0..MaxVals, GetValue(k) PROVE UNCHANGED Seq_!svars
  <2>1. UNCHANGED <<heap, fld, chain>> /\ pc = "client" /\ pc' # "delete"
    BY <1>11 DEF GetValue, Enter, Call, Idle
  <2> QED
    BY <1>1, <2>1
<1>12. CASE GetAll
  <2>1. UNCHANGED <<heap, fld, chain>> /\ pc = "client" /\ pc' # "delete"
    BY <1>12 DEF GetAll, Enter, Call, Idle
  <2> QED
    BY <1>1, <2>1
<1>13. CASE ReplaceStep \/ GetStep \/ GetEnd \/ GetAllStep \/ GetAllEnd
  <2>1. /\ UNCHANGED <<heap, fld, chain>> /\ pc' # "delete"
        /\ pc \in {"get", "all", "replace"}
    BY <1>13 DEF ReplaceStep, GetStep, GetEnd, GetAllStep, GetAllEnd, Advance, Return
  <2> QED
    BY <1>1, <2>1
<1>14. CASE Delete
  <2>1. Open /\ ~Open'
    BY <1>14 DEF Delete, Call, Idle, Open
  <2> QED
    BY <2>1 DEF Seq_!Next, Seq_!Close
<1>15. CASE DeleteStep \/ DeleteEnd
  <2>1. ~Open /\ ~Open'
    BY <1>15 DEF DeleteStep, DeleteEnd, Open
  <2> QED
    BY <2>1 DEF Seq_!svars, Open
<1> QED
  BY <1>2, <1>3, <1>4, <1>5, <1>6, <1>7, <1>8, <1>9, <1>10, <1>11, <1>12,
     <1>13, <1>14, <1>15 DEF Next, Client, Running

(* The field implements a bounded sequence of values.                      *)
THEOREM Refinement == Spec => ImplementsValueSeq
<1>1. Init => Seq_!Init
  BY DEF Init, Seq_!Init, Open
<1> QED
  BY <1>1, SeqStep, Invariance, PTL DEF Spec, ImplementsValueSeq, Seq_!Spec
=============================================================================
