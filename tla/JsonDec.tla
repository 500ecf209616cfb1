------------------------------ MODULE JsonDec ------------------------------
(***************************************************************************)
(* The decoder for JSON lines (json_dec.c, json_event.c).                  *)
(*                                                                         *)
(* One call of ee_jsonDec.  Each line is parsed to a tree of items, the    *)
(* leaves of the tree become the fields of an event, and the names of a    *)
(* field's ancestors, joined with dots, are its name.  The code recurses   *)
(* over the children of an item; here the frames of that recursion are on  *)
(* a stack, and each item visited is a step.                               *)
(*                                                                         *)
(* A tree is the sequence of its items in document order, each with its    *)
(* depth; a dotted name is the sequence of its parts, and <<>> is "".      *)
(* Most allocations here are not checked: where the code goes on with the  *)
(* NULL pointer and reads through it, the process crashes.                 *)
(***************************************************************************)
EXTENDS Integers, Sequences, SequencesExt

CONSTANTS Names,      \* non-empty names of the members of objects
          LeafTypes,  \* types of items that have a value
          MaxItems,   \* bound: items of a tree
          MaxLines,   \* bound: lines of a file
          NoName,     \* item->string is NULL: the root, members of arrays
          NoStr       \* the content of a value whose string is NULL

Containers == {"Object", "Array"}

ASSUME JsonAssumption ==
  /\ LeafTypes \subseteq {"String", "Number", "NULL", "False", "True"}
  /\ {MaxItems, MaxLines} \subseteq Nat
  /\ NoName \notin Names \cup {"", "*"} /\ "" \notin Names

VARIABLES
  pc, r, errMsg, lnNbr,     \* ee_jsonDec; the line the message names, or 0
  tree, bucket,             \* the parsed line; is there a field bucket?
  stack,                    \* frames of parse_and_callback: item and prefix
  fields,                   \* the fields of the event under construction
  oom,                      \* auxiliary: an allocation failed in this line
  sent                      \* auxiliary: how many events cbNewEvt received

walk == <<tree, bucket, stack, fields, oom>>
vars == <<pc, r, errMsg, lnNbr, walk, sent>>

Init == /\ pc = "open" /\ r = "ok" /\ errMsg = 0 /\ lnNbr = 1 /\ sent = 0
        /\ tree = <<>> /\ bucket = FALSE /\ stack = <<>>
        /\ fields = <<>> /\ oom = FALSE

----------------------------------------------------------------------------
(* What cJSON_Parse builds.                                                *)

Leaf(it) == it.type \in LeafTypes

Parent(t, d) == LET S == {j \in 1..Len(t) : t[j].depth = d - 1}
                IN  t[CHOOSE j \in S : \A i \in S : i <= j]

\* the items that can follow in a tree whose items so far are t
Following(t) ==
  {it \in [depth : 1..(t[Len(t)].depth + 1), type : LeafTypes \cup Containers,
           name : Names \cup {"", NoName}] :
     /\ it.depth > t[Len(t)].depth => ~Leaf(t[Len(t)])
     /\ it.name = NoName <=> Parent(t, it.depth).type = "Array"}

TreesOf[n \in 1..MaxItems] ==
  IF n = 1
  THEN {<<it>> : it \in [depth : {0}, type : LeafTypes \cup Containers,
                         name : {NoName}]}
  ELSE UNION {{Append(t, it) : it \in Following(t)} : t \in TreesOf[n - 1]}
Trees == UNION {TreesOf[n] : n \in 1..MaxItems}

\* Mutant of Child: an empty container has a child, too.
ChildByType(t, k) == IF Leaf(t[k]) THEN 0 ELSE k + 1

\* item->child and item->next; 0 is NULL
Child(t, k) == IF k < Len(t) /\ t[k + 1].depth > t[k].depth THEN k + 1 ELSE 0
NextItem(t, k) ==
  LET S == {j \in (k + 1)..Len(t) :
              /\ t[j].depth = t[k].depth
              /\ \A i \in (k + 1)..(j - 1) : t[i].depth > t[k].depth}
  IN  IF S = {} THEN 0 ELSE CHOOSE j \in S : TRUE

----------------------------------------------------------------------------
(* ee_jsonDec and processLn.                                               *)

\* Mutant of GetLine: the first line is counted like the others.
GetLineCountsEarly ==
  /\ pc \in {"open", "read"}
  /\ lnNbr' = lnNbr + 1
  /\ \/ lnNbr' <= MaxLines /\ pc' = "line" /\ UNCHANGED r
     \/ r' \in {"ok", "ioerr"} /\ pc' = "done"
  /\ UNCHANGED <<errMsg, walk, sent>>

\* cbGetLine: a line, the end of the file (a return of 0), or an error
GetLine ==
  /\ pc \in {"open", "read"}
  /\ lnNbr' = IF pc = "open" THEN lnNbr ELSE lnNbr + 1
  /\ \/ lnNbr' <= MaxLines /\ pc' = "line" /\ UNCHANGED r
     \/ r' \in {"ok", "ioerr"} /\ pc' = "done"
  /\ UNCHANGED <<errMsg, walk, sent>>

Fail(code) == pc' = "done" /\ r' = code /\ errMsg' = lnNbr
NoEvent == /\ tree' = <<>> /\ bucket' = FALSE /\ stack' = <<>>
           /\ fields' = <<>> /\ oom' = FALSE
Crash == pc' = "crashed" /\ NoEvent /\ UNCHANGED <<r, errMsg>>

\* ee_newEventFromJSON up to the walk.  A line that is no JSON and a line
\* there is no memory to parse are the same to the code.
Parse ==
  /\ pc = "line"
  /\ \/ Crash
     \/ Fail("nomem") /\ NoEvent
     \/ /\ tree' \in Trees /\ bucket' \in BOOLEAN /\ oom' = ~bucket'
        /\ stack' = <<[item |-> 1, prefix |-> <<>>]>> /\ fields' = <<>>
        /\ pc' = "walk" /\ UNCHANGED <<r, errMsg>>
  /\ UNCHANGED <<lnNbr, sent>>

\* Mutant of Deliver: a consumer that fails is given the line again.
DeliverRetries ==
  /\ pc = "deliver"
  /\ \/ pc' = "read" /\ sent' = sent + 1
     \/ pc' = "line" /\ UNCHANGED sent
  /\ NoEvent /\ UNCHANGED <<r, errMsg, lnNbr>>

\* cbNewEvt
Deliver == /\ pc = "deliver"
           /\ sent' = sent + 1
           /\ \/ pc' = "read" /\ UNCHANGED <<r, errMsg>>
              \/ Fail("cbfail")
           /\ NoEvent /\ UNCHANGED lnNbr

----------------------------------------------------------------------------
(* parse_and_callback: one item per step.                                  *)

Top  == Last(stack)
Item == tree[Top.item]

\* newprefix: the name of item it below a prefix
Under(prefix, it) ==
  IF prefix = <<>> THEN IF it.name \in {NoName, ""} THEN <<>> ELSE <<it.name>>
                   ELSE Append(prefix, IF it.name = NoName THEN "*" ELSE it.name)

\* valstr: the text of each type of leaf
ValStr(it) == CASE it.type = "String" -> "s" [] it.type = "Number" -> "1"
                [] it.type = "NULL"   -> "-" [] it.type = "False"  -> "false"
                [] it.type = "True"   -> "true"

\* item = item->next in the frames s
Advance(s) == Append(Front(s), [Last(s) EXCEPT !.item = NextItem(tree, @)])

\* Mutant of Visit: a field gets the item's own name.
VisitBareName ==
  /\ pc = "walk" /\ Top.item # 0 /\ Leaf(Item) /\ bucket
  /\ fields' = Append(fields, [name |-> <<Item.name>>, val |-> ValStr(Item)])
  /\ stack' = Advance(stack)
  /\ UNCHANGED <<pc, r, errMsg, lnNbr, tree, bucket, oom, sent>>

\* a leaf: callback adds a field, unless there is no memory for the list node
Visit ==
  /\ pc = "walk" /\ Top.item # 0 /\ Leaf(Item) /\ bucket
  /\ LET field(s) == [name |-> Under(Top.prefix, Item), val |-> s]
     IN  \/ fields' = Append(fields, field(ValStr(Item))) /\ UNCHANGED oom
         \/ fields' = Append(fields, field(NoStr)) /\ oom' = TRUE
         \/ oom' = TRUE /\ UNCHANGED fields
  /\ stack' = Advance(stack)
  /\ UNCHANGED <<pc, r, errMsg, lnNbr, tree, bucket, sent>>

\* no bucket, or no memory for the joined name, for the value or the field
VisitCrash ==
  /\ pc = "walk" /\ Top.item # 0 /\ (Leaf(Item) \/ Top.prefix # <<>>)
  /\ Crash
  /\ UNCHANGED <<lnNbr, sent>>

\* Mutant of Descend: the children get the prefix of their parent.
DescendSamePrefix ==
  /\ pc = "walk" /\ Top.item # 0 /\ ~Leaf(Item)
  /\ stack' = IF Child(tree, Top.item) = 0 THEN Advance(stack)
              ELSE Append(stack, [item |-> Child(tree, Top.item),
                                  prefix |-> Top.prefix])
  /\ UNCHANGED <<pc, r, errMsg, lnNbr, tree, bucket, fields, oom, sent>>

\* an object or array: callback does nothing, its children are visited
Descend ==
  /\ pc = "walk" /\ Top.item # 0 /\ ~Leaf(Item)
  /\ stack' = IF Child(tree, Top.item) = 0 THEN Advance(stack)
              ELSE Append(stack, [item |-> Child(tree, Top.item),
                                  prefix |-> Under(Top.prefix, Item)])
  /\ UNCHANGED <<pc, r, errMsg, lnNbr, tree, bucket, fields, oom, sent>>

\* the loop over siblings ends: on with what follows the parent
Return ==
  /\ pc = "walk" /\ Top.item = 0
  /\ \/ Len(stack) = 1 /\ stack' = <<>> /\ pc' = "deliver"
     \/ Len(stack) > 1 /\ stack' = Advance(Front(stack)) /\ UNCHANGED pc
  /\ UNCHANGED <<r, errMsg, lnNbr, tree, bucket, fields, oom, sent>>

Next == \/ GetLine \/ Parse \/ Deliver
        \/ Visit \/ VisitCrash \/ Descend \/ Return

Spec == Init /\ [][Next]_vars

\* the decoder runs on its caller's thread and the callbacks return
FairSpec == Spec /\ WF_vars(Next)

----------------------------------------------------------------------------
(* Properties.                                                             *)

(* Every variable has its type, and every frame points to an item or NULL. *)
TypeOK ==
  /\ pc \in {"open", "read", "line", "walk", "deliver", "done", "crashed"}
  /\ r \in {"ok", "nomem", "ioerr", "cbfail"}
  /\ lnNbr \in 1..(MaxLines + 1) /\ errMsg \in 0..MaxLines /\ sent \in 0..MaxLines
  /\ Len(tree) <= MaxItems /\ {bucket, oom} \subseteq BOOLEAN
  /\ \A d \in 1..Len(stack) : stack[d].item \in 0..Len(tree)
  /\ \A k \in 1..Len(fields) :
       fields[k].val \in {"s", "1", "-", "false", "true", NoStr}
  /\ stack # <<>> <=> pc = "walk"

(* A second reading of a tree: an item's line of ancestors, which is the   *)
(* last item of each depth up to its own, and its full name, which begins  *)
(* at the first ancestor that has a name.                                  *)
Line(k) == [d \in 1..(tree[k].depth + 1) |-> Max({j \in 1..k : tree[j].depth = d - 1})]
Path(k) ==
  LET names == [i \in DOMAIN Line(k) |-> tree[Line(k)[i]].name]
      named == {i \in DOMAIN names : names[i] \notin {NoName, ""}}
      parts == [i \in DOMAIN names |-> IF names[i] = NoName THEN "*" ELSE names[i]]
  IN  IF named = {} THEN <<>> ELSE SubSeq(parts, Min(named), Len(parts))

(* The frames of the recursion are a line of descent, and the prefix of    *)
(* each is the full name of the item the frame below stands on, also after *)
(* a return from a subtree (json_event.c:77-96).                           *)
StackIsLine ==
  \A d \in 1..Len(stack) :
    IF d = 1 THEN stack[d].item \in {0, 1} /\ stack[d].prefix = <<>>
    ELSE LET up == stack[d - 1].item
         IN  /\ up # 0 /\ stack[d].prefix = Path(up)
             /\ stack[d].item # 0 =>
                  Front(Line(stack[d].item)) = Line(up)

(* The fields of an event are leaves of the line's tree, each at most once *)
(* and in document order, under their full names; when no allocation has   *)
(* failed, the event handed over has them all (json_event.c:33-98).        *)
FieldsOfTree ==
  pc \in {"walk", "deliver"} =>
    LET leaves == {k \in 1..Len(tree) : Leaf(tree[k])}
        Is(f, k, vals) == f.name = Path(k) /\ f.val \in {ValStr(tree[k])} \cup vals
        complete == pc = "deliver" /\ ~oom
    IN  \E at \in [DOMAIN fields -> leaves] :
          /\ \A i, j \in DOMAIN fields : i < j => at[i] < at[j]
          /\ \A i \in DOMAIN fields : Is(fields[i], at[i], IF complete THEN {} ELSE {NoStr})
          /\ complete => Range(at) = leaves

(* Every line before the one in hand was handed over, once; a return of 0  *)
(* means that all were, a failing source is reported as such, and the      *)
(* message names the line that was refused (json_dec.c:70-90).             *)
OneEventPerLine ==
  /\ pc \notin {"done", "crashed"} =>
       errMsg = 0 /\ sent = IF pc = "read" THEN lnNbr ELSE lnNbr - 1
  /\ pc = "done" =>
       /\ sent = IF r = "cbfail" THEN lnNbr ELSE lnNbr - 1
       /\ errMsg = IF r \in {"ok", "ioerr"} THEN 0 ELSE lnNbr

(* The call returns, whatever fails, unless it crashes: the recursion over *)
(* a line and the loop over the lines end (json_dec.c:72-82).              *)
Returns == <>(pc \in {"done", "crashed"})
=============================================================================
