--------------------------- MODULE JsonDecProofs ---------------------------
(***************************************************************************)
(* Theorems about the JSON decoder for trees of any shape and size and     *)
(* files of any length: the recursion keeps the right prefix, an event has *)
(* the leaves of its line's tree, in order and under their full names, and *)
(* every line gives one event or the message that names it.                *)
(***************************************************************************)
EXTENDS JsonDec, SequenceLemmas

----------------------------------------------------------------------------
(* Trees.  A tree is in document order: an item is at most one level below *)
(* the one before it, and only below one that is no leaf.                  *)

ItemSet == [depth : Nat, type : LeafTypes \cup Containers,
            name : Names \cup {"", NoName}]

InOrder(t) ==
  /\ t \in Seq(ItemSet) /\ Len(t) \in 1..MaxItems
  /\ t[1].depth = 0 /\ t[1].name = NoName
  /\ \A k \in 2..Len(t) : /\ t[k].depth \in 1..(t[k - 1].depth + 1)
                          /\ t[k].depth > t[k - 1].depth => ~Leaf(t[k - 1])

\* g is TreesOf up to n.
Grows(g, n) ==
  g = [m \in 1..n |->
        IF m = 1
        THEN {<<it>> : it \in [depth : {0}, type : LeafTypes \cup Containers,
                               name : {NoName}]}
        ELSE UNION {{Append(t, it) : it \in Following(t)} : t \in g[m - 1]}]

LEMMA GrowsExist == ASSUME NEW m \in Nat PROVE \E g : Grows(g, m)
<1> DEFINE One == {<<it>> : it \in [depth : {0}, type : LeafTypes \cup Containers,
                                    name : {NoName}]}
           More(S) == UNION {{Append(t, it) : it \in Following(t)} : t \in S}
           T == {n \in Nat : ~\E g : Grows(g, n)}
<1> SUFFICES ASSUME T # {} PROVE FALSE
  OBVIOUS
<1>0. \A g, n : Grows(g, n) <=> g = [i \in 1..n |-> IF i = 1 THEN One ELSE More(g[i - 1])]
  BY DEF Grows
<1> HIDE DEF One, More
<1>1. PICK n \in T : \A k \in T : n <= k
  <2> HIDE DEF T
  <2>1. T \in SUBSET Nat
    BY DEF T
  <2> QED BY <2>1, Least
<1>2. ~\E g : Grows(g, n)
  OBVIOUS
<1>3. n # 0
  <2> SUFFICES ASSUME n = 0 PROVE FALSE
    OBVIOUS
  <2> DEFINE g == [i \in 1..0 |-> One]
  <2>1. g = [i \in 1..0 |-> IF i = 1 THEN One ELSE More(g[i - 1])]
    OBVIOUS
  <2> QED BY <1>0, <1>2, <2>1
<1>4. n - 1 \in Nat /\ n - 1 \notin T
  BY <1>1, <1>3
<1>5. PICK g : Grows(g, n - 1)
  BY <1>4
<1> DEFINE h == [i \in 1..n |-> IF i = n THEN IF n = 1 THEN One ELSE More(g[n - 1])
                                         ELSE g[i]]
<1>6. \A i \in 1..n : h[i] = IF i = 1 THEN One ELSE More(h[i - 1])
  <2> SUFFICES ASSUME NEW i \in 1..n
               PROVE  h[i] = IF i = 1 THEN One ELSE More(h[i - 1])
    OBVIOUS
  <2>1. CASE i = n
    BY <2>1
  <2>2. CASE i # n
    <3>1. /\ i \in 1..(n - 1) /\ h[i] = g[i]
          /\ i # 1 => i - 1 \in 1..n /\ i - 1 # n /\ h[i - 1] = g[i - 1]
      BY <2>2
    <3>2. g = [q \in 1..(n - 1) |-> IF q = 1 THEN One ELSE More(g[q - 1])]
      BY <1>0, <1>5
    <3>3. g[i] = IF i = 1 THEN One ELSE More(g[i - 1])
      BY <3>1, <3>2, Zenon
    <3> QED BY <3>1, <3>3
  <2> QED BY <2>1, <2>2
<1>7. h = [i \in 1..n |-> h[i]]
  OBVIOUS
<1>8. h = [i \in 1..n |-> IF i = 1 THEN One ELSE More(h[i - 1])]
  <2> HIDE DEF h
  <2> QED BY <1>6, <1>7
<1> QED BY <1>0, <1>2, <1>8

LEMMA TreesOfIs == MaxItems \in Nat => Grows(TreesOf, MaxItems)
<1> SUFFICES ASSUME MaxItems \in Nat PROVE Grows(TreesOf, MaxItems)
  OBVIOUS
<1>1. PICK g : Grows(g, MaxItems)
  BY GrowsExist
<1> QED BY <1>1, Zenon DEF Grows, TreesOf

\* One more item in document order.
LEMMA OneMore ==
  ASSUME NEW t, InOrder(t), NEW it \in Following(t), Len(t) + 1 <= MaxItems, MaxItems \in Nat
  PROVE  InOrder(Append(t, it)) /\ Len(Append(t, it)) = Len(t) + 1
<1> DEFINE u == Append(t, it)
           n == Len(t)
<1>1. /\ it \in ItemSet /\ it.depth \in 1..(t[n].depth + 1)
      /\ it.depth > t[n].depth => ~Leaf(t[n])
  <2>1. /\ it \in [depth : 1..(t[n].depth + 1), type : LeafTypes \cup Containers,
                   name : Names \cup {"", NoName}]
        /\ it.depth > t[n].depth => ~Leaf(t[n])
    BY DEF Following
  <2>2. t[n].depth \in Nat
    <3>1. t \in Seq(ItemSet) /\ n \in 1..Len(t)
      BY DEF InOrder
    <3>2. t[n] \in ItemSet
      BY <3>1
    <3> QED BY <3>2 DEF ItemSet
  <2>3. 1..(t[n].depth + 1) \subseteq Nat
    BY <2>2
  <2> QED BY <2>1, <2>3 DEF ItemSet
<1>2. /\ u \in Seq(ItemSet) /\ Len(u) = n + 1 /\ u[n + 1] = it /\ n \in Nat /\ n >= 1
      /\ \A i \in 1..n : u[i] = t[i]
  BY <1>1, AppendProperties DEF InOrder
<1> HIDE DEF u
<1>3. ASSUME NEW k \in 2..(n + 1)
      PROVE  /\ u[k].depth \in 1..(u[k - 1].depth + 1)
             /\ u[k].depth > u[k - 1].depth => ~Leaf(u[k - 1])
  <2>1. CASE k = n + 1
    BY <1>1, <1>2, <2>1
  <2>2. CASE k \in 2..n
    BY <1>2, <2>2 DEF InOrder
  <2> QED BY <1>2, <2>1, <2>2
<1>4. u[1] = t[1] /\ n + 1 \in 1..MaxItems
  BY <1>2
<1> QED BY <1>2, <1>3, <1>4 DEF InOrder, u

LEMMA TreesInOrder == \A t \in Trees : InOrder(t)
<1>1. CASE MaxItems \notin Nat
  BY <1>1, JsonAssumption
<1>2. CASE MaxItems \in Nat
  <2> DEFINE T == {n \in 1..MaxItems : \E t \in TreesOf[n] : ~(InOrder(t) /\ Len(t) = n)}
  <2>1. T = {}
    <3> SUFFICES ASSUME T # {} PROVE FALSE
      OBVIOUS
    <3>1. PICK n \in T : \A k \in T : n <= k
      <4>1. T \in SUBSET Nat
        BY <1>2
      <4> HIDE DEF T
      <4> QED BY <4>1, Least
    <3>2. PICK t \in TreesOf[n] : ~(InOrder(t) /\ Len(t) = n)
      OBVIOUS
    <3>3. n \in 1..MaxItems
      OBVIOUS
    <3>4. TreesOf[n] = IF n = 1
            THEN {<<it>> : it \in [depth : {0}, type : LeafTypes \cup Containers,
                                   name : {NoName}]}
            ELSE UNION {{Append(q, it) : it \in Following(q)} : q \in TreesOf[n - 1]}
      BY <1>2, <3>3, TreesOfIs, Zenon DEF Grows
    <3>5. CASE n = 1
      <4>1. PICK it \in [depth : {0}, type : LeafTypes \cup Containers, name : {NoName}] :
                   t = <<it>>
        BY <3>2, <3>4, <3>5
      <4>2. it \in ItemSet /\ it.depth = 0 /\ it.name = NoName
        <5>1. {0} \subseteq Nat /\ {NoName} \subseteq Names \cup {"", NoName}
          OBVIOUS
        <5> QED BY <5>1 DEF ItemSet
      <4>3. t \in Seq(ItemSet) /\ Len(t) = 1 /\ t[1] = it
        BY <4>1, <4>2
      <4>4. Len(t) \in 1..MaxItems
        BY <1>2, <3>3, <3>5, <4>3
      <4>5. InOrder(t)
        BY <4>2, <4>3, <4>4 DEF InOrder
      <4> QED BY <3>2, <3>5, <4>3, <4>5
    <3>6. CASE n # 1
      <4>1. PICK q \in TreesOf[n - 1] : \E it \in Following(q) : t = Append(q, it)
        BY <3>2, <3>4, <3>6
      <4>2. n - 1 \in 1..MaxItems /\ n - 1 \notin T /\ n - 1 \in Nat
        BY <1>2, <3>1, <3>3, <3>6
      <4>3. InOrder(q) /\ Len(q) = n - 1
        BY <4>1, <4>2
      <4>4. Len(q) + 1 <= MaxItems /\ n - 1 + 1 = n
        BY <1>2, <3>3, <4>3
      <4> QED BY <1>2, <3>2, <4>1, <4>3, <4>4, OneMore
    <3> QED BY <3>5, <3>6
  <2> QED BY <2>1 DEF Trees
<1> QED BY <1>1, <1>2

----------------------------------------------------------------------------
(* Lines of ancestors and full names.                                      *)

Depth(k) == tree[k].depth

\* k is a child of u
ChildOf(u, k) == /\ u \in 1..Len(tree) /\ k \in (u + 1)..Len(tree)
                 /\ Depth(k) = Depth(u) + 1
                 /\ \A i \in (u + 1)..k : Depth(i) > Depth(u)

LEMMA ItemTypes ==
  ASSUME InOrder(tree)
  PROVE  /\ Len(tree) \in Nat /\ Len(tree) >= 1 /\ Depth(1) = 0 /\ tree[1].name = NoName
         /\ \A k \in 1..Len(tree) : /\ tree[k] \in ItemSet /\ Depth(k) \in Nat
                                    /\ tree[k].name \in Names \cup {"", NoName}
<1>1. tree \in Seq(ItemSet) /\ Len(tree) \in Nat /\ Len(tree) >= 1 /\ Depth(1) = 0 /\ tree[1].name = NoName
  BY DEF InOrder, Depth
<1>2. ASSUME NEW k \in 1..Len(tree)
      PROVE  /\ tree[k] \in ItemSet /\ Depth(k) \in Nat
             /\ tree[k].name \in Names \cup {"", NoName}
  <2>1. tree[k] \in ItemSet
    BY <1>1
  <2> QED BY <2>1 DEF ItemSet, Depth
<1> QED BY <1>1, <1>2

\* The line of a child is that of its parent and the child.
LEMMA LineChild ==
  ASSUME InOrder(tree), NEW u, NEW k, ChildOf(u, k)
  PROVE  /\ DOMAIN Line(u) = 1..(Depth(u) + 1) /\ DOMAIN Line(k) = 1..(Depth(u) + 2)
         /\ \A d \in 1..(Depth(u) + 1) : Line(k)[d] = Line(u)[d]
         /\ Line(k)[Depth(u) + 2] = k
<1>1. /\ u \in 1..Len(tree) /\ k \in (u + 1)..Len(tree) /\ k \in 1..Len(tree)
      /\ Depth(k) = Depth(u) + 1 /\ Depth(u) \in Nat /\ Len(tree) \in Nat
      /\ \A i \in (u + 1)..k : Depth(i) > Depth(u)
      /\ \A i \in 1..Len(tree) : Depth(i) \in Nat
  <2>1. Len(tree) \in Nat /\ \A i \in 1..Len(tree) : Depth(i) \in Nat
    BY ItemTypes
  <2> QED BY <2>1 DEF ChildOf
<1>2. DOMAIN Line(u) = 1..(Depth(u) + 1) /\ DOMAIN Line(k) = 1..(Depth(u) + 2)
  BY <1>1 DEF Line, Depth
<1>3. ASSUME NEW d \in 1..(Depth(u) + 1) PROVE Line(k)[d] = Line(u)[d]
  <2>1. {j \in 1..k : Depth(j) = d - 1} = {j \in 1..u : Depth(j) = d - 1}
    BY <1>1
  <2>2. d \in 1..(Depth(k) + 1)
    BY <1>1
  <2> QED BY <2>1, <2>2 DEF Line, Depth
<1>4. Line(k)[Depth(u) + 2] = k
  <2> DEFINE S == {j \in 1..k : Depth(j) = Depth(u) + 1}
  <2>1. k \in S /\ \A j \in S : k >= j
    BY <1>1
  <2>2. S \in SUBSET Int
    OBVIOUS
  <2>3. Max(S) = k
    <3> HIDE DEF S
    <3> QED BY <2>1, <2>2, MaxIs
  <2>4. \A d \in 1..(Depth(k) + 1) : Line(k)[d] = Max({j \in 1..k : Depth(j) = d - 1})
    BY Zenon DEF Line, Depth
  <2> DEFINE e == Depth(u) + 2
  <2>5. e \in 1..(Depth(k) + 1) /\ S = {j \in 1..k : Depth(j) = e - 1}
    BY <1>1
  <2> HIDE DEF e, S
  <2>6. Line(k)[e] = Max(S)
    BY <2>4, <2>5
  <2> QED BY <2>3, <2>6 DEF e
<1> QED BY <1>2, <1>3, <1>4

\* The pieces of the definition of Path.
NameAt(k, i) == tree[Line(k)[i]].name
Named(k) == {i \in DOMAIN Line(k) : NameAt(k, i) \notin {NoName, ""}}
PartAt(k, i) == IF NameAt(k, i) = NoName THEN "*" ELSE NameAt(k, i)
Parts(k) == [i \in DOMAIN Line(k) |-> PartAt(k, i)]

LEMMA PathIs ==
  ASSUME NEW k, NEW n, DOMAIN Line(k) = 1..n, n \in Nat
  PROVE  /\ Path(k) = IF Named(k) = {} THEN <<>> ELSE SubSeq(Parts(k), Min(Named(k)), n)
         /\ Parts(k) \in Seq({PartAt(k, i) : i \in 1..n}) /\ Len(Parts(k)) = n
<1> DEFINE names == [i \in DOMAIN Line(k) |-> tree[Line(k)[i]].name]
           named == {i \in DOMAIN names : names[i] \notin {NoName, ""}}
           parts == [i \in DOMAIN names |-> IF names[i] = NoName THEN "*" ELSE names[i]]
<1>1. Path(k) = IF named = {} THEN <<>> ELSE SubSeq(parts, Min(named), Len(parts))
  BY DEF Path
<1>2. named = Named(k)
  BY DEF Named, NameAt
<1>3. parts = Parts(k)
  BY DEF Parts, PartAt, NameAt
<1>4. Parts(k) = [i \in 1..n |-> PartAt(k, i)]
  BY DEF Parts
<1>5. Parts(k) \in Seq({PartAt(k, i) : i \in 1..n}) /\ Len(Parts(k)) = n
  BY <1>4
<1> HIDE DEF names, named, parts
<1> QED BY <1>1, <1>2, <1>3, <1>5

\* The full name of the root is empty.
LEMMA PathRoot == ASSUME InOrder(tree) PROVE Path(1) = <<>>
<1>1. Len(tree) \in Nat /\ Len(tree) >= 1 /\ Depth(1) = 0 /\ tree[1].name = NoName
  BY ItemTypes
<1>2. DOMAIN Line(1) = 1..1 /\ Line(1)[1] = 1
  <2> DEFINE S == {j \in 1..1 : Depth(j) = 0}
  <2>1. Line(1) = [d \in 1..(Depth(1) + 1) |-> Max({j \in 1..1 : Depth(j) = d - 1})]
    BY DEF Line, Depth
  <2>2. DOMAIN Line(1) = 1..1
    <3>1. Depth(1) + 1 = 1
      BY <1>1
    <3> QED BY <2>1, <3>1
  <2>3. 1 \in S /\ S \in SUBSET Int /\ \A y \in S : 1 >= y
    BY <1>1
  <2>4. Max(S) = 1
    <3> HIDE DEF S
    <3> QED BY <2>3, MaxIs
  <2>5. S = {j \in 1..1 : Depth(j) = 1 - 1} /\ 1 \in 1..(Depth(1) + 1)
    BY <1>1
  <2>6. Line(1)[1] = Max(S)
    <3> HIDE DEF S
    <3> QED BY <2>1, <2>5
  <2> QED BY <2>2, <2>4, <2>6
<1>3. Named(1) = {}
  <2>1. \A i \in DOMAIN Line(1) : i = 1
    BY <1>2
  <2> QED BY <1>1, <1>2, <2>1 DEF Named, NameAt
<1> QED BY <1>2, <1>3, PathIs

\* The full name of a child is its name below that of its parent.
LEMMA PathChild ==
  ASSUME InOrder(tree), NEW u, NEW k, ChildOf(u, k)
  PROVE  Path(k) = Under(Path(u), tree[k])
<1> DEFINE n == Depth(u) + 1
           m == Min(Named(u))
           it == tree[k]
           part == IF it.name = NoName THEN "*" ELSE it.name
<1>1. /\ DOMAIN Line(u) = 1..n /\ DOMAIN Line(k) = 1..(n + 1)
      /\ \A d \in 1..n : Line(k)[d] = Line(u)[d]
      /\ Line(k)[n + 1] = k /\ n \in Nat /\ n >= 1
  <2>1. Depth(u) \in Nat
    BY ItemTypes DEF ChildOf
  <2>2. Depth(u) + 2 = n + 1
    BY <2>1
  <2> HIDE DEF n
  <2>3. n \in Nat /\ n >= 1
    BY <2>1 DEF n
  <2> QED BY <2>2, <2>3, LineChild DEF n
<1> HIDE DEF n
<1>2. /\ \A i \in 1..n : NameAt(k, i) = NameAt(u, i) /\ PartAt(k, i) = PartAt(u, i)
      /\ NameAt(k, n + 1) = it.name /\ PartAt(k, n + 1) = part
  BY <1>1 DEF NameAt, PartAt
<1>3. Named(k) = Named(u) \cup (IF it.name \in {NoName, ""} THEN {} ELSE {n + 1})
  <2> SUFFICES ASSUME NEW i
               PROVE  i \in Named(k) <=>
                        i \in Named(u) \/ (i = n + 1 /\ it.name \notin {NoName, ""})
    OBVIOUS
  <2>1. i \in Named(k) <=> i \in 1..(n + 1) /\ NameAt(k, i) \notin {NoName, ""}
    BY <1>1 DEF Named
  <2>2. i \in Named(u) <=> i \in 1..n /\ NameAt(u, i) \notin {NoName, ""}
    BY <1>1 DEF Named
  <2>3. CASE i \in 1..n
    <3>1. i \in 1..(n + 1) /\ i # n + 1 /\ NameAt(k, i) = NameAt(u, i)
      BY <1>1, <1>2, <2>3
    <3> QED BY <2>1, <2>2, <2>3, <3>1
  <2>4. CASE i = n + 1
    <3>1. i \in 1..(n + 1) /\ i \notin 1..n
      BY <1>1, <2>4
    <3> QED BY <1>2, <2>1, <2>2, <2>4, <3>1
  <2>5. CASE i \notin 1..n /\ i # n + 1
    <3>1. i \notin 1..(n + 1)
      BY <1>1, <2>5
    <3> QED BY <2>1, <2>2, <2>5, <3>1
  <2> QED BY <2>3, <2>4, <2>5
<1>4. Named(u) \subseteq 1..n
  BY <1>1 DEF Named
<1>5. /\ Path(u) = IF Named(u) = {} THEN <<>> ELSE SubSeq(Parts(u), m, n)
      /\ Parts(u) \in Seq({PartAt(u, i) : i \in 1..n}) /\ Len(Parts(u)) = n
  BY <1>1, PathIs
<1>6. /\ Path(k) = IF Named(k) = {} THEN <<>> ELSE SubSeq(Parts(k), Min(Named(k)), n + 1)
      /\ Parts(k) \in Seq({PartAt(k, i) : i \in 1..(n + 1)}) /\ Len(Parts(k)) = n + 1
  <2> DEFINE q == n + 1
  <2>1. q \in Nat /\ DOMAIN Line(k) = 1..q
    BY <1>1
  <2> HIDE DEF q
  <2>2. /\ Path(k) = IF Named(k) = {} THEN <<>> ELSE SubSeq(Parts(k), Min(Named(k)), q)
        /\ Parts(k) \in Seq({PartAt(k, i) : i \in 1..q}) /\ Len(Parts(k)) = q
    BY <2>1, PathIs
  <2> QED BY <2>2 DEF q
<1>7. /\ \A i \in 1..n : Parts(k)[i] = Parts(u)[i]
      /\ Parts(k)[n + 1] = part
  BY <1>1, <1>2 DEF Parts
<1>8. CASE Named(u) = {}
  <2>1. Path(u) = <<>>
    BY <1>5, <1>8
  <2>2. CASE it.name \in {NoName, ""}
    BY <1>3, <1>6, <1>8, <2>1, <2>2 DEF Under
  <2>3. CASE it.name \notin {NoName, ""}
    <3>1. Named(k) = {n + 1}
      BY <1>3, <1>8, <2>3
    <3>2. Min(Named(k)) = n + 1
      <4>1. {n + 1} \in SUBSET Int /\ n + 1 \in {n + 1} /\ \A y \in {n + 1} : n + 1 <= y
        BY <1>1
      <4> QED BY <3>1, <4>1, MinIs
    <3>3. Path(k) = SubSeq(Parts(k), n + 1, n + 1)
      BY <1>6, <3>1, <3>2
    <3>4. SubSeq(Parts(k), n + 1, n + 1) = <<Parts(k)[n + 1]>>
      <4>1. n + 1 \in 1..Len(Parts(k))
        BY <1>1, <1>6
      <4> QED BY <1>6, <4>1, SubSeqOne
    <3>5. part = it.name
      BY <2>3
    <3> QED BY <1>7, <2>1, <2>3, <3>3, <3>4, <3>5 DEF Under
  <2> QED BY <2>2, <2>3
<1>9. CASE Named(u) # {}
  <2>1. m \in Named(u) /\ m \in 1..n /\ \A y \in Named(u) : m <= y
    <3>1. Named(u) \in SUBSET Nat
      BY <1>1, <1>4
    <3> QED BY <1>4, <1>9, <3>1, MinOf
  <2>2. Min(Named(k)) = m
    <3>1. Named(k) \in SUBSET Int /\ m \in Named(k) /\ \A y \in Named(k) : m <= y
      <4>1. /\ \A y \in Named(k) : y \in Named(u) \/ y = n + 1
            /\ m \in Named(k)
        BY <1>3, <2>1
      <4> HIDE DEF m
      <4>2. \A y \in Named(k) : y \in Int /\ m <= y
        BY <1>1, <1>4, <2>1, <4>1
      <4> QED BY <4>1, <4>2
    <3> QED BY <3>1, MinIs
  <2> HIDE DEF m, part, it
  <2>3. Path(k) = SubSeq(Parts(k), m, n + 1) /\ Path(u) = SubSeq(Parts(u), m, n)
    BY <1>3, <1>5, <1>6, <1>9, <2>2
  <2>4. Path(u) # <<>> /\ SubSeq(Parts(k), m, n + 1) = Append(SubSeq(Parts(u), m, n), part)
    <3> DEFINE S == {PartAt(k, i) : i \in 1..(n + 1)}
    <3>1. S = {PartAt(u, i) : i \in 1..n} \cup {part}
      <4>1. \A i \in 1..(n + 1) : i \in 1..n \/ i = n + 1
        BY <1>1
      <4>2. n + 1 \in 1..(n + 1) /\ \A i \in 1..n : i \in 1..(n + 1)
        BY <1>1
      <4> QED BY <1>2, <4>1, <4>2
    <3>2. Parts(u) \in Seq(S) /\ Parts(k) \in Seq(S)
      <4>1. \A i \in 1..Len(Parts(u)) : Parts(u)[i] \in S
        BY <1>1, <1>5, <3>1 DEF Parts
      <4> HIDE DEF S
      <4>2. Parts(u) \in Seq(S)
        BY <1>5, <4>1, SeqOver
      <4> QED BY <1>6, <4>2 DEF S
    <3> HIDE DEF S
    <3>3. /\ m \in 1..(n + 1) /\ n <= Len(Parts(u)) /\ n + 1 <= Len(Parts(k))
          /\ \A i \in m..n : Parts(k)[i] = Parts(u)[i]
      BY <1>1, <1>5, <1>6, <1>7, <2>1
    <3>4. SubSeq(Parts(k), m, n + 1) = Append(SubSeq(Parts(u), m, n), part)
      BY <1>1, <1>7, <3>2, <3>3, SubSeqGrows
    <3>5. Len(SubSeq(Parts(u), m, n)) = n - m + 1
      BY <1>1, <1>5, <2>1, <3>2
    <3>6. n - m + 1 # 0
      BY <1>1, <2>1
    <3>7. Len(Path(u)) # 0
      BY <2>3, <3>5, <3>6
    <3>8. Path(u) # <<>>
      BY <3>7
    <3> QED BY <3>4, <3>8
  <2>5. Under(Path(u), tree[k]) = Append(Path(u), part)
    BY <2>4 DEF Under, part, it
  <2> QED BY <2>3, <2>4, <2>5
<1> QED BY <1>8, <1>9

----------------------------------------------------------------------------
(* The end of a subtree, and the pointers child and next.                  *)

\* e is the first item behind the subtree of k
IsEnd(k, e) == /\ e \in (k + 1)..(Len(tree) + 1)
               /\ \A i \in (k + 1)..(e - 1) : Depth(i) > Depth(k)
               /\ e <= Len(tree) => Depth(e) <= Depth(k)

LEMMA ChildIs ==
  ASSUME InOrder(tree), NEW k \in 1..Len(tree)
  PROVE  /\ Child(tree, k) = 0 => IsEnd(k, k + 1)
         /\ Child(tree, k) # 0 => Child(tree, k) = k + 1 /\ ChildOf(k, k + 1)
         /\ Leaf(tree[k]) => Child(tree, k) = 0
<1>1. Len(tree) \in Nat /\ \A i \in 1..Len(tree) : Depth(i) \in Nat
  BY ItemTypes
<1>2. k < Len(tree) => /\ k + 1 \in 2..Len(tree) /\ k + 1 - 1 = k
                       /\ Depth(k + 1) \in 1..(Depth(k) + 1)
                       /\ Depth(k + 1) > Depth(k) => ~Leaf(tree[k])
  BY <1>1 DEF InOrder, Depth
<1>3. Child(tree, k) = IF k < Len(tree) /\ Depth(k + 1) > Depth(k) THEN k + 1 ELSE 0
  BY DEF Child, Depth
<1>4. CASE k < Len(tree) /\ Depth(k + 1) > Depth(k)
  <2>1. Child(tree, k) = k + 1 /\ ~Leaf(tree[k]) /\ Depth(k + 1) = Depth(k) + 1
    BY <1>1, <1>2, <1>3, <1>4
  <2>2. \A i \in (k + 1)..(k + 1) : Depth(i) > Depth(k)
    BY <1>1, <1>4
  <2>3. k + 1 \in (k + 1)..Len(tree)
    BY <1>1, <1>4
  <2>4. ChildOf(k, k + 1)
    BY <2>1, <2>2, <2>3 DEF ChildOf
  <2> QED BY <1>1, <2>1, <2>4
<1>5. CASE ~(k < Len(tree) /\ Depth(k + 1) > Depth(k))
  <2>1. Child(tree, k) = 0
    BY <1>3, <1>5
  <2>2. k + 1 \in (k + 1)..(Len(tree) + 1) /\ \A i \in (k + 1)..(k + 1 - 1) : FALSE
    BY <1>1
  <2>3. k + 1 <= Len(tree) => Depth(k + 1) <= Depth(k)
    BY <1>1, <1>2, <1>5
  <2> QED BY <2>1, <2>2, <2>3 DEF IsEnd
<1> QED BY <1>4, <1>5

LEMMA NextItemIs ==
  ASSUME InOrder(tree), NEW k \in 1..Len(tree), NEW e, IsEnd(k, e)
  PROVE  NextItem(tree, k) = IF e <= Len(tree) /\ Depth(e) = Depth(k) THEN e ELSE 0
<1>1. Len(tree) \in Nat /\ \A i \in 1..Len(tree) : Depth(i) \in Nat
  BY ItemTypes
<1>2. /\ e \in (k + 1)..(Len(tree) + 1)
      /\ \A i \in (k + 1)..(e - 1) : Depth(i) > Depth(k)
      /\ e <= Len(tree) => Depth(e) <= Depth(k)
  BY DEF IsEnd
<1> DEFINE S == {j \in (k + 1)..Len(tree) : /\ Depth(j) = Depth(k)
                                             /\ \A i \in (k + 1)..(j - 1) : Depth(i) > Depth(k)}
<1>3. NextItem(tree, k) = IF S = {} THEN 0 ELSE CHOOSE j \in S : TRUE
  BY DEF NextItem, Depth
<1>4. \A j \in S : j = e
  <2> SUFFICES ASSUME NEW j \in S PROVE j = e
    OBVIOUS
  <2>1. /\ j \in (k + 1)..Len(tree) /\ Depth(j) = Depth(k)
        /\ \A i \in (k + 1)..(j - 1) : Depth(i) > Depth(k)
    OBVIOUS
  <2>2. ~(j < e)
    <3> SUFFICES ASSUME j < e PROVE FALSE
      OBVIOUS
    <3>1. j \in (k + 1)..(e - 1)
      BY <1>1, <1>2, <2>1
    <3> QED BY <1>1, <1>2, <2>1, <3>1
  <2>3. ~(j > e)
    <3> SUFFICES ASSUME j > e PROVE FALSE
      OBVIOUS
    <3>1. e \in (k + 1)..(j - 1) /\ e <= Len(tree) /\ e \in 1..Len(tree)
      BY <1>1, <1>2, <2>1
    <3> QED BY <1>1, <1>2, <2>1, <3>1
  <2> QED BY <1>1, <1>2, <2>1, <2>2, <2>3
<1>5. e \in S <=> e <= Len(tree) /\ Depth(e) = Depth(k)
  BY <1>1, <1>2
<1> HIDE DEF S
<1>6. CASE e \in S
  BY <1>3, <1>4, <1>5, <1>6
<1>7. CASE e \notin S
  <2>1. S = {}
    BY <1>4, <1>7
  <2> QED BY <1>3, <1>5, <1>7, <2>1
<1> QED BY <1>6, <1>7

\* The next of a child is a child of the same parent, behind the subtree.
LEMMA SiblingIs ==
  ASSUME InOrder(tree), NEW u, NEW k, ChildOf(u, k), NEW e, IsEnd(k, e)
  PROVE  IF NextItem(tree, k) = 0 THEN IsEnd(u, e)
         ELSE NextItem(tree, k) = e /\ e \in 1..Len(tree) /\ ChildOf(u, e)
<1>1. Len(tree) \in Nat /\ \A i \in 1..Len(tree) : Depth(i) \in Nat
  BY ItemTypes
<1>2. /\ u \in 1..Len(tree) /\ k \in (u + 1)..Len(tree) /\ k \in 1..Len(tree)
      /\ Depth(k) = Depth(u) + 1
      /\ \A i \in (u + 1)..k : Depth(i) > Depth(u)
  BY <1>1 DEF ChildOf
<1>3. /\ e \in (k + 1)..(Len(tree) + 1)
      /\ \A i \in (k + 1)..(e - 1) : Depth(i) > Depth(k)
      /\ e <= Len(tree) => Depth(e) <= Depth(k)
  BY DEF IsEnd
<1>4. NextItem(tree, k) = IF e <= Len(tree) /\ Depth(e) = Depth(k) THEN e ELSE 0
  BY <1>2, NextItemIs
<1>5. \A i \in (u + 1)..(e - 1) : Depth(i) > Depth(u)
  <2> SUFFICES ASSUME NEW i \in (u + 1)..(e - 1) PROVE Depth(i) > Depth(u)
    OBVIOUS
  <2>1. i \in (u + 1)..k \/ i \in (k + 1)..(e - 1)
    BY <1>1, <1>2, <1>3
  <2>2. i \in 1..Len(tree)
    BY <1>1, <1>2, <1>3
  <2> QED BY <1>1, <1>2, <1>3, <2>1, <2>2
<1>6. CASE e <= Len(tree) /\ Depth(e) = Depth(k)
  <2>1. e \in (u + 1)..Len(tree) /\ e \in 1..Len(tree) /\ e # 0
    BY <1>1, <1>2, <1>3, <1>6
  <2>2. \A i \in (u + 1)..e : Depth(i) > Depth(u)
    <3> SUFFICES ASSUME NEW i \in (u + 1)..e PROVE Depth(i) > Depth(u)
      OBVIOUS
    <3>1. i \in (u + 1)..(e - 1) \/ i = e
      BY <1>1, <1>2, <1>3
    <3> QED BY <1>1, <1>2, <1>5, <1>6, <3>1
  <2>3. ChildOf(u, e)
    BY <1>2, <1>6, <2>1, <2>2 DEF ChildOf
  <2> QED BY <1>4, <1>6, <2>1, <2>3
<1>7. CASE ~(e <= Len(tree) /\ Depth(e) = Depth(k))
  <2>1. e <= Len(tree) => e \in 1..Len(tree) /\ Depth(e) <= Depth(u)
    <3> SUFFICES ASSUME e <= Len(tree) PROVE e \in 1..Len(tree) /\ Depth(e) <= Depth(u)
      OBVIOUS
    <3>1. e \in 1..Len(tree) /\ u \in 1..Len(tree)
      BY <1>1, <1>2, <1>3
    <3>2. Depth(e) \in Nat /\ Depth(u) \in Nat /\ Depth(e) # Depth(k) /\ Depth(e) <= Depth(k)
      BY <1>1, <1>3, <1>7, <3>1
    <3> QED BY <1>2, <3>1, <3>2
  <2>2. e \in (u + 1)..(Len(tree) + 1)
    BY <1>1, <1>2, <1>3
  <2>3. IsEnd(u, e)
    BY <1>5, <2>1, <2>2 DEF IsEnd
  <2> QED BY <1>4, <1>7, <2>3
<1> QED BY <1>6, <1>7

\* The root has no sibling, and its subtree is the tree.
LEMMA RootEnd ==
  ASSUME InOrder(tree), NEW e, IsEnd(1, e)
  PROVE  e = Len(tree) + 1 /\ NextItem(tree, 1) = 0
<1>1. /\ Len(tree) \in Nat /\ Len(tree) >= 1 /\ Depth(1) = 0
      /\ \A i \in 1..Len(tree) : Depth(i) \in Nat
  BY ItemTypes
<1>2. /\ e \in 2..(Len(tree) + 1)
      /\ e <= Len(tree) => Depth(e) <= Depth(1)
  BY DEF IsEnd
<1>3. \A i \in 2..Len(tree) : Depth(i) >= 1
  <2> SUFFICES ASSUME NEW i \in 2..Len(tree) PROVE Depth(i) >= 1
    OBVIOUS
  <2>1. Depth(i) \in 1..(tree[i - 1].depth + 1)
    BY DEF InOrder, Depth
  <2>2. i \in 1..Len(tree)
    BY <1>1
  <2> QED BY <1>1, <2>1, <2>2
<1>4. e = Len(tree) + 1
  BY <1>1, <1>2, <1>3
<1>5. 1 \in 1..Len(tree) /\ ~(e <= Len(tree))
  BY <1>1, <1>4
<1> QED BY <1>4, <1>5, NextItemIs

----------------------------------------------------------------------------
(* The inductive invariant.                                                *)

FrameSet == [item : 0..Len(tree), prefix : {Path(k) : k \in 1..Len(tree)} \cup {<<>>}]

\* The frames are a line of descent: each below the item of the one before.
Stacked(s) ==
  /\ s \in Seq(FrameSet) /\ Len(s) >= 1
  /\ s[1].item \in {0, 1} /\ s[1].prefix = <<>>
  /\ \A d \in 2..Len(s) :
       /\ s[d - 1].item # 0 /\ s[d].prefix = Path(s[d - 1].item)
       /\ s[d].item # 0 => ChildOf(s[d - 1].item, s[d].item)

\* p is the first item that the walk has not yet come to.
Place(s, p) ==
  IF s[Len(s)].item # 0 THEN p = s[Len(s)].item
  ELSE IF Len(s) = 1 THEN p = Len(tree) + 1
  ELSE IsEnd(s[Len(s) - 1].item, p)

\* The leaves before item p.
Leaves(p) == {k \in 1..Len(tree) : k < p /\ Leaf(tree[k])}

\* at tells of each field in fs the leaf before p it comes from; all says
\* that every such leaf has its field, with its value.
From(at, fs, p, all) ==
  /\ at \in [DOMAIN fs -> Leaves(p)]
  /\ \A i, j \in DOMAIN fs : i < j => at[i] < at[j]
  /\ \A i \in DOMAIN fs :
       /\ fs[i].name = Path(at[i])
       /\ fs[i].val \in {ValStr(tree[at[i]])} \cup (IF all THEN {} ELSE {NoStr})
  /\ all => \A k \in Leaves(p) : \E i \in DOMAIN fs : at[i] = k

Covers(fs, p, all) == \E at : From(at, fs, p, all)

Values == {"s", "1", "-", "false", "true", NoStr}
FieldType == [name : {Path(k) : k \in 1..Len(tree)}, val : Values]

LineInHand == pc \in {"line", "walk", "deliver", "read"} => lnNbr <= MaxLines

WalkInv ==
  /\ pc \notin {"walk", "deliver"} => tree = <<>> /\ stack = <<>> /\ fields = <<>>
  /\ pc \in {"walk", "deliver"} => InOrder(tree) /\ fields \in Seq(FieldType)
  /\ pc = "deliver" => stack = <<>> /\ Covers(fields, Len(tree) + 1, ~oom)
  /\ pc = "walk" =>
       /\ Stacked(stack)
       /\ \E p \in 1..(Len(tree) + 1) : Place(stack, p) /\ Covers(fields, p, ~oom)

IInv == TypeOK /\ OneEventPerLine /\ LineInHand /\ WalkInv

----------------------------------------------------------------------------
(* The moves of the walk.                                                  *)

\* What a stack says of its last frame.
LEMMA LastFrame ==
  ASSUME InOrder(tree), NEW s, Stacked(s), NEW n, n = Len(s)
  PROVE  /\ n \in Nat /\ n >= 1 /\ Last(s) = s[n] /\ s[n] \in FrameSet
         /\ s[n].item \in 0..Len(tree)
         /\ n > 1 => /\ n - 1 \in 1..n /\ s[n - 1].item \in 1..Len(tree)
                     /\ s[n].prefix = Path(s[n - 1].item)
                     /\ s[n].item # 0 => ChildOf(s[n - 1].item, s[n].item)
         /\ n = 1 => s[n].item \in {0, 1} /\ s[n].prefix = <<>>
<1>1. s \in Seq(FrameSet) /\ n \in Nat /\ n >= 1 /\ \A i \in 1..n : s[i] \in FrameSet
  BY DEF Stacked
<1>2. \A i \in 1..n : s[i].item \in 0..Len(tree)
  BY <1>1 DEF FrameSet
<1>3. n > 1 => /\ n - 1 \in 1..n /\ s[n - 1].item # 0 /\ s[n].prefix = Path(s[n - 1].item)
               /\ s[n].item # 0 => ChildOf(s[n - 1].item, s[n].item)
  BY <1>1 DEF Stacked
<1>4. n = 1 => s[n].item \in {0, 1} /\ s[n].prefix = <<>>
  BY DEF Stacked
<1>5. Last(s) = s[n] /\ n \in 1..n
  BY <1>1 DEF Last
<1>6. n > 1 => s[n - 1].item \in 1..Len(tree)
  <2>1. Len(tree) \in Nat
    BY ItemTypes
  <2>2. \A a \in 0..Len(tree) : a # 0 => a \in 1..Len(tree)
    BY <2>1
  <2> QED BY <1>2, <1>3, <2>2
<1> QED BY <1>1, <1>2, <1>3, <1>4, <1>5, <1>6

\* Under the prefix of the last frame an item gets its full name.
LEMMA NameIs ==
  ASSUME InOrder(tree), NEW s, Stacked(s), Last(s).item # 0
  PROVE  Under(Last(s).prefix, tree[Last(s).item]) = Path(Last(s).item)
<1> DEFINE n == Len(s)
<1>1. /\ n \in Nat /\ n >= 1 /\ Last(s) = s[n]
      /\ n > 1 => s[n].prefix = Path(s[n - 1].item) /\ ChildOf(s[n - 1].item, s[n].item)
      /\ n = 1 => s[n].item = 1 /\ s[n].prefix = <<>>
  BY LastFrame
<1>2. CASE n > 1
  BY <1>1, <1>2, PathChild
<1>3. CASE n = 1
  <2>1. Under(<<>>, tree[1]) = <<>>
    BY ItemTypes DEF Under
  <2> QED BY <1>1, <1>3, <2>1, PathRoot
<1>4. n = 1 \/ n > 1
  <2>1. Len(s) \in Nat /\ Len(s) >= 1
    BY DEF Stacked
  <2>2. \A a \in Nat : a >= 1 => a = 1 \/ a > 1
    OBVIOUS
  <2> QED BY <2>1, <2>2
<1> QED BY <1>2, <1>3, <1>4

\* The next sibling is where the subtree ends, if there is one.
LEMMA AdvanceOK ==
  ASSUME InOrder(tree), NEW s, Stacked(s), Last(s).item # 0, NEW e, IsEnd(Last(s).item, e)
  PROVE  Stacked(Advance(s)) /\ Place(Advance(s), e) /\ e \in 1..(Len(tree) + 1)
<1> DEFINE n == Len(s)
           k == Last(s).item
           x == [Last(s) EXCEPT !.item = NextItem(tree, @)]
           t == Advance(s)
<1>1. /\ n \in Nat /\ n >= 1 /\ Last(s) = s[n] /\ s[n] \in FrameSet /\ k \in 1..Len(tree)
      /\ Len(tree) \in Nat
      /\ n > 1 => /\ n - 1 \in 1..n /\ s[n - 1].item \in 1..Len(tree)
                  /\ s[n].prefix = Path(s[n - 1].item) /\ ChildOf(s[n - 1].item, k)
      /\ n = 1 => k = 1 /\ s[n].prefix = <<>>
  <2>1. s[n].item \in 0..Len(tree) /\ Len(tree) \in Nat
    BY LastFrame, ItemTypes
  <2> QED BY <2>1, LastFrame
<1>2. NextItem(tree, k) = IF e <= Len(tree) /\ Depth(e) = Depth(k) THEN e ELSE 0
  BY <1>1, NextItemIs
<1>3. e \in 1..(Len(tree) + 1)
  BY <1>1 DEF IsEnd
<1>4. NextItem(tree, k) \in 0..Len(tree)
  BY <1>1, <1>2, <1>3
<1>5. x \in FrameSet /\ x.item = NextItem(tree, k) /\ x.prefix = s[n].prefix
  BY <1>1, <1>4 DEF FrameSet
<1>6. /\ t \in Seq(FrameSet) /\ Len(t) = n /\ t[n] = x
      /\ \A i \in 1..(n - 1) : t[i] = s[i]
  <2>1. s \in Seq(FrameSet) /\ Len(s) >= 1
    BY DEF Stacked
  <2>2. t = Append(Front(s), x)
    BY DEF Advance
  <2> HIDE DEF x, t
  <2> QED BY <1>5, <2>1, <2>2, LastReplaced
<1> HIDE DEF x, t, k
<1>7. CASE n = 1
  <2>1. k = 1 /\ e = Len(tree) + 1 /\ NextItem(tree, 1) = 0
    <3>1. k = 1 /\ IsEnd(1, e)
      BY <1>1, <1>7 DEF k
    <3> QED BY <3>1, RootEnd
  <2>2. t[1].item = 0 /\ t[1].prefix = <<>> /\ Len(t) = 1
    BY <1>1, <1>5, <1>6, <1>7, <2>1
  <2>3. Stacked(t)
    BY <1>6, <2>2 DEF Stacked
  <2>4. Place(t, e)
    BY <2>1, <2>2 DEF Place
  <2> QED BY <1>3, <2>3, <2>4 DEF t
<1>8. CASE n > 1
  <2> DEFINE u == s[n - 1].item
  <2>1. /\ u \in 1..Len(tree) /\ ChildOf(u, k)
        /\ IF NextItem(tree, k) = 0 THEN IsEnd(u, e)
           ELSE NextItem(tree, k) = e /\ e \in 1..Len(tree) /\ ChildOf(u, e)
    <3>1. u \in 1..Len(tree) /\ ChildOf(u, k) /\ IsEnd(k, e)
      BY <1>1, <1>8 DEF k
    <3> HIDE DEF u
    <3> QED BY <3>1, SiblingIs
  <2>2. t[n - 1].item = u /\ t[n - 1] = s[n - 1] /\ t[1] = s[1] /\ n - 1 \in 1..(n - 1)
    BY <1>1, <1>6, <1>8
  <2>3. ASSUME NEW d \in 2..n
        PROVE  /\ t[d - 1].item # 0 /\ t[d].prefix = Path(t[d - 1].item)
               /\ t[d].item # 0 => ChildOf(t[d - 1].item, t[d].item)
    <3>1. CASE d = n
      <4>1. t[n].prefix = Path(u) /\ u # 0 /\ t[n].item = NextItem(tree, k)
        BY <1>1, <1>5, <1>6, <1>8, <2>1
      <4>2. t[n].item # 0 => ChildOf(u, t[n].item)
        BY <2>1, <4>1
      <4> HIDE DEF u
      <4> QED BY <2>2, <3>1, <4>1, <4>2
    <3>2. CASE d # n
      <4>1. d \in 2..Len(s) /\ t[d] = s[d] /\ t[d - 1] = s[d - 1]
        BY <1>1, <1>6, <3>2, SMTT(30)
      <4> QED BY <4>1 DEF Stacked
    <3> QED BY <3>1, <3>2
  <2>4. t[1].item \in {0, 1} /\ t[1].prefix = <<>>
    BY <2>2 DEF Stacked
  <2>5. Stacked(t)
    BY <1>1, <1>6, <2>3, <2>4 DEF Stacked
  <2>6. Place(t, e)
    <3>1. t[n].item = NextItem(tree, k) /\ Len(t) = n /\ n # 1
      BY <1>5, <1>6, <1>8
    <3>2. Place(t, e) <=> IF t[n].item # 0 THEN e = t[n].item ELSE IsEnd(t[n - 1].item, e)
      BY <3>1, Zenon DEF Place
    <3> HIDE DEF u
    <3> QED BY <2>1, <2>2, <3>1, <3>2
  <2> QED BY <1>3, <2>5, <2>6 DEF t
<1>9. n = 1 \/ n > 1
  <2>1. Len(s) \in Nat /\ Len(s) >= 1
    BY DEF Stacked
  <2>2. \A a \in Nat : a >= 1 => a = 1 \/ a > 1
    OBVIOUS
  <2> QED BY <2>1, <2>2
<1> QED BY <1>7, <1>8, <1>9

\* Back from the children: what follows the parent.
LEMMA ReturnOK ==
  ASSUME InOrder(tree), NEW s, Stacked(s), Last(s).item = 0, Len(s) > 1,
         NEW p, Place(s, p)
  PROVE  /\ Stacked(Advance(Front(s))) /\ Place(Advance(Front(s)), p)
         /\ p \in 1..(Len(tree) + 1)
<1> DEFINE n == Len(s)
           t == Front(s)
<1>1. /\ n \in Nat /\ n >= 1 /\ Last(s) = s[n] /\ n - 1 \in 1..n
      /\ s[n - 1].item \in 1..Len(tree)
  BY LastFrame
<1>2. s[n].item = 0 /\ n # 1 /\ IsEnd(s[n - 1].item, p)
  <2>1. s[n].item = 0 /\ n # 1
    BY <1>1
  <2> QED BY <2>1, Zenon DEF Place
<1>3. /\ t \in Seq(FrameSet) /\ Len(t) = n - 1
      /\ \A i \in 1..(n - 1) : t[i] = s[i]
  BY FrontIs DEF Stacked
<1> HIDE DEF t
<1>4. /\ Len(t) >= 1 /\ Last(t) = s[n - 1] /\ t[1] = s[1]
  <2>1. n - 1 \in 1..(n - 1) /\ 1 \in 1..(n - 1)
    BY <1>1
  <2> QED BY <1>1, <1>3, <2>1 DEF Last
<1>5. ASSUME NEW d \in 2..Len(t)
      PROVE  /\ t[d - 1].item # 0 /\ t[d].prefix = Path(t[d - 1].item)
             /\ t[d].item # 0 => ChildOf(t[d - 1].item, t[d].item)
  <2>1. d \in 2..Len(s) /\ t[d] = s[d] /\ t[d - 1] = s[d - 1]
    BY <1>1, <1>3
  <2> QED BY <2>1 DEF Stacked
<1>6. t[1].item \in {0, 1} /\ t[1].prefix = <<>>
  BY <1>4 DEF Stacked
<1>7. Stacked(t) /\ Last(t).item # 0 /\ IsEnd(Last(t).item, p)
  <2>1. Last(t).item # 0 /\ IsEnd(Last(t).item, p)
    <3> Len(tree) \in Nat
      BY ItemTypes
    <3>1. \A a \in 1..Len(tree) : a # 0
      OBVIOUS
    <3> QED BY <1>1, <1>2, <1>4, <3>1
  <2>2. Stacked(t)
    BY <1>3, <1>4, <1>5, <1>6 DEF Stacked
  <2> QED BY <2>1, <2>2
<1> QED BY <1>7, AdvanceOK DEF t

\* Down to the first child.
LEMMA DescendOK ==
  ASSUME InOrder(tree), NEW s, Stacked(s), NEW k, k = Last(s).item, k # 0,
         Child(tree, k) # 0
  PROVE  LET t == Append(s, [item |-> Child(tree, k), prefix |-> Under(Last(s).prefix, tree[k])])
         IN  Stacked(t) /\ Place(t, k + 1) /\ k + 1 \in 1..(Len(tree) + 1)
<1> DEFINE n == Len(s)
           x == [item |-> Child(tree, k), prefix |-> Under(Last(s).prefix, tree[k])]
           t == Append(s, x)
<1>1. /\ n \in Nat /\ n >= 1 /\ Last(s) = s[n] /\ k \in 1..Len(tree) /\ Len(tree) \in Nat
  <2>1. s[n].item \in 0..Len(tree) /\ Len(tree) \in Nat /\ Last(s) = s[n]
    BY LastFrame, ItemTypes
  <2>2. n \in Nat /\ n >= 1
    BY LastFrame
  <2> QED BY <2>1, <2>2
<1>2. Child(tree, k) = k + 1 /\ ChildOf(k, k + 1) /\ k + 1 \in 1..Len(tree)
  <2>1. Child(tree, k) = k + 1 /\ ChildOf(k, k + 1)
    BY <1>1, ChildIs
  <2> QED BY <1>1, <2>1 DEF ChildOf
<1>3. x.prefix = Path(k) /\ x.item = k + 1
  BY <1>2, NameIs
<1>4. x \in FrameSet
  BY <1>1, <1>2, <1>3 DEF FrameSet
<1>5. /\ t \in Seq(FrameSet) /\ Len(t) = n + 1 /\ t[n + 1] = x
      /\ \A i \in 1..n : t[i] = s[i]
  <2>1. s \in Seq(FrameSet)
    BY DEF Stacked
  <2> HIDE DEF x
  <2> QED BY <1>4, <2>1, AppendProperties
<1> HIDE DEF x, t
<1>6. t[1] = s[1] /\ t[n].item = k
  BY <1>1, <1>5
<1>7. ASSUME NEW d \in 2..Len(t)
      PROVE  /\ t[d - 1].item # 0 /\ t[d].prefix = Path(t[d - 1].item)
             /\ t[d].item # 0 => ChildOf(t[d - 1].item, t[d].item)
  <2>1. CASE d = n + 1
    <3>1. t[d] = x /\ t[d - 1].item = k
      <4>1. d - 1 = n
        BY <1>1, <2>1
      <4> QED BY <1>5, <1>6, <2>1, <4>1
    <3> QED BY <1>2, <1>3, <3>1
  <2>2. CASE d # n + 1
    <3>1. d \in 2..Len(s) /\ t[d] = s[d] /\ t[d - 1] = s[d - 1]
      BY <1>1, <1>5, <2>2
    <3> QED BY <3>1 DEF Stacked
  <2> QED BY <2>1, <2>2
<1>8. t[1].item \in {0, 1} /\ t[1].prefix = <<>>
  BY <1>6 DEF Stacked
<1>9. Stacked(t)
  <2>1. Len(t) >= 1
    BY <1>1, <1>5
  <2> QED BY <1>5, <1>7, <1>8, <2>1 DEF Stacked
<1>10. Place(t, k + 1)
  <2>1. t[Len(t)].item = k + 1 /\ k + 1 # 0
    BY <1>1, <1>3, <1>5
  <2> QED BY <2>1 DEF Place
<1>11. k + 1 \in 1..(Len(tree) + 1)
  BY <1>1
<1> QED BY <1>9, <1>10, <1>11 DEF t, x

----------------------------------------------------------------------------
(* The fields of the leaves before an item.                                *)

LEMMA LeavesNext ==
  ASSUME InOrder(tree), NEW k \in 1..Len(tree)
  PROVE  Leaves(k + 1) = Leaves(k) \cup (IF Leaf(tree[k]) THEN {k} ELSE {})
<1> Len(tree) \in Nat
  BY ItemTypes
<1>1. \A i \in 1..Len(tree) : i < k + 1 <=> i < k \/ i = k
  OBVIOUS
<1> QED BY <1>1 DEF Leaves

\* An item that gives no field: no leaf, or one that is lost.
LEMMA CoverSkip ==
  ASSUME InOrder(tree), NEW k \in 1..Len(tree), NEW fs, NEW all, NEW all2,
         Covers(fs, k, all), all2 => all /\ ~Leaf(tree[k])
  PROVE  Covers(fs, k + 1, all2)
<1>1. PICK at : From(at, fs, k, all)
  BY DEF Covers
<1>2. Leaves(k) \subseteq Leaves(k + 1) /\ (all2 => Leaves(k + 1) = Leaves(k))
  BY LeavesNext
<1>3. at \in [DOMAIN fs -> Leaves(k + 1)]
  BY <1>1, <1>2 DEF From
<1>4. From(at, fs, k + 1, all2)
  BY <1>1, <1>2, <1>3 DEF From
<1> QED BY <1>4 DEF Covers

\* A leaf and its field.
LEMMA CoverAdd ==
  ASSUME InOrder(tree), NEW k \in 1..Len(tree), Leaf(tree[k]),
         NEW fs \in Seq(FieldType), NEW f \in FieldType, NEW all, NEW all2,
         Covers(fs, k, all), all2 => all,
         f.name = Path(k), f.val \in {ValStr(tree[k])} \cup (IF all2 THEN {} ELSE {NoStr})
  PROVE  Covers(Append(fs, f), k + 1, all2)
<1> DEFINE n == Len(fs)
           gs == Append(fs, f)
<1>1. PICK at : From(at, fs, k, all)
  BY DEF Covers
<1> DEFINE to == [i \in 1..(n + 1) |-> IF i = n + 1 THEN k ELSE at[i]]
<1>2. /\ n \in Nat /\ DOMAIN fs = 1..n /\ DOMAIN gs = 1..(n + 1) /\ gs[n + 1] = f
      /\ \A i \in 1..n : gs[i] = fs[i]
  BY AppendProperties
<1>3. Leaves(k + 1) = Leaves(k) \cup {k} /\ \A i \in Leaves(k) : i < k
  BY LeavesNext DEF Leaves
<1>4. /\ \A i \in 1..n : at[i] \in Leaves(k)
      /\ \A i, j \in 1..n : i < j => at[i] < at[j]
      /\ \A i \in 1..n : /\ fs[i].name = Path(at[i])
                         /\ fs[i].val \in {ValStr(tree[at[i]])} \cup (IF all THEN {} ELSE {NoStr})
      /\ all => \A l \in Leaves(k) : \E i \in 1..n : at[i] = l
  BY <1>1, <1>2, Zenon DEF From
<1> HIDE DEF gs
<1>5. \A i \in 1..(n + 1) : i \in 1..n \/ i = n + 1
  BY <1>2
<1>6. /\ \A i \in 1..n : i \in 1..(n + 1) /\ i # n + 1 /\ to[i] = at[i] /\ i < n + 1
      /\ n + 1 \in 1..(n + 1) /\ to[n + 1] = k
  <2>1. n + 1 \in 1..(n + 1) /\ \A i \in 1..n : i \in 1..(n + 1) /\ i # n + 1 /\ i < n + 1
    BY <1>2
  <2> QED BY <2>1
<1>7. to \in [DOMAIN gs -> Leaves(k + 1)]
  <2>1. \A i \in 1..(n + 1) : to[i] \in Leaves(k + 1)
    <3> HIDE DEF to
    <3> QED BY <1>3, <1>4, <1>5, <1>6
  <2>2. to = [i \in 1..(n + 1) |-> to[i]]
    OBVIOUS
  <2> HIDE DEF to
  <2> QED BY <1>2, <2>1, <2>2
<1> HIDE DEF to
<1>8. \A i, j \in DOMAIN gs : i < j => to[i] < to[j]
  <2> SUFFICES ASSUME NEW i \in 1..(n + 1), NEW j \in 1..(n + 1), i < j PROVE to[i] < to[j]
    BY <1>2
  <2>1. i \in 1..n
    BY <1>2
  <2>2. CASE j = n + 1
    BY <1>3, <1>4, <1>6, <2>1, <2>2
  <2>3. CASE j \in 1..n
    BY <1>4, <1>6, <2>1, <2>3
  <2> QED BY <1>5, <2>2, <2>3
<1>9. ASSUME NEW i \in DOMAIN gs
      PROVE  /\ gs[i].name = Path(to[i])
             /\ gs[i].val \in {ValStr(tree[to[i]])} \cup (IF all2 THEN {} ELSE {NoStr})
  <2>1. CASE i = n + 1
    BY <1>2, <1>6, <2>1
  <2>2. CASE i \in 1..n
    BY <1>2, <1>4, <1>6, <2>2
  <2> QED BY <1>2, <1>5, <2>1, <2>2
<1>10. all2 => \A l \in Leaves(k + 1) : \E i \in DOMAIN gs : to[i] = l
  <2> SUFFICES ASSUME all2, NEW l \in Leaves(k + 1) PROVE \E i \in 1..(n + 1) : to[i] = l
    BY <1>2
  <2>1. CASE l = k
    BY <1>6, <2>1
  <2>2. CASE l \in Leaves(k)
    <3>1. PICK i \in 1..n : at[i] = l
      BY <1>4, <2>2
    <3> QED BY <1>6, <3>1
  <2> QED BY <1>3, <2>1, <2>2
<1>11. From(to, gs, k + 1, all2)
  BY <1>7, <1>8, <1>9, <1>10 DEF From
<1> QED BY <1>11 DEF Covers, gs

----------------------------------------------------------------------------
(* Each action preserves the invariant.                                    *)

LEMMA Bounds == MaxItems \in Nat /\ MaxLines \in Nat
BY JsonAssumption

\* The part of TypeOK about the walk.
WalkType ==
  /\ Len(tree) <= MaxItems /\ {bucket, oom} \subseteq BOOLEAN
  /\ \A d \in 1..Len(stack) : stack[d].item \in 0..Len(tree)
  /\ \A k \in 1..Len(fields) : fields[k].val \in Values
  /\ stack # <<>> <=> pc = "walk"

LEMMA TypeIs ==
  TypeOK <=> /\ pc \in {"open", "read", "line", "walk", "deliver", "done", "crashed"}
             /\ r \in {"ok", "nomem", "ioerr", "cbfail"}
             /\ lnNbr \in 1..(MaxLines + 1) /\ errMsg \in 0..MaxLines /\ sent \in 0..MaxLines
             /\ WalkType
BY Zenon DEF TypeOK, WalkType, Values

LEMMA TypeNext ==
  ASSUME pc' \in {"open", "read", "line", "walk", "deliver", "done", "crashed"},
         r' \in {"ok", "nomem", "ioerr", "cbfail"}, lnNbr' \in 1..(MaxLines + 1),
         errMsg' \in 0..MaxLines, sent' \in 0..MaxLines, WalkType'
  PROVE  TypeOK'
BY Zenon DEF TypeOK, WalkType, Values

\* A decoder that walks no tree.
LEMMA Idle ==
  ASSUME pc' \notin {"walk", "deliver"}, NoEvent
  PROVE  WalkInv' /\ WalkType'
<1>1. WalkInv'
  BY DEF WalkInv, NoEvent
<1>2. /\ tree' = <<>> /\ stack' = <<>> /\ fields' = <<>>
      /\ bucket' = FALSE /\ oom' = FALSE
  BY DEF NoEvent
<1>3. Len(tree') = 0 /\ Len(stack') = 0 /\ Len(fields') = 0
  BY <1>2
<1>4. {bucket', oom'} \subseteq BOOLEAN
  BY <1>2, Zenon
<1>5. Len(tree') <= MaxItems
  BY <1>3, Bounds
<1>6. /\ \A d \in 1..Len(stack') : stack'[d].item \in 0..Len(tree')
      /\ \A k \in 1..Len(fields') : fields'[k].val \in Values
  BY <1>3
<1>7. stack' # <<>> <=> pc' = "walk"
  BY <1>2
<1>8. WalkType'
  BY <1>4, <1>5, <1>6, <1>7, Zenon DEF WalkType
<1> QED BY <1>1, <1>8

LEMMA InitIInv == Init => IInv
<1> SUFFICES ASSUME Init PROVE IInv
  OBVIOUS
<1>1. /\ pc = "open" /\ r = "ok" /\ errMsg = 0 /\ lnNbr = 1 /\ sent = 0
      /\ tree = <<>> /\ stack = <<>> /\ fields = <<>> /\ bucket = FALSE /\ oom = FALSE
  BY DEF Init
<1>2. WalkType
  <2>1. Len(tree) = 0 /\ Len(stack) = 0 /\ Len(fields) = 0
    BY <1>1
  <2>2. {bucket, oom} \subseteq BOOLEAN
    BY <1>1, Zenon
  <2>3. /\ Len(tree) <= MaxItems
        /\ \A d \in 1..Len(stack) : stack[d].item \in 0..Len(tree)
        /\ \A k \in 1..Len(fields) : fields[k].val \in Values
    BY <2>1, Bounds
  <2>4. stack # <<>> <=> pc = "walk"
    BY <1>1
  <2> QED BY <2>2, <2>3, <2>4, Zenon DEF WalkType
<1>3. TypeOK
  BY <1>1, <1>2, Bounds, TypeIs
<1> QED BY <1>1, <1>3 DEF IInv, OneEventPerLine, LineInHand, WalkInv

LEMMA GetLineOK == ASSUME IInv, GetLine PROVE IInv'
<1>1. /\ TypeOK /\ OneEventPerLine /\ LineInHand /\ WalkInv
      /\ errMsg' = errMsg /\ sent' = sent
      /\ UNCHANGED <<tree, bucket, stack, fields, oom>>
      /\ pc \in {"open", "read"} /\ pc' \in {"line", "done"}
      /\ lnNbr' = IF pc = "open" THEN lnNbr ELSE lnNbr + 1
      /\ \/ lnNbr' <= MaxLines /\ pc' = "line" /\ r' = r
         \/ r' \in {"ok", "ioerr"} /\ pc' = "done"
  BY DEF IInv, GetLine, walk
<1>2. /\ WalkType /\ r \in {"ok", "nomem", "ioerr", "cbfail"} /\ errMsg \in 0..MaxLines
      /\ sent \in 0..MaxLines /\ lnNbr \in 1..(MaxLines + 1)
  BY <1>1, TypeIs
<1>3. lnNbr' \in 1..(MaxLines + 1)
  BY <1>1, <1>2, Bounds DEF LineInHand
<1>4. WalkType'
  BY <1>1, <1>2 DEF WalkType
<1>5. TypeOK'
  BY <1>1, <1>2, <1>3, <1>4, TypeNext
<1>6. OneEventPerLine'
  BY <1>1, <1>2, Bounds DEF OneEventPerLine
<1>7. LineInHand'
  BY <1>1 DEF LineInHand
<1>8. WalkInv'
  BY <1>1 DEF WalkInv
<1> QED BY <1>5, <1>6, <1>7, <1>8 DEF IInv


\* What is said of a tree holds as long as it stays.
LEMMA SameTree ==
  ASSUME tree' = tree
  PROVE  /\ FrameSet' = FrameSet /\ FieldType' = FieldType
         /\ \A k : Path(k)' = Path(k) /\ Depth(k)' = Depth(k) /\ Leaves(k)' = Leaves(k)
         /\ \A u, k : (ChildOf(u, k)' <=> ChildOf(u, k)) /\ (IsEnd(u, k)' <=> IsEnd(u, k))
<1>1. ASSUME NEW k PROVE Depth(k)' = Depth(k) /\ Line(k)' = Line(k)
  BY DEF Depth, Line
<1>2. ASSUME NEW k PROVE Path(k)' = Path(k) /\ Leaves(k)' = Leaves(k)
  <2>1. Line(k)' = Line(k)
    BY <1>1
  <2>2. Path(k)' = Path(k)
    BY <2>1 DEF Path
  <2>3. Leaves(k)' = Leaves(k)
    BY DEF Leaves
  <2> QED BY <2>2, <2>3
<1>3. FrameSet' = FrameSet
  BY <1>2 DEF FrameSet
<1>4. FieldType' = FieldType
  BY <1>2 DEF FieldType
<1>5. ASSUME NEW u, NEW k
      PROVE  (ChildOf(u, k)' <=> ChildOf(u, k)) /\ (IsEnd(u, k)' <=> IsEnd(u, k))
  <2>1. ChildOf(u, k)' <=> ChildOf(u, k)
    BY <1>1 DEF ChildOf
  <2>2. IsEnd(u, k)' <=> IsEnd(u, k)
    BY <1>1 DEF IsEnd
  <2> QED BY <2>1, <2>2
<1> QED BY <1>1, <1>2, <1>3, <1>4, <1>5

\* What a walk needs to be right.
LEMMA WalkStep ==
  ASSUME IInv, pc = "walk", pc' = "walk", tree' = tree, UNCHANGED <<r, errMsg, lnNbr, sent>>,
         {bucket', oom'} \subseteq BOOLEAN, Stacked(stack'), fields' \in Seq(FieldType),
         NEW p \in 1..(Len(tree) + 1), Place(stack', p), Covers(fields', p, ~oom')
  PROVE  IInv'
<1>1. /\ FrameSet' = FrameSet /\ FieldType' = FieldType
      /\ \A k : Path(k)' = Path(k) /\ Depth(k)' = Depth(k) /\ Leaves(k)' = Leaves(k)
      /\ \A u, k : (ChildOf(u, k)' <=> ChildOf(u, k)) /\ (IsEnd(u, k)' <=> IsEnd(u, k))
  BY SameTree
<1>2. Stacked(stack)'
  BY <1>1 DEF Stacked
<1>3. Place(stack, p)'
  BY <1>1 DEF Place
<1>4. Covers(fields, p, ~oom)'
  BY <1>1 DEF Covers, From
<1>5. InOrder(tree) /\ TypeOK /\ OneEventPerLine /\ LineInHand
  BY DEF IInv, WalkInv
<1>6. /\ WalkType /\ r \in {"ok", "nomem", "ioerr", "cbfail"} /\ errMsg \in 0..MaxLines
      /\ sent \in 0..MaxLines /\ lnNbr \in 1..(MaxLines + 1)
  BY <1>5, TypeIs
<1>7. WalkType'
  <2>1. /\ stack' \in Seq(FrameSet) /\ Len(stack') >= 1
        /\ \A d \in 1..Len(stack') : stack'[d] \in FrameSet
    BY DEF Stacked
  <2>2. \A d \in 1..Len(stack') : stack'[d].item \in 0..Len(tree)
    BY <2>1 DEF FrameSet
  <2>3. \A k \in 1..Len(fields') : fields'[k].val \in Values
    <3>1. \A k \in 1..Len(fields') : fields'[k] \in FieldType
      OBVIOUS
    <3> QED BY <3>1 DEF FieldType
  <2>4. stack' # <<>>
    BY <2>1
  <2>5. Len(tree') <= MaxItems
    BY <1>6 DEF WalkType
  <2> QED BY <2>2, <2>3, <2>4, <2>5, Zenon DEF WalkType
<1>8. TypeOK'
  BY <1>6, <1>7, TypeNext
<1>9. OneEventPerLine' /\ LineInHand'
  BY <1>5 DEF OneEventPerLine, LineInHand
<1>10. WalkInv'
  <2>1. InOrder(tree)' /\ (fields \in Seq(FieldType))' /\ p \in (1..(Len(tree) + 1))'
    BY <1>1, <1>5 DEF InOrder
  <2> QED BY <1>2, <1>3, <1>4, <2>1 DEF WalkInv
<1> QED BY <1>8, <1>9, <1>10 DEF IInv

LEMMA CrashOK == ASSUME IInv, Crash, UNCHANGED <<lnNbr, sent>> PROVE IInv'
<1>1. pc' = "crashed" /\ NoEvent /\ UNCHANGED <<r, errMsg, lnNbr, sent>>
  BY DEF Crash
<1>2. /\ r \in {"ok", "nomem", "ioerr", "cbfail"} /\ errMsg \in 0..MaxLines
      /\ sent \in 0..MaxLines /\ lnNbr \in 1..(MaxLines + 1)
  BY TypeIs DEF IInv
<1>3. WalkInv' /\ WalkType'
  BY <1>1, Idle
<1>4. TypeOK'
  BY <1>1, <1>2, <1>3, TypeNext
<1>5. OneEventPerLine' /\ LineInHand'
  BY <1>1 DEF OneEventPerLine, LineInHand
<1> QED BY <1>3, <1>4, <1>5 DEF IInv

LEMMA ParseOK == ASSUME IInv, Parse PROVE IInv'
<1>1. /\ TypeOK /\ OneEventPerLine /\ LineInHand /\ pc = "line" /\ UNCHANGED <<lnNbr, sent>>
  BY DEF IInv, Parse
<1>2. /\ r \in {"ok", "nomem", "ioerr", "cbfail"} /\ errMsg \in 0..MaxLines
      /\ sent \in 0..MaxLines /\ lnNbr \in 1..MaxLines
  BY <1>1, TypeIs, Bounds DEF LineInHand
<1>3. CASE Crash
  BY <1>1, <1>3, CrashOK
<1>4. CASE Fail("nomem") /\ NoEvent
  <2>1. pc' = "done" /\ r' = "nomem" /\ errMsg' = lnNbr /\ NoEvent
    BY <1>4 DEF Fail
  <2>2. WalkInv' /\ WalkType'
    BY <2>1, Idle
  <2>3. TypeOK'
    <3>1. errMsg' \in 0..MaxLines /\ lnNbr' \in 1..(MaxLines + 1)
      BY <1>1, <1>2, <2>1, Bounds
    <3> QED BY <1>1, <1>2, <2>1, <2>2, <3>1, TypeNext
  <2>4. OneEventPerLine'
    BY <1>1, <2>1 DEF OneEventPerLine
  <2> QED BY <2>1, <2>2, <2>3, <2>4 DEF IInv, LineInHand
<1>5. CASE /\ tree' \in Trees /\ bucket' \in BOOLEAN /\ oom' = ~bucket'
           /\ stack' = <<[item |-> 1, prefix |-> <<>>]>> /\ fields' = <<>>
           /\ pc' = "walk" /\ UNCHANGED <<r, errMsg>>
  <2>1. InOrder(tree')
    BY <1>5, TreesInOrder
  <2>2. Len(tree') \in Nat /\ Len(tree') >= 1 /\ Len(tree') <= MaxItems
    BY <2>1, Bounds DEF InOrder
  <2>3. WalkType'
    <3>1. stack' # <<>> /\ Len(stack') = 1 /\ stack'[1].item = 1 /\ Len(fields') = 0
      BY <1>5
    <3>2. \A d \in 1..Len(stack') : stack'[d].item \in 0..Len(tree')
      BY <2>2, <3>1
    <3>3. \A k \in 1..Len(fields') : fields'[k].val \in Values
      BY <3>1
    <3>4. {bucket', oom'} \subseteq BOOLEAN
      BY <1>5, Zenon
    <3> QED BY <1>5, <2>2, <3>1, <3>2, <3>3, <3>4, Zenon DEF WalkType
  <2>4. TypeOK'
    <3>1. lnNbr' \in 1..(MaxLines + 1)
      BY <1>1, <1>2, Bounds
    <3> QED BY <1>1, <1>2, <1>5, <2>3, <3>1, TypeNext
  <2>5. OneEventPerLine' /\ LineInHand'
    BY <1>1, <1>5 DEF OneEventPerLine, LineInHand
  <2>6. /\ stack' \in Seq(FrameSet') /\ Len(stack') = 1 /\ stack'[1].item = 1
        /\ stack'[1].prefix = <<>>
    <3>1. [item |-> 1, prefix |-> <<>>] \in FrameSet'
      BY <2>2 DEF FrameSet
    <3> QED BY <1>5, <3>1
  <2>7. Stacked(stack)' /\ Place(stack, 1)'
    BY <2>6 DEF Stacked, Place
  <2>8. Covers(fields, 1, ~oom)'
    <3> DEFINE at == [i \in {} |-> 0]
    <3>1. Leaves(1)' = {}
      BY <2>2 DEF Leaves
    <3>2. DOMAIN <<>> = {} /\ at \in [{} -> Leaves(1)']
      OBVIOUS
    <3>3. \E a : /\ a \in [DOMAIN <<>> -> Leaves(1)']
                 /\ \A i, j \in DOMAIN <<>> : i < j => a[i] < a[j]
      BY <3>2
    <3> QED BY <1>5, <3>1, <3>2, <3>3, Zenon DEF Covers, From
  <2>9. WalkInv'
    <3>1. InOrder(tree)' /\ (fields \in Seq(FieldType))' /\ 1 \in (1..(Len(tree) + 1))'
      BY <1>5, <2>1, <2>2 DEF InOrder
    <3> QED BY <1>5, <2>7, <2>8, <3>1 DEF WalkInv
  <2> QED BY <2>4, <2>5, <2>9 DEF IInv
<1> QED BY <1>3, <1>4, <1>5, Zenon DEF Parse

LEMMA DeliverOK == ASSUME IInv, Deliver PROVE IInv'
<1>1. /\ TypeOK /\ OneEventPerLine /\ LineInHand /\ pc = "deliver" /\ lnNbr' = lnNbr
      /\ sent' = sent + 1 /\ NoEvent
      /\ \/ pc' = "read" /\ r' = r /\ errMsg' = errMsg
         \/ pc' = "done" /\ r' = "cbfail" /\ errMsg' = lnNbr
  BY DEF IInv, Deliver, Fail
<1>2. /\ r \in {"ok", "nomem", "ioerr", "cbfail"} /\ errMsg = 0
      /\ sent = lnNbr - 1 /\ lnNbr \in 1..MaxLines
  BY <1>1, TypeIs, Bounds DEF LineInHand, OneEventPerLine
<1>3. /\ errMsg' \in 0..MaxLines /\ lnNbr' \in 1..(MaxLines + 1) /\ sent' \in 0..MaxLines
      /\ sent' = lnNbr'
  BY <1>1, <1>2, Bounds
<1>4. WalkInv' /\ WalkType'
  BY <1>1, Idle
<1>5. TypeOK'
  BY <1>1, <1>2, <1>3, <1>4, TypeNext
<1>6. OneEventPerLine' /\ LineInHand'
  BY <1>1, <1>2, <1>3, Bounds DEF OneEventPerLine, LineInHand
<1> QED BY <1>4, <1>5, <1>6 DEF IInv

\* What the invariant says of a walk that stands on an item.
LEMMA OnItem ==
  ASSUME IInv, pc = "walk", Top.item # 0
  PROVE  /\ InOrder(tree) /\ Stacked(stack) /\ fields \in Seq(FieldType)
         /\ Top.item \in 1..Len(tree) /\ Covers(fields, Top.item, ~oom)
         /\ {bucket, oom} \subseteq BOOLEAN
         /\ \A e : IsEnd(Top.item, e) =>
              Stacked(Advance(stack)) /\ Place(Advance(stack), e) /\ e \in 1..(Len(tree) + 1)
<1>1. InOrder(tree) /\ Stacked(stack) /\ fields \in Seq(FieldType)
  BY DEF IInv, WalkInv
<1>2. PICK p \in 1..(Len(tree) + 1) : Place(stack, p) /\ Covers(fields, p, ~oom)
  BY DEF IInv, WalkInv
<1>3. Top = stack[Len(stack)] /\ stack[Len(stack)].item \in 0..Len(tree) /\ Len(tree) \in Nat
  BY <1>1, LastFrame, ItemTypes DEF Top
<1>4. p = Top.item
  BY <1>2, <1>3, Zenon DEF Place
<1>5. Top.item \in 1..Len(tree)
  BY <1>3
<1>6. {bucket, oom} \subseteq BOOLEAN
  BY Zenon DEF IInv, TypeOK
<1>7. ASSUME NEW e, IsEnd(Top.item, e)
      PROVE  Stacked(Advance(stack)) /\ Place(Advance(stack), e) /\ e \in 1..(Len(tree) + 1)
  BY <1>1, <1>7, AdvanceOK DEF Top
<1> QED BY <1>1, <1>2, <1>4, <1>5, <1>6, <1>7

LEMMA ValStrType == \A it : Leaf(it) => ValStr(it) \in Values
BY JsonAssumption DEF Leaf, ValStr, Values

LEMMA VisitOK == ASSUME IInv, Visit PROVE IInv'
<1> DEFINE k == Top.item
           field(s) == [name |-> Under(Top.prefix, Item), val |-> s]
<1>1. /\ pc = "walk" /\ k # 0 /\ Leaf(Item) /\ bucket /\ stack' = Advance(stack)
      /\ \/ fields' = Append(fields, field(ValStr(Item))) /\ oom' = oom
         \/ fields' = Append(fields, field(NoStr)) /\ oom' = TRUE
         \/ oom' = TRUE /\ fields' = fields
      /\ UNCHANGED <<pc, r, errMsg, lnNbr, tree, bucket, sent>>
  BY Zenon DEF Visit
<1>2. /\ InOrder(tree) /\ Stacked(stack) /\ fields \in Seq(FieldType)
      /\ k \in 1..Len(tree) /\ Covers(fields, k, ~oom)
      /\ {bucket, oom} \subseteq BOOLEAN
  BY <1>1, OnItem
<1>3. IsEnd(k, k + 1) /\ Item = tree[k]
  BY <1>1, <1>2, ChildIs DEF Item
<1>4. /\ Stacked(stack') /\ Place(stack', k + 1) /\ k + 1 \in 1..(Len(tree) + 1)
  BY <1>1, <1>3, OnItem
<1>5. Under(Top.prefix, Item) = Path(k)
  BY <1>1, <1>2, NameIs DEF Top, Item
<1>6. \A s \in Values : field(s) \in FieldType /\ field(s).name = Path(k) /\ field(s).val = s
  BY <1>2, <1>5 DEF FieldType
<1>7. ValStr(tree[k]) \in Values /\ NoStr \in Values
  BY <1>1, <1>3, ValStrType DEF Values
<1>8. fields' \in Seq(FieldType) /\ Covers(fields', k + 1, ~oom')
  <2> HIDE DEF k
  <2>1. CASE fields' = Append(fields, field(ValStr(Item))) /\ oom' = oom
    <3> DEFINE f == field(ValStr(tree[k]))
    <3>1. f \in FieldType /\ f.name = Path(k) /\ f.val = ValStr(tree[k]) /\ fields' = Append(fields, f)
      BY <1>3, <1>6, <1>7, <2>1
    <3> HIDE DEF f
    <3>2. fields' \in Seq(FieldType)
      BY <1>2, <3>1
    <3>3. Covers(fields', k + 1, ~oom')
      BY <1>1, <1>2, <1>3, <2>1, <3>1, CoverAdd
    <3> QED BY <3>2, <3>3
  <2>2. CASE fields' = Append(fields, field(NoStr)) /\ oom' = TRUE
    <3> DEFINE f == field(NoStr)
    <3>1. f \in FieldType /\ f.name = Path(k) /\ f.val = NoStr /\ fields' = Append(fields, f)
      BY <1>6, <1>7, <2>2
    <3> HIDE DEF f
    <3>2. fields' \in Seq(FieldType)
      BY <1>2, <3>1
    <3>3. Covers(fields', k + 1, FALSE)
      BY <1>1, <1>2, <1>3, <3>1, CoverAdd
    <3> QED BY <2>2, <3>2, <3>3
  <2>3. CASE oom' = TRUE /\ fields' = fields
    <3>1. Covers(fields, k + 1, FALSE)
      BY <1>2, CoverSkip
    <3> QED BY <1>2, <2>3, <3>1
  <2> QED BY <1>1, <2>1, <2>2, <2>3, Zenon
<1>9. {bucket', oom'} \subseteq BOOLEAN
  BY <1>1, <1>2, Zenon
<1> HIDE DEF k
<1> QED BY <1>1, <1>4, <1>8, <1>9, WalkStep

LEMMA DescendStep == ASSUME IInv, Descend PROVE IInv'
<1> DEFINE k == Top.item
<1>1. /\ pc = "walk" /\ k # 0 /\ ~Leaf(Item)
      /\ stack' = IF Child(tree, Top.item) = 0 THEN Advance(stack)
                  ELSE Append(stack, [item |-> Child(tree, Top.item),
                                      prefix |-> Under(Top.prefix, Item)])
      /\ UNCHANGED <<pc, r, errMsg, lnNbr, tree, bucket, fields, oom, sent>>
  BY Zenon DEF Descend
<1>2. /\ InOrder(tree) /\ Stacked(stack) /\ fields \in Seq(FieldType)
      /\ k \in 1..Len(tree) /\ Covers(fields, k, ~oom)
      /\ {bucket, oom} \subseteq BOOLEAN
  BY <1>1, OnItem
<1>3. Covers(fields, k + 1, ~oom)
  BY <1>1, <1>2, CoverSkip DEF Item
<1>4. Stacked(stack') /\ Place(stack', k + 1) /\ k + 1 \in 1..(Len(tree) + 1)
  <2>1. CASE Child(tree, k) = 0
    <3>1. IsEnd(k, k + 1)
      BY <1>2, <2>1, ChildIs
    <3> QED BY <1>1, <2>1, <3>1, OnItem
  <2>2. CASE Child(tree, k) # 0
    BY <1>1, <1>2, <2>2, DescendOK DEF Top, Item
  <2> QED BY <2>1, <2>2
<1>5. {bucket', oom'} \subseteq BOOLEAN /\ fields' \in Seq(FieldType) /\ Covers(fields', k + 1, ~oom')
  BY <1>1, <1>2, <1>3
<1> HIDE DEF k
<1> QED BY <1>1, <1>4, <1>5, WalkStep

LEMMA ReturnStep == ASSUME IInv, Return PROVE IInv'
<1>1. /\ pc = "walk" /\ Top.item = 0
      /\ \/ Len(stack) = 1 /\ stack' = <<>> /\ pc' = "deliver"
         \/ Len(stack) > 1 /\ stack' = Advance(Front(stack)) /\ pc' = pc
      /\ UNCHANGED <<r, errMsg, lnNbr, tree, bucket, fields, oom, sent>>
  BY DEF Return
<1>2. /\ InOrder(tree) /\ Stacked(stack) /\ fields \in Seq(FieldType)
      /\ TypeOK /\ OneEventPerLine /\ LineInHand
  BY <1>1 DEF IInv, WalkInv
<1>3. PICK p \in 1..(Len(tree) + 1) : Place(stack, p) /\ Covers(fields, p, ~oom)
  BY <1>1 DEF IInv, WalkInv
<1>4. {bucket', oom'} \subseteq BOOLEAN
  BY <1>1, <1>2, Zenon DEF TypeOK
<1>5. CASE Len(stack) = 1 /\ stack' = <<>> /\ pc' = "deliver"
  <2>1. p = Len(tree) + 1
    <3>1. stack[Len(stack)].item = 0
      BY <1>1, <1>2, LastFrame DEF Top
    <3> QED BY <1>3, <1>5, <3>1, Zenon DEF Place
  <2>2. Covers(fields, Len(tree) + 1, ~oom)'
    <3>1. \A k : Path(k)' = Path(k) /\ Leaves(k)' = Leaves(k)
      BY <1>1, SameTree
    <3> QED BY <1>1, <1>3, <2>1, <3>1 DEF Covers, From
  <2>3. WalkInv'
    <3>1. InOrder(tree)' /\ (fields \in Seq(FieldType))'
      BY <1>1, <1>2, SameTree DEF InOrder
    <3> QED BY <1>5, <2>2, <3>1 DEF WalkInv
  <2>4. WalkType /\ r \in {"ok", "nomem", "ioerr", "cbfail"} /\ errMsg \in 0..MaxLines
        /\ sent \in 0..MaxLines /\ lnNbr \in 1..(MaxLines + 1)
    BY <1>2, TypeIs
  <2>5. WalkType'
    <3>1. \A d \in 1..Len(stack') : stack'[d].item \in 0..Len(tree')
      <4>1. Len(stack') = 0
        BY <1>5
      <4> QED BY <4>1
    <3>2. stack' # <<>> <=> pc' = "walk"
      BY <1>5
    <3>3. /\ Len(tree') <= MaxItems
          /\ \A k \in 1..Len(fields') : fields'[k].val \in Values
      BY <1>1, <2>4 DEF WalkType
    <3> QED BY <1>4, <3>1, <3>2, <3>3, Zenon DEF WalkType
  <2>6. TypeOK'
    BY <1>1, <1>5, <2>4, <2>5, TypeNext
  <2>7. OneEventPerLine' /\ LineInHand'
    BY <1>1, <1>2, <1>5 DEF OneEventPerLine, LineInHand
  <2> QED BY <2>3, <2>6, <2>7 DEF IInv
<1>6. CASE Len(stack) > 1 /\ stack' = Advance(Front(stack)) /\ pc' = pc
  <2>1. Stacked(stack') /\ Place(stack', p)
    BY <1>1, <1>2, <1>3, <1>6, ReturnOK DEF Top
  <2> QED BY <1>1, <1>2, <1>3, <1>4, <1>6, <2>1, WalkStep
<1> QED BY <1>1, <1>5, <1>6

LEMMA NextIInv == ASSUME IInv, [Next]_vars PROVE IInv'
<1>1. CASE GetLine
  BY <1>1, GetLineOK
<1>2. CASE Parse
  BY <1>2, ParseOK
<1>3. CASE Deliver
  BY <1>3, DeliverOK
<1>4. CASE Visit
  BY <1>4, VisitOK
<1>5. CASE VisitCrash
  BY <1>5, CrashOK DEF VisitCrash
<1>6. CASE Descend
  BY <1>6, DescendStep
<1>7. CASE Return
  BY <1>7, ReturnStep
<1>8. CASE UNCHANGED vars
  <2>1. UNCHANGED <<pc, r, errMsg, lnNbr, tree, bucket, stack, fields, oom, sent>>
    BY <1>8 DEF vars, walk
  <2>2. TypeOK' /\ OneEventPerLine' /\ LineInHand'
    BY <2>1 DEF IInv, TypeOK, OneEventPerLine, LineInHand
  <2>3. /\ FrameSet' = FrameSet /\ FieldType' = FieldType
        /\ \A k : Path(k)' = Path(k) /\ Leaves(k)' = Leaves(k)
        /\ \A u, k : (ChildOf(u, k)' <=> ChildOf(u, k)) /\ (IsEnd(u, k)' <=> IsEnd(u, k))
    BY <2>1, SameTree
  <2>4. /\ Stacked(stack)' <=> Stacked(stack)
        /\ InOrder(tree)' <=> InOrder(tree)
        /\ \A p : (Place(stack, p)' <=> Place(stack, p))
    <3>1. Stacked(stack)' <=> Stacked(stack)
      BY <2>1, <2>3 DEF Stacked
    <3>2. InOrder(tree)' <=> InOrder(tree)
      BY <2>1 DEF InOrder
    <3>3. \A p : (Place(stack, p)' <=> Place(stack, p))
      BY <2>1, <2>3 DEF Place
    <3> QED BY <3>1, <3>2, <3>3
  <2>5. \A p : Covers(fields, p, ~oom)' <=> Covers(fields, p, ~oom)
    BY <2>1, <2>3 DEF Covers, From
  <2>6. WalkInv'
    BY <2>1, <2>3, <2>4, <2>5 DEF IInv, WalkInv
  <2> QED BY <2>2, <2>6 DEF IInv
<1> QED BY <1>1, <1>2, <1>3, <1>4, <1>5, <1>6, <1>7, <1>8 DEF Next

LEMMA Invariant == Spec => []IInv
BY InitIInv, NextIInv, PTL DEF Spec

----------------------------------------------------------------------------
(* Results.                                                                *)

(* Every variable has its type, and every frame of the recursion points to *)
(* an item of the tree or is at the end of its siblings, for trees of any  *)
(* shape (parse_and_callback, json_event.c:60-99).                         *)
THEOREM TypeCorrect == Spec => []TypeOK
<1>1. IInv => TypeOK
  BY DEF IInv
<1> QED BY <1>1, Invariant, PTL

(* Every line before the one in hand was handed over once, and the code    *)
(* and the message that are returned fit (json_dec.c:70-90).               *)
THEOREM EachLineOnce == Spec => []OneEventPerLine
<1>1. IInv => OneEventPerLine
  BY DEF IInv
<1> QED BY <1>1, Invariant, PTL

\* The line of a child without the child is that of its parent.
LEMMA FrontOfLine ==
  ASSUME InOrder(tree), NEW u, NEW k, ChildOf(u, k)
  PROVE  Front(Line(k)) = Line(u)
<1> DEFINE n == Depth(u) + 1
           l == Line(k)
           S == {l[i] : i \in 1..(n + 1)}
<1>1. /\ DOMAIN Line(u) = 1..n /\ DOMAIN l = 1..(n + 1) /\ n \in Nat /\ n >= 1
      /\ \A d \in 1..n : l[d] = Line(u)[d]
  <2>1. Depth(u) \in Nat
    BY ItemTypes DEF ChildOf
  <2>2. Depth(u) + 2 = Depth(u) + 1 + 1
    BY <2>1
  <2> QED BY <2>1, <2>2, LineChild
<1>2. l = [d \in 1..(n + 1) |-> l[d]] /\ Line(u) = [d \in 1..n |-> Line(u)[d]]
  <2>1. l = [d \in DOMAIN l |-> l[d]] /\ Line(u) = [d \in DOMAIN Line(u) |-> Line(u)[d]]
    BY DEF Line
  <2> QED BY <1>1, <2>1
<1> HIDE DEF n, l
<1>3. l \in Seq(S) /\ Len(l) = n + 1
  <2>1. l \in [1..(n + 1) -> S]
    BY <1>2
  <2> HIDE DEF S
  <2> QED BY <1>1, <2>1
<1>4. /\ Front(l) \in Seq(S) /\ Len(Front(l)) = n
      /\ \A i \in 1..n : Front(l)[i] = l[i]
  <2>1. Len(l) >= 1 /\ Len(l) - 1 = n
    BY <1>1, <1>3
  <2> HIDE DEF S
  <2> QED BY <1>3, <2>1, FrontIs
<1>5. Line(u) \in Seq(S) /\ Len(Line(u)) = n
  <2>1. \A d \in 1..n : Line(u)[d] \in S
    BY <1>1
  <2> HIDE DEF S
  <2>2. Line(u) \in [1..n -> S]
    BY <1>2, <2>1
  <2> QED BY <1>1, <2>2
<1>6. \A i \in 1..n : Front(l)[i] = Line(u)[i]
  BY <1>1, <1>4
<1> HIDE DEF S
<1>7. Front(l) = Line(u)
  BY <1>4, <1>5, <1>6, SeqEqual
<1> QED BY <1>7 DEF l

(* The frames of the recursion are a line of descent, each with the full   *)
(* name of the item above it as its prefix, also after the walk came back  *)
(* from a subtree (json_event.c:77-96).                                    *)
THEOREM PrefixesCorrect == Spec => []StackIsLine
<1>1. IInv => StackIsLine
  <2> SUFFICES ASSUME IInv, NEW d \in 1..Len(stack)
               PROVE  IF d = 1 THEN stack[d].item \in {0, 1} /\ stack[d].prefix = <<>>
                      ELSE LET up == stack[d - 1].item
                           IN  /\ up # 0 /\ stack[d].prefix = Path(up)
                               /\ stack[d].item # 0 =>
                                    Front(Line(stack[d].item)) = Line(up)
    BY DEF StackIsLine
  <2>1. pc = "walk" /\ InOrder(tree) /\ Stacked(stack)
    <3>1. stack # <<>>
      OBVIOUS
    <3> QED BY <3>1 DEF IInv, TypeOK, WalkInv
  <2>2. CASE d = 1
    BY <2>1, <2>2 DEF Stacked
  <2>3. CASE d # 1
    <3>1. d \in 2..Len(stack)
      BY <2>1, <2>3 DEF Stacked
    <3>2. /\ stack[d - 1].item # 0 /\ stack[d].prefix = Path(stack[d - 1].item)
          /\ stack[d].item # 0 => ChildOf(stack[d - 1].item, stack[d].item)
      BY <2>1, <3>1 DEF Stacked
    <3> QED BY <2>1, <2>3, <3>2, FrontOfLine
  <2> QED BY <2>2, <2>3
<1> QED BY <1>1, Invariant, PTL

(* The fields of an event are leaves of the line's tree, each at most once *)
(* and in document order, under their full names; when no allocation has   *)
(* failed, the event handed over has them all (json_event.c:33-98).        *)
THEOREM EventCorrect == Spec => []FieldsOfTree
<1>1. IInv => FieldsOfTree
  <2> DEFINE leaves == {k \in 1..Len(tree) : Leaf(tree[k])}
             complete == pc = "deliver" /\ ~oom
             Is(f, k, vals) == f.name = Path(k) /\ f.val \in {ValStr(tree[k])} \cup vals
  <2> SUFFICES ASSUME IInv, pc \in {"walk", "deliver"}
               PROVE  \E at \in [DOMAIN fields -> leaves] :
                        /\ \A i, j \in DOMAIN fields : i < j => at[i] < at[j]
                        /\ \A i \in DOMAIN fields :
                             Is(fields[i], at[i], IF complete THEN {} ELSE {NoStr})
                        /\ complete => Range(at) = leaves
    BY Zenon DEF FieldsOfTree
  <2>1. PICK p : /\ Covers(fields, p, ~oom)
                 /\ pc = "deliver" => p = Len(tree) + 1
    BY DEF IInv, WalkInv
  <2>2. PICK at : From(at, fields, p, ~oom)
    BY <2>1 DEF Covers
  <2>3. Leaves(p) \subseteq leaves /\ (complete => Leaves(p) = leaves)
    <3>1. InOrder(tree)
      BY DEF IInv, WalkInv
    <3>2. Len(tree) \in Nat
      BY <3>1, ItemTypes
    <3> QED BY <2>1, <3>2 DEF Leaves
  <2>4. /\ at \in [DOMAIN fields -> Leaves(p)]
        /\ \A i, j \in DOMAIN fields : i < j => at[i] < at[j]
        /\ \A i \in DOMAIN fields :
             /\ fields[i].name = Path(at[i])
             /\ fields[i].val \in {ValStr(tree[at[i]])} \cup (IF ~oom THEN {} ELSE {NoStr})
        /\ ~oom => \A k \in Leaves(p) : \E i \in DOMAIN fields : at[i] = k
    BY <2>2, Zenon DEF From
  <2> HIDE DEF leaves
  <2>5. at \in [DOMAIN fields -> leaves]
    BY <2>3, <2>4
  <2>6. complete => Range(at) = leaves
    BY <2>3, <2>4, <2>5 DEF Range
  <2>7. \A i \in DOMAIN fields : Is(fields[i], at[i], IF complete THEN {} ELSE {NoStr})
    BY <2>4
  <2> QED BY <2>4, <2>5, <2>6, <2>7
<1> QED BY <1>1, Invariant, PTL
==============================================================================
