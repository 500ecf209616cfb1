---------------------------- MODULE SequenceLemmas ----------------------------
(***************************************************************************)
(* What flattening a sequence of sequences does when one more is added.    *)
(* FlattenSeq is a recursive function, and the facts about it need         *)
(* induction.  Here the induction is an argument about the least           *)
(* counterexample, which needs no operator as a parameter.                 *)
(***************************************************************************)
EXTENDS Integers, Sequences, SequencesExt, SequenceTheorems, WellFoundedInduction,
        TLAPS

(* Every set of natural numbers that is not empty has a least element.     *)
LEMMA Least == ASSUME NEW T \in SUBSET Nat, T # {} PROVE \E x \in T : \A y \in T : x <= y
<1> DEFINE R == {p \in Nat \X Nat : p[1] < p[2]}
<1>1. IsWellFoundedOn(R, Nat)
  BY NatLessThanWellFounded DEF OpToRel
<1>2. PICK x \in T : \A y \in T : ~(<<y, x>> \in R)
  <2> HIDE DEF R
  <2> QED BY <1>1, WFMin
<1>3. \A y \in T : ~(y < x)
  BY <1>2
<1> QED BY <1>3

(* What bounds a set of integers and belongs to it is its maximum.         *)
LEMMA MaxIs ==
  ASSUME NEW S \in SUBSET Int, NEW x \in S, \A y \in S : x >= y
  PROVE  Max(S) = x
<1>1. Max(S) \in S /\ \A y \in S : Max(S) >= y
  BY DEF Max
<1>2. Max(S) >= x /\ x >= Max(S) /\ Max(S) \in Int /\ x \in Int
  BY <1>1
<1> QED BY <1>2

LEMMA MinIs ==
  ASSUME NEW S \in SUBSET Int, NEW x \in S, \A y \in S : x <= y
  PROVE  Min(S) = x
<1>1. Min(S) \in S /\ \A y \in S : Min(S) <= y
  BY DEF Min
<1>2. Min(S) <= x /\ x <= Min(S) /\ Min(S) \in Int /\ x \in Int
  BY <1>1
<1> QED BY <1>2

(* A set of natural numbers that is not empty has its minimum.             *)
LEMMA MinOf ==
  ASSUME NEW S \in SUBSET Nat, S # {}
  PROVE  Min(S) \in S /\ \A y \in S : Min(S) <= y
<1>1. PICK x \in S : \A y \in S : x <= y
  BY Least
<1>2. Min(S) = x
  BY <1>1, MinIs
<1> QED BY <1>1, <1>2

\* g[i] is the concatenation of the first i sequences of s, for i up to n: the
\* recursive function inside FlattenSeq.
Concats(g, s, n) == g = [i \in 1..n |-> IF i = 1 THEN s[i] ELSE g[i - 1] \o s[i]]

\* For every length there is such a function, so that CHOOSE finds it.
LEMMA ConcatsExist == ASSUME NEW s, NEW m \in Nat PROVE \E g : Concats(g, s, m)
<1> DEFINE T == {n \in Nat : ~\E g : Concats(g, s, n)}
<1> SUFFICES ASSUME T # {} PROVE FALSE
  OBVIOUS
<1>1. PICK n \in T : \A k \in T : n <= k
  <2> HIDE DEF T
  <2>1. T \in SUBSET Nat
    BY DEF T
  <2> QED BY <2>1, Least
<1>2. ~\E g : Concats(g, s, n)
  OBVIOUS
<1>3. n # 0
  <2> SUFFICES ASSUME n = 0 PROVE FALSE
    OBVIOUS
  <2> DEFINE g == [i \in 1..0 |-> s[i]]
  <2>1. g = [i \in 1..0 |-> IF i = 1 THEN s[i] ELSE g[i - 1] \o s[i]]
    OBVIOUS
  <2>2. Concats(g, s, 0)
    BY <2>1 DEF Concats
  <2> QED BY <1>2, <2>2
<1>4. n - 1 \in Nat /\ n - 1 \notin T
  BY <1>1, <1>3
<1>5. PICK g : Concats(g, s, n - 1)
  BY <1>4
<1> DEFINE last == IF n = 1 THEN s[n] ELSE g[n - 1] \o s[n]
           h == [i \in 1..n |-> IF i = n THEN last ELSE g[i]]
<1>6. \A i \in 1..n : h[i] = IF i = 1 THEN s[i] ELSE h[i - 1] \o s[i]
  <2> SUFFICES ASSUME NEW i \in 1..n
               PROVE  h[i] = IF i = 1 THEN s[i] ELSE h[i - 1] \o s[i]
    OBVIOUS
  <2>1. CASE i = n
    BY <2>1
  <2>2. CASE i # n
    <3>1. /\ i \in 1..(n - 1) /\ h[i] = g[i]
          /\ i # 1 => i - 1 \in 1..n /\ i - 1 # n /\ h[i - 1] = g[i - 1]
      BY <2>2
    <3>2. g[i] = IF i = 1 THEN s[i] ELSE g[i - 1] \o s[i]
      BY <1>5, <3>1 DEF Concats
    <3> QED BY <3>1, <3>2
  <2> QED BY <2>1, <2>2
<1>7. h = [i \in 1..n |-> h[i]]
  OBVIOUS
<1>8. Concats(h, s, n)
  <2> HIDE DEF h
  <2> QED BY <1>6, <1>7 DEF Concats
<1> QED BY <1>2, <1>8

\* Two ways to concatenate the same beginnings agree.
LEMMA ConcatsAgree ==
  ASSUME NEW s, NEW t, NEW n \in Nat \ {0}, NEW g, NEW h,
         Concats(g, s, n), Concats(h, t, n + 1), \A i \in 1..n : s[i] = t[i]
  PROVE  g[n] = h[n]
<1> DEFINE T == {i \in 1..n : g[i] # h[i]}
<1> SUFFICES ASSUME T # {} PROVE FALSE
  OBVIOUS
<1>1. PICK k \in T : \A i \in T : k <= i
  <2>1. T \in SUBSET Nat
    OBVIOUS
  <2> HIDE DEF T
  <2> QED BY <2>1, Least
<1>2. k \in 1..n /\ k \in 1..(n + 1) /\ g[k] # h[k]
  OBVIOUS
<1>3. g[k] = IF k = 1 THEN s[k] ELSE g[k - 1] \o s[k]
  BY <1>2 DEF Concats
<1>4. h[k] = IF k = 1 THEN t[k] ELSE h[k - 1] \o t[k]
  BY <1>2 DEF Concats
<1>5. k # 1
  BY <1>2, <1>3, <1>4
<1>6. k - 1 \in 1..n /\ k - 1 \notin T
  BY <1>1, <1>2, <1>5
<1>7. g[k - 1] = h[k - 1]
  BY <1>6
<1> QED BY <1>2, <1>3, <1>4, <1>5, <1>7

\* FlattenSeq takes the last value of that function.
LEMMA FlattenIs ==
  ASSUME NEW S, NEW s \in Seq(S), s # <<>>
  PROVE  \E g : Concats(g, s, Len(s)) /\ FlattenSeq(s) = g[Len(s)]
<1>1. Len(s) \in Nat /\ Len(s) # 0
  OBVIOUS
<1> DEFINE g == CHOOSE f : f = [i \in 1..Len(s) |->
                                  IF i = 1 THEN s[i] ELSE f[i - 1] \o s[i]]
<1>2. Concats(g, s, Len(s))
  <2>1. PICK f : Concats(f, s, Len(s))
    BY <1>1, ConcatsExist
  <2> QED BY <2>1 DEF Concats
<1>3. FlattenSeq(s) = g[Len(s)]
  BY <1>1 DEF FlattenSeq
<1> QED BY <1>2, <1>3

(* Flattening sequences over U gives a sequence over U.                    *)
LEMMA FlattenType ==
  ASSUME NEW U, NEW s \in Seq(Seq(U))
  PROVE  FlattenSeq(s) \in Seq(U)
<1>1. CASE s = <<>>
  BY <1>1 DEF FlattenSeq
<1>2. CASE s # <<>>
  <2> DEFINE n == Len(s)
  <2>1. n \in Nat /\ n \in 1..n /\ \A i \in 1..n : s[i] \in Seq(U)
    BY <1>2
  <2> HIDE DEF n
  <2>2. PICK g : Concats(g, s, n) /\ FlattenSeq(s) = g[n]
    BY <1>2, FlattenIs DEF n
  <2>3. \A i \in 1..n : g[i] = IF i = 1 THEN s[i] ELSE g[i - 1] \o s[i]
    BY <2>2, Zenon DEF Concats
  <2> DEFINE T == {i \in 1..n : g[i] \notin Seq(U)}
  <2>4. T = {}
    <3> SUFFICES ASSUME T # {} PROVE FALSE
      OBVIOUS
    <3>1. PICK k \in T : \A i \in T : k <= i
      <4>1. T \in SUBSET Nat
        BY <2>1
      <4> HIDE DEF T
      <4> QED BY <4>1, Least
    <3>2. k \in 1..n /\ g[k] \notin Seq(U) /\ s[k] \in Seq(U)
      BY <2>1
    <3>3. k # 1 /\ g[k] = g[k - 1] \o s[k]
      BY <2>3, <3>2
    <3>4. k - 1 \in 1..n /\ k - 1 \notin T
      BY <2>1, <3>1, <3>2, <3>3
    <3>5. g[k - 1] \in Seq(U)
      BY <3>4
    <3> QED BY <3>2, <3>3, <3>5
  <2> QED BY <2>1, <2>2, <2>4
<1> QED BY <1>1, <1>2

(* Flattening one more sequence appends it.                                *)
LEMMA FlattenAppend ==
  ASSUME NEW U, NEW s \in Seq(Seq(U)), NEW x \in Seq(U)
  PROVE  FlattenSeq(Append(s, x)) = FlattenSeq(s) \o x
<1> DEFINE t == Append(s, x)
           n == Len(s)
<1>1. /\ t \in Seq(Seq(U)) /\ t # <<>> /\ Len(t) = n + 1 /\ n \in Nat /\ t[n + 1] = x
      /\ \A i \in 1..n : t[i] = s[i]
  BY AppendProperties
<1> HIDE DEF t
<1>2. PICK h : Concats(h, t, n + 1) /\ FlattenSeq(t) = h[n + 1]
  BY <1>1, FlattenIs
<1>3. h[n + 1] = IF n + 1 = 1 THEN x ELSE h[n] \o x
  <2>1. \A i \in 1..(n + 1) : h[i] = IF i = 1 THEN t[i] ELSE h[i - 1] \o t[i]
    BY <1>2, Zenon DEF Concats
  <2>2. n + 1 \in 1..(n + 1) /\ n + 1 - 1 = n
    BY <1>1
  <2>3. h[n + 1] = IF n + 1 = 1 THEN t[n + 1] ELSE h[n] \o t[n + 1]
    BY <2>1, <2>2
  <2> QED BY <1>1, <2>3
<1>4. CASE s = <<>>
  <2>1. n = 0 /\ FlattenSeq(s) = <<>>
    BY <1>4 DEF FlattenSeq
  <2>2. <<>> \o x = x
    OBVIOUS
  <2> QED BY <1>2, <1>3, <2>1, <2>2 DEF t
<1>5. CASE s # <<>>
  <2>1. n # 0
    BY <1>5
  <2>2. PICK g : Concats(g, s, n) /\ FlattenSeq(s) = g[n]
    BY <1>5, FlattenIs
  <2>3. n \in Nat \ {0} /\ \A i \in 1..n : s[i] = t[i]
    BY <1>1, <2>1
  <2>4. g[n] = h[n]
    <3> HIDE DEF n
    <3> QED BY <1>2, <2>2, <2>3, ConcatsAgree
  <2> QED BY <1>2, <1>3, <2>1, <2>2, <2>4, <1>1 DEF t
<1> QED BY <1>4, <1>5

(* Whoever has the elements of a sequence in a set has it over that set.   *)
LEMMA SeqOver ==
  ASSUME NEW S, NEW s \in Seq(S), NEW U, \A i \in 1..Len(s) : s[i] \in U
  PROVE  s \in Seq(U)
<1>1. Len(s) \in Nat /\ s = [i \in 1..Len(s) |-> s[i]]
  OBVIOUS
<1> QED BY <1>1

(* A piece of one element, and a piece that gets one element longer.       *)
LEMMA SubSeqOne ==
  ASSUME NEW S, NEW s \in Seq(S), NEW n \in 1..Len(s)
  PROVE  SubSeq(s, n, n) = <<s[n]>>
<1>1. n \in Nat /\ Len(s) \in Nat /\ n - n + 1 = 1
  OBVIOUS
<1>2. SubSeq(s, n, n) \in Seq(S) /\ Len(SubSeq(s, n, n)) = 1 /\ SubSeq(s, n, n)[1] = s[n]
  BY <1>1, SubSeqProperties
<1>3. <<s[n]>> \in Seq(S) /\ Len(<<s[n]>>) = 1 /\ <<s[n]>>[1] = s[n]
  OBVIOUS
<1>4. \A i \in 1..1 : SubSeq(s, n, n)[i] = <<s[n]>>[i]
  BY <1>2, <1>3
<1> QED BY <1>2, <1>3, <1>4, SeqEqual

LEMMA SubSeqGrows ==
  ASSUME NEW S, NEW s \in Seq(S), NEW t \in Seq(S), NEW n \in Nat, NEW m \in 1..(n + 1),
         n <= Len(s), n + 1 <= Len(t), \A i \in m..n : t[i] = s[i]
  PROVE  SubSeq(t, m, n + 1) = Append(SubSeq(s, m, n), t[n + 1])
<1> DEFINE a == SubSeq(s, m, n)
           b == SubSeq(t, m, n + 1)
           c == Append(a, t[n + 1])
<1>0. Len(s) \in Nat /\ Len(t) \in Nat /\ t[n + 1] \in S /\ n - m + 1 \in Nat
  OBVIOUS
<1>1. a \in Seq(S) /\ Len(a) = n - m + 1 /\ \A i \in 1..(n - m + 1) : a[i] = s[m + i - 1]
  <2>1. \A i \in m..n : s[i] \in S
    BY <1>0
  <2> QED BY <1>0, <2>1
<1>2. b \in Seq(S) /\ Len(b) = n - m + 2 /\ \A i \in 1..(n - m + 2) : b[i] = t[m + i - 1]
  <2>1. \A i \in m..(n + 1) : t[i] \in S
    BY <1>0
  <2> QED BY <1>0, <2>1, SMTT(30)
<1> HIDE DEF a, b
<1>3. /\ c \in Seq(S) /\ Len(c) = n - m + 2
      /\ \A i \in 1..(n - m + 1) : c[i] = a[i]
      /\ c[n - m + 2] = t[n + 1]
  BY <1>0, <1>1, AppendProperties
<1> HIDE DEF c
<1>4. \A i \in 1..(n - m + 2) : b[i] = c[i]
  <2> SUFFICES ASSUME NEW i \in 1..(n - m + 2) PROVE b[i] = c[i]
    OBVIOUS
  <2>1. CASE i = n - m + 2
    BY <1>0, <1>2, <1>3, <2>1
  <2>2. CASE i # n - m + 2
    <3>1. i \in 1..(n - m + 1) /\ m + i - 1 \in m..n
      BY <1>0, <2>2
    <3> QED BY <1>1, <1>2, <1>3, <3>1
  <2> QED BY <2>1, <2>2
<1>5. b = c
  BY <1>2, <1>3, <1>4, SeqEqual
<1> QED BY <1>5 DEF a, b, c

(* A sequence begins its concatenation with any other.                     *)
LEMMA ConcatPrefix ==
  ASSUME NEW U, NEW s \in Seq(U), NEW t \in Seq(U)
  PROVE  IsPrefix(s, s \o t)
<1>1. s \o t \in Seq(U) /\ Len(s \o t) = Len(s) + Len(t) /\ Len(s) \in Nat /\ Len(t) \in Nat
  BY ConcatProperties
<1>2. \A i \in 1..Len(s) : (s \o t)[i] = s[i]
  BY ConcatProperties
<1>3. SubSeq(s, 1, Len(s)) = SubSeq(s \o t, 1, Len(s))
  BY <1>1, <1>2
<1> QED BY <1>1, <1>3 DEF IsPrefix

\* The sequence without its last element, and with another one.
LEMMA FrontIs ==
  ASSUME NEW S, NEW s \in Seq(S), Len(s) >= 1
  PROVE  /\ Front(s) \in Seq(S) /\ Len(Front(s)) = Len(s) - 1
         /\ \A i \in 1..(Len(s) - 1) : Front(s)[i] = s[i]
<1>1. Len(s) \in Nat /\ Len(s) - 1 \in Nat
  OBVIOUS
<1>2. Front(s) = SubSeq(s, 1, Len(s) - 1)
  BY DEF Front
<1> DEFINE n == Len(s) - 1
<1>3. /\ SubSeq(s, 1, n) \in Seq(S) /\ Len(SubSeq(s, 1, n)) = n
      /\ \A i \in 1..n : SubSeq(s, 1, n)[i] = s[i]
  <2>1. n \in Nat /\ n <= Len(s) /\ (n - 1) + 1 = n
    BY <1>1
  <2> HIDE DEF n
  <2> QED BY <1>1, <2>1, SubSeqProperties
<1> QED BY <1>2, <1>3

LEMMA LastReplaced ==
  ASSUME NEW S, NEW s \in Seq(S), Len(s) >= 1, NEW x \in S
  PROVE  /\ Append(Front(s), x) \in Seq(S) /\ Len(Append(Front(s), x)) = Len(s)
         /\ \A i \in 1..(Len(s) - 1) : Append(Front(s), x)[i] = s[i]
         /\ Append(Front(s), x)[Len(s)] = x
<1>1. /\ Front(s) \in Seq(S) /\ Len(Front(s)) = Len(s) - 1 /\ Len(s) \in Nat
      /\ \A i \in 1..(Len(s) - 1) : Front(s)[i] = s[i]
  BY FrontIs
<1>2. Len(Front(s)) + 1 = Len(s)
  BY <1>1
<1> QED BY <1>1, <1>2, AppendProperties

(* Flattening the first n of some sequences, and one more.                 *)
LEMMA FlattenGrows ==
  ASSUME NEW U, NEW f, NEW n \in Nat, \A i \in 1..(n + 1) : f[i] \in Seq(U)
  PROVE  /\ FlattenSeq([i \in 1..n |-> f[i]]) \in Seq(U)
         /\ FlattenSeq([i \in 1..(n + 1) |-> f[i]])
              = FlattenSeq([i \in 1..n |-> f[i]]) \o f[n + 1]
<1> DEFINE s == [i \in 1..n |-> f[i]]
           t == [i \in 1..(n + 1) |-> f[i]]
           x == f[n + 1]
<1>1. s \in Seq(Seq(U)) /\ Len(s) = n /\ t \in Seq(Seq(U)) /\ Len(t) = n + 1 /\ x \in Seq(U)
  OBVIOUS
<1>2. (\A i \in 1..n : t[i] = s[i]) /\ t[n + 1] = x
  OBVIOUS
<1> HIDE DEF s, t, x
<1>3. t = Append(s, x)
  <2>1. /\ Append(s, x) \in Seq(Seq(U)) /\ Len(Append(s, x)) = n + 1
        /\ \A i \in 1..n : Append(s, x)[i] = s[i]
        /\ Append(s, x)[n + 1] = x
    BY <1>1, AppendProperties
  <2>2. \A i \in 1..(n + 1) : t[i] = Append(s, x)[i]
    <3>1. \A i \in 1..(n + 1) : i \in 1..n \/ i = n + 1
      OBVIOUS
    <3> QED BY <1>2, <2>1, <3>1
  <2> QED BY <1>1, <2>1, <2>2, SeqEqual
<1>4. FlattenSeq(s) \in Seq(U) /\ FlattenSeq(t) = FlattenSeq(s) \o x
  BY <1>1, <1>3, FlattenType, FlattenAppend
<1> QED BY <1>4 DEF s, t, x

(* Flattening what two sequences hold together concatenates.               *)
LEMMA FlattenConcat ==
  ASSUME NEW U, NEW f \in Seq(Seq(U)), NEW g \in Seq(Seq(U))
  PROVE  FlattenSeq(f \o g) = FlattenSeq(f) \o FlattenSeq(g)
<1> DEFINE Good(h) == FlattenSeq(f \o h) = FlattenSeq(f) \o FlattenSeq(h)
           T == {n \in Nat : \E h \in Seq(Seq(U)) : Len(h) = n /\ ~Good(h)}
<1> SUFFICES ASSUME T # {} PROVE FALSE
  <2>1. Len(g) \in Nat
    OBVIOUS
  <2> HIDE DEF Good
  <2>2. Good(g)
    BY <2>1
  <2> QED BY <2>2 DEF Good
<1>1. PICK n \in T : \A k \in T : n <= k
  <2>1. T \in SUBSET Nat
    OBVIOUS
  <2> HIDE DEF T
  <2> QED BY <2>1, Least
<1> HIDE DEF Good
<1>2. PICK h \in Seq(Seq(U)) : Len(h) = n /\ ~Good(h)
  OBVIOUS
<1>3. FlattenSeq(f) \in Seq(U)
  BY FlattenType
<1>4. n # 0
  <2>1. n = 0 => h = <<>>
    BY <1>2
  <2>2. f \o <<>> = f /\ FlattenSeq(f) \o <<>> = FlattenSeq(f) /\ FlattenSeq(<<>>) = <<>>
    BY <1>3 DEF FlattenSeq
  <2>3. Good(<<>>)
    BY <2>2 DEF Good
  <2> QED BY <1>2, <2>1, <2>3
<1> DEFINE b == Front(h)
           x == h[n]
<1>5. n \in Nat /\ Len(h) >= 1
  BY <1>2, <1>4
<1>6. /\ b \in Seq(Seq(U)) /\ Len(b) = n - 1 /\ x \in Seq(U)
      /\ \A i \in 1..(n - 1) : b[i] = h[i]
  <2>1. x \in Seq(U)
    BY <1>2, <1>5
  <2> HIDE DEF x
  <2> QED BY <1>2, <1>5, <2>1, FrontIs
<1>7. h = Append(b, x)
  <2>1. x = h[n]
    OBVIOUS
  <2> HIDE DEF b, x, T
  <2>2. /\ Append(b, x) \in Seq(Seq(U)) /\ Len(Append(b, x)) = n
        /\ \A i \in 1..(n - 1) : Append(b, x)[i] = b[i]
        /\ Append(b, x)[n] = x
    <3>1. (n - 1) + 1 = n
      BY <1>5
    <3> QED BY <1>6, <3>1, AppendProperties
  <2>3. \A i \in 1..n : i \in 1..(n - 1) \/ i = n
    BY <1>5
  <2>4. \A i \in 1..n : h[i] = Append(b, x)[i]
    BY <1>6, <2>1, <2>2, <2>3
  <2> QED BY <1>2, <2>2, <2>4, SeqEqual
<1>8. Good(b)
  <2>1. n - 1 \in Nat /\ n - 1 \notin T
    <3>1. n - 1 \in Nat /\ ~(n <= n - 1)
      BY <1>4, <1>5
    <3> HIDE DEF T
    <3> QED BY <1>1, <3>1
  <2> HIDE DEF b
  <2> QED BY <1>6, <2>1
<1> HIDE DEF b, x, T
<1>9. f \o h = Append(f \o b, x)
  BY <1>6, <1>7
<1>10. FlattenSeq(f \o h) = FlattenSeq(f \o b) \o x
  <2>1. f \o b \in Seq(Seq(U))
    BY <1>6, ConcatProperties
  <2> QED BY <1>6, <1>9, <2>1, FlattenAppend
<1>11. FlattenSeq(h) = FlattenSeq(b) \o x /\ FlattenSeq(b) \in Seq(U)
  BY <1>6, <1>7, FlattenType, FlattenAppend
<1>12. (FlattenSeq(f) \o FlattenSeq(b)) \o x = FlattenSeq(f) \o (FlattenSeq(b) \o x)
  <2> DEFINE p == FlattenSeq(f)
             q == FlattenSeq(b)
  <2>1. p \in Seq(U) /\ q \in Seq(U) /\ x \in Seq(U)
    BY <1>3, <1>6, <1>11
  <2> HIDE DEF p, q
  <2>2. (p \o q) \o x = p \o (q \o x)
    BY <2>1, ConcatAssociative, SMTT(30)
  <2> QED BY <2>2 DEF p, q
<1>13. Good(h)
  BY <1>8, <1>10, <1>11, <1>12 DEF Good
<1> QED BY <1>2, <1>13
=============================================================================
