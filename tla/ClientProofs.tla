---------------------------- MODULE ClientProofs ----------------------------
(***************************************************************************)
(* Theorems about the two machines of the library's clients, which share   *)
(* no variable: Tags, what a client does with tag buckets and the events   *)
(* that hold them, and Convert, the tool that has every event it decodes   *)
(* encoded, with the encoders it calls.  They hold for every set of        *)
(* buckets, events, tags and names and for every bound.                    *)
(***************************************************************************)
EXTENDS Tags, Convert, SequenceLemmas, FiniteSetTheorems

----------------------------------------------------------------------------
(* The inductive invariant.  Counts are of finite sets, and the cookie of  *)
(* a walk stands behind the tags that were returned.                       *)

WalkOK == it.bucket # Null =>
            /\ it.bucket \in live
            /\ it.seen = SubSeq(tags[it.bucket], 1, it.cookie)
            /\ it.cookie <= Len(tags[it.bucket])

Counted == \A b \in Bucket : /\ b \in live => ref[b] = mine[b] + Cardinality(Holders(b))
                             /\ Held(b) => b \in live

IInv == TypeOK /\ IsFiniteSet(events) /\ Counted /\ WalkOK

LEMMA HoldersFinite ==
  ASSUME IsFiniteSet(events), NEW b
  PROVE  IsFiniteSet(Holders(b)) /\ Cardinality(Holders(b)) \in Nat
<1>1. Holders(b) \subseteq events
  BY DEF Holders
<1>2. IsFiniteSet(Holders(b))
  BY <1>1, FS_Subset
<1> QED BY <1>2, FS_CardinalityType

\* A bucket that is held has a count above zero, so no delete frees one.
LEMMA HeldCounts ==
  ASSUME IInv, NEW b \in Bucket, Held(b)
  PROVE  b \in live /\ ref[b] \in Nat \ {0}
<1>1. b \in live /\ ref[b] = mine[b] + Cardinality(Holders(b)) /\ mine[b] \in Nat
  BY DEF IInv, Counted, TypeOK
<1>2. IsFiniteSet(Holders(b)) /\ Cardinality(Holders(b)) \in Nat
  BY HoldersFinite DEF IInv
<1>3. CASE mine[b] > 0
  BY <1>1, <1>2, <1>3
<1>4. CASE Holders(b) # {}
  <2>1. Cardinality(Holders(b)) # 0
    BY <1>2, <1>4, FS_EmptySet
  <2> QED BY <1>1, <1>2, <2>1
<1> QED BY <1>3, <1>4 DEF Held, Holders

LEMMA ReleaseKeeps ==
  ASSUME IInv, NEW b \in Bucket, Held(b), Release(b)
  PROVE  /\ live' = live /\ ref' \in [Bucket -> Nat]
         /\ ref' = [ref EXCEPT ![b] = @ - 1]
<1>1. b \in live /\ ref[b] \in Nat \ {0} /\ ref \in [Bucket -> Nat]
  BY HeldCounts DEF IInv, TypeOK
<1> QED BY <1>1 DEF Release

\* A bucket that is not allocated has no holders.
LEMMA FreeUnheld ==
  ASSUME IInv, NEW b \in Bucket, b \notin live
  PROVE  mine[b] = 0 /\ Holders(b) = {} /\ it.bucket # b
<1>1. ~Held(b)
  BY DEF IInv, Counted
<1>2. mine[b] \in Nat
  BY DEF IInv, TypeOK
<1>3. it.bucket # b
  BY TagsAssumption DEF IInv, WalkOK
<1> QED BY <1>1, <1>2, <1>3 DEF Held, Holders

LEMMA InitIInv == Init => IInv
<1> SUFFICES ASSUME Init PROVE IInv
  OBVIOUS
<1>1. TypeOK
  BY TagsAssumption DEF Init, TypeOK
<1>2. IsFiniteSet(events)
  BY FS_EmptySet DEF Init
<1>3. Counted
  BY DEF Init, Counted, Held
<1>4. WalkOK
  BY DEF Init, WalkOK
<1> QED BY <1>1, <1>2, <1>3, <1>4 DEF IInv

\* What is counted does not change with the tags or the walk.
LEMMA CountedStays ==
  ASSUME Counted, UNCHANGED <<live, ref, mine, events, ev>>
  PROVE  Counted'
BY DEF Counted, Held, Holders

\* A walk does not change with the counts while nothing is freed.
LEMMA WalkStays ==
  ASSUME WalkOK, UNCHANGED <<tags, it>>, live \subseteq live'
  PROVE  WalkOK'
BY DEF WalkOK


\* A tag that is added at the end leaves a walk where it is.
LEMMA PutKeeps ==
  ASSUME IInv, NEW b \in Bucket, NEW t \in Tag \cup {Null}, Put(b, t), Len(tags[b]) < MaxTags,
         UNCHANGED <<live, it>>
  PROVE  /\ tags' \in [Bucket -> Seq(Tag \cup {Null})]
         /\ \A c \in Bucket : Len(tags'[c]) <= MaxTags /\ IsPrefix(tags[c], tags'[c])
         /\ WalkOK'
<1>0. /\ tags \in [Bucket -> Seq(Tag \cup {Null})] /\ \A c \in Bucket : Len(tags[c]) <= MaxTags
      /\ it.bucket \in Bucket \cup {Null} /\ it.cookie \in Nat /\ MaxTags \in Nat
  BY TagsAssumption DEF IInv, TypeOK
<1>1. tags' = [tags EXCEPT ![b] = Append(tags[b], t)]
  BY DEF Put
<1>2. tags' \in [Bucket -> Seq(Tag \cup {Null})]
  BY <1>0, <1>1
<1>3. ASSUME NEW c \in Bucket
      PROVE  /\ Len(tags'[c]) <= MaxTags /\ Len(tags[c]) <= Len(tags'[c])
             /\ \A n \in 0..Len(tags[c]) : SubSeq(tags'[c], 1, n) = SubSeq(tags[c], 1, n)
  <2> DEFINE s == tags[c]
  <2>1. s \in Seq(Tag \cup {Null}) /\ Len(s) \in Nat /\ Len(s) <= MaxTags
    BY <1>0
  <2>2. CASE c = b
    <3>1. tags'[c] = Append(s, t)
      BY <1>0, <1>1, <2>2
    <3> HIDE DEF s
    <3>2. Len(Append(s, t)) = Len(s) + 1 /\ \A n \in 0..Len(s) : SubSeq(Append(s, t), 1, n) = SubSeq(s, 1, n)
      BY <2>1
    <3>3. Len(s) < MaxTags
      BY <2>2 DEF s
    <3>4. Len(tags'[c]) <= MaxTags /\ Len(s) <= Len(tags'[c])
      BY <1>0, <2>1, <3>1, <3>2, <3>3
    <3> QED BY <3>1, <3>2, <3>4 DEF s
  <2>3. CASE c # b
    <3>1. tags'[c] = s
      BY <1>0, <1>1, <2>3
    <3> QED BY <2>1, <3>1
  <2> QED BY <2>2, <2>3
<1>4. ASSUME NEW c \in Bucket PROVE IsPrefix(tags[c], tags'[c])
  <2>1. tags[c] \in Seq(Tag \cup {Null}) /\ Len(tags[c]) \in 0..Len(tags[c])
    BY <1>0
  <2>2. SubSeq(tags'[c], 1, Len(tags[c])) = SubSeq(tags[c], 1, Len(tags[c]))
    BY <1>3, <2>1
  <2> QED BY <1>3, <2>2 DEF IsPrefix
<1>5. WalkOK'
  <2> SUFFICES ASSUME it.bucket # Null
               PROVE  /\ it.bucket \in live
                      /\ it.seen = SubSeq(tags'[it.bucket], 1, it.cookie)
                      /\ it.cookie <= Len(tags'[it.bucket])
    BY DEF WalkOK
  <2> DEFINE c == it.bucket
             n == it.cookie
  <2>1. /\ c \in Bucket /\ c \in live /\ n \in Nat /\ it.seen = SubSeq(tags[c], 1, n)
        /\ n <= Len(tags[c])
    BY <1>0 DEF IInv, WalkOK
  <2> HIDE DEF c, n
  <2>2. Len(tags[c]) \in Nat /\ Len(tags'[c]) \in Nat
    BY <1>0, <1>2, <2>1
  <2>3. n \in 0..Len(tags[c]) /\ n <= Len(tags'[c])
    BY <1>3, <2>1, <2>2
  <2>4. SubSeq(tags'[c], 1, n) = SubSeq(tags[c], 1, n)
    BY <1>3, <2>1, <2>3
  <2> QED BY <2>1, <2>3, <2>4 DEF c, n
<1> QED BY <1>2, <1>3, <1>4, <1>5

\* A bucket with its tags and its holder is new.
LEMMA NewKeeps ==
  ASSUME IInv, NEW b \in Bucket \ live, NEW s \in Seq(Tag \cup {Null}), Len(s) <= MaxTags,
         tags' = [tags EXCEPT ![b] = s], live' = live \cup {b}, it' = it
  PROVE  /\ tags' \in [Bucket -> Seq(Tag \cup {Null})]
         /\ \A c \in Bucket : Len(tags'[c]) <= MaxTags
         /\ \A c \in live : tags'[c] = tags[c]
         /\ WalkOK'
<1>0. /\ tags \in [Bucket -> Seq(Tag \cup {Null})] /\ \A c \in Bucket : Len(tags[c]) <= MaxTags
      /\ it.bucket \in Bucket \cup {Null} /\ live \subseteq Bucket
  BY DEF IInv, TypeOK
<1>1. \A c \in Bucket : tags'[c] = IF c = b THEN s ELSE tags[c]
  BY <1>0
<1>2. tags' \in [Bucket -> Seq(Tag \cup {Null})]
  BY <1>0
<1>3. \A c \in live : tags'[c] = tags[c]
  BY <1>0, <1>1
<1>4. WalkOK'
  BY <1>3 DEF IInv, WalkOK
<1> QED BY <1>0, <1>1, <1>2, <1>3, <1>4

----------------------------------------------------------------------------
(* The steps.                                                              *)

LEMMA FailStep ==
  ASSUME IInv, UNCHANGED <<live, ref, tags, mine, events, ev, it>>,
         rc' \in {"ok", "nomem", "-1", "einval"}
  PROVE  IInv'
<1>1. TypeOK'
  BY DEF IInv, TypeOK
<1>2. Counted' /\ WalkOK' /\ IsFiniteSet(events)'
  BY CountedStays, WalkStays DEF IInv
<1> QED BY <1>1, <1>2 DEF IInv

LEMMA NoMemStep == ASSUME IInv, NoMem PROVE IInv'
BY FailStep DEF NoMem, Fails

LEMMA NewTagbucketStep == ASSUME IInv, NewTagbucket PROVE IInv'
<1>1. CASE NoMem
  BY <1>1, NoMemStep
<1>2. ASSUME NEW b \in Bucket \ live,
             live' = live \cup {b}, ref' = [ref EXCEPT ![b] = 1],
             tags' = [tags EXCEPT ![b] = <<>>], mine' = [mine EXCEPT ![b] = 1],
             rc' = "ok", UNCHANGED <<events, ev, it>>
      PROVE  IInv'
  <2>1. mine[b] = 0 /\ Holders(b) = {}
    BY FreeUnheld
  <2>2. /\ tags' \in [Bucket -> Seq(Tag \cup {Null})] /\ WalkOK'
        /\ \A c \in Bucket : Len(tags'[c]) <= MaxTags
    <3>1. <<>> \in Seq(Tag \cup {Null}) /\ Len(<<>>) <= MaxTags
      BY TagsAssumption
    <3> QED BY <1>2, <3>1, NewKeeps
  <2>3. TypeOK'
    BY <1>2, <2>2, TagsAssumption DEF IInv, TypeOK
  <2>4. Counted'
    <3> SUFFICES ASSUME NEW c \in Bucket
                 PROVE  /\ c \in live' => ref'[c] = mine'[c] + Cardinality(Holders(c)')
                        /\ Held(c)' => c \in live'
      BY DEF Counted
    <3>1. Holders(c)' = Holders(c)
      BY <1>2 DEF Holders
    <3>2. CASE c = b
      <4>1. ref'[c] = 1 /\ mine'[c] = 1
        BY <1>2, <3>2 DEF IInv, TypeOK
      <4>2. Cardinality(Holders(c)') = 0
        BY <2>1, <3>1, <3>2, FS_EmptySet
      <4>3. c \in live' /\ 1 = 1 + 0
        BY <1>2, <3>2
      <4> QED BY <4>1, <4>2, <4>3
    <3>3. CASE c # b
      <4>1. ref'[c] = ref[c] /\ mine'[c] = mine[c]
        BY <1>2, <3>3 DEF IInv, TypeOK
      <4>2. Held(c)' = Held(c)
        BY <1>2, <4>1 DEF Held
      <4> QED BY <1>2, <3>1, <3>3, <4>1, <4>2 DEF IInv, Counted
    <3> QED BY <3>2, <3>3
  <2> QED BY <1>2, <2>2, <2>3, <2>4 DEF IInv
<1> QED BY <1>1, <1>2 DEF NewTagbucket

LEMMA AddRefStep == ASSUME IInv, NEW b \in Bucket, AddRefTagbucket(b) PROVE IInv'
<1>1. /\ Held(b) /\ mine[b] < MaxRefs /\ ref' = [ref EXCEPT ![b] = @ + 1]
      /\ mine' = [mine EXCEPT ![b] = @ + 1] /\ rc' = "ok"
      /\ UNCHANGED <<live, tags, events, ev, it>>
  BY DEF AddRefTagbucket
<1>2. TypeOK'
  BY <1>1, TagsAssumption, SMTT(30) DEF IInv, TypeOK
<1>3. b \in live
  BY <1>1 DEF IInv, Counted
<1>4. Counted'
  <2> SUFFICES ASSUME NEW c \in Bucket
               PROVE  /\ c \in live' => ref'[c] = mine'[c] + Cardinality(Holders(c)')
                      /\ Held(c)' => c \in live'
    BY DEF Counted
  <2>1. Holders(c)' = Holders(c) /\ Cardinality(Holders(c)) \in Nat
    BY <1>1, HoldersFinite DEF Holders, IInv
  <2>2. CASE c = b
    <3>1. ref'[c] = ref[c] + 1 /\ mine'[c] = mine[c] + 1 /\ ref[c] \in Nat /\ mine[c] \in Nat
      BY <1>1, <2>2 DEF IInv, TypeOK
    <3>2. ref[c] = mine[c] + Cardinality(Holders(c))
      BY <1>3, <2>2 DEF IInv, Counted
    <3> QED BY <1>1, <1>3, <2>1, <2>2, <3>1, <3>2
  <2>3. CASE c # b
    <3>1. ref'[c] = ref[c] /\ mine'[c] = mine[c]
      BY <1>1, <2>3 DEF IInv, TypeOK
    <3>2. Held(c)' = Held(c)
      BY <1>1, <3>1 DEF Held
    <3> QED BY <1>1, <2>1, <3>1, <3>2 DEF IInv, Counted
  <2> QED BY <2>2, <2>3
<1> QED BY <1>1, <1>2, <1>4, WalkStays DEF IInv

LEMMA DeleteStep == ASSUME IInv, NEW b \in Bucket, DeleteTagbucket(b) PROVE IInv'
<1>1. /\ mine[b] > 0 /\ Release(b) /\ mine' = [mine EXCEPT ![b] = @ - 1] /\ rc' = "ok"
      /\ UNCHANGED <<tags, events, ev, it>>
  BY DEF DeleteTagbucket
<1>2. Held(b)
  BY <1>1 DEF Held
<1>3. live' = live /\ ref' \in [Bucket -> Nat] /\ ref' = [ref EXCEPT ![b] = @ - 1]
  BY <1>1, <1>2, ReleaseKeeps
<1>4. TypeOK'
  BY <1>1, <1>3, TagsAssumption, SMTT(30) DEF IInv, TypeOK
<1>5. Counted'
  <2> SUFFICES ASSUME NEW c \in Bucket
               PROVE  /\ c \in live' => ref'[c] = mine'[c] + Cardinality(Holders(c)')
                      /\ Held(c)' => c \in live'
    BY DEF Counted
  <2>1. Holders(c)' = Holders(c) /\ Cardinality(Holders(c)) \in Nat
    BY <1>1, HoldersFinite DEF Holders, IInv
  <2>2. CASE c = b
    <3>1. ref'[c] = ref[c] - 1 /\ mine'[c] = mine[c] - 1 /\ ref[c] \in Nat /\ mine[c] \in Nat
      BY <1>1, <1>3, <2>2 DEF IInv, TypeOK
    <3>2. ref[c] = mine[c] + Cardinality(Holders(c)) /\ c \in live
      BY <1>2, <2>2, HeldCounts DEF IInv, Counted
    <3> QED BY <1>3, <2>1, <3>1, <3>2
  <2>3. CASE c # b
    <3>1. ref'[c] = ref[c] /\ mine'[c] = mine[c]
      BY <1>1, <1>3, <2>3 DEF IInv, TypeOK
    <3>2. Held(c)' = Held(c)
      BY <1>1, <3>1 DEF Held
    <3> QED BY <1>3, <2>1, <3>1, <3>2 DEF IInv, Counted
  <2> QED BY <2>2, <2>3
<1> QED BY <1>1, <1>3, <1>4, <1>5, WalkStays DEF IInv

LEMMA AddTagToBucketStep ==
  ASSUME IInv, NEW b \in Bucket, NEW t \in Tag, AddTagToBucket(b, t)
  PROVE  IInv'
<1>1. CASE NoMem
  BY <1>1, NoMemStep
<1>2. CASE Put(b, t) /\ rc' = "ok" /\ UNCHANGED <<live, ref, mine, events, ev, it>>
  <2>1. Len(tags[b]) < MaxTags
    BY DEF AddTagToBucket
  <2>2. /\ tags' \in [Bucket -> Seq(Tag \cup {Null})] /\ WalkOK'
        /\ \A c \in Bucket : Len(tags'[c]) <= MaxTags
    BY <1>2, <2>1, PutKeeps
  <2>3. TypeOK'
    BY <1>2, <2>2 DEF IInv, TypeOK
  <2> QED BY <1>2, <2>2, <2>3, CountedStays DEF IInv
<1> QED BY <1>1, <1>2 DEF AddTagToBucket

\* The part of a bucket that a walk has returned when it begins.
LEMMA EmptyWalk ==
  ASSUME IInv, NEW b \in Bucket
  PROVE  <<>> = SubSeq(tags[b], 1, 1 - 1) /\ 1 - 1 <= Len(tags[b])
<1> DEFINE s == tags[b]
<1>1. s \in Seq(Tag \cup {Null}) /\ Len(s) \in Nat
  BY DEF IInv, TypeOK
<1> HIDE DEF s
<1>2. SubSeq(s, 1, 0) = <<>>
  BY <1>1
<1>3. 1 - 1 = 0 /\ 0 <= Len(s)
  BY <1>1
<1> QED BY <1>2, <1>3 DEF s

LEMMA FetchStep ==
  ASSUME IInv, NEW b \in Bucket, b \in live, NEW k \in Nat, k > 0, NEW seen,
         seen = SubSeq(tags[b], 1, k - 1), k - 1 <= Len(tags[b]), Fetch(b, k, seen)
  PROVE  IInv'
<1>1. /\ it' = IF k <= Len(tags[b])
               THEN [bucket |-> b, cookie |-> k, seen |-> Append(seen, tags[b][k])]
               ELSE [bucket |-> Null, cookie |-> 0, seen |-> seen]
      /\ rc' = "ok" /\ UNCHANGED <<live, ref, tags, mine, events, ev>>
  BY DEF Fetch
<1>2. tags[b] \in Seq(Tag \cup {Null}) /\ Len(tags[b]) \in Nat /\ Len(tags[b]) <= MaxTags /\ MaxTags \in Nat
  BY TagsAssumption DEF IInv, TypeOK
<1>3. CASE k <= Len(tags[b])
  <2>1. it'.bucket = b /\ it'.cookie = k /\ it'.seen = Append(seen, tags[b][k])
    BY <1>1, <1>3
  <2>2. it'.cookie \in 0..MaxTags
    BY <1>2, <1>3, <2>1
  <2>3. TypeOK'
    BY <1>1, <2>1, <2>2 DEF IInv, TypeOK
  <2>4. Append(SubSeq(tags[b], 1, k - 1), tags[b][k]) = SubSeq(tags[b], 1, k)
    <3> DEFINE s == tags[b]
    <3> HIDE DEF s
    <3>1. s \in Seq(Tag \cup {Null}) /\ k \in 1..Len(s)
      BY <1>2, <1>3 DEF s
    <3>2. SubSeq(s, 1, k) = Append(SubSeq(s, 1, k - 1), s[k])
      BY <3>1
    <3> QED BY <3>2 DEF s
  <2>5. WalkOK'
    BY <1>1, <1>3, <2>1, <2>4 DEF WalkOK
  <2> QED BY <1>1, <2>3, <2>5, CountedStays DEF IInv
<1>4. CASE ~(k <= Len(tags[b]))
  <2>1. it'.bucket = Null /\ it'.cookie = 0
    BY <1>1, <1>4
  <2>2. TypeOK'
    BY <1>1, <1>2, <2>1 DEF IInv, TypeOK
  <2>3. WalkOK'
    BY <2>1 DEF WalkOK
  <2> QED BY <1>1, <2>2, <2>3, CountedStays DEF IInv
<1> QED BY <1>3, <1>4

\* What a continued walk has returned are the tags in front of the next.
LEMMA WalkGoesOn ==
  ASSUME IInv, NEW b \in Bucket, it.bucket = b
  PROVE  /\ b \in live /\ it.cookie + 1 \in Nat /\ it.cookie + 1 > 0
         /\ it.seen = SubSeq(tags[b], 1, (it.cookie + 1) - 1)
         /\ (it.cookie + 1) - 1 <= Len(tags[b])
<1>1. it.cookie \in Nat
  BY DEF IInv, TypeOK
<1>2. (it.cookie + 1) - 1 = it.cookie
  BY <1>1
<1>3. it.bucket # Null
  BY TagsAssumption
<1> QED BY <1>1, <1>2, <1>3 DEF IInv, WalkOK

LEMMA GetNextStep == ASSUME IInv, NEW b \in Bucket, GetNextTag(b) PROVE IInv'
<1>1. CASE Held(b) /\ Fetch(b, 1, <<>>)
  <2>1. b \in live
    BY <1>1 DEF IInv, Counted
  <2> DEFINE k == 1
  <2>2. k \in Nat /\ k > 0
    OBVIOUS
  <2>3. <<>> = SubSeq(tags[b], 1, k - 1) /\ k - 1 <= Len(tags[b]) /\ Fetch(b, k, <<>>)
    BY <1>1, EmptyWalk
  <2> HIDE DEF k
  <2> QED BY <2>1, <2>2, <2>3, FetchStep
<1>2. CASE it.bucket = b /\ Fetch(b, it.cookie + 1, it.seen)
  BY <1>2, WalkGoesOn, FetchStep
<1> QED BY <1>1, <1>2 DEF GetNextTag

LEMMA NewEventStep == ASSUME IInv, NewEvent PROVE IInv'
<1>1. CASE NoMem
  BY <1>1, NoMemStep
<1>2. ASSUME NEW e \in Event \ events, events' = events \cup {e},
             ev' = [ev EXCEPT ![e] = Null], rc' = "ok",
             UNCHANGED <<live, ref, tags, mine, it>>
      PROVE  IInv'
  <2>1. TypeOK'
    BY <1>2 DEF IInv, TypeOK
  <2>2. IsFiniteSet(events)'
    BY <1>2, FS_AddElement DEF IInv
  <2>3. ASSUME NEW c \in Bucket PROVE Holders(c)' = Holders(c)
    BY <1>2, TagsAssumption DEF Holders, IInv, TypeOK
  <2>4. Counted'
    <3> SUFFICES ASSUME NEW c \in Bucket
                 PROVE  /\ c \in live' => ref'[c] = mine'[c] + Cardinality(Holders(c)')
                        /\ Held(c)' => c \in live'
      BY DEF Counted
    <3>1. Held(c)' = (mine[c] > 0 \/ Holders(c)' # {}) /\ Held(c) = (mine[c] > 0 \/ Holders(c) # {})
      BY <1>2 DEF Held, Holders
    <3> QED BY <1>2, <2>3, <3>1 DEF IInv, Counted
  <2> QED BY <1>2, <2>1, <2>2, <2>4, WalkStays DEF IInv
<1> QED BY <1>1, <1>2 DEF NewEvent

\* Releasing what an event refers to takes its bucket's count down.
LEMMA ReleaseTagsKeeps ==
  ASSUME IInv, NEW e \in events, ReleaseTags(e)
  PROVE  /\ live' = live /\ ref' \in [Bucket -> Nat]
         /\ \A c \in Bucket : ref'[c] = IF ev[e] = c THEN ref[c] - 1 ELSE ref[c]
         /\ \A c \in Bucket : ev[e] = c => c \in live
<1>0. ref \in [Bucket -> Nat] /\ e \in Event /\ ev[e] \in Bucket \cup {Null}
  BY DEF IInv, TypeOK
<1>1. CASE ev[e] = Null
  BY <1>0, <1>1, TagsAssumption DEF ReleaseTags
<1>2. CASE ev[e] \in Bucket
  <2>1. Release(ev[e]) /\ Held(ev[e])
    BY <1>2, TagsAssumption DEF ReleaseTags, Held
  <2>2. live' = live /\ ref' \in [Bucket -> Nat] /\ ref' = [ref EXCEPT ![ev[e]] = @ - 1]
    BY <1>2, <2>1, ReleaseKeeps
  <2>3. ev[e] \in live
    BY <1>2, <2>1, HeldCounts
  <2> QED BY <1>0, <1>2, <2>2, <2>3
<1> QED BY <1>0, <1>1, <1>2

LEMMA DeleteEventStep == ASSUME IInv, NEW e \in Event, DeleteEvent(e) PROVE IInv'
<1>1. /\ e \in events /\ ReleaseTags(e) /\ events' = events \ {e}
      /\ ev' = [ev EXCEPT ![e] = Null] /\ rc' = "ok" /\ UNCHANGED <<tags, mine, it>>
  BY DEF DeleteEvent
<1>2. /\ live' = live /\ ref' \in [Bucket -> Nat]
      /\ \A c \in Bucket : ref'[c] = IF ev[e] = c THEN ref[c] - 1 ELSE ref[c]
  BY <1>1, ReleaseTagsKeeps
<1>3. TypeOK'
  BY <1>1, <1>2 DEF IInv, TypeOK
<1>4. IsFiniteSet(events)'
  BY <1>1, FS_RemoveElement DEF IInv
<1>5. ASSUME NEW c \in Bucket PROVE Holders(c)' = Holders(c) \ {e} /\ (e \in Holders(c) <=> ev[e] = c)
  BY <1>1 DEF Holders, IInv, TypeOK
<1>6. Counted'
  <2> SUFFICES ASSUME NEW c \in Bucket
               PROVE  /\ c \in live' => ref'[c] = mine'[c] + Cardinality(Holders(c)')
                      /\ Held(c)' => c \in live'
    BY DEF Counted
  <2>1. IsFiniteSet(Holders(c)) /\ Cardinality(Holders(c)) \in Nat /\ mine[c] \in Nat /\ ref[c] \in Nat
    BY HoldersFinite DEF IInv, TypeOK
  <2>2. Cardinality(Holders(c)') = IF ev[e] = c THEN Cardinality(Holders(c)) - 1 ELSE Cardinality(Holders(c))
    BY <1>5, <2>1, FS_RemoveElement
  <2>3. c \in live => ref[c] = mine[c] + Cardinality(Holders(c))
    BY DEF IInv, Counted
  <2>4. c \in live' => ref'[c] = mine'[c] + Cardinality(Holders(c)')
    BY <1>1, <1>2, <2>1, <2>2, <2>3
  <2>5. Held(c)' => Held(c)
    BY <1>1, <1>5 DEF Held, Holders
  <2> QED BY <1>2, <2>4, <2>5 DEF IInv, Counted
<1> QED BY <1>1, <1>2, <1>3, <1>4, <1>6, WalkStays DEF IInv

\* What a reference handed to an event does.
LEMMA Assigned ==
  ASSUME IInv, NEW e \in Event, NEW b \in Bucket, e \in events, mine[b] > 0, ReleaseTags(e),
         ev' = [ev EXCEPT ![e] = b], mine' = [mine EXCEPT ![b] = @ - 1], rc' = "ok",
         UNCHANGED <<tags, events, it>>
  PROVE  IInv'
<1>1. /\ e \in events /\ mine[b] > 0 /\ ReleaseTags(e) /\ ev' = [ev EXCEPT ![e] = b]
      /\ mine' = [mine EXCEPT ![b] = @ - 1] /\ rc' = "ok" /\ UNCHANGED <<tags, events, it>>
  OBVIOUS
<1>2. /\ live' = live /\ ref' \in [Bucket -> Nat]
      /\ \A c \in Bucket : ref'[c] = IF ev[e] = c THEN ref[c] - 1 ELSE ref[c]
  BY <1>1, ReleaseTagsKeeps
<1>m. mine' \in [Bucket -> 0..MaxRefs]
  <2>1. mine \in [Bucket -> 0..MaxRefs] /\ MaxRefs \in Nat /\ mine[b] - 1 \in 0..MaxRefs
    BY <1>1, TagsAssumption DEF IInv, TypeOK
  <2> QED BY <1>1, <2>1
<1>3. TypeOK'
  BY <1>1, <1>2, <1>m DEF IInv, TypeOK
<1>4. b \in live
  BY <1>1 DEF IInv, Counted, Held
<1>5. ASSUME NEW c \in Bucket
      PROVE  /\ Holders(c)' = IF c = b THEN Holders(c) \cup {e} ELSE Holders(c) \ {e}
             /\ e \in Holders(c) <=> ev[e] = c
  BY <1>1 DEF Holders, IInv, TypeOK
<1>6. Counted'
  <2> SUFFICES ASSUME NEW c \in Bucket
               PROVE  /\ c \in live' => ref'[c] = mine'[c] + Cardinality(Holders(c)')
                      /\ Held(c)' => c \in live'
    BY DEF Counted
  <2>1. IsFiniteSet(Holders(c)) /\ Cardinality(Holders(c)) \in Nat /\ mine[c] \in Nat /\ ref[c] \in Nat
    BY HoldersFinite DEF IInv, TypeOK
  <2>2. c \in live => ref[c] = mine[c] + Cardinality(Holders(c))
    BY DEF IInv, Counted
  <2>3. CASE c = b
    <3>1. Cardinality(Holders(c)') = IF ev[e] = c THEN Cardinality(Holders(c)) ELSE Cardinality(Holders(c)) + 1
      BY <1>5, <2>1, <2>3, FS_AddElement
    <3>2. mine'[c] = mine[c] - 1
      BY <1>1, <2>3 DEF IInv, TypeOK
    <3> QED BY <1>2, <1>4, <2>1, <2>2, <2>3, <3>1, <3>2
  <2>4. CASE c # b
    <3>1. Cardinality(Holders(c)') = IF ev[e] = c THEN Cardinality(Holders(c)) - 1 ELSE Cardinality(Holders(c))
      BY <1>5, <2>1, <2>4, FS_RemoveElement
    <3>2. mine'[c] = mine[c]
      BY <1>1, <2>4 DEF IInv, TypeOK
    <3>3. Held(c)' => Held(c)
      BY <1>1, <1>5, <2>4, <3>2 DEF Held, Holders
    <3>4. c \in live' => ref'[c] = mine'[c] + Cardinality(Holders(c)')
      BY <1>2, <2>1, <2>2, <3>1, <3>2
    <3> QED BY <1>2, <3>3, <3>4 DEF IInv, Counted
  <2> QED BY <2>3, <2>4
<1> QED BY <1>1, <1>2, <1>3, <1>6, WalkStays DEF IInv

LEMMA AssignStep ==
  ASSUME IInv, NEW e, NEW b, AssignTagbucket(e, b)
  PROVE  IInv'
<1>1. CASE Fails("einval")
  BY <1>1, FailStep DEF Fails
<1>2. CASE /\ e \in events /\ b \in Bucket /\ mine[b] > 0 /\ ReleaseTags(e)
           /\ ev' = [ev EXCEPT ![e] = b] /\ mine' = [mine EXCEPT ![b] = @ - 1] /\ rc' = "ok"
           /\ UNCHANGED <<tags, events, it>>
  <2>1. e \in Event
    BY <1>2 DEF IInv, TypeOK
  <2> QED BY <1>2, <2>1, Assigned
<1> QED BY <1>1, <1>2 DEF AssignTagbucket

LEMMA AddTagToEventStep ==
  ASSUME IInv, NEW e \in Event, NEW t \in Tag, AddTagToEvent(e, t)
  PROVE  IInv'
<1>0. e \in events /\ ev[e] \in Bucket \cup {Null} /\ ev \in [Event -> Bucket \cup {Null}]
  BY DEF AddTagToEvent, IInv, TypeOK
<1>1. CASE NoMem \/ Fails("-1")
  BY <1>1, NoMemStep, FailStep DEF Fails
<1>2. ASSUME ev[e] = Null, NEW b \in Bucket \ live, NEW s \in Seq(Tag \cup {Null}), Len(s) <= MaxTags,
             live' = live \cup {b}, ref' = [ref EXCEPT ![b] = 1], ev' = [ev EXCEPT ![e] = b],
             rc' \in {"ok", "nomem"}, tags' = [tags EXCEPT ![b] = s], UNCHANGED <<mine, events, it>>
      PROVE  IInv'
  <2>1. mine[b] = 0 /\ Holders(b) = {}
    BY FreeUnheld
  <2>2. /\ tags' \in [Bucket -> Seq(Tag \cup {Null})] /\ WalkOK'
        /\ \A c \in Bucket : Len(tags'[c]) <= MaxTags
    BY <1>2, NewKeeps
  <2>3. TypeOK'
    BY <1>2, <2>2 DEF IInv, TypeOK
  <2>4. Counted'
    <3> SUFFICES ASSUME NEW c \in Bucket
                 PROVE  /\ c \in live' => ref'[c] = mine'[c] + Cardinality(Holders(c)')
                        /\ Held(c)' => c \in live'
      BY DEF Counted
    <3>1. CASE c = b
      <4>1. Holders(c)' = {e}
        BY <1>0, <1>2, <2>1, <3>1 DEF Holders
      <4>2. Cardinality(Holders(c)') = 1
        BY <4>1, FS_Singleton
      <4>3. ref'[c] = 1 /\ mine'[c] = 0 /\ c \in live'
        BY <1>2, <2>1, <3>1 DEF IInv, TypeOK
      <4> QED BY <4>2, <4>3
    <3>2. CASE c # b
      <4>1. Holders(c)' = Holders(c)
        BY <1>0, <1>2, <3>2, TagsAssumption DEF Holders
      <4>2. ref'[c] = ref[c] /\ mine'[c] = mine[c]
        BY <1>2, <3>2 DEF IInv, TypeOK
      <4>3. Held(c)' => Held(c)
        BY <4>1, <4>2 DEF Held, Holders
      <4> QED BY <1>2, <3>2, <4>1, <4>2, <4>3 DEF IInv, Counted
    <3> QED BY <3>1, <3>2
  <2> QED BY <1>2, <2>2, <2>3, <2>4 DEF IInv
<1>3. CASE /\ ev[e] = Null
           /\ \E b \in Bucket \ live :
                /\ live' = live \cup {b} /\ ref' = [ref EXCEPT ![b] = 1]
                /\ ev' = [ev EXCEPT ![e] = b]
                /\ \/ rc' = "nomem" /\ tags' = [tags EXCEPT ![b] = <<>>]
                   \/ /\ MaxTags > 0
                      /\ \E name \in {t, Null} : tags' = [tags EXCEPT ![b] = <<name>>]
                      /\ rc' = "ok"
           /\ UNCHANGED <<mine, events, it>>
  <2>1. <<>> \in Seq(Tag \cup {Null}) /\ Len(<<>>) <= MaxTags
    BY TagsAssumption
  <2>2. ASSUME NEW name \in {t, Null}, MaxTags > 0
        PROVE  <<name>> \in Seq(Tag \cup {Null}) /\ Len(<<name>>) <= MaxTags
    BY <2>2, TagsAssumption
  <2> QED BY <1>2, <1>3, <2>1, <2>2
<1>4. ASSUME ev[e] # Null, Len(tags[ev[e]]) < MaxTags, NEW name \in {t, Null}, Put(ev[e], name),
             rc' = "ok", UNCHANGED <<live, ref, mine, events, ev, it>>
      PROVE  IInv'
  <2>1. ev[e] \in Bucket /\ name \in Tag \cup {Null}
    BY <1>0, <1>4
  <2>2. /\ tags' \in [Bucket -> Seq(Tag \cup {Null})] /\ WalkOK'
        /\ \A c \in Bucket : Len(tags'[c]) <= MaxTags
    BY <1>4, <2>1, PutKeeps
  <2>3. TypeOK'
    BY <1>4, <2>2 DEF IInv, TypeOK
  <2> QED BY <1>4, <2>2, <2>3, CountedStays DEF IInv
<1> QED BY <1>1, <1>3, <1>4 DEF AddTagToEvent

LEMMA NextIInv == IInv /\ [Next]_vars => IInv'
<1> SUFFICES ASSUME IInv, [Next]_vars PROVE IInv'
  OBVIOUS
<1>1. CASE NewTagbucket \/ NewEvent
  BY <1>1, NewTagbucketStep, NewEventStep
<1>2. ASSUME NEW b \in Bucket, BucketCall(b) PROVE IInv'
  BY <1>2, AddRefStep, DeleteStep, GetNextStep, AddTagToBucketStep DEF BucketCall
<1>3. ASSUME NEW e \in Event, EventCall(e) PROVE IInv'
  BY <1>3, DeleteEventStep, AddTagToEventStep DEF EventCall
<1>5. ASSUME NEW e, NEW b, AssignTagbucket(e, b) PROVE IInv'
  BY <1>5, AssignStep
<1>4. CASE UNCHANGED vars
  <2>1. UNCHANGED <<live, ref, tags, mine, events, ev, it, rc>>
    BY <1>4 DEF vars
  <2>2. TypeOK'
    BY <2>1 DEF IInv, TypeOK
  <2> QED BY <2>1, <2>2, CountedStays, WalkStays DEF IInv
<1> QED BY <1>1, <1>2, <1>3, <1>4, <1>5 DEF Next

LEMMA Invariant == Spec => []IInv
BY InitIInv, NextIInv, PTL DEF Spec

----------------------------------------------------------------------------
(* The theorems.                                                           *)

(* The variables of buckets, events and the walk keep their types; the     *)
(* count never goes below zero (tagbucket.c:78).                           *)
THEOREM TypeCorrect == Spec => []TypeOK
<1>1. IInv => TypeOK
  BY DEF IInv
<1> QED BY <1>1, Invariant, PTL

(* However buckets are shared, assigned, replaced and deleted, a bucket's  *)
(* count is the number of its holders (tagbucket.c:62-84, event.c:64-93).  *)
THEOREM Counting == Spec => []RefCountExact
<1>1. IInv => RefCountExact
  BY DEF IInv, Counted, RefCountExact, TypeOK
<1> QED BY <1>1, Invariant, PTL

(* No delete frees a bucket that someone else holds (tagbucket.c:78-83).   *)
THEOREM Holding == Spec => []HeldIsLive
<1>1. IInv => HeldIsLive
  BY DEF IInv, Counted, HeldIsLive
<1> QED BY <1>1, Invariant, PTL

(* Over any number of calls of others in between, a walk returns each tag  *)
(* of a bucket once and in order (tagbucket.c:110-129).                    *)
THEOREM Walking == Spec => WalkIsComplete
<1>1. IInv /\ [Next]_vars =>
        [\A b \in Bucket : GetNextTag(b) /\ it'.bucket = Null => it'.seen = tags[b]]_vars
  <2> SUFFICES ASSUME IInv, NEW b \in Bucket, GetNextTag(b), it'.bucket = Null
               PROVE  it'.seen = tags[b]
    OBVIOUS
  <2>0. tags[b] \in Seq(Tag \cup {Null}) /\ Len(tags[b]) \in Nat
    BY DEF IInv, TypeOK
  <2>1. ASSUME NEW k \in Nat, k > 0, NEW seen, seen = SubSeq(tags[b], 1, k - 1),
               k - 1 <= Len(tags[b]), Fetch(b, k, seen)
        PROVE  it'.seen = tags[b]
    <3>1. it'.bucket = (IF k <= Len(tags[b]) THEN b ELSE Null)
      BY <2>1 DEF Fetch
    <3>2. ~(k <= Len(tags[b]))
      BY <3>1, TagsAssumption
    <3>3. it'.seen = seen
      BY <2>1, <3>2 DEF Fetch
    <3>4. k - 1 = Len(tags[b])
      BY <2>0, <2>1, <3>2
    <3>5. SubSeq(tags[b], 1, Len(tags[b])) = tags[b]
      BY <2>0
    <3> QED BY <2>1, <3>3, <3>4, <3>5
  <2>2. CASE Fetch(b, 1, <<>>)
    <3> DEFINE k == 1
    <3>1. k \in Nat /\ k > 0
      OBVIOUS
    <3>2. <<>> = SubSeq(tags[b], 1, k - 1) /\ k - 1 <= Len(tags[b]) /\ Fetch(b, k, <<>>)
      BY <2>2, EmptyWalk
    <3> HIDE DEF k
    <3> QED BY <2>1, <3>1, <3>2
  <2>3. CASE it.bucket = b /\ Fetch(b, it.cookie + 1, it.seen)
    BY <2>1, <2>3, WalkGoesOn
  <2> QED BY <2>2, <2>3 DEF GetNextTag
<1> QED BY <1>1, Invariant, PTL DEF Spec, WalkIsComplete

(* A bucket that stays in someone's hands keeps its tags and their order,  *)
(* whatever the others do (tagbucket.c:88-107, event.c:96-115).            *)
THEOREM Growing == Spec => TagsOnlyGrow
<1>1. IInv /\ [Next]_vars =>
        [\A b \in Bucket : Held(b) /\ Held(b)' => IsPrefix(tags[b], tags'[b])]_vars
  <2> SUFFICES ASSUME IInv, Next, NEW c \in Bucket, Held(c)
               PROVE  IsPrefix(tags[c], tags'[c])
    OBVIOUS
  <2>0. c \in live /\ tags[c] \in Seq(Tag \cup {Null}) /\ tags \in [Bucket -> Seq(Tag \cup {Null})]
    BY HeldCounts DEF IInv, TypeOK
  <2>1. CASE tags'[c] = tags[c]
    BY <2>0, <2>1 DEF IsPrefix
  <2>2. ASSUME NEW b \in Bucket, NEW t \in Tag \cup {Null}, Put(b, t), Len(tags[b]) < MaxTags,
               UNCHANGED <<live, it>>
        PROVE  IsPrefix(tags[c], tags'[c])
    BY <2>2, PutKeeps
  <2>3. CASE NewTagbucket \/ NewEvent
    BY <2>0, <2>1, <2>3 DEF NewTagbucket, NewEvent, NoMem, Fails
  <2>4. ASSUME NEW b \in Bucket, BucketCall(b) PROVE IsPrefix(tags[c], tags'[c])
    <3>1. CASE UNCHANGED tags
      BY <2>1, <3>1
    <3>2. ASSUME NEW t \in Tag, AddTagToBucket(b, t) PROVE IsPrefix(tags[c], tags'[c])
      BY <2>1, <2>2, <3>2 DEF AddTagToBucket, NoMem, Fails
    <3> QED BY <2>4, <3>1, <3>2 DEF BucketCall, AddRefTagbucket, DeleteTagbucket, GetNextTag, Fetch
  <2>5. ASSUME NEW e \in Event, EventCall(e) PROVE IsPrefix(tags[c], tags'[c])
    <3>1. CASE UNCHANGED tags
      BY <2>1, <3>1
    <3>2. ASSUME NEW t \in Tag, AddTagToEvent(e, t) PROVE IsPrefix(tags[c], tags'[c])
      <4>1. CASE ev[e] = Null
        BY <2>0, <2>1, <3>2, <4>1 DEF AddTagToEvent, NoMem, Fails
      <4>2. CASE ev[e] # Null /\ \E name \in {t, Null} : Put(ev[e], name) /\ UNCHANGED <<live, it>>
                                                        /\ Len(tags[ev[e]]) < MaxTags
        <5>1. ev[e] \in Bucket
          BY <4>2 DEF IInv, TypeOK
        <5> QED BY <2>2, <4>2, <5>1
      <4> QED BY <2>1, <3>2, <4>1, <4>2 DEF AddTagToEvent, NoMem, Fails
    <3> QED BY <2>5, <3>1, <3>2 DEF EventCall, DeleteEvent
  <2>6. ASSUME NEW e, NEW b, AssignTagbucket(e, b) PROVE IsPrefix(tags[c], tags'[c])
    BY <2>1, <2>6 DEF AssignTagbucket, Fails
  <2> QED BY <2>3, <2>4, <2>5, <2>6 DEF Next
<1> QED BY <1>1, Invariant, PTL DEF Spec, TagsOnlyGrow

----------------------------------------------------------------------------
(* The programs are sequences of appends, each for the event or for one of *)
(* its fields.                                                             *)

\* The provers do not know that a literal is a string.
Tokens == STRING \cup Char \cup
  {"0", "0000", "0001", "#00", "lt", "amp", "[", "comma_", "quote:", "quote:_", "=quote", "quote>",
   "value>", "/value>", "Field_name=quote", "/Field>", "tag>", "/tag>", "event>", "/event>",
   "event.tags>", "/event.tags>", "event.tags", "[cee@115", "_", "lbrace", "rbrace"}

Pieces(n) == [in : 0..n, chk : BOOLEAN, txt : Seq(Tokens)]

LEMMA FlatType ==
  ASSUME NEW U, NEW m \in Nat, NEW f, f = [i \in 1..m |-> f[i]], \A i \in 1..m : f[i] \in Seq(U)
  PROVE  f \in Seq(Seq(U)) /\ Len(f) = m /\ FlattenSeq(f) \in Seq(U)
<1>1. f \in [1..m -> Seq(U)]
  OBVIOUS
<1>2. f \in Seq(Seq(U)) /\ Len(f) = m
  BY <1>1
<1> QED BY <1>2, FlattenType

LEMMA ConcatType ==
  ASSUME NEW U
  PROVE  /\ \A a, b \in Seq(U) : a \o b \in Seq(U)
         /\ \A a, b, c \in Seq(U) : a \o b \o c \in Seq(U)
         /\ \A a, b, c, d \in Seq(U) : a \o b \o c \o d \in Seq(U)
         /\ \A a, b, c, d, e \in Seq(U) : a \o b \o c \o d \o e \in Seq(U)
<1>1. \A a, b \in Seq(U) : a \o b \in Seq(U)
  BY ConcatProperties
<1> QED BY <1>1, Zenon

LEMMA AddType ==
  ASSUME NEW n \in Nat, NEW k \in 0..n, NEW txt \in Seq(Tokens)
  PROVE  Try(k, txt) \in Seq(Pieces(n)) /\ Hope(k, txt) \in Seq(Pieces(n))
<1>1. ASSUME NEW b \in BOOLEAN PROVE Add(k, b, txt) \in Seq(Pieces(n))
  <2>1. [in |-> k, chk |-> b, txt |-> txt] \in Pieces(n)
    BY DEF Pieces
  <2> QED BY <2>1 DEF Add
<1> QED BY <1>1 DEF Try, Hope

LEMMA LiteralType ==
  /\ \A t \in STRING \cup {"quote", "=quote", "comma", "quote:", "quote:_", "[", "]", "quote>", "_",
                           "[cee@115", "comma_", "lbrace", "rbrace"} : <<t>> \in Seq(Tokens)
  /\ <<"quote", "quote">> \in Seq(Tokens) /\ <<"<", "value>">> \in Seq(Tokens)
  /\ <<"<", "/value>">> \in Seq(Tokens) /\ <<"<", "Field_name=quote">> \in Seq(Tokens)
  /\ <<"<", "/Field>">> \in Seq(Tokens) /\ <<"<", "event>">> \in Seq(Tokens)
  /\ <<"<", "/event>">> \in Seq(Tokens) /\ <<"<", "event.tags>">> \in Seq(Tokens)
  /\ <<"<", "/event.tags>">> \in Seq(Tokens) /\ <<"<", "tag>">> \in Seq(Tokens)
  /\ <<"<", "/tag>">> \in Seq(Tokens) /\ <<"_", "event.tags", "=quote">> \in Seq(Tokens)
  /\ <<"quote", "event.tags", "quote:", "[">> \in Seq(Tokens)
<1>1. /\ \A a \in Tokens : <<a>> \in Seq(Tokens)
      /\ \A a, b \in Tokens : <<a, b>> \in Seq(Tokens)
      /\ \A a, b, c \in Tokens : <<a, b, c>> \in Seq(Tokens)
      /\ \A a, b, c, d \in Tokens : <<a, b, c, d>> \in Seq(Tokens)
  OBVIOUS
<1>2. /\ STRING \subseteq Tokens
      /\ {"quote", "=quote", "comma", "quote:", "quote:_", "[", "]", "quote>", "_", "[cee@115",
          "comma_", "lbrace", "rbrace", "<", "value>", "/value>", "Field_name=quote", "/Field>",
          "event>", "/event>",
          "event.tags>", "/event.tags>", "tag>", "/tag>", "event.tags"} \subseteq Tokens
  BY DEF Tokens, Char
<1> QED BY <1>1, <1>2

LEMMA EscType ==
  \A c \in Char : /\ EscSyslog(c) \in Seq(Tokens) /\ EscJSON(c) \in Seq(Tokens)
                  /\ EscXML(c) \in Seq(Tokens)
<1> SUFFICES ASSUME NEW c \in Char
             PROVE  /\ EscSyslog(c) \in Seq(Tokens) /\ EscJSON(c) \in Seq(Tokens)
                    /\ EscXML(c) \in Seq(Tokens)
  OBVIOUS
<1>0. /\ c \in Tokens /\ \A a \in Tokens : <<a>> \in Seq(Tokens)
      /\ \A a, b \in Tokens : <<a, b>> \in Seq(Tokens)
      /\ \A a, b, d \in Tokens : <<a, b, d>> \in Seq(Tokens)
  <2>1. c \in Tokens
    BY DEF Tokens
  <2> QED BY <2>1
<1>1. {"\\", "0", "n", "u", "0000", "0001", "&", "#00", "lt", "amp"} \subseteq Tokens
  BY DEF Tokens, Char
<1>2. EscSyslog(c) \in Seq(Tokens)
  BY <1>0, <1>1 DEF EscSyslog
<1>3. EscJSON(c) \in Seq(Tokens)
  BY <1>0, <1>1 DEF EscJSON
<1>4. EscXML(c) \in Seq(Tokens)
  BY <1>0, <1>1 DEF EscXML
<1> QED BY <1>2, <1>3, <1>4

\* what JSON and CSV make of a character, and that it is a piece or two
Escaped(c) == IF c = "ctl" THEN <<"\\", "u", "0001">> ELSE EscJSON(c)

LEMMA CharTypes ==
  ASSUME NEW c \in Char
  PROVE  /\ Escaped(c) \in Seq(Tokens) /\ EscJSON(c) \in Seq(Tokens)
         /\ <<"\\", "u">> \in Seq(Tokens) /\ <<"0001">> \in Seq(Tokens)
         /\ \A n \in Nat : \A k \in 0..n : CharJSON(k, c) \in Seq(Pieces(n))
<1>1. {"\\", "u", "0001"} \subseteq Tokens
  BY DEF Tokens, Char
<1>2. /\ <<"\\", "u">> \in Seq(Tokens) /\ <<"0001">> \in Seq(Tokens)
      /\ <<"\\", "u", "0001">> \in Seq(Tokens)
  BY <1>1
<1>3. EscJSON(c) \in Seq(Tokens)
  BY EscType
<1>4. ASSUME NEW n \in Nat, NEW k \in 0..n PROVE CharJSON(k, c) \in Seq(Pieces(n))
  <2> DEFINE a == Hope(k, <<"\\", "u">>)
             b == Hope(k, <<"0001">>)
             d == Hope(k, EscJSON(c))
  <2>1. a \in Seq(Pieces(n)) /\ b \in Seq(Pieces(n)) /\ d \in Seq(Pieces(n))
    BY <1>2, <1>3, AddType
  <2>2. CharJSON(k, c) = IF c = "ctl" THEN a \o b ELSE d
    BY Zenon DEF CharJSON
  <2> HIDE DEF a, b, d
  <2>3. a \o b \in Seq(Pieces(n))
    BY <2>1, ConcatType
  <2> QED BY <2>1, <2>2, <2>3
<1> QED BY <1>2, <1>3, <1>4 DEF Escaped

Texts == Seq(Char)
FieldOf == [name : STRING \ {""}, vals : Seq(Texts)]

LEMMA ValueTypes ==
  ASSUME NEW n \in Nat, NEW k \in 0..n, NEW v \in Texts
  PROVE  /\ ValueSyslog(k, v) \in Seq(Pieces(n)) /\ ValueCSV(k, v) \in Seq(Pieces(n))
         /\ ValueJSON(k, v) \in Seq(Pieces(n)) /\ ValueXML(k, v) \in Seq(Pieces(n))
         /\ Each(v, LAMBDA i : Hope(k, EscXML(v[i]))) \in Seq(Pieces(n))
<1>1. Len(v) \in Nat /\ \A i \in 1..Len(v) : v[i] \in Char
  BY DEF Texts
<1>2. ValueSyslog(k, v) \in Seq(Pieces(n))
  <2> DEFINE e(i) == EscSyslog(v[i])
             g(i) == [j \in 1..Len(e(i)) |-> Hope(k, <<e(i)[j]>>)]
             f == [i \in 1..Len(v) |-> FlattenSeq(g(i))]
  <2>1. ASSUME NEW i \in 1..Len(v) PROVE FlattenSeq(g(i)) \in Seq(Pieces(n))
    <3>1. e(i) \in Seq(Tokens)
      BY <1>1, EscType
    <3>2. Len(e(i)) \in Nat /\ \A j \in 1..Len(e(i)) : <<e(i)[j]>> \in Seq(Tokens)
      BY <3>1
    <3>3. \A j \in 1..Len(e(i)) : g(i)[j] \in Seq(Pieces(n))
      BY <3>2, AddType
    <3>4. g(i) = [j \in 1..Len(e(i)) |-> g(i)[j]]
      OBVIOUS
    <3> HIDE DEF g
    <3> QED BY <3>2, <3>3, <3>4, FlatType
  <2>2. \A i \in 1..Len(v) : f[i] \in Seq(Pieces(n))
    BY <2>1
  <2>3. f = [i \in 1..Len(v) |-> f[i]]
    OBVIOUS
  <2>4. ValueSyslog(k, v) = FlattenSeq(f)
    BY DEF ValueSyslog, Each
  <2> HIDE DEF f
  <2> QED BY <1>1, <2>2, <2>3, <2>4, FlatType
<1>3. ValueCSV(k, v) \in Seq(Pieces(n))
  <2> DEFINE f == [i \in 1..Len(v) |-> CharJSON(k, v[i])]
  <2>1. \A i \in 1..Len(v) : f[i] \in Seq(Pieces(n))
    BY <1>1, CharTypes
  <2>2. f = [i \in 1..Len(v) |-> f[i]]
    OBVIOUS
  <2>3. ValueCSV(k, v) = FlattenSeq(f)
    BY DEF ValueCSV, Each
  <2> HIDE DEF f
  <2> QED BY <1>1, <2>1, <2>2, <2>3, FlatType
<1>4. ValueJSON(k, v) \in Seq(Pieces(n))
  <2>1. Hope(k, <<"quote">>) \in Seq(Pieces(n))
    BY LiteralType, AddType
  <2>2. ValueJSON(k, v) = Hope(k, <<"quote">>) \o ValueCSV(k, v) \o Hope(k, <<"quote">>)
    BY DEF ValueJSON
  <2> QED BY <1>3, <2>1, <2>2, ConcatType
<1>5. Each(v, LAMBDA i : Hope(k, EscXML(v[i]))) \in Seq(Pieces(n))
  <2> DEFINE f == [i \in 1..Len(v) |-> Hope(k, EscXML(v[i]))]
  <2>1. \A i \in 1..Len(v) : f[i] \in Seq(Pieces(n))
    BY <1>1, EscType, AddType
  <2>2. f = [i \in 1..Len(v) |-> f[i]]
    OBVIOUS
  <2>3. Each(v, LAMBDA i : Hope(k, EscXML(v[i]))) = FlattenSeq(f)
    BY DEF Each
  <2> HIDE DEF f
  <2>4. FlattenSeq(f) \in Seq(Pieces(n))
    BY <1>1, <2>1, <2>2, FlatType
  <2> QED BY <2>3, <2>4
<1>6. ValueXML(k, v) \in Seq(Pieces(n))
  <2> DEFINE x == Each(v, LAMBDA i : Hope(k, EscXML(v[i])))
             a == Hope(k, <<"<", "value>">>)
             b == Hope(k, <<"<", "/value>">>)
  <2>1. a \in Seq(Pieces(n)) /\ b \in Seq(Pieces(n)) /\ x \in Seq(Pieces(n))
    BY <1>5, LiteralType, AddType
  <2>2. ValueXML(k, v) = a \o x \o b
    BY DEF ValueXML
  <2> HIDE DEF a, b, x
  <2> QED BY <2>1, <2>2, ConcatType
<1> QED BY <1>2, <1>3, <1>4, <1>5, <1>6

LEMMA NothingType == Nothing \in Seq(Tokens)
BY DEF Nothing

\* The values of a list with a separator between two of them.
LEMMA JoinType ==
  ASSUME NEW U, NEW m \in Nat, NEW sep \in Seq(U), NEW g, \A i \in 1..m : g[i] \in Seq(U)
  PROVE  FlattenSeq([i \in 1..m |-> (IF i > 1 THEN sep ELSE <<>>) \o g[i]]) \in Seq(U)
<1> DEFINE f == [i \in 1..m |-> (IF i > 1 THEN sep ELSE <<>>) \o g[i]]
<1>1. \A i \in 1..m : f[i] \in Seq(U)
  <2>1. <<>> \in Seq(U)
    OBVIOUS
  <2> QED BY <2>1, ConcatType
<1>2. f = [i \in 1..m |-> f[i]]
  OBVIOUS
<1> HIDE DEF f
<1>3. FlattenSeq(f) \in Seq(U)
  BY <1>1, <1>2, FlatType
<1> QED BY <1>3 DEF f

LEMMA FieldTypes ==
  ASSUME NEW n \in Nat, NEW k \in 0..n, NEW f \in FieldOf
  PROVE  /\ FieldSyslog(k, f) \in Seq(Pieces(n)) /\ FieldCSV(k, f) \in Seq(Pieces(n))
         /\ FieldXML(k, f) \in Seq(Pieces(n))
         /\ \A ultra \in BOOLEAN : FieldJSON(k, f, ultra) \in Seq(Pieces(n))
<1>0. /\ \A a, b \in Seq(Pieces(n)) : a \o b \in Seq(Pieces(n))
      /\ \A a, b, c \in Seq(Pieces(n)) : a \o b \o c \in Seq(Pieces(n))
      /\ \A a, b, c, d \in Seq(Pieces(n)) : a \o b \o c \o d \in Seq(Pieces(n))
      /\ \A a, b, c, d, e \in Seq(Pieces(n)) : a \o b \o c \o d \o e \in Seq(Pieces(n))
  BY ConcatType
<1> DEFINE m == Len(f.vals)
<1>1. /\ f.name \in STRING /\ m \in Nat /\ \A i \in 1..m : f.vals[i] \in Texts
  <2>1. f.name \in STRING /\ f.vals \in Seq(Texts)
    BY DEF FieldOf
  <2> QED BY <2>1
<1>2. \A i \in 1..m : /\ ValueSyslog(k, f.vals[i]) \in Seq(Pieces(n))
                      /\ ValueCSV(k, f.vals[i]) \in Seq(Pieces(n))
                      /\ ValueJSON(k, f.vals[i]) \in Seq(Pieces(n))
                      /\ ValueXML(k, f.vals[i]) \in Seq(Pieces(n))
  BY <1>1, ValueTypes
<1>3. /\ \A t \in STRING \cup {"quote", "=quote", "comma", "quote:", "quote:_", "[", "]",
                               "quote>"} :
           Try(k, <<t>>) \in Seq(Pieces(n))
      /\ Try(k, <<"quote", "quote">>) \in Seq(Pieces(n))
      /\ Try(k, <<"<", "Field_name=quote">>) \in Seq(Pieces(n))
      /\ Try(k, <<"<", "/Field>">>) \in Seq(Pieces(n))
      /\ <<>> \in Seq(Pieces(n))
  <2>1. \A txt \in Seq(Tokens) : Try(k, txt) \in Seq(Pieces(n))
    BY AddType
  <2>2. \A t \in STRING \cup {"quote", "=quote", "comma", "quote:", "quote:_", "[", "]", "quote>"} :
           <<t>> \in Seq(Tokens)
    BY LiteralType
  <2>3. /\ <<"quote", "quote">> \in Seq(Tokens) /\ <<"<", "Field_name=quote">> \in Seq(Tokens)
        /\ <<"<", "/Field>">> \in Seq(Tokens)
    BY LiteralType
  <2>4. <<>> \in Seq(Pieces(n))
    OBVIOUS
  <2> QED BY <2>1, <2>2, <2>3, <2>4
<1>4. FieldSyslog(k, f) \in Seq(Pieces(n))
  <2> DEFINE g == [i \in 1..m |-> ValueSyslog(k, f.vals[i])]
             body == FlattenSeq([i \in 1..m |->
                        (IF i > 1 THEN Try(k, <<"comma">>) ELSE <<>>) \o g[i]])
  <2>1. \A i \in 1..m : g[i] \in Seq(Pieces(n))
    BY <1>2
  <2>2. body \in Seq(Pieces(n))
    <3> HIDE DEF g
    <3> QED BY <1>1, <1>3, <2>1, JoinType
  <2>3. body = Join(f.vals, Try(k, <<"comma">>), LAMBDA v : ValueSyslog(k, v))
    BY DEF Join, Each
  <2>4. FieldSyslog(k, f) = Try(k, <<f.name>>) \o Try(k, <<"=quote">>) \o body
                            \o Try(k, <<"quote">>)
    BY <2>3, Zenon DEF FieldSyslog
  <2> HIDE DEF body
  <2>5. /\ Try(k, <<f.name>>) \in Seq(Pieces(n)) /\ Try(k, <<"=quote">>) \in Seq(Pieces(n))
        /\ Try(k, <<"quote">>) \in Seq(Pieces(n))
    BY <1>1, <1>3
  <2> QED BY <2>2, <2>4, <2>5, <1>0
<1>5. FieldCSV(k, f) \in Seq(Pieces(n))
  <2> DEFINE g == [i \in 1..m |-> ValueCSV(k, f.vals[i])]
             body == FlattenSeq([i \in 1..m |->
                        (IF i > 1 THEN Try(k, <<"comma">>) ELSE <<>>) \o g[i]])
  <2>1. \A i \in 1..m : g[i] \in Seq(Pieces(n))
    BY <1>2
  <2>2. body \in Seq(Pieces(n))
    <3> HIDE DEF g
    <3> QED BY <1>1, <1>3, <2>1, JoinType
  <2>3. body = Join(f.vals, Try(k, <<"comma">>), LAMBDA v : ValueCSV(k, v))
    BY DEF Join, Each
  <2>4. FieldCSV(k, f) = CASE m = 0 -> Try(k, <<"[">>) \o Try(k, Nothing)
                           [] m = 1 -> ValueCSV(k, f.vals[1])
                           [] OTHER -> Try(k, <<"[">>) \o body \o Try(k, <<"]">>)
    BY <2>3, Zenon DEF FieldCSV
  <2> HIDE DEF body
  <2>5. /\ Try(k, <<"[">>) \o Try(k, Nothing) \in Seq(Pieces(n))
        /\ Try(k, <<"[">>) \o body \o Try(k, <<"]">>) \in Seq(Pieces(n))
    <3>1. Try(k, Nothing) \in Seq(Pieces(n))
      BY NothingType, AddType
    <3> QED BY <1>3, <2>2, <3>1, ConcatType
  <2>6. m = 1 => ValueCSV(k, f.vals[1]) \in Seq(Pieces(n))
    BY <1>2
  <2> HIDE DEF m
  <2> QED BY <2>4, <2>5, <2>6
<1>6. ASSUME NEW ultra \in BOOLEAN PROVE FieldJSON(k, f, ultra) \in Seq(Pieces(n))
  <2> DEFINE g == [i \in 1..m |-> ValueJSON(k, f.vals[i])]
             body == FlattenSeq([i \in 1..m |->
                        (IF i > 1 THEN Try(k, <<"comma">>) ELSE <<>>) \o g[i]])
             colon == IF ultra THEN "quote:" ELSE "quote:_"
             quotes == IF ultra THEN <<"quote">> ELSE <<"quote", "quote">>
             content == CASE m = 0 -> Try(k, quotes)
                          [] m = 1 -> ValueJSON(k, f.vals[1])
                          [] OTHER -> Try(k, <<"[">>) \o body \o Try(k, <<"]">>)
  <2>1. \A i \in 1..m : g[i] \in Seq(Pieces(n))
    BY <1>2
  <2>2. body \in Seq(Pieces(n))
    <3> HIDE DEF g
    <3> QED BY <1>1, <1>3, <2>1, JoinType
  <2>3. body = Join(f.vals, Try(k, <<"comma">>), LAMBDA v : ValueJSON(k, v))
    BY DEF Join, Each
  <2>4. FieldJSON(k, f, ultra) = Try(k, <<"quote">>) \o Try(k, <<f.name>>) \o Try(k, <<colon>>)
                                 \o content
    BY <2>3, Zenon DEF FieldJSON
  <2> HIDE DEF body
  <2>5. /\ Try(k, <<"[">>) \o body \o Try(k, <<"]">>) \in Seq(Pieces(n))
        /\ Try(k, quotes) \in Seq(Pieces(n)) /\ Try(k, <<colon>>) \in Seq(Pieces(n))
        /\ Try(k, <<f.name>>) \in Seq(Pieces(n)) /\ Try(k, <<"quote">>) \in Seq(Pieces(n))
    <3>1. /\ Try(k, quotes) \in Seq(Pieces(n)) /\ Try(k, <<colon>>) \in Seq(Pieces(n))
          /\ Try(k, <<f.name>>) \in Seq(Pieces(n)) /\ Try(k, <<"quote">>) \in Seq(Pieces(n))
      BY <1>1, <1>3
    <3> QED BY <1>3, <2>2, <3>1, ConcatType
  <2>6. m = 1 => ValueJSON(k, f.vals[1]) \in Seq(Pieces(n))
    BY <1>2
  <2>7. content \in Seq(Pieces(n))
    <3> HIDE DEF m, quotes
    <3> QED BY <2>5, <2>6
  <2> HIDE DEF content, colon, quotes
  <2>8. Try(k, <<"quote">>) \o Try(k, <<f.name>>) \o Try(k, <<colon>>) \o content \in Seq(Pieces(n))
    BY <2>5, <2>7, <1>0, Zenon
  <2> QED BY <2>4, <2>8, Zenon
<1>7. FieldXML(k, f) \in Seq(Pieces(n))
  <2> DEFINE g == [i \in 1..m |-> ValueXML(k, f.vals[i])]
             body == FlattenSeq([i \in 1..m |-> (IF i > 1 THEN <<>> ELSE <<>>) \o g[i]])
  <2>1. \A i \in 1..m : g[i] \in Seq(Pieces(n))
    BY <1>2
  <2>2. body \in Seq(Pieces(n))
    <3> HIDE DEF g
    <3> QED BY <1>1, <1>3, <2>1, JoinType
  <2>3. body = Join(f.vals, <<>>, LAMBDA v : ValueXML(k, v))
    BY DEF Join, Each
  <2>4. FieldXML(k, f) = Try(k, <<"<", "Field_name=quote">>) \o Try(k, <<f.name>>)
                         \o Try(k, <<"quote>">>) \o body \o Try(k, <<"<", "/Field>">>)
    BY <2>3, Zenon DEF FieldXML
  <2> HIDE DEF body
  <2>5. /\ Try(k, <<f.name>>) \in Seq(Pieces(n)) /\ Try(k, <<"quote>">>) \in Seq(Pieces(n))
        /\ Try(k, <<"<", "Field_name=quote">>) \in Seq(Pieces(n))
        /\ Try(k, <<"<", "/Field>">>) \in Seq(Pieces(n))
    BY <1>1, <1>3
  <2>6. Try(k, <<"<", "Field_name=quote">>) \o Try(k, <<f.name>>)
          \o Try(k, <<"quote>">>) \o body \o Try(k, <<"<", "/Field>">>) \in Seq(Pieces(n))
    BY <2>2, <2>5, <1>0, Zenon
  <2> QED BY <2>4, <2>6, Zenon
<1> QED BY <1>4, <1>5, <1>6, <1>7

LEMMA TagTypes ==
  ASSUME NEW n \in Nat, NEW ts \in Seq(STRING)
  PROVE  /\ TagsSyslog(ts) \in Seq(Pieces(n)) /\ TagsJSON(ts) \in Seq(Pieces(n))
         /\ TagsXML(ts) \in Seq(Pieces(n))
<1>0. /\ \A a, b \in Seq(Pieces(n)) : a \o b \in Seq(Pieces(n))
      /\ \A a, b, c \in Seq(Pieces(n)) : a \o b \o c \in Seq(Pieces(n))
      /\ \A a, b, c, d \in Seq(Pieces(n)) : a \o b \o c \o d \in Seq(Pieces(n))
      /\ \A a, b, c, d, e \in Seq(Pieces(n)) : a \o b \o c \o d \o e \in Seq(Pieces(n))
  BY ConcatType
<1> DEFINE m == Len(ts)
<1>1. m \in Nat /\ \A i \in 1..m : ts[i] \in STRING
  OBVIOUS
<1>2. /\ \A t \in STRING \cup {"quote", "comma", "]"} : /\ Try(0, <<t>>) \in Seq(Pieces(n))
                                                  /\ Hope(0, <<t>>) \in Seq(Pieces(n))
      /\ Try(0, <<"_", "event.tags", "=quote">>) \in Seq(Pieces(n))
      /\ Try(0, <<"quote", "event.tags", "quote:", "[">>) \in Seq(Pieces(n))
      /\ Try(0, <<"<", "event.tags>">>) \in Seq(Pieces(n))
      /\ Try(0, <<"<", "/event.tags>">>) \in Seq(Pieces(n))
      /\ Try(0, <<"<", "tag>">>) \in Seq(Pieces(n))
      /\ Try(0, <<"<", "/tag>">>) \in Seq(Pieces(n))
      /\ <<>> \in Seq(Pieces(n))
  <2>1. \A txt \in Seq(Tokens) : Try(0, txt) \in Seq(Pieces(n)) /\ Hope(0, txt) \in Seq(Pieces(n))
    <3>1. 0 \in 0..n
      OBVIOUS
    <3> QED BY <3>1, AddType
  <2>2. \A t \in STRING \cup {"quote", "comma", "]"} : <<t>> \in Seq(Tokens)
    BY LiteralType
  <2>3. /\ <<"_", "event.tags", "=quote">> \in Seq(Tokens)
        /\ <<"quote", "event.tags", "quote:", "[">> \in Seq(Tokens)
        /\ <<"<", "event.tags>">> \in Seq(Tokens) /\ <<"<", "/event.tags>">> \in Seq(Tokens)
        /\ <<"<", "tag>">> \in Seq(Tokens) /\ <<"<", "/tag>">> \in Seq(Tokens)
    BY LiteralType
  <2>4. <<>> \in Seq(Pieces(n))
    OBVIOUS
  <2> QED BY <2>1, <2>2, <2>3, <2>4
<1>3. TagsSyslog(ts) \in Seq(Pieces(n))
  <2> DEFINE g == [i \in 1..m |-> Try(0, <<ts[i]>>)]
             body == FlattenSeq([i \in 1..m |->
                        (IF i > 1 THEN Hope(0, <<"comma">>) ELSE <<>>) \o g[i]])
  <2>1. \A i \in 1..m : g[i] \in Seq(Pieces(n))
    BY <1>1, <1>2
  <2>2. body \in Seq(Pieces(n))
    <3> HIDE DEF g
    <3> QED BY <1>1, <1>2, <2>1, JoinType
  <2>3. body = Join(ts, Hope(0, <<"comma">>), LAMBDA t : Try(0, <<t>>))
    BY DEF Join, Each
  <2>4. TagsSyslog(ts) = Try(0, <<"_", "event.tags", "=quote">>) \o body \o Hope(0, <<"quote">>)
    BY <2>3, Zenon DEF TagsSyslog
  <2> HIDE DEF body
  <2>5. /\ Hope(0, <<"quote">>) \in Seq(Pieces(n))
        /\ Try(0, <<"_", "event.tags", "=quote">>) \in Seq(Pieces(n))
    BY <1>2
  <2>6. Try(0, <<"_", "event.tags", "=quote">>) \o body \o Hope(0, <<"quote">>) \in Seq(Pieces(n))
    BY <2>2, <2>5, <1>0, Zenon
  <2> QED BY <2>4, <2>6, Zenon
<1>4. TagsJSON(ts) \in Seq(Pieces(n))
  <2> DEFINE g == [i \in 1..m |-> Hope(0, <<"quote">>) \o Try(0, <<ts[i]>>) \o Hope(0, <<"quote">>)]
             body == FlattenSeq([i \in 1..m |->
                        (IF i > 1 THEN Hope(0, <<"comma">>) ELSE <<>>) \o g[i]])
  <2>1. \A i \in 1..m : g[i] \in Seq(Pieces(n))
    BY <1>1, <1>2, ConcatType
  <2>2. body \in Seq(Pieces(n))
    <3> HIDE DEF g
    <3> QED BY <1>1, <1>2, <2>1, JoinType
  <2>3. body = Join(ts, Hope(0, <<"comma">>),
                    LAMBDA t : Hope(0, <<"quote">>) \o Try(0, <<t>>) \o Hope(0, <<"quote">>))
    BY DEF Join, Each
  <2>4. TagsJSON(ts) = Try(0, <<"quote", "event.tags", "quote:", "[">>) \o body \o Hope(0, <<"]">>)
    BY <2>3, Zenon DEF TagsJSON
  <2> HIDE DEF body
  <2>5. /\ Hope(0, <<"]">>) \in Seq(Pieces(n))
        /\ Try(0, <<"quote", "event.tags", "quote:", "[">>) \in Seq(Pieces(n))
    BY <1>2
  <2> QED BY <2>2, <2>4, <2>5, <1>0
<1>5. TagsXML(ts) \in Seq(Pieces(n))
  <2> DEFINE g == [i \in 1..m |-> Try(0, <<"<", "tag>">>) \o Try(0, <<ts[i]>>)
                                  \o Try(0, <<"<", "/tag>">>)]
             body == FlattenSeq([i \in 1..m |-> (IF i > 1 THEN <<>> ELSE <<>>) \o g[i]])
  <2>1. \A i \in 1..m : g[i] \in Seq(Pieces(n))
    BY <1>1, <1>2, ConcatType
  <2>2. body \in Seq(Pieces(n))
    <3> HIDE DEF g
    <3> QED BY <1>1, <1>2, <2>1, JoinType
  <2>3. body = Join(ts, <<>>, LAMBDA t : Try(0, <<"<", "tag>">>) \o Try(0, <<t>>)
                                           \o Try(0, <<"<", "/tag>">>))
    BY DEF Join, Each
  <2>4. TagsXML(ts) = Try(0, <<"<", "event.tags>">>) \o body \o Try(0, <<"<", "/event.tags>">>)
    BY <2>3, Zenon DEF TagsXML
  <2> HIDE DEF body
  <2>5. /\ Try(0, <<"<", "event.tags>">>) \in Seq(Pieces(n))
        /\ Try(0, <<"<", "/event.tags>">>) \in Seq(Pieces(n))
    BY <1>2
  <2>6. Try(0, <<"<", "event.tags>">>) \o body \o Try(0, <<"<", "/event.tags>">>) \in Seq(Pieces(n))
    BY <2>2, <2>5, <1>0, Zenon
  <2> QED BY <2>4, <2>6, Zenon
<1> QED BY <1>3, <1>4, <1>5

----------------------------------------------------------------------------
(* The programs of the calls.                                              *)

EventIs(e) == /\ e.tags = None \/ e.tags \in Seq(STRING)
              /\ e.fields = None \/ e.fields \in Seq(FieldOf)

LEMMA EventsAre == \A e \in Events : EventIs(e)
BY EncodersAssumption DEF EventIs, FieldOf, Texts

LEMMA FieldsType ==
  ASSUME NEW e, EventIs(e)
  PROVE  /\ Fields(e) \in Seq(FieldOf) /\ Len(Fields(e)) \in Nat
         /\ DOMAIN Fields(e) = 1..Len(Fields(e))
<1>1. <<>> \in Seq(FieldOf)
  OBVIOUS
<1>2. Fields(e) \in Seq(FieldOf)
  BY <1>1 DEF EventIs, Fields
<1> QED BY <1>2

\* the literals that a program for an event writes itself
LEMMA EventLiterals ==
  ASSUME NEW n \in Nat
  PROVE  /\ Hope(0, <<"[cee@115">>) \in Seq(Pieces(n)) /\ Hope(0, <<"]">>) \in Seq(Pieces(n))
         /\ Hope(0, <<"_">>) \in Seq(Pieces(n)) /\ Try(0, <<"comma_">>) \in Seq(Pieces(n))
         /\ Hope(0, <<"lbrace">>) \in Seq(Pieces(n)) /\ Hope(0, <<"rbrace">>) \in Seq(Pieces(n))
         /\ Hope(0, <<"<", "event>">>) \in Seq(Pieces(n))
         /\ Hope(0, <<"<", "/event>">>) \in Seq(Pieces(n))
         /\ Try(0, Nothing) \in Seq(Pieces(n)) /\ Try(0, <<"quote">>) \in Seq(Pieces(n))
         /\ Try(0, <<"comma">>) \in Seq(Pieces(n)) /\ <<>> \in Seq(Pieces(n))
<1>1. \A txt \in Seq(Tokens) : Try(0, txt) \in Seq(Pieces(n)) /\ Hope(0, txt) \in Seq(Pieces(n))
  <2>1. 0 \in 0..n
    OBVIOUS
  <2> QED BY <2>1, AddType
<1>2. /\ \A t \in {"[cee@115", "]", "_", "comma_", "lbrace", "rbrace", "quote", "comma"} :
           <<t>> \in Seq(Tokens)
      /\ <<"<", "event>">> \in Seq(Tokens) /\ <<"<", "/event>">> \in Seq(Tokens)
  BY LiteralType
<1>3. /\ <<"[cee@115">> \in Seq(Tokens) /\ <<"]">> \in Seq(Tokens) /\ <<"_">> \in Seq(Tokens)
      /\ <<"comma_">> \in Seq(Tokens) /\ <<"lbrace">> \in Seq(Tokens)
      /\ <<"rbrace">> \in Seq(Tokens) /\ Nothing \in Seq(Tokens)
      /\ <<"quote">> \in Seq(Tokens) /\ <<"comma">> \in Seq(Tokens)
  BY <1>2, NothingType
<1>4. <<>> \in Seq(Pieces(n))
  OBVIOUS
<1> QED BY <1>1, <1>2, <1>3, <1>4, Zenon

LEMMA ProgramTypes ==
  ASSUME NEW e, EventIs(e), NEW n \in Nat, Len(Fields(e)) <= n
  PROVE  /\ fmtEventToRFC5424(e) \in Seq(Pieces(n))
         /\ fmtEventToXML(e) \in Seq(Pieces(n))
         /\ \A fl : fmtEventToJSON(e, fl) \in Seq(Pieces(n))
<1>0. /\ \A a, b \in Seq(Pieces(n)) : a \o b \in Seq(Pieces(n))
      /\ \A a, b, c \in Seq(Pieces(n)) : a \o b \o c \in Seq(Pieces(n))
      /\ \A a, b, c, d \in Seq(Pieces(n)) : a \o b \o c \o d \in Seq(Pieces(n))
      /\ \A a, b, c, d, x \in Seq(Pieces(n)) : a \o b \o c \o d \o x \in Seq(Pieces(n))
  BY ConcatType
<1> DEFINE fs == Fields(e)
           m == Len(fs)
<1>1. m \in Nat /\ \A k \in 1..m : fs[k] \in FieldOf /\ k \in 0..n
  <2>1. fs \in Seq(FieldOf) /\ m \in Nat
    BY FieldsType
  <2> HIDE DEF fs
  <2>2. \A k \in 1..m : fs[k] \in FieldOf
    BY <2>1
  <2> QED BY <2>1, <2>2 DEF fs
<1>2. \A k \in 1..m : /\ FieldSyslog(k, fs[k]) \in Seq(Pieces(n))
                      /\ FieldXML(k, fs[k]) \in Seq(Pieces(n))
                      /\ \A ultra \in BOOLEAN : FieldJSON(k, fs[k], ultra) \in Seq(Pieces(n))
  <2> HIDE DEF m, fs
  <2> QED BY <1>1, FieldTypes
<1>3. /\ Opt(e.tags, TagsSyslog) \in Seq(Pieces(n)) /\ Opt(e.tags, TagsXML) \in Seq(Pieces(n))
      /\ Opt(e.tags, TagsJSON) \in Seq(Pieces(n))
  <2>1. CASE e.tags = None
    <3>1. <<>> \in Seq(Pieces(n))
      OBVIOUS
    <3> QED BY <2>1, <3>1 DEF Opt
  <2>2. CASE e.tags # None
    <3>1. e.tags \in Seq(STRING)
      BY <2>2 DEF EventIs
    <3> QED BY <2>2, <3>1, TagTypes DEF Opt
  <2> QED BY <2>1, <2>2
<1>4. fmtEventToRFC5424(e) \in Seq(Pieces(n))
  <2> DEFINE f == [k \in 1..m |-> Hope(0, <<"_">>) \o FieldSyslog(k, fs[k])]
  <2>1. \A k \in 1..m : f[k] \in Seq(Pieces(n))
    BY <1>0, <1>2, EventLiterals
  <2>2. f = [k \in 1..m |-> f[k]]
    OBVIOUS
  <2>3. fmtEventToRFC5424(e) = Hope(0, <<"[cee@115">>) \o Opt(e.tags, TagsSyslog)
                               \o FlattenSeq(f) \o Hope(0, <<"]">>)
    BY DEF fmtEventToRFC5424, Each
  <2> HIDE DEF f
  <2>4. FlattenSeq(f) \in Seq(Pieces(n))
    <3> HIDE DEF m
    <3> QED BY <1>1, <2>1, <2>2, FlatType
  <2>5. Hope(0, <<"[cee@115">>) \in Seq(Pieces(n)) /\ Hope(0, <<"]">>) \in Seq(Pieces(n))
    BY EventLiterals
  <2>6. Hope(0, <<"[cee@115">>) \o Opt(e.tags, TagsSyslog) \o FlattenSeq(f) \o Hope(0, <<"]">>)
          \in Seq(Pieces(n))
    BY <1>0, <1>3, <2>4, <2>5, Zenon
  <2> QED BY <2>3, <2>6, Zenon
<1>5. fmtEventToXML(e) \in Seq(Pieces(n))
  <2> DEFINE f == [k \in 1..m |-> FieldXML(k, fs[k])]
  <2>1. \A k \in 1..m : f[k] \in Seq(Pieces(n))
    BY <1>2
  <2>2. f = [k \in 1..m |-> f[k]]
    OBVIOUS
  <2>3. fmtEventToXML(e) = Hope(0, <<"<", "event>">>) \o Opt(e.tags, TagsXML)
                           \o FlattenSeq(f) \o Hope(0, <<"<", "/event>">>)
    BY DEF fmtEventToXML, Each
  <2> HIDE DEF f
  <2>4. FlattenSeq(f) \in Seq(Pieces(n))
    <3> HIDE DEF m
    <3> QED BY <1>1, <2>1, <2>2, FlatType
  <2>5. /\ Hope(0, <<"<", "event>">>) \in Seq(Pieces(n))
        /\ Hope(0, <<"<", "/event>">>) \in Seq(Pieces(n))
    BY EventLiterals
  <2>6. Hope(0, <<"<", "event>">>) \o Opt(e.tags, TagsXML)
          \o FlattenSeq(f) \o Hope(0, <<"<", "/event>">>) \in Seq(Pieces(n))
    BY <1>0, <1>3, <2>4, <2>5, Zenon
  <2> QED BY <2>3, <2>6, Zenon
<1>6. ASSUME NEW fl PROVE fmtEventToJSON(e, fl) \in Seq(Pieces(n))
  <2> DEFINE tagged == IF "flat" \in fl THEN Opt(e.tags, TagsJSON) ELSE <<>>
             comma(k) == IF k > 1 \/ tagged # <<>> THEN Try(0, <<"comma_">>) ELSE <<>>
             f == [k \in 1..m |-> comma(k) \o FieldJSON(k, fs[k], "ultra" \in fl)]
  <2>1. tagged \in Seq(Pieces(n))
    BY <1>3, EventLiterals, Zenon
  <2>2. \A k \in 1..m : f[k] \in Seq(Pieces(n))
    <3>1. \A k \in 1..m : comma(k) \in Seq(Pieces(n))
      BY EventLiterals, Zenon
    <3> HIDE DEF tagged, comma
    <3>2. \A k \in 1..m : FieldJSON(k, fs[k], "ultra" \in fl) \in Seq(Pieces(n))
      <4>1. ("ultra" \in fl) \in BOOLEAN
        OBVIOUS
      <4> HIDE DEF m, fs
      <4> QED BY <1>2, <4>1, Zenon
    <3> QED BY <1>0, <3>1, <3>2
  <2>3. f = [k \in 1..m |-> f[k]]
    OBVIOUS
  <2>4. fmtEventToJSON(e, fl) = Hope(0, <<"lbrace">>) \o tagged \o FlattenSeq(f)
                                \o Hope(0, <<"rbrace">>)
    BY Zenon DEF fmtEventToJSON, Each
  <2> HIDE DEF f, tagged
  <2>5. FlattenSeq(f) \in Seq(Pieces(n))
    <3> HIDE DEF m
    <3> QED BY <1>1, <2>2, <2>3, FlatType
  <2>6. Hope(0, <<"lbrace">>) \in Seq(Pieces(n)) /\ Hope(0, <<"rbrace">>) \in Seq(Pieces(n))
    BY EventLiterals
  <2>7. Hope(0, <<"lbrace">>) \o tagged \o FlattenSeq(f) \o Hope(0, <<"rbrace">>) \in Seq(Pieces(n))
    BY <1>0, <2>1, <2>5, <2>6, Zenon
  <2> QED BY <2>4, <2>7, Zenon
<1> QED BY <1>4, <1>5, <1>6

LEMMA RowType ==
  ASSUME NEW e, EventIs(e), NEW ns \in Seq(STRING), NEW n \in Nat, Len(ns) <= n
  PROVE  fmtEventToCSV(e, ns) \in Seq(Pieces(n))
<1>0. /\ \A a, b \in Seq(Pieces(n)) : a \o b \in Seq(Pieces(n))
      /\ \A a, b, c, d \in Seq(Pieces(n)) : a \o b \o c \o d \in Seq(Pieces(n))
  BY ConcatType
<1> DEFINE m == Len(ns)
           last(k) == IF k < Len(ns) THEN Try(0, <<"comma">>) ELSE <<>>
           f == [k \in 1..m |-> Try(0, <<"quote">>) \o Column(k, e, ns[k])
                                \o Try(0, <<"quote">>) \o last(k)]
<1>1. m \in Nat /\ \A k \in 1..m : k \in 0..n
  OBVIOUS
<1>2. ASSUME NEW k \in 1..m PROVE Column(k, e, ns[k]) \in Seq(Pieces(n))
  <2> DEFINE found == {i \in DOMAIN Fields(e) : Fields(e)[i].name = ns[k]}
             first == CHOOSE i \in found : \A j \in found : i <= j
  <2>1. CASE e.fields = None
    BY <2>1, EventLiterals, Zenon DEF Column
  <2>2. CASE e.fields # None /\ found = {}
    BY <2>2, EventLiterals, Zenon DEF Column
  <2>3. CASE e.fields # None /\ found # {}
    <3>1. /\ Fields(e) \in Seq(FieldOf) /\ Len(Fields(e)) \in Nat
          /\ DOMAIN Fields(e) = 1..Len(Fields(e))
      BY FieldsType
    <3>2. found \subseteq DOMAIN Fields(e) /\ found \in SUBSET Nat
      BY <3>1
    <3> HIDE DEF found
    <3>3. \E i \in found : \A j \in found : i <= j
      BY <2>3, <3>2, Least
    <3>4. first \in found
      BY <3>3
    <3> HIDE DEF first
    <3>5. Fields(e)[first] \in FieldOf
      <4>1. first \in 1..Len(Fields(e))
        BY <3>1, <3>2, <3>4, Zenon
      <4> QED BY <3>1, <4>1
    <3>6. FieldCSV(k, Fields(e)[first]) \in Seq(Pieces(n))
      BY <1>1, <3>5, FieldTypes
    <3>7. Column(k, e, ns[k]) = FieldCSV(k, Fields(e)[first])
      BY <2>3, Zenon DEF Column, found, first
    <3> QED BY <3>6, <3>7
  <2> QED BY <2>1, <2>2, <2>3
<1>3. \A k \in 1..m : f[k] \in Seq(Pieces(n))
  <2>1. Try(0, <<"quote">>) \in Seq(Pieces(n))
    BY EventLiterals
  <2>2. \A k \in 1..m : last(k) \in Seq(Pieces(n))
    BY EventLiterals, Zenon
  <2> HIDE DEF last
  <2>3. \A k \in 1..m : Try(0, <<"quote">>) \o Column(k, e, ns[k]) \o Try(0, <<"quote">>) \o last(k)
                          \in Seq(Pieces(n))
    BY <1>0, <1>2, <2>1, <2>2, Zenon
  <2> QED BY <2>3
<1>4. f = [k \in 1..m |-> f[k]]
  OBVIOUS
<1>5. fmtEventToCSV(e, ns) = FlattenSeq(f)
  BY DEF fmtEventToCSV, Each
<1> HIDE DEF f, m
<1> QED BY <1>1, <1>3, <1>4, <1>5, FlatType

----------------------------------------------------------------------------
(* A call of an encoder.                                                   *)

\* the appends of the program in progress are those of its event
EncIs(e, ns, td) ==
  EventIs(e) /\ ns \in Seq(STRING) /\ td \in Seq(Pieces(Len(ns) + Len(Fields(e))))

LEMMA BoundIs == MaxFails \in Nat
BY EncodersAssumption, Zenon

EncInv ==
  /\ pc \in {"client", "append", "done", "crashed"}
  /\ enc \in {"none", "syslog", "json", "xml", "csv"}
  /\ flags \subseteq {"ultra", "flat"}
  /\ fails \in 0..MaxFails
  /\ r \in {"minus1", "ok", "nomem"} \/ (pc = "client" /\ r = "none")
  /\ out \in Seq(Tokens)
  /\ pc # "client" => EncIs(event, names, todo)
  /\ pc # "append" => todo = <<>>

LEMMA EncInvNext ==
  ASSUME pc' \in {"client", "append", "done", "crashed"},
         enc' \in {"none", "syslog", "json", "xml", "csv"},
         flags' \subseteq {"ultra", "flat"},
         fails' \in 0..MaxFails,
         r' \in {"minus1", "ok", "nomem"} \/ (pc' = "client" /\ r' = "none"),
         out' \in Seq(Tokens),
         pc' # "client" => EncIs(event', names', todo'),
         pc' # "append" => todo' = <<>>
  PROVE  EncInv'
BY DEF EncInv, EncIs

LEMMA EncTyped == EncInv => EncTypeOK
<1> SUFFICES ASSUME EncInv PROVE EncTypeOK
  OBVIOUS
<1>1. \A k \in 1..Len(todo) : todo[k].in \in 0..(Len(names) + Len(Fields(event)))
  <2>1. CASE pc = "append"
    <3>1. todo \in Seq(Pieces(Len(names) + Len(Fields(event))))
      BY <2>1 DEF EncInv, EncIs
    <3> DEFINE n == Len(names) + Len(Fields(event))
    <3>2. ASSUME NEW k \in 1..Len(todo) PROVE todo[k].in \in 0..n
      <4> HIDE DEF n
      <4>1. todo[k] \in Pieces(n)
        BY <3>1 DEF n
      <4> QED BY <4>1 DEF Pieces
    <3> QED BY <3>2
  <2>2. CASE pc # "append"
    BY <2>2 DEF EncInv
  <2> QED BY <2>1, <2>2
<1>2. r \in {"minus1", "ok", "nomem"} \cup (IF pc = "client" THEN {"none"} ELSE {})
  BY DEF EncInv
<1> QED BY <1>1, <1>2 DEF EncInv, EncTypeOK

\* what genNameList makes of a list is one of names
LEMMA NamesMadeType ==
  ASSUME NEW list \in Seq(STRING)
  PROVE  NamesMade(list) \subseteq Seq(STRING)
<1>1. \A k \in 0..(Len(list) - 1) : SubSeq(list, 1, k) \in Seq(STRING)
  OBVIOUS
<1> QED BY <1>1 DEF NamesMade

\* a call that begins
LEMMA BeginTyped ==
  ASSUME EncInv, NEW fmt \in {"syslog", "json", "xml", "csv"}, NEW e, EventIs(e),
         NEW ns \in Seq(STRING), NEW program \in Seq(Pieces(Len(ns) + Len(Fields(e)))),
         Begin(fmt, e, ns, program), flags' \subseteq {"ultra", "flat"}
  PROVE  EncInv' /\ pc' # "client" /\ event' = e /\ enc' = fmt
<1>1. /\ pc' \in {"append", "done"} /\ enc' = fmt /\ event' = e /\ names' = ns
      /\ out' = <<>> /\ fails' = 0 /\ r' = "minus1"
      /\ todo' = <<>> \/ (pc' = "append" /\ todo' = program)
  BY DEF Begin
<1>2. <<>> \in Seq(Tokens) /\ 0 \in 0..MaxFails
  BY BoundIs
<1>3. EncIs(event', names', todo')
  <2>1. <<>> \in Seq(Pieces(Len(ns) + Len(Fields(e))))
    OBVIOUS
  <2> QED BY <1>1, <2>1 DEF EncIs
<1>4. pc' # "append" => todo' = <<>>
  BY <1>1
<1> QED BY <1>1, <1>2, <1>3, <1>4, EncInvNext

LEMMA EncodeTyped ==
  ASSUME EncInv, NEW e, EventIs(e)
  PROVE  /\ EncodeSyslog(e) => EncInv' /\ pc' # "client" /\ event' = e /\ enc' = "syslog"
         /\ EncodeXML(e) => EncInv' /\ pc' # "client" /\ event' = e /\ enc' = "xml"
         /\ \A fl \in SUBSET {"ultra", "flat"} :
              EncodeJSON(e, fl) => /\ EncInv' /\ pc' # "client" /\ event' = e
                                   /\ enc' = "json" /\ flags' = fl
         /\ \A list \in Seq(STRING) :
              EncodeCSV(e, list) => EncInv' /\ pc' # "client" /\ event' = e /\ enc' = "csv"
<1>1. /\ <<>> \in Seq(STRING) /\ Len(<<>>) + Len(Fields(e)) = Len(Fields(e))
      /\ Len(Fields(e)) \in Nat
  BY FieldsType
<1> DEFINE n == Len(Fields(e))
<1>2. /\ fmtEventToRFC5424(e) \in Seq(Pieces(Len(<<>>) + n))
      /\ fmtEventToXML(e) \in Seq(Pieces(Len(<<>>) + n))
      /\ \A fl : fmtEventToJSON(e, fl) \in Seq(Pieces(Len(<<>>) + n))
  BY <1>1, ProgramTypes
<1>3. ASSUME EncodeSyslog(e)
      PROVE  EncInv' /\ pc' # "client" /\ event' = e /\ enc' = "syslog"
  <2>1. flags' \subseteq {"ultra", "flat"} /\ Begin("syslog", e, <<>>, fmtEventToRFC5424(e))
    BY <1>3 DEF EncodeSyslog
  <2> QED BY <1>1, <1>2, <2>1, BeginTyped
<1>4. ASSUME EncodeXML(e)
      PROVE  EncInv' /\ pc' # "client" /\ event' = e /\ enc' = "xml"
  <2>1. flags' \subseteq {"ultra", "flat"} /\ Begin("xml", e, <<>>, fmtEventToXML(e))
    BY <1>4 DEF EncodeXML
  <2> QED BY <1>1, <1>2, <2>1, BeginTyped
<1>5. ASSUME NEW fl \in SUBSET {"ultra", "flat"}, EncodeJSON(e, fl)
      PROVE  EncInv' /\ pc' # "client" /\ event' = e /\ enc' = "json" /\ flags' = fl
  <2>1. flags' = fl /\ Begin("json", e, <<>>, fmtEventToJSON(e, fl))
    BY <1>5 DEF EncodeJSON
  <2>2. flags' \subseteq {"ultra", "flat"}
    BY <2>1
  <2>3. fmtEventToJSON(e, fl) \in Seq(Pieces(Len(<<>>) + n))
    BY <1>2
  <2> QED BY <1>1, <2>1, <2>2, <2>3, BeginTyped
<1>6. ASSUME NEW list \in Seq(STRING), EncodeCSV(e, list)
      PROVE  EncInv' /\ pc' # "client" /\ event' = e /\ enc' = "csv"
  <2>1. /\ flags' \subseteq {"ultra", "flat"}
        /\ \/ \E ns \in NamesMade(list) : Begin("csv", e, ns, fmtEventToCSV(e, ns))
           \/ Begin("csv", e, <<>>, <<>>)
    BY <1>6 DEF EncodeCSV
  <2>2. ASSUME NEW ns \in NamesMade(list), Begin("csv", e, ns, fmtEventToCSV(e, ns))
        PROVE  EncInv' /\ pc' # "client" /\ event' = e /\ enc' = "csv"
    <3>1. ns \in Seq(STRING)
      BY NamesMadeType
    <3>2. Len(ns) \in Nat /\ Len(ns) + n \in Nat /\ Len(ns) <= Len(ns) + n
      BY <1>1, <3>1
    <3> HIDE DEF n
    <3>3. fmtEventToCSV(e, ns) \in Seq(Pieces(Len(ns) + n))
      BY <3>1, <3>2, RowType
    <3> QED BY <2>1, <2>2, <3>1, <3>3, BeginTyped DEF n
  <2>3. ASSUME Begin("csv", e, <<>>, <<>>)
        PROVE  EncInv' /\ pc' # "client" /\ event' = e /\ enc' = "csv"
    <3>1. <<>> \in Seq(Pieces(Len(<<>>) + n))
      OBVIOUS
    <3> QED BY <1>1, <2>1, <2>3, <3>1, BeginTyped
  <2> QED BY <2>1, <2>2, <2>3
<1> QED BY <1>3, <1>4, <1>5, <1>6

\* where the appends of a function end, and those of a program that go on
LEMMA EndOfIs ==
  ASSUME NEW U, todo \in Seq(U), NEW k
  PROVE  /\ EndOf(k) \in 1..(Len(todo) + 1)
         /\ EndOf(k) <= Len(todo) => todo[EndOf(k)].in # k
         /\ \A i \in 1..(EndOf(k) - 1) : todo[i].in = k
<1> DEFINE S == {i \in 1..(Len(todo) + 1) : i <= Len(todo) => todo[i].in # k}
<1>1. Len(todo) \in Nat
  OBVIOUS
<1>2. Len(todo) + 1 \in S /\ S \in SUBSET Nat
  BY <1>1
<1>3. EndOf(k) = Min(S)
  BY DEF EndOf
<1>4. EndOf(k) \in S /\ \A i \in S : EndOf(k) <= i
  <2> HIDE DEF S
  <2> QED BY <1>2, <1>3, MinOf
<1> HIDE DEF EndOf
<1> QED BY <1>1, <1>4

LEMMA AppendTyped ==
  ASSUME EncInv, Append1 \/ AppendFails \/ Crash \/ Finish
  PROVE  EncInv' /\ pc' # "client" /\ UNCHANGED call
<1> DEFINE P == Pieces(Len(names) + Len(Fields(event)))
<1>1. pc = "append" /\ UNCHANGED call /\ pc' \in {"append", "done", "crashed"}
  BY DEF EncInv, Append1, AppendFails, Crash, Finish, Goes
<1>2. EventIs(event) /\ names \in Seq(STRING) /\ todo \in Seq(P)
  BY <1>1 DEF EncInv, EncIs
<1>3. /\ todo' \in Seq(P) /\ out' \in Seq(Tokens) /\ fails' \in 0..MaxFails
      /\ r' \in {"minus1", "ok", "nomem"} /\ (pc' # "append" => todo' = <<>>)
  <2>0. /\ <<>> \in Seq(P) /\ out \in Seq(Tokens) /\ fails \in 0..MaxFails
        /\ r \in {"minus1", "ok", "nomem"}
    BY <1>1 DEF EncInv
  <2>1. CASE Append1
    <3>1. todo # <<>> /\ pc' = pc /\ out' = out \o Piece.txt /\ todo' = Tail(todo) /\ fails' = fails
      BY <2>1 DEF Append1, Goes
    <3>2. r' \in {"minus1", "ok", "nomem"}
      BY <2>0, <2>1 DEF Append1
    <3>3. Piece \in P /\ Tail(todo) \in Seq(P)
      BY <1>2, <3>1 DEF Piece
    <3>4. Piece.txt \in Seq(Tokens)
      BY <3>3 DEF Pieces
    <3>5. out \o Piece.txt \in Seq(Tokens)
      BY <2>0, <3>4, ConcatType
    <3> HIDE DEF P
    <3> QED BY <1>1, <2>0, <3>1, <3>2, <3>3, <3>5
  <2>2. CASE AppendFails
    <3>1. /\ todo # <<>> /\ out' = out /\ fails' = fails + 1 /\ fails < MaxFails
          /\ todo' = IF ~Piece.chk THEN Tail(todo)
                     ELSE IF Piece.in = 0 THEN <<>>
                     ELSE SubSeq(todo, EndOf(Piece.in), Len(todo))
          /\ IF Piece.chk /\ Piece.in = 0 THEN pc' = "done" /\ r' = "nomem"
                                          ELSE pc' = pc /\ r' = r
      BY <2>2 DEF AppendFails, Goes
    <3> HIDE DEF P
    <3>2. Tail(todo) \in Seq(P)
      BY <1>2, <3>1
    <3>3. SubSeq(todo, EndOf(Piece.in), Len(todo)) \in Seq(P)
      <4>1. EndOf(Piece.in) \in 1..(Len(todo) + 1)
        BY <1>2, EndOfIs
      <4> QED BY <1>2, <4>1
    <3>4. fails' \in 0..MaxFails
      BY <2>0, <3>1, BoundIs
    <3>5. r' \in {"minus1", "ok", "nomem"} /\ (pc' # "append" => todo' = <<>>)
      BY <1>1, <2>0, <3>1
    <3>6. todo' \in Seq(P)
      BY <2>0, <3>1, <3>2, <3>3
    <3> QED BY <2>0, <3>1, <3>4, <3>5, <3>6
  <2>3. CASE Crash
    BY <2>0, <2>3 DEF Crash
  <2>4. CASE Finish
    <3>1. r' \in {"minus1", "ok", "nomem"}
      BY <2>0, <2>4 DEF Finish
    <3> QED BY <2>0, <2>4, <3>1 DEF Finish
  <2> QED BY <2>1, <2>2, <2>3, <2>4
<1>4. EncIs(event', names', todo')
  BY <1>1, <1>2, <1>3 DEF EncIs, call
<1>5. enc' \in {"none", "syslog", "json", "xml", "csv"} /\ flags' \subseteq {"ultra", "flat"}
  BY <1>1 DEF EncInv, call
<1> HIDE DEF P
<1> QED BY <1>1, <1>3, <1>4, <1>5, EncInvNext

LEMMA TakenTyped == ASSUME EncInv, Taken PROVE EncInv' /\ pc = "done" /\ pc' = "client"
<1>1. <<>> \in Seq(Tokens) /\ 0 \in 0..MaxFails
  BY BoundIs
<1>2. /\ pc = "done" /\ pc' = "client" /\ enc' = "none" /\ flags' = {} /\ fails' = 0
      /\ r' = "none" /\ out' = <<>> /\ todo' = <<>>
  BY DEF Taken
<1> QED BY <1>1, <1>2, EncInvNext

LEMMA EncNextTyped == ASSUME EncInv, EncNext PROVE EncInv'
<1>1. ASSUME NEW e \in Events, Encode(e) PROVE EncInv'
  <2>1. EventIs(e)
    BY EventsAre
  <2>2. NameLists \subseteq Seq(STRING)
    BY EncodersAssumption
  <2> QED BY <1>1, <2>1, <2>2, EncodeTyped DEF Encode
<1> QED BY <1>1, AppendTyped, TakenTyped DEF EncNext

LEMMA EncInitTyped == EncInit => EncInv
<1>1. <<>> \in Seq(Tokens) /\ 0 \in 0..MaxFails
  BY BoundIs
<1> QED BY <1>1 DEF EncInit, EncInv

LEMMA EncStutters == EncInv /\ UNCHANGED encVars => EncInv'
<1> SUFFICES ASSUME EncInv, UNCHANGED encVars PROVE EncInv'
  OBVIOUS
<1>1. /\ pc' = pc /\ enc' = enc /\ flags' = flags /\ event' = event /\ names' = names
      /\ todo' = todo /\ out' = out /\ r' = r /\ fails' = fails
  BY DEF encVars, call
<1> QED BY <1>1, EncInvNext DEF EncInv

----------------------------------------------------------------------------
(* convert.                                                                *)

Coders == {"syslog", "json", "xml", "csv"}
Before == {"library", "start", "options"}
Flags  == SUBSET {"ultra", "flat"}
Prints == [nr : Nat, fmt : Coders]
wanted(k) == [i \in DOMAIN Selected |-> [nr |-> k, fmt |-> Selected[i]]]
left      == [i \in DOMAIN jobs |-> [nr |-> nr, fmt |-> jobs[i]]]

ToolIs ==
  /\ step \in Before \cup {"decoding", "exited", "crashed"}
  /\ encoder \in Coders \cup {"all"}
  /\ encFmt = None \/ encFmt \in Seq(STRING)
  /\ nr \in Nat /\ jobs \in Seq(Coders) /\ printed \in Seq(Prints)
  /\ jobs # <<>> => cur \in Events
  /\ ctx = None \/ ctx \in Flags
  /\ step \in {"options", "decoding"} => ctx \in Flags
  /\ step \in Before => nr = 0 /\ jobs = <<>> /\ printed = <<>>
  /\ step \in {"start", "options"} => pc = "client"
  /\ step = "decoding" /\ pc # "client" =>
       /\ jobs # <<>> /\ event = cur /\ enc = Head(jobs)
       /\ enc = "json" => flags = ctx
  /\ step = "exited" /\ exit = 0 => jobs = <<>>

AllPrinted == printed \o left = FlattenSeq([k \in 1..nr |-> wanted(k)])

ConvInv == EncInv /\ ToolIs /\ AllPrinted

LEMMA ConvHolds == ConvInv => PrintsEachOnce
BY Zenon DEF ConvInv, ToolIs, AllPrinted, PrintsEachOnce, wanted, left

LEMMA SelectedType == ToolIs => Selected \in Seq(Coders)
<1> SUFFICES ASSUME ToolIs PROVE Selected \in Seq(Coders)
  OBVIOUS
<1>1. <<"syslog", "json", "xml">> \in Seq(Coders)
  BY DEF Coders
<1>2. encoder # "all" => <<encoder>> \in Seq(Coders)
  <2>1. encoder # "all" => encoder \in Coders
    BY DEF ToolIs
  <2> QED BY <2>1
<1> QED BY <1>1, <1>2 DEF Selected

LEMMA LeftType == ToolIs => left \in Seq(Prints) /\ Len(left) = Len(jobs)
<1> SUFFICES ASSUME ToolIs PROVE left \in Seq(Prints) /\ Len(left) = Len(jobs)
  OBVIOUS
<1>1. jobs \in Seq(Coders) /\ nr \in Nat
  BY DEF ToolIs
<1>2. DOMAIN jobs = 1..Len(jobs) /\ Len(jobs) \in Nat /\ \A i \in 1..Len(jobs) : jobs[i] \in Coders
  BY <1>1
<1>3. \A i \in 1..Len(jobs) : [nr |-> nr, fmt |-> jobs[i]] \in Prints
  BY <1>1, <1>2 DEF Prints
<1> QED BY <1>2, <1>3 DEF left

LEMMA WantedType == ToolIs => \A k \in Nat : wanted(k) \in Seq(Prints)
<1> SUFFICES ASSUME ToolIs, NEW k \in Nat PROVE wanted(k) \in Seq(Prints)
  OBVIOUS
<1>1. Selected \in Seq(Coders)
  BY SelectedType
<1>2. /\ DOMAIN Selected = 1..Len(Selected) /\ Len(Selected) \in Nat
      /\ \A i \in 1..Len(Selected) : Selected[i] \in Coders
  BY <1>1
<1>3. \A i \in 1..Len(Selected) : [nr |-> k, fmt |-> Selected[i]] \in Prints
  BY <1>2 DEF Prints
<1> QED BY <1>2, <1>3 DEF wanted

\* before the decoder starts there is nothing to print
LEMMA NothingYet == nr = 0 /\ jobs = <<>> /\ printed = <<>> => AllPrinted
<1> SUFFICES ASSUME nr = 0, jobs = <<>>, printed = <<>> PROVE AllPrinted
  OBVIOUS
<1>1. left = <<>>
  BY DEF left
<1>2. [k \in 1..nr |-> wanted(k)] = <<>>
  OBVIOUS
<1>3. FlattenSeq(<<>>) = <<>> /\ <<>> \o <<>> = <<>>
  BY DEF FlattenSeq
<1> QED BY <1>1, <1>2, <1>3, Zenon DEF AllPrinted

\* the primed state, for steps that set everything
LEMMA ToolNext ==
  ASSUME step' \in Before \cup {"decoding", "exited", "crashed"},
         encoder' \in Coders \cup {"all"},
         encFmt' = None \/ encFmt' \in Seq(STRING),
         nr' \in Nat, jobs' \in Seq(Coders), printed' \in Seq(Prints),
         jobs' # <<>> => cur' \in Events,
         ctx' = None \/ ctx' \in Flags,
         step' \in {"options", "decoding"} => ctx' \in Flags,
         step' \in Before => nr' = 0 /\ jobs' = <<>> /\ printed' = <<>>,
         step' \in {"start", "options"} => pc' = "client",
         step' = "decoding" /\ pc' # "client" =>
           /\ jobs' # <<>> /\ event' = cur' /\ enc' = Head(jobs')
           /\ enc' = "json" => flags' = ctx',
         step' = "exited" /\ exit' = 0 => jobs' = <<>>
  PROVE  ToolIs'
BY DEF ToolIs

\* the lines that are to be printed change with these variables only
LEMMA SamePrints ==
  ASSUME AllPrinted, UNCHANGED <<encoder, nr, jobs, printed>>
  PROVE  AllPrinted'
<1>1. encoder' = encoder /\ nr' = nr /\ jobs' = jobs /\ printed' = printed
  OBVIOUS
<1> QED BY <1>1 DEF AllPrinted, wanted, left, Selected

LEMMA NothingYetNext == nr' = 0 /\ jobs' = <<>> /\ printed' = <<>> => AllPrinted'
<1> SUFFICES ASSUME nr' = 0, jobs' = <<>>, printed' = <<>> PROVE AllPrinted'
  OBVIOUS
<1>1. left' = <<>>
  BY DEF left
<1>2. [k \in 1..nr' |-> (wanted(k))'] = <<>>
  OBVIOUS
<1>3. FlattenSeq(<<>>) = <<>> /\ <<>> \o <<>> = <<>>
  BY DEF FlattenSeq
<1> QED BY <1>1, <1>2, <1>3, Zenon DEF AllPrinted

(* A step that is about the context, an option or the end of main.         *)
Calm == /\ UNCHANGED <<encVars, nr, cur, jobs, printed>>
        /\ UNCHANGED encoder \/ step \in Before

LEMMA CalmKeeps ==
  ASSUME ConvInv, Calm,
         step' \in Before \cup {"decoding", "exited", "crashed"},
         step' \in Before => step \in Before,
         encoder' \in Coders \cup {"all"}, encFmt' = None \/ encFmt' \in Seq(STRING),
         ctx' = None \/ ctx' \in Flags,
         step' \in {"options", "decoding"} => ctx' \in Flags,
         step' \in {"start", "options", "decoding"} => pc = "client",
         step' = "exited" /\ exit' = 0 => jobs = <<>>
  PROVE  ConvInv'
<1>1. /\ pc' = pc /\ enc' = enc /\ flags' = flags /\ event' = event
      /\ nr' = nr /\ cur' = cur /\ jobs' = jobs /\ printed' = printed
      /\ encoder' = encoder \/ step \in Before
  BY DEF Calm, encVars, call
<1>2. EncInv'
  BY EncStutters DEF ConvInv, Calm
<1>3. ToolIs'
  <2>1. /\ nr \in Nat /\ jobs \in Seq(Coders) /\ printed \in Seq(Prints)
        /\ jobs # <<>> => cur \in Events
        /\ step \in Before => nr = 0 /\ jobs = <<>> /\ printed = <<>>
    BY DEF ConvInv, ToolIs
  <2> QED BY <1>1, <2>1, ToolNext
<1>4. AllPrinted'
  <2>1. CASE encoder' = encoder
    BY <1>1, <2>1, SamePrints DEF ConvInv
  <2>2. CASE step \in Before
    <3>1. nr' = 0 /\ jobs' = <<>> /\ printed' = <<>>
      BY <1>1, <2>2 DEF ConvInv, ToolIs
    <3> QED BY <3>1, NothingYetNext
  <2> QED BY <1>1, <2>1, <2>2
<1> QED BY <1>2, <1>3, <1>4 DEF ConvInv

LEMMA ConvInit == ConvertInit => ConvInv
<1> SUFFICES ASSUME ConvertInit PROVE ConvInv
  OBVIOUS
<1>1. /\ EncInit /\ step \in {"library", "start"} /\ ctx = None /\ encoder = "syslog"
      /\ encFmt = None /\ nr = 0 /\ jobs = <<>> /\ printed = <<>>
  BY DEF ConvertInit
<1>2. pc = "client"
  BY <1>1 DEF EncInit
<1>3. ToolIs
  <2>1. <<>> \in Seq(Coders) /\ <<>> \in Seq(Prints) /\ 0 \in Nat
    OBVIOUS
  <2> QED BY <1>1, <1>2, <2>1 DEF ToolIs, Before, Coders
<1> QED BY <1>1, <1>3, EncInitTyped, NothingYet DEF ConvInv

\* the steps of main and of the program's own context
LEMMA CalmSteps ==
  ASSUME ConvInv,
         \/ initCtx \/ exitCtx
         \/ \E fl \in SUBSET {"ultra", "flat"} : setFlags(fl)
         \/ Refused \/ setEncUltraCompact \/ StartDecoder \/ NameListFails
         \/ \E e \in {"syslog", "json", "xml", "csv", "all"} : ChooseEncoder(e)
         \/ \E list \in Formats : ChooseFormat(list)
         \/ DecoderDone \/ DecoderFails \/ NoFormat \/ ShowFails
  PROVE  ConvInv'
<1>0. /\ step \in Before \cup {"decoding", "exited", "crashed"}
      /\ encoder \in Coders \cup {"all"} /\ (encFmt = None \/ encFmt \in Seq(STRING))
      /\ ctx = None \/ ctx \in Flags
      /\ step \in {"options", "decoding"} => ctx \in Flags
      /\ step \in {"start", "options"} => pc = "client"
      /\ step = "exited" /\ exit = 0 => jobs = <<>>
  BY DEF ConvInv, ToolIs
<1>1. CASE initCtx
  <2>1. Calm /\ UNCHANGED <<encoder, encFmt>> /\ ctx' = {} /\ step \in {"library", "start"}
        /\ step' = IF step = "start" THEN "options" ELSE step
    BY <1>1 DEF initCtx, Quiet, Calm, output, options
  <2>2. {} \in Flags /\ step' \in {"library", "options"} /\ (step' = "options" => step = "start")
    BY <2>1 DEF Flags
  <2> QED BY <1>0, <2>1, <2>2, CalmKeeps DEF Before
<1>2. CASE exitCtx
  <2>1. Calm /\ UNCHANGED <<encoder, encFmt, step>> /\ ctx' = None /\ step = "library"
    BY <1>2 DEF exitCtx, Quiet, Calm, output, options
  <2> QED BY <1>0, <2>1, CalmKeeps DEF Before
<1>3. CASE \E fl \in SUBSET {"ultra", "flat"} : setFlags(fl)
  <2>1. PICK fl \in SUBSET {"ultra", "flat"} : setFlags(fl)
    BY <1>3
  <2>2. /\ Calm /\ UNCHANGED <<encoder, encFmt, step>> /\ ctx' = ctx \cup fl /\ step = "library"
        /\ ctx \in Flags
    BY <1>0, <2>1 DEF setFlags, Quiet, Calm, output, options
  <2>3. ctx' \in Flags
    BY <2>2 DEF Flags
  <2> QED BY <1>0, <2>2, <2>3, CalmKeeps DEF Before
<1>4. CASE setEncUltraCompact
  <2>1. Calm /\ UNCHANGED <<encoder, encFmt, step>> /\ ctx' = ctx \cup {"ultra"} /\ step = "options"
    BY <1>4 DEF setEncUltraCompact, Quiet, Calm, output, options
  <2>2. ctx' \in Flags
    BY <1>0, <2>1 DEF Flags
  <2> QED BY <1>0, <2>1, <2>2, CalmKeeps DEF Before
<1>5. CASE StartDecoder
  <2>1. Calm /\ UNCHANGED <<encoder, encFmt, ctx>> /\ step' = "decoding" /\ step = "options"
    BY <1>5 DEF StartDecoder, Quiet, Calm, output, options
  <2> QED BY <1>0, <2>1, CalmKeeps DEF Before
<1>6. CASE \E e \in {"syslog", "json", "xml", "csv", "all"} : ChooseEncoder(e)
  <2>1. PICK e \in Coders \cup {"all"} : ChooseEncoder(e)
    BY <1>6 DEF Coders
  <2>2. Calm /\ UNCHANGED <<ctx, encFmt, step>> /\ encoder' = e /\ step = "options"
    BY <2>1 DEF ChooseEncoder, Quiet, Calm, output, Before
  <2> QED BY <1>0, <2>2, CalmKeeps DEF Before
<1>7. CASE \E list \in Formats : ChooseFormat(list)
  <2>1. PICK list \in Formats : ChooseFormat(list)
    BY <1>7
  <2>2. /\ Calm /\ UNCHANGED <<ctx, encoder, step>> /\ (encFmt' = list \/ encFmt' = None)
        /\ step = "options"
    BY <2>1 DEF ChooseFormat, Quiet, Calm, output
  <2>3. list \in Seq(STRING)
    BY ConvertAssumption
  <2> QED BY <1>0, <2>2, <2>3, CalmKeeps DEF Before
<1>8. ASSUME NEW how \in {"exited", "crashed"}, NEW code, Stop(how, code),
             ctx' = ctx \/ ctx' = None, code = 0 => jobs = <<>>
      PROVE  ConvInv'
  <2>1. Calm /\ UNCHANGED <<encoder, encFmt>> /\ step' = how /\ exit' = code
    BY <1>8 DEF Stop, Calm, output, options
  <2> QED BY <1>0, <1>8, <2>1, CalmKeeps DEF Before
<1>9. errout => ConvInv'
  BY <1>8 DEF errout
<1>10. CASE Abort
  <2>1. Calm /\ UNCHANGED <<encoder, encFmt, ctx>> /\ step' = "crashed"
    BY <1>10 DEF Abort, Stop, Calm, output, options
  <2> QED BY <1>0, <2>1, CalmKeeps DEF Before
<1>11. CASE DecoderDone
  <2>1. jobs = <<>> /\ Stop("exited", 0) /\ ctx' = None
    BY <1>11 DEF DecoderDone, Idle
  <2> QED BY <1>8, <2>1
<1>12. CASE Refused \/ NameListFails \/ DecoderFails \/ NoFormat \/ ShowFails
  BY <1>9, <1>10, <1>12 DEF Refused, NameListFails, DecoderFails, NoFormat, ShowFails
<1> QED BY <1>1, <1>2, <1>3, <1>4, <1>5, <1>6, <1>7, <1>11, <1>12

LEMMA LibraryStep == ASSUME ConvInv, LibraryCalls PROVE ConvInv'
<1>1. step = "library" /\ EncNext /\ UNCHANGED tool
  BY DEF LibraryCalls
<1>2. EncInv'
  BY <1>1, EncNextTyped DEF ConvInv
<1>3. /\ step' = step /\ ctx' = ctx /\ encoder' = encoder /\ encFmt' = encFmt /\ nr' = nr
      /\ cur' = cur /\ jobs' = jobs /\ printed' = printed /\ exit' = exit
  BY <1>1 DEF tool, options, output
<1>4. ToolIs'
  <2>1. /\ encoder \in Coders \cup {"all"} /\ (encFmt = None \/ encFmt \in Seq(STRING))
        /\ nr \in Nat /\ jobs \in Seq(Coders) /\ printed \in Seq(Prints)
        /\ ctx = None \/ ctx \in Flags
        /\ nr = 0 /\ jobs = <<>> /\ printed = <<>>
    BY <1>1 DEF ConvInv, ToolIs, Before
  <2> QED BY <1>1, <1>3, <2>1, ToolNext DEF Before
<1>5. AllPrinted'
  BY <1>3, SamePrints DEF ConvInv
<1> QED BY <1>2, <1>4, <1>5 DEF ConvInv

LEMMA HandOverStep == ASSUME ConvInv, NEW e \in Decoded, HandOver(e) PROVE ConvInv'
<1>1. /\ step = "decoding" /\ pc = "client" /\ jobs = <<>> /\ nr' = nr + 1 /\ cur' = e
      /\ jobs' = Selected /\ UNCHANGED encVars
      /\ step' = step /\ ctx' = ctx /\ encoder' = encoder /\ encFmt' = encFmt
      /\ printed' = printed
  BY DEF HandOver, Idle, options
<1>2. pc' = pc
  BY <1>1 DEF encVars
<1>3. ToolIs /\ AllPrinted /\ nr \in Nat /\ printed \in Seq(Prints)
  BY DEF ConvInv, ToolIs
<1>4. ToolIs'
  <2>1. /\ encoder \in Coders \cup {"all"} /\ (encFmt = None \/ encFmt \in Seq(STRING))
        /\ ctx \in Flags
    BY <1>1, <1>3 DEF ToolIs
  <2>2. e \in Events /\ Selected \in Seq(Coders) /\ nr + 1 \in Nat
    BY <1>3, SelectedType, ConvertAssumption
  <2> QED BY <1>1, <1>2, <1>3, <2>1, <2>2, ToolNext DEF Before
<1>5. AllPrinted'
  <2> DEFINE s == [k \in 1..nr |-> wanted(k)]
             t == [k \in 1..(nr + 1) |-> wanted(k)]
  <2>1. left = <<>> /\ printed = FlattenSeq(s)
    <3>1. left = <<>>
      BY <1>1 DEF left
    <3>2. printed \o <<>> = printed
      BY <1>3
    <3> QED BY <1>3, <3>1, <3>2 DEF AllPrinted
  <2>2. Selected' = Selected
    BY <1>1 DEF Selected
  <2>3. left' = wanted(nr + 1)
    BY <1>1, <2>2 DEF left, wanted
  <2>4. \A k \in Nat : wanted(k) \in Seq(Prints)
    BY <1>3, WantedType
  <2>5. s \in Seq(Seq(Prints)) /\ Len(s) = nr
    <3> HIDE DEF wanted
    <3> QED BY <1>3, <2>4
  <2>6. t = Append(s, wanted(nr + 1))
    <3>1. t \in Seq(Seq(Prints)) /\ Len(t) = nr + 1
      <4> HIDE DEF wanted
      <4> QED BY <1>3, <2>4
    <3>2. \A k \in 1..nr : t[k] = s[k]
      <4> HIDE DEF wanted
      <4> QED BY <1>3
    <3>3. t[nr + 1] = wanted(nr + 1)
      <4> HIDE DEF wanted
      <4> QED BY <1>3
    <3>4. wanted(nr + 1) \in Seq(Prints)
      BY <1>3, <2>4
    <3> HIDE DEF s, t, wanted
    <3>5. /\ Append(s, wanted(nr + 1)) \in Seq(Seq(Prints))
          /\ Len(Append(s, wanted(nr + 1))) = nr + 1
          /\ \A k \in 1..nr : Append(s, wanted(nr + 1))[k] = s[k]
          /\ Append(s, wanted(nr + 1))[nr + 1] = wanted(nr + 1)
      BY <1>3, <2>5, <3>4, AppendProperties
    <3>6. \A k \in 1..(nr + 1) : t[k] = Append(s, wanted(nr + 1))[k]
      <4>1. \A k \in 1..(nr + 1) : k \in 1..nr \/ k = nr + 1
        BY <1>3
      <4> QED BY <3>2, <3>3, <3>5, <4>1
    <3> QED BY <1>3, <3>1, <3>5, <3>6, SeqEqual
  <2>7. FlattenSeq(t) = FlattenSeq(s) \o wanted(nr + 1)
    <3>1. wanted(nr + 1) \in Seq(Prints)
      BY <1>3, <2>4
    <3> HIDE DEF s, t, wanted
    <3> QED BY <2>5, <2>6, <3>1, FlattenAppend
  <2>8. [k \in 1..nr' |-> (wanted(k))'] = t
    BY <1>1, <2>2 DEF wanted
  <2> HIDE DEF s, t
  <2>9. printed' \o left' = FlattenSeq(t)
    BY <1>1, <2>1, <2>3, <2>7
  <2> QED BY <2>8, <2>9 DEF AllPrinted
<1>6. EncInv'
  BY <1>1, EncStutters DEF ConvInv
<1> QED BY <1>4, <1>5, <1>6 DEF ConvInv

LEMMA CallStep == ASSUME ConvInv, CallEncoder PROVE ConvInv'
<1>1. step = "decoding" /\ pc = "client" /\ jobs # <<>> /\ UNCHANGED tool
  BY DEF CallEncoder
<1>2. /\ step' = step /\ ctx' = ctx /\ encoder' = encoder /\ encFmt' = encFmt /\ nr' = nr
      /\ cur' = cur /\ jobs' = jobs /\ printed' = printed /\ exit' = exit
  BY <1>1 DEF tool, options, output
<1>3. /\ EncInv /\ jobs \in Seq(Coders) /\ cur \in Events /\ ctx \in Flags
      /\ encoder \in Coders \cup {"all"} /\ (encFmt = None \/ encFmt \in Seq(STRING))
      /\ nr \in Nat /\ printed \in Seq(Prints)
  BY <1>1 DEF ConvInv, ToolIs
<1>4. EventIs(cur) /\ Head(jobs) \in Coders
  BY <1>1, <1>3, EventsAre
<1>5. /\ EncInv' /\ pc' # "client" /\ event' = cur /\ enc' = Head(jobs)
      /\ enc' = "json" => flags' = ctx
  <2>1. CASE Head(jobs) = "syslog"
    <3>1. EncodeSyslog(cur)
      BY <2>1 DEF CallEncoder
    <3> QED BY <1>3, <1>4, <2>1, <3>1, EncodeTyped
  <2>2. CASE Head(jobs) = "json"
    <3>1. EncodeJSON(cur, ctx)
      BY <2>2 DEF CallEncoder
    <3>2. ctx \in SUBSET {"ultra", "flat"}
      BY <1>3 DEF Flags
    <3> QED BY <1>3, <1>4, <2>2, <3>1, <3>2, EncodeTyped
  <2>3. CASE Head(jobs) = "xml"
    <3>1. EncodeXML(cur)
      BY <2>3 DEF CallEncoder
    <3> QED BY <1>3, <1>4, <2>3, <3>1, EncodeTyped
  <2>4. CASE Head(jobs) = "csv"
    <3>1. encFmt # None /\ EncodeCSV(cur, encFmt)
      BY <2>4 DEF CallEncoder
    <3> QED BY <1>3, <1>4, <2>4, <3>1, EncodeTyped
  <2> QED BY <1>4, <2>1, <2>2, <2>3, <2>4 DEF Coders
<1>6. ToolIs'
  BY <1>1, <1>2, <1>3, <1>5, ToolNext DEF Before
<1>7. AllPrinted'
  BY <1>2, SamePrints DEF ConvInv
<1> QED BY <1>5, <1>6, <1>7 DEF ConvInv

LEMMA RunStep == ASSUME ConvInv, EncoderRuns PROVE ConvInv'
<1>1. step = "decoding" /\ (Append1 \/ AppendFails \/ Crash \/ Finish) /\ UNCHANGED tool
  BY DEF EncoderRuns
<1>2. /\ step' = step /\ ctx' = ctx /\ encoder' = encoder /\ encFmt' = encFmt /\ nr' = nr
      /\ cur' = cur /\ jobs' = jobs /\ printed' = printed /\ exit' = exit
  BY <1>1 DEF tool, options, output
<1>3. EncInv' /\ pc' # "client" /\ UNCHANGED call
  BY <1>1, AppendTyped DEF ConvInv
<1>4. pc # "client" /\ enc' = enc /\ flags' = flags /\ event' = event
  BY <1>1, <1>3 DEF Append1, AppendFails, Crash, Finish, Goes, call
<1>5. ToolIs'
  <2>1. /\ encoder \in Coders \cup {"all"} /\ (encFmt = None \/ encFmt \in Seq(STRING))
        /\ nr \in Nat /\ jobs \in Seq(Coders) /\ printed \in Seq(Prints) /\ ctx \in Flags
        /\ jobs # <<>> /\ cur \in Events /\ event = cur /\ enc = Head(jobs)
        /\ enc = "json" => flags = ctx
    BY <1>1, <1>4 DEF ConvInv, ToolIs
  <2> QED BY <1>1, <1>2, <1>4, <2>1, ToolNext DEF Before
<1>6. AllPrinted'
  BY <1>2, SamePrints DEF ConvInv
<1> QED BY <1>3, <1>5, <1>6 DEF ConvInv

LEMMA ShowStep == ASSUME ConvInv, ShowOutput PROVE ConvInv'
<1>1. /\ step = "decoding" /\ pc = "done" /\ Taken /\ jobs' = Tail(jobs)
      /\ printed' = Append(printed, [nr |-> nr, fmt |-> Head(jobs)])
      /\ step' = step /\ ctx' = ctx /\ encoder' = encoder /\ encFmt' = encFmt /\ nr' = nr
      /\ cur' = cur /\ exit' = exit
  BY DEF ShowOutput, options
<1>2. EncInv' /\ pc' = "client"
  BY <1>1, TakenTyped DEF ConvInv
<1>3. /\ ToolIs /\ AllPrinted /\ nr \in Nat /\ printed \in Seq(Prints) /\ jobs \in Seq(Coders)
      /\ jobs # <<>> /\ cur \in Events /\ ctx \in Flags
      /\ encoder \in Coders \cup {"all"} /\ (encFmt = None \/ encFmt \in Seq(STRING))
  BY <1>1 DEF ConvInv, ToolIs
<1> DEFINE p == [nr |-> nr, fmt |-> Head(jobs)]
<1>4. /\ p \in Prints /\ Tail(jobs) \in Seq(Coders) /\ Append(printed, p) \in Seq(Prints)
  BY <1>3 DEF Prints
<1>5. ToolIs'
  BY <1>1, <1>2, <1>3, <1>4, ToolNext DEF Before
<1>6. AllPrinted'
  <2>1. left \in Seq(Prints) /\ left # <<>> /\ p = left[1] /\ left' = Tail(left)
    <3>1. /\ Len(jobs) \in Nat /\ Len(jobs) # 0 /\ Tail(jobs) \in Seq(Coders)
          /\ Len(Tail(jobs)) = Len(jobs) - 1 /\ DOMAIN jobs = 1..Len(jobs)
          /\ \A i \in 1..(Len(jobs) - 1) : Tail(jobs)[i] = jobs[i + 1]
      BY <1>3
    <3>2. left = [i \in 1..Len(jobs) |-> [nr |-> nr, fmt |-> jobs[i]]]
      BY <3>1 DEF left
    <3>3. left \in Seq(Prints) /\ Len(left) = Len(jobs)
      BY <1>3, LeftType
    <3>4. p = left[1]
      BY <1>3, <3>1, <3>2
    <3>5. left' = [i \in 1..(Len(jobs) - 1) |-> [nr |-> nr, fmt |-> jobs[i + 1]]]
      <4>1. left' = [i \in 1..(Len(jobs) - 1) |-> [nr |-> nr, fmt |-> Tail(jobs)[i]]]
        BY <1>1, <3>1 DEF left
      <4> QED BY <3>1, <4>1
    <3>6. /\ Tail(left) \in Seq(Prints) /\ Len(Tail(left)) = Len(jobs) - 1
          /\ \A i \in 1..(Len(jobs) - 1) : Tail(left)[i] = left[i + 1]
      <4> HIDE DEF left
      <4>1. left # <<>> /\ Len(left) \in Nat
        BY <3>1, <3>3
      <4> QED BY <3>1, <3>3, <4>1
    <3>7. \A i \in 1..(Len(jobs) - 1) : left[i + 1] = [nr |-> nr, fmt |-> jobs[i + 1]]
      BY <3>1, <3>2
    <3>8. left' = Tail(left)
      <4> HIDE DEF left
      <4>1. /\ DOMAIN left' = 1..(Len(jobs) - 1) /\ left' = [i \in 1..(Len(jobs) - 1) |-> left'[i]]
            /\ \A i \in 1..(Len(jobs) - 1) : left'[i] = left[i + 1]
        BY <3>5, <3>7
      <4>2. Len(jobs) - 1 \in Nat
        BY <3>1
      <4>3. \A i \in 1..(Len(jobs) - 1) : left'[i] \in Prints
        BY <3>6, <4>1, <4>2
      <4>4. left' \in Seq(Prints) /\ Len(left') = Len(jobs) - 1
        BY <4>1, <4>2, <4>3
      <4> QED BY <3>6, <4>1, <4>4, SeqEqual
    <3>9. left # <<>>
      BY <3>1, <3>3
    <3> QED BY <3>3, <3>4, <3>8, <3>9
  <2>2. printed \o left = Append(printed, p) \o Tail(left)
    <3> HIDE DEF left, p
    <3>1. left = <<p>> \o Tail(left) /\ Tail(left) \in Seq(Prints) /\ <<p>> \in Seq(Prints)
      BY <1>4, <2>1
    <3>2. Append(printed, p) = printed \o <<p>>
      BY <1>3, <1>4
    <3> QED BY <1>3, <3>1, <3>2, ConcatAssociative
  <2>3. [k \in 1..nr' |-> (wanted(k))'] = [k \in 1..nr |-> wanted(k)]
    BY <1>1 DEF wanted, Selected
  <2>4. printed' \o left' = printed \o left
    BY <1>1, <2>1, <2>2
  <2> QED BY <1>3, <2>3, <2>4 DEF AllPrinted
<1> QED BY <1>2, <1>5, <1>6 DEF ConvInv

LEMMA ConvStep == ASSUME ConvInv, [ConvertNext]_<<encVars, tool>> PROVE ConvInv'
<1>1. CASE UNCHANGED <<encVars, tool>>
  <2>1. /\ step' = step /\ ctx' = ctx /\ encoder' = encoder /\ encFmt' = encFmt /\ nr' = nr
        /\ cur' = cur /\ jobs' = jobs /\ printed' = printed /\ exit' = exit /\ UNCHANGED encVars
    BY <1>1 DEF tool, options, output
  <2>2. EncInv'
    BY <2>1, EncStutters DEF ConvInv
  <2>3. pc' = pc /\ enc' = enc /\ flags' = flags /\ event' = event
    BY <2>1 DEF encVars, call
  <2>4. ToolIs'
    BY <2>1, <2>3, ToolNext DEF ConvInv, ToolIs
  <2>5. AllPrinted'
    BY <2>1, SamePrints DEF ConvInv
  <2> QED BY <2>2, <2>4, <2>5 DEF ConvInv
<1>2. CASE ConvertNext
  BY <1>2, LibraryStep, HandOverStep, CallStep, RunStep, ShowStep, CalmSteps DEF ConvertNext
<1> QED BY <1>1, <1>2

LEMMA ConvInvariant == ConvertSpec => []ConvInv
<1>1. ConvInv /\ [ConvertNext]_<<encVars, tool>> => ConvInv'
  BY ConvStep
<1> QED BY ConvInit, <1>1, PTL DEF ConvertSpec

(* Every variable of an encoder has its type, and each append that is      *)
(* still to do belongs to the event or to one of its fields.               *)
THEOREM EncodersTyped == ConvertSpec => []EncTypeOK
<1>1. ConvInv => EncTypeOK
  BY EncTyped DEF ConvInv
<1> QED BY ConvInvariant, <1>1, PTL

(* convert prints each decoded event once in each chosen format, in order. *)
THEOREM EventsPrinted == ConvertSpec => []PrintsEachOnce
BY ConvInvariant, ConvHolds, PTL

----------------------------------------------------------------------------
(* Reading a text from one state of the reader to another, and reading     *)
(* what the appends of a program write.                                    *)

Reads(e, t, s, u) ==
  \E g : /\ g[0] = t /\ g[Len(s)] = u
         /\ \A i \in 1..Len(s) : g[i] = Reader(e, g[i - 1], s[i])

LEMMA ReadsNone == ASSUME NEW e, NEW t PROVE Reads(e, t, <<>>, t)
<1> DEFINE g == [i \in {0} |-> t]
<1>1. g[0] = t /\ Len(<<>>) = 0 /\ \A i \in 1..0 : g[i] = Reader(e, g[i - 1], <<>>[i])
  OBVIOUS
<1> HIDE DEF g
<1> QED BY <1>1 DEF Reads

LEMMA ReadsOn ==
  ASSUME NEW e, NEW t, NEW u, NEW U, NEW s \in Seq(U), NEW c \in U, Reads(e, t, s, u)
  PROVE  Reads(e, t, Append(s, c), Reader(e, u, c))
<1> DEFINE n == Len(s)
           a == Append(s, c)
           last == Reader(e, u, c)
<1>1. n \in Nat /\ Len(a) = n + 1 /\ a[n + 1] = c /\ \A i \in 1..n : a[i] = s[i]
  BY AppendProperties
<1>2. PICK g : /\ g[0] = t /\ g[n] = u
               /\ \A i \in 1..n : g[i] = Reader(e, g[i - 1], s[i])
  BY DEF Reads
<1> DEFINE h == [i \in 0..(n + 1) |-> IF i = n + 1 THEN last ELSE g[i]]
<1> HIDE DEF n, a
<1>3. h[0] = t /\ h[n] = u /\ h[n + 1] = last
  BY <1>1, <1>2
<1>4. ASSUME NEW i \in 1..(n + 1) PROVE h[i] = Reader(e, h[i - 1], a[i])
  <2>1. CASE i = n + 1
    <3>1. i - 1 = n
      BY <1>1, <2>1
    <3> HIDE DEF h
    <3> QED BY <1>1, <1>3, <2>1, <3>1 DEF last
  <2>2. CASE i # n + 1
    <3>1. i \in 1..n /\ i - 1 \in 0..(n + 1) /\ i - 1 # n + 1 /\ i \in 0..(n + 1)
      BY <1>1, <2>2
    <3>2. h[i] = g[i] /\ h[i - 1] = g[i - 1]
      BY <2>2, <3>1
    <3> HIDE DEF h
    <3> QED BY <1>1, <1>2, <3>1, <3>2
  <2> QED BY <2>1, <2>2
<1> HIDE DEF h, last
<1>5. Reads(e, t, a, last)
  BY <1>1, <1>3, <1>4 DEF Reads
<1> QED BY <1>5 DEF a, last

LEMMA ReadsConcat ==
  ASSUME NEW e, NEW t, NEW u, NEW w, NEW U, NEW a \in Seq(U), NEW b \in Seq(U),
         Reads(e, t, a, u), Reads(e, u, b, w)
  PROVE  Reads(e, t, a \o b, w)
<1> DEFINE m == Len(a)
           n == Len(b)
           c == a \o b
<1>1. /\ m \in Nat /\ n \in Nat /\ Len(c) = m + n /\ \A i \in 1..m : c[i] = a[i]
      /\ \A i \in (m + 1)..(m + n) : c[i] = b[i - m]
  BY ConcatProperties
<1>2. PICK g : g[0] = t /\ g[m] = u /\ \A i \in 1..m : g[i] = Reader(e, g[i - 1], a[i])
  BY DEF Reads
<1>3. PICK h : h[0] = u /\ h[n] = w /\ \A i \in 1..n : h[i] = Reader(e, h[i - 1], b[i])
  BY DEF Reads
<1> DEFINE k == [i \in 0..(m + n) |-> IF i <= m THEN g[i] ELSE h[i - m]]
<1> HIDE DEF m, n, c
<1>4. k[0] = t
  BY <1>1, <1>2
<1>5. k[m + n] = w
  <2>1. CASE n = 0
    BY <1>1, <1>2, <1>3, <2>1
  <2>2. CASE n # 0
    <3>1. m + n \in 0..(m + n) /\ ~(m + n <= m) /\ (m + n) - m = n
      BY <1>1, <2>2
    <3>2. k[m + n] = h[n]
      BY <3>1
    <3> QED BY <1>3, <3>2
  <2> QED BY <2>1, <2>2
<1>6. ASSUME NEW i \in 1..(m + n) PROVE k[i] = Reader(e, k[i - 1], c[i])
  <2>1. CASE i <= m
    <3>1. i \in 1..m /\ i - 1 \in 0..(m + n) /\ i - 1 <= m /\ i \in 0..(m + n)
      BY <1>1, <2>1
    <3>2. k[i] = g[i] /\ k[i - 1] = g[i - 1]
      BY <2>1, <3>1
    <3> HIDE DEF k
    <3> QED BY <1>1, <1>2, <3>1, <3>2
  <2>2. CASE i > m
    <3>1. /\ i - m \in 1..n /\ i - 1 \in 0..(m + n) /\ i \in 0..(m + n)
          /\ i \in (m + 1)..(m + n) /\ ~(i <= m) /\ (i - 1) - m = (i - m) - 1
      BY <1>1, <2>2
    <3>2. k[i] = h[i - m]
      BY <3>1
    <3>3. k[i - 1] = h[(i - m) - 1]
      <4>1. CASE i - 1 = m
        <5>1. (i - m) - 1 = 0 /\ i - 1 <= m
          BY <1>1, <4>1
        <5>2. k[i - 1] = g[m]
          BY <3>1, <4>1, <5>1
        <5> QED BY <1>2, <1>3, <5>1, <5>2
      <4>2. CASE i - 1 # m
        <5>1. ~(i - 1 <= m)
          BY <1>1, <2>2, <4>2
        <5> QED BY <3>1, <5>1
      <4> QED BY <4>1, <4>2
    <3> HIDE DEF k
    <3>4. h[i - m] = Reader(e, h[(i - m) - 1], b[i - m])
      BY <1>3, <3>1
    <3> QED BY <1>1, <3>1, <3>2, <3>3, <3>4
  <2> QED BY <1>1, <2>1, <2>2
<1> HIDE DEF k
<1>7. Reads(e, t, c, w)
  BY <1>1, <1>4, <1>5, <1>6 DEF Reads
<1> QED BY <1>7 DEF c

\* the reader's states while it reads the first n tokens of out
Readings(g, n) ==
  g = [o \in 0..n |-> IF o = 0 THEN Start ELSE Reader(enc, g[o - 1], out[o])]

LEMMA ReadingsExist == ASSUME NEW m \in Nat PROVE \E g : Readings(g, m)
<1> DEFINE T == {n \in Nat : ~\E g : Readings(g, n)}
<1> SUFFICES ASSUME T # {} PROVE FALSE
  OBVIOUS
<1>1. PICK n \in T : \A k \in T : n <= k
  <2>1. T \in SUBSET Nat
    OBVIOUS
  <2> HIDE DEF T
  <2> QED BY <2>1, Least
<1>2. ~\E g : Readings(g, n)
  OBVIOUS
<1>3. n # 0
  <2> SUFFICES ASSUME n = 0 PROVE FALSE
    OBVIOUS
  <2> DEFINE g == [o \in 0..0 |-> Start]
  <2>1. g = [o \in 0..0 |-> IF o = 0 THEN Start ELSE Reader(enc, g[o - 1], out[o])]
    OBVIOUS
  <2> HIDE DEF g
  <2>2. Readings(g, 0)
    BY <2>1 DEF Readings
  <2> QED BY <1>2, <2>2
<1>4. n - 1 \in Nat /\ n - 1 \notin T
  BY <1>1, <1>3
<1>5. PICK g : Readings(g, n - 1)
  BY <1>4
<1> DEFINE h == [o \in 0..n |-> IF o = n THEN Reader(enc, g[n - 1], out[n]) ELSE g[o]]
<1>6. \A o \in 0..n : h[o] = IF o = 0 THEN Start ELSE Reader(enc, h[o - 1], out[o])
  <2> SUFFICES ASSUME NEW o \in 0..n
               PROVE  h[o] = IF o = 0 THEN Start ELSE Reader(enc, h[o - 1], out[o])
    OBVIOUS
  <2>1. CASE o = n
    <3>1. n - 1 \in 0..n /\ n - 1 # n
      BY <1>4
    <3> QED BY <1>3, <2>1, <3>1
  <2>2. CASE o # n
    <3>1. /\ o \in 0..(n - 1) /\ h[o] = g[o]
          /\ o # 0 => o - 1 \in 0..n /\ o - 1 # n /\ h[o - 1] = g[o - 1]
      BY <2>2
    <3>2. g[o] = IF o = 0 THEN Start ELSE Reader(enc, g[o - 1], out[o])
      BY <1>5, <3>1 DEF Readings
    <3> QED BY <3>1, <3>2
  <2> QED BY <2>1, <2>2
<1>7. h = [o \in 0..n |-> h[o]]
  OBVIOUS
<1> HIDE DEF h
<1>8. Readings(h, n)
  BY <1>6, <1>7 DEF Readings
<1> QED BY <1>2, <1>8

\* Read is the state in which reading the output ends.
LEMMA ReadIs ==
  ASSUME NEW U, out \in Seq(U), NEW u, Reads(enc, Start, out, u)
  PROVE  Read = u
<1> DEFINE n == Len(out)
           h == CHOOSE f : f = [o \in 0..n |->
                                 IF o = 0 THEN Start ELSE Reader(enc, f[o - 1], out[o])]
<1>1. n \in Nat
  OBVIOUS
<1>2. Readings(h, n)
  <2>1. PICK f : Readings(f, n)
    BY <1>1, ReadingsExist
  <2> QED BY <2>1 DEF Readings
<1>3. Read = h[n]
  BY DEF Read
<1> HIDE DEF h, n
<1>4. \A o \in 0..n : h[o] = IF o = 0 THEN Start ELSE Reader(enc, h[o - 1], out[o])
  BY <1>2, Zenon DEF Readings
<1>5. PICK g : g[0] = Start /\ g[n] = u /\ \A i \in 1..n : g[i] = Reader(enc, g[i - 1], out[i])
  BY DEF Reads, n
<1> DEFINE T == {o \in 0..n : h[o] # g[o]}
<1>6. T = {}
  <2> SUFFICES ASSUME T # {} PROVE FALSE
    OBVIOUS
  <2>1. PICK o \in T : \A k \in T : o <= k
    <3>1. T \in SUBSET Nat
      BY <1>1
    <3> HIDE DEF T
    <3> QED BY <3>1, Least
  <2>2. o \in 0..n /\ h[o] # g[o]
    OBVIOUS
  <2>3. o # 0
    BY <1>1, <1>4, <1>5, <2>2
  <2>4. o \in 1..n /\ o - 1 \in 0..n /\ ~(o <= o - 1)
    BY <1>1, <2>2, <2>3
  <2>5. h[o - 1] = g[o - 1]
    <3>1. o - 1 \notin T
      <4> HIDE DEF T
      <4> QED BY <2>1, <2>4
    <3> QED BY <2>4, <3>1
  <2>6. h[o] = Reader(enc, h[o - 1], out[o]) /\ g[o] = Reader(enc, g[o - 1], out[o])
    BY <1>4, <1>5, <2>2, <2>3, <2>4
  <2> QED BY <2>2, <2>5, <2>6
<1>7. n \in 0..n
  BY <1>1
<1> QED BY <1>3, <1>5, <1>6, <1>7

\* what the appends of a program write when none fails
TextOf(td) == FlattenSeq([i \in 1..Len(td) |-> td[i].txt])
Runs(e, t, td, u) == Reads(e, t, TextOf(td), u)

LEMMA TextOfType ==
  ASSUME NEW n \in Nat, NEW td \in Seq(Pieces(n))
  PROVE  TextOf(td) \in Seq(Tokens) /\ \A i \in 1..Len(td) : td[i].txt \in Seq(Tokens)
<1>1. Len(td) \in Nat /\ \A i \in 1..Len(td) : td[i].txt \in Seq(Tokens)
  <2>1. Len(td) \in Nat /\ \A i \in 1..Len(td) : td[i] \in Pieces(n)
    OBVIOUS
  <2>2. \A p \in Pieces(n) : p.txt \in Seq(Tokens)
    BY DEF Pieces
  <2> QED BY <2>1, <2>2
<1> DEFINE f == [i \in 1..Len(td) |-> td[i].txt]
<1>2. f = [i \in 1..Len(td) |-> f[i]] /\ \A i \in 1..Len(td) : f[i] \in Seq(Tokens)
  BY <1>1
<1>3. TextOf(td) = FlattenSeq(f)
  BY DEF TextOf
<1> HIDE DEF f
<1> QED BY <1>1, <1>2, <1>3, FlatType

LEMMA TextOfConcat ==
  ASSUME NEW n \in Nat, NEW a \in Seq(Pieces(n)), NEW b \in Seq(Pieces(n))
  PROVE  TextOf(a \o b) = TextOf(a) \o TextOf(b)
<1> DEFINE l == Len(a)
           m == Len(b)
           c == a \o b
           F == [i \in 1..l |-> a[i].txt]
           G == [i \in 1..m |-> b[i].txt]
           C == [i \in 1..(l + m) |-> c[i].txt]
<1>1. /\ l \in Nat /\ m \in Nat /\ Len(c) = l + m /\ \A i \in 1..l : c[i] = a[i]
      /\ \A i \in (l + 1)..(l + m) : c[i] = b[i - l]
  BY ConcatProperties
<1>2. /\ \A i \in 1..l : a[i].txt \in Seq(Tokens)
      /\ \A i \in 1..m : b[i].txt \in Seq(Tokens)
  BY TextOfType
<1>3. TextOf(a) = FlattenSeq(F) /\ TextOf(b) = FlattenSeq(G) /\ TextOf(c) = FlattenSeq(C)
  BY <1>1 DEF TextOf
<1> HIDE DEF l, m, c
<1>4. F \in Seq(Seq(Tokens)) /\ Len(F) = l /\ G \in Seq(Seq(Tokens)) /\ Len(G) = m
  BY <1>1, <1>2
<1>5. /\ \A i \in 1..l : C[i] = F[i]
      /\ \A i \in (l + 1)..(l + m) : C[i] = G[i - l]
  <2>1. /\ \A i \in 1..l : i \in 1..(l + m)
        /\ \A i \in (l + 1)..(l + m) : i \in 1..(l + m) /\ i - l \in 1..m
    BY <1>1
  <2> QED BY <1>1, <2>1
<1>6. C = [i \in 1..(l + m) |-> C[i]]
  OBVIOUS
<1> HIDE DEF F, G, C
<1>7. C = F \o G
  <2>1. /\ F \o G \in Seq(Seq(Tokens)) /\ Len(F \o G) = l + m
        /\ \A i \in 1..l : (F \o G)[i] = F[i]
        /\ \A i \in (l + 1)..(l + m) : (F \o G)[i] = G[i - l]
    <3> DEFINE D == F \o G
    <3>1. /\ D \in Seq(Seq(Tokens)) /\ Len(D) = Len(F) + Len(G)
          /\ \A i \in 1..(Len(F) + Len(G)) :
               D[i] = IF i <= Len(F) THEN F[i] ELSE G[i - Len(F)]
      BY <1>4, ConcatProperties, Zenon
    <3> HIDE DEF D
    <3>2. /\ D \in Seq(Seq(Tokens)) /\ Len(D) = l + m
          /\ \A i \in 1..l : D[i] = F[i]
          /\ \A i \in (l + 1)..(l + m) : D[i] = G[i - l]
      <4>1. /\ \A i \in 1..l : i \in 1..(l + m) /\ i <= l
            /\ \A i \in (l + 1)..(l + m) : i \in 1..(l + m) /\ ~(i <= l)
        BY <1>1
      <4>2. \A i \in 1..(l + m) : D[i] = IF i <= l THEN F[i] ELSE G[i - l]
        BY <1>4, <3>1, Zenon
      <4> HIDE DEF F, G
      <4> QED BY <1>4, <3>1, <4>1, <4>2
    <3> QED BY <3>2 DEF D
  <2>2. \A i \in 1..(l + m) : i \in 1..l \/ i \in (l + 1)..(l + m)
    BY <1>1
  <2>3. \A i \in 1..(l + m) : C[i] = (F \o G)[i]
    BY <1>5, <2>1, <2>2
  <2> DEFINE D == F \o G
  <2>4. D \in Seq(Seq(Tokens)) /\ Len(D) = l + m /\ \A i \in 1..(l + m) : C[i] = D[i]
    BY <2>1, <2>3
  <2> HIDE DEF D
  <2>5. D = [i \in 1..(l + m) |-> D[i]]
    BY <2>4
  <2> QED BY <1>6, <2>4, <2>5 DEF D
<1>8. FlattenSeq(C) = FlattenSeq(F) \o FlattenSeq(G)
  BY <1>4, <1>7, FlattenConcat
<1> QED BY <1>3, <1>8 DEF c

LEMMA TextOfOne ==
  ASSUME NEW k, NEW b, NEW txt \in Seq(Tokens)
  PROVE  TextOf(Add(k, b, txt)) = txt
<1> DEFINE f == [i \in 1..1 |-> txt]
<1>1. /\ \A i \in 1..(0 + 1) : f[i] \in Seq(Tokens)
      /\ f = [i \in 1..(0 + 1) |-> f[i]] /\ f[0 + 1] = txt /\ [i \in 1..0 |-> f[i]] = <<>>
  OBVIOUS
<1>2. TextOf(Add(k, b, txt)) = FlattenSeq(f)
  BY DEF TextOf, Add
<1> HIDE DEF f
<1>3. FlattenSeq([i \in 1..(0 + 1) |-> f[i]]) = FlattenSeq([i \in 1..0 |-> f[i]]) \o f[0 + 1]
  <2>1. 0 \in Nat
    OBVIOUS
  <2> QED BY <1>1, <2>1, FlattenGrows
<1>4. FlattenSeq(<<>>) = <<>> /\ <<>> \o txt = txt
  BY DEF FlattenSeq
<1> QED BY <1>1, <1>2, <1>3, <1>4

LEMMA TextOfNone == TextOf(<<>>) = <<>>
<1>1. [i \in 1..0 |-> <<>>[i].txt] = <<>>
  OBVIOUS
<1>2. Len(<<>>) = 0
  OBVIOUS
<1>3. TextOf(<<>>) = FlattenSeq(<<>>)
  BY <1>1, <1>2 DEF TextOf
<1> QED BY <1>3 DEF FlattenSeq

LEMMA AppendToOne ==
  ASSUME NEW U, NEW a \in U, NEW b \in U
  PROVE  <<a>> \o <<b>> = <<a, b>> /\ <<a>> \in Seq(U) /\ <<b>> \in Seq(U)
<1>1. <<a>> \in Seq(U) /\ <<b>> \in Seq(U)
  OBVIOUS
<1>2. \A x \in Seq(U) : x \o <<b>> = Append(x, b)
  OBVIOUS
<1>3. <<a, b>> = Append(<<a>>, b)
  OBVIOUS
<1> QED BY <1>1, <1>2, <1>3, Zenon

LEMMA AppendToPair ==
  ASSUME NEW U, NEW a \in U, NEW b \in U, NEW c \in U
  PROVE  <<a, b>> \o <<c>> = <<a, b, c>>
<1>1. <<a, b>> \in Seq(U)
  OBVIOUS
<1>2. \A x \in Seq(U) : x \o <<c>> = Append(x, c)
  OBVIOUS
<1>3. <<a, b, c>> = Append(<<a, b>>, c)
  OBVIOUS
<1> QED BY <1>1, <1>2, <1>3, Zenon

\* the appends of a character write what its escape says
LEMMA CharText ==
  ASSUME NEW c \in Char, NEW k \in Nat
  PROVE  TextOf(CharJSON(k, c)) = Escaped(c)
<1> DEFINE esc == <<"\\", "u">>
           digits == <<"0001">>
           a == Hope(k, esc)
           b == Hope(k, digits)
<1>1. esc \in Seq(Tokens) /\ digits \in Seq(Tokens) /\ EscJSON(c) \in Seq(Tokens)
  BY CharTypes
<1>2. a \in Seq(Pieces(k)) /\ b \in Seq(Pieces(k))
  <2>1. k \in 0..k
    OBVIOUS
  <2> HIDE DEF esc, digits
  <2> QED BY <1>1, <2>1, AddType
<1>3. esc \o digits = <<"\\", "u", "0001">>
  <2> DEFINE x == "\\"
             y == "u"
             z == "0001"
  <2>1. x \in Tokens /\ y \in Tokens /\ z \in Tokens
    BY DEF Tokens, Char
  <2> HIDE DEF x, y, z
  <2>2. <<x, y>> \o <<z>> = <<x, y, z>>
    BY <2>1, AppendToPair
  <2> QED BY <2>2, Zenon DEF x, y, z
<1>4. CharJSON(k, c) = IF c = "ctl" THEN a \o b ELSE Hope(k, EscJSON(c))
  BY Zenon DEF CharJSON
<1>5. TextOf(a) = esc /\ TextOf(b) = digits /\ TextOf(Hope(k, EscJSON(c))) = EscJSON(c)
  <2> HIDE DEF esc, digits
  <2> QED BY <1>1, TextOfOne DEF Hope
<1> HIDE DEF a, b, esc, digits
<1>6. TextOf(a \o b) = esc \o digits
  BY <1>2, <1>5, TextOfConcat
<1> QED BY <1>3, <1>4, <1>5, <1>6, Zenon DEF Escaped

LEMMA RunsNone == \A e, t : Runs(e, t, <<>>, t)
BY TextOfNone, ReadsNone DEF Runs

LEMMA RunsOne ==
  ASSUME NEW e, NEW t, NEW u, NEW k, NEW txt \in Seq(Tokens), Reads(e, t, txt, u)
  PROVE  Runs(e, t, Try(k, txt), u) /\ Runs(e, t, Hope(k, txt), u)
BY TextOfOne DEF Runs, Try, Hope

LEMMA RunsConcat ==
  ASSUME NEW n \in Nat, NEW a \in Seq(Pieces(n)), NEW b \in Seq(Pieces(n)),
         NEW e, NEW t, NEW u, NEW w, Runs(e, t, a, u), Runs(e, u, b, w)
  PROVE  Runs(e, t, a \o b, w)
<1>1. TextOf(a) \in Seq(Tokens) /\ TextOf(b) \in Seq(Tokens)
  BY TextOfType
<1>2. Reads(e, t, TextOf(a), u) /\ Reads(e, u, TextOf(b), w)
  BY DEF Runs
<1>3. Reads(e, t, TextOf(a) \o TextOf(b), w)
  BY <1>1, <1>2, ReadsConcat
<1> QED BY <1>3, TextOfConcat DEF Runs

\* the parts of a program one after the other
LEMMA RunsFlat ==
  ASSUME NEW n \in Nat, NEW m \in Nat, NEW f, \A i \in 1..m : f[i] \in Seq(Pieces(n)),
         NEW e, NEW h, \A i \in 1..m : Runs(e, h[i - 1], f[i], h[i])
  PROVE  Runs(e, h[0], FlattenSeq([i \in 1..m |-> f[i]]), h[m])
<1> DEFINE F(k) == FlattenSeq([i \in 1..k |-> f[i]])
           T == {k \in 0..m : ~Runs(e, h[0], F(k), h[k])}
<1> SUFFICES ASSUME T # {} PROVE FALSE
  <2>1. m \in 0..m
    OBVIOUS
  <2> QED BY <2>1
<1>1. PICK k \in T : \A j \in T : k <= j
  <2>1. T \in SUBSET Nat
    OBVIOUS
  <2> HIDE DEF T
  <2> QED BY <2>1, Least
<1>2. k \in 0..m /\ ~Runs(e, h[0], F(k), h[k])
  OBVIOUS
<1>3. F(0) = <<>>
  <2>1. [i \in 1..0 |-> f[i]] = <<>>
    OBVIOUS
  <2> QED BY <2>1 DEF FlattenSeq
<1>4. k # 0
  <2> HIDE DEF F
  <2> QED BY <1>2, <1>3, RunsNone
<1> DEFINE j == k - 1
<1>5. j \in Nat /\ j \in 0..m /\ j + 1 = k /\ k \in 1..m /\ ~(k <= j)
  BY <1>2, <1>4
<1>6. Runs(e, h[0], F(j), h[j])
  <2>1. j \notin T
    <3> HIDE DEF T, j
    <3> QED BY <1>1, <1>5
  <2> HIDE DEF F, j
  <2> QED BY <1>5, <2>1
<1> HIDE DEF j, T
<1>7. F(j) \in Seq(Pieces(n)) /\ F(k) = F(j) \o f[k]
  <2>1. \A i \in 1..(j + 1) : f[i] \in Seq(Pieces(n))
    BY <1>5
  <2>2. /\ FlattenSeq([i \in 1..j |-> f[i]]) \in Seq(Pieces(n))
        /\ FlattenSeq([i \in 1..(j + 1) |-> f[i]])
             = FlattenSeq([i \in 1..j |-> f[i]]) \o f[j + 1]
    BY <1>5, <2>1, FlattenGrows
  <2> QED BY <1>5, <2>2
<1>8. Runs(e, h[j], f[k], h[k]) /\ f[k] \in Seq(Pieces(n))
  <2>1. k - 1 = j
    BY <1>5
  <2> QED BY <1>5, <2>1
<1> DEFINE a == F(j)
<1>9. a \in Seq(Pieces(n)) /\ F(k) = a \o f[k] /\ Runs(e, h[0], a, h[j])
  BY <1>6, <1>7
<1> HIDE DEF a, F
<1>10. Runs(e, h[0], a \o f[k], h[k])
  BY <1>8, <1>9, RunsConcat
<1> QED BY <1>2, <1>9, <1>10

----------------------------------------------------------------------------
(* The states of the reader, and how it reads one token.                   *)

\* outside a list, in a list, between two fields
In(m, n, v, w, d)     == State(m, FALSE, n, v, w, d)
InList(m, n, v, w, d) == State(m, TRUE, n, v, w, d)
Gap(n, d)             == In("gap", n, <<>>, <<>>, d)
\* after one more field
After(n, w, d) == Gap("", Append(d, [name |-> n, vals |-> w]))

LEMMA InIs ==
  \A m, n, v, w, d :
    /\ In(m, n, v, w, d).mode = m /\ ~In(m, n, v, w, d).list
    /\ In(m, n, v, w, d).name = n /\ In(m, n, v, w, d).val = v
    /\ In(m, n, v, w, d).vals = w /\ In(m, n, v, w, d).done = d
BY DEF In, State

LEMMA InListIs ==
  \A m, n, v, w, d :
    /\ InList(m, n, v, w, d).mode = m /\ InList(m, n, v, w, d).list
    /\ InList(m, n, v, w, d).name = n /\ InList(m, n, v, w, d).val = v
    /\ InList(m, n, v, w, d).vals = w /\ InList(m, n, v, w, d).done = d
BY DEF InList, State

LEMMA ModeIs ==
  \A m, n, v, w, d, x : /\ Mode(In(m, n, v, w, d), x) = In(x, n, v, w, d)
                        /\ Mode(InList(m, n, v, w, d), x) = InList(x, n, v, w, d)
<1>1. \A m, l, n, v, w, d, x : Mode(State(m, l, n, v, w, d), x) = State(x, l, n, v, w, d)
  BY DEF State, Mode
<1>2. ASSUME NEW m, NEW n, NEW v, NEW w, NEW d, NEW x
      PROVE  Mode(In(m, n, v, w, d), x) = In(x, n, v, w, d)
  <2>1. \A b : Mode(State(m, b, n, v, w, d), x) = State(x, b, n, v, w, d)
    BY <1>1
  <2> QED BY <2>1, Zenon DEF In
<1>3. ASSUME NEW m, NEW n, NEW v, NEW w, NEW d, NEW x
      PROVE  Mode(InList(m, n, v, w, d), x) = InList(x, n, v, w, d)
  <2>1. \A b : Mode(State(m, b, n, v, w, d), x) = State(x, b, n, v, w, d)
    BY <1>1
  <2> QED BY <2>1, Zenon DEF InList
<1> QED BY <1>2, <1>3

LEMMA NameIs == \A m, n, v, w, d, x : Name(In(m, n, v, w, d), x) = In(m, x, v, w, d)
<1>1. \A m, l, n, v, w, d, x : Name(State(m, l, n, v, w, d), x) = State(m, l, x, v, w, d)
  BY DEF State, Name
<1> QED BY <1>1, Zenon DEF In

LEMMA OpenIs == \A m, n, v, w, d, x : Open(In(m, n, v, w, d), x) = In(x, n, <<>>, <<>>, d)
BY DEF In, State, Open

LEMMA ListIs == \A m, n, v, w, d : List(In(m, n, v, w, d)) = InList("list", n, v, w, d)
BY DEF In, InList, State, List

LEMMA KeepIs ==
  \A m, n, v, w, d, x :
    /\ Keep(In(m, n, v, w, d), x) = In("text", n, Append(v, x), w, d)
    /\ Keep(InList(m, n, v, w, d), x) = InList("text", n, Append(v, x), w, d)
BY DEF In, InList, State, Keep

LEMMA EndValIs ==
  \A m, n, v, w, d, x :
    /\ EndVal(In(m, n, v, w, d), x) = In(x, n, <<>>, Append(w, v), d)
    /\ EndVal(InList(m, n, v, w, d), x) = InList(x, n, <<>>, Append(w, v), d)
BY DEF In, InList, State, EndVal

LEMMA CloseIs ==
  \A m, n, v, w, d : /\ Close(In(m, n, v, w, d)) = After(n, w, d)
                     /\ Close(InList(m, n, v, w, d)) = After(n, w, d)
BY DEF In, InList, State, Close, Gap, After

LEMMA ReaderIs ==
  \A t, c : /\ Reader("syslog", t, c) = ReadSyslog(t, c)
            /\ Reader("json", t, c) = ReadJSON(t, c)
            /\ Reader("xml", t, c) = ReadXML(t, c)
BY DEF Reader

\* One token of the syslog format, a quoted list of values after a name.
LEMMA SyslogReads ==
  ASSUME NEW n, NEW v, NEW w, NEW d
  PROVE  /\ \A c : c # "=quote" =>
              Reader("syslog", In("gap", n, v, w, d), c) = In("gap", c, v, w, d)
         /\ Reader("syslog", In("gap", n, v, w, d), "=quote") = In("text", n, <<>>, <<>>, d)
         /\ Reader("syslog", In("text", n, v, w, d), "comma")
              = In("text", n, <<>>, Append(w, v), d)
         /\ Reader("syslog", In("text", n, v, w, d), "quote")
              = After(n, Append(w, v), d)
         /\ Reader("syslog", In("text", n, v, w, d), "\\") = In("esc", n, v, w, d)
         /\ \A c : c \notin {"comma", "quote", "\\"} =>
              Reader("syslog", In("text", n, v, w, d), c) = In("text", n, Append(v, c), w, d)
         /\ \A c : c # "u" =>
              Reader("syslog", In("esc", n, v, w, d), c)
                = In("text", n, Append(v, Unescape(c)), w, d)
<1> DEFINE g == In("gap", n, v, w, d)
           t == In("text", n, v, w, d)
           s == In("esc", n, v, w, d)
           q == After(n, Append(w, v), d)
<1>1. /\ g.mode = "gap" /\ t.mode = "text" /\ s.mode = "esc"
      /\ \A c : Name(g, c) = In("gap", c, v, w, d)
      /\ Open(g, "text") = In("text", n, <<>>, <<>>, d)
      /\ EndVal(t, "text") = In("text", n, <<>>, Append(w, v), d)
      /\ EndVal(t, "gap") = In("gap", n, <<>>, Append(w, v), d)
      /\ Mode(t, "esc") = s
      /\ \A c : Keep(t, c) = In("text", n, Append(v, c), w, d)
      /\ \A c : Keep(s, c) = In("text", n, Append(v, c), w, d)
  BY InIs, NameIs, OpenIs, EndValIs, ModeIs, KeepIs
<1>2. Close(EndVal(t, "gap")) = q
  BY <1>1, CloseIs
<1> HIDE DEF g, t, s, q
<1>3. /\ \A c : c # "=quote" => ReadSyslog(g, c) = Name(g, c)
      /\ ReadSyslog(g, "=quote") = Open(g, "text")
  BY <1>1 DEF ReadSyslog
<1>4. ReadSyslog(t, "comma") = EndVal(t, "text")
  BY <1>1 DEF ReadSyslog
<1>5. ReadSyslog(t, "quote") = q /\ ReadSyslog(t, "\\") = s
  BY <1>1, <1>2 DEF ReadSyslog, ReadText
<1>6. \A c : c \notin {"comma", "quote", "\\"} =>
         ReadSyslog(t, c) = In("text", n, Append(v, c), w, d)
  BY <1>1 DEF ReadSyslog, ReadText
<1>7. \A c : c # "u" => ReadSyslog(s, c) = In("text", n, Append(v, Unescape(c)), w, d)
  BY <1>1 DEF ReadSyslog, ReadText
<1>8. /\ \A c : c # "=quote" => ReadSyslog(g, c) = In("gap", c, v, w, d)
      /\ ReadSyslog(g, "=quote") = In("text", n, <<>>, <<>>, d)
      /\ ReadSyslog(t, "comma") = In("text", n, <<>>, Append(w, v), d)
  BY <1>1, <1>3, <1>4
<1> QED BY <1>5, <1>6, <1>7, <1>8, ReaderIs DEF g, t, s, q

\* One token of JSON: names and values in quotes, several values in brackets.
LEMMA JSONReads ==
  ASSUME NEW n, NEW v, NEW w, NEW d
  PROVE  /\ \A c : c # "quote" =>
              Reader("json", In("gap", n, v, w, d), c) = In("gap", n, v, w, d)
         /\ Reader("json", In("gap", n, v, w, d), "quote") = In("name", n, v, w, d)
         /\ \A c : c \notin {"quote:", "quote:_"} =>
              Reader("json", In("name", n, v, w, d), c) = In("name", c, v, w, d)
         /\ Reader("json", In("name", n, v, w, d), "quote:") = In("value", n, <<>>, <<>>, d)
         /\ Reader("json", In("name", n, v, w, d), "quote:_") = In("value", n, <<>>, <<>>, d)
         /\ Reader("json", In("value", n, v, w, d), "[") = InList("list", n, v, w, d)
         /\ Reader("json", In("value", n, v, w, d), "quote") = In("text", n, v, w, d)
<1> DEFINE g == In("gap", n, v, w, d)
           a == In("name", n, v, w, d)
           b == In("value", n, v, w, d)
<1>1. /\ g.mode = "gap" /\ a.mode = "name" /\ b.mode = "value"
      /\ Mode(g, "name") = a /\ \A c : Name(a, c) = In("name", c, v, w, d)
      /\ Open(a, "value") = In("value", n, <<>>, <<>>, d)
      /\ List(b) = InList("list", n, v, w, d) /\ Mode(b, "text") = In("text", n, v, w, d)
  BY InIs, NameIs, OpenIs, ListIs, ModeIs
<1> HIDE DEF g, a, b
<1>2. /\ \A c : c # "quote" => ReadJSON(g, c) = g
      /\ ReadJSON(g, "quote") = a
  BY <1>1 DEF ReadJSON
<1>3. /\ \A c : c \notin {"quote:", "quote:_"} => ReadJSON(a, c) = In("name", c, v, w, d)
      /\ ReadJSON(a, "quote:") = In("value", n, <<>>, <<>>, d)
      /\ ReadJSON(a, "quote:_") = In("value", n, <<>>, <<>>, d)
  BY <1>1 DEF ReadJSON
<1>4. /\ ReadJSON(b, "[") = InList("list", n, v, w, d)
      /\ ReadJSON(b, "quote") = In("text", n, v, w, d)
  BY <1>1 DEF ReadJSON
<1> QED BY <1>2, <1>3, <1>4, ReaderIs DEF g, a, b

LEMMA JSONTextReads ==
  ASSUME NEW n, NEW v, NEW w, NEW d
  PROVE  /\ Reader("json", In("text", n, v, w, d), "quote") = After(n, Append(w, v), d)
         /\ Reader("json", In("text", n, v, w, d), "\\") = In("esc", n, v, w, d)
         /\ \A c : c \notin {"quote", "\\"} =>
              Reader("json", In("text", n, v, w, d), c) = In("text", n, Append(v, c), w, d)
         /\ Reader("json", In("esc", n, v, w, d), "u") = In("hex", n, v, w, d)
         /\ \A c : c # "u" =>
              Reader("json", In("esc", n, v, w, d), c) = In("text", n, Append(v, Unescape(c)), w, d)
         /\ \A c \in {"0000", "0001"} :
              Reader("json", In("hex", n, v, w, d), c) = In("text", n, Append(v, Unescape(c)), w, d)
<1> DEFINE t == In("text", n, v, w, d)
           s == In("esc", n, v, w, d)
           x == In("hex", n, v, w, d)
           q == After(n, Append(w, v), d)
<1>1. /\ t.mode = "text" /\ s.mode = "esc" /\ ~t.list /\ Mode(t, "esc") = s
      /\ x.mode = "hex" /\ Mode(s, "hex") = x
      /\ \A c : Keep(x, c) = In("text", n, Append(v, c), w, d)
      /\ EndVal(t, "gap") = In("gap", n, <<>>, Append(w, v), d)
      /\ \A c : Keep(t, c) = In("text", n, Append(v, c), w, d)
      /\ \A c : Keep(s, c) = In("text", n, Append(v, c), w, d)
  BY InIs, ModeIs, EndValIs, KeepIs
<1>2. Close(EndVal(t, "gap")) = q
  BY <1>1, CloseIs
<1> HIDE DEF t, s, x, q
<1>3. ReadJSON(t, "quote") = q
  BY <1>1, <1>2 DEF ReadJSON, ReadText
<1>4. ReadJSON(t, "\\") = s
  BY <1>1 DEF ReadJSON, ReadText
<1>5. \A c : c \notin {"quote", "\\"} => ReadJSON(t, c) = In("text", n, Append(v, c), w, d)
  BY <1>1 DEF ReadJSON, ReadText
<1>6. /\ ReadJSON(s, "u") = x
      /\ \A c : c # "u" => ReadJSON(s, c) = In("text", n, Append(v, Unescape(c)), w, d)
  BY <1>1 DEF ReadJSON, ReadText
<1>7. \A c \in {"0000", "0001"} : ReadJSON(x, c) = In("text", n, Append(v, Unescape(c)), w, d)
  BY <1>1 DEF ReadJSON, ReadText
<1> QED BY <1>3, <1>4, <1>5, <1>6, <1>7, ReaderIs DEF t, s, x, q

LEMMA JSONListReads ==
  ASSUME NEW n, NEW v, NEW w, NEW d
  PROVE  /\ Reader("json", InList("list", n, v, w, d), "]") = After(n, w, d)
         /\ Reader("json", InList("list", n, v, w, d), "quote") = InList("text", n, v, w, d)
         /\ Reader("json", InList("list", n, v, w, d), "comma") = InList("list", n, v, w, d)
         /\ Reader("json", InList("text", n, v, w, d), "quote")
              = InList("list", n, <<>>, Append(w, v), d)
         /\ Reader("json", InList("text", n, v, w, d), "\\") = InList("esc", n, v, w, d)
         /\ \A c : c \notin {"quote", "\\"} =>
              Reader("json", InList("text", n, v, w, d), c) = InList("text", n, Append(v, c), w, d)
         /\ Reader("json", InList("esc", n, v, w, d), "u") = InList("hex", n, v, w, d)
         /\ \A c : c # "u" =>
              Reader("json", InList("esc", n, v, w, d), c)
                = InList("text", n, Append(v, Unescape(c)), w, d)
         /\ \A c \in {"0000", "0001"} :
              Reader("json", InList("hex", n, v, w, d), c)
                = InList("text", n, Append(v, Unescape(c)), w, d)
<1> DEFINE i == InList("list", n, v, w, d)
           t == InList("text", n, v, w, d)
           s == InList("esc", n, v, w, d)
           x == InList("hex", n, v, w, d)
           q == After(n, w, d)
<1>1. /\ i.mode = "list" /\ t.mode = "text" /\ s.mode = "esc" /\ t.list
      /\ Mode(i, "text") = t /\ Mode(t, "esc") = s /\ Close(i) = q
      /\ x.mode = "hex" /\ Mode(s, "hex") = x
      /\ \A c : Keep(x, c) = InList("text", n, Append(v, c), w, d)
      /\ EndVal(t, "list") = InList("list", n, <<>>, Append(w, v), d)
      /\ \A c : Keep(t, c) = InList("text", n, Append(v, c), w, d)
      /\ \A c : Keep(s, c) = InList("text", n, Append(v, c), w, d)
  BY InListIs, ModeIs, CloseIs, EndValIs, KeepIs
<1> HIDE DEF i, t, s, x, q
<1>2. ReadJSON(i, "]") = q /\ ReadJSON(i, "quote") = t /\ ReadJSON(i, "comma") = i
  BY <1>1 DEF ReadJSON
<1>3. ReadJSON(t, "quote") = InList("list", n, <<>>, Append(w, v), d)
  BY <1>1 DEF ReadJSON, ReadText
<1>4. ReadJSON(t, "\\") = s
  BY <1>1 DEF ReadJSON, ReadText
<1>5. \A c : c \notin {"quote", "\\"} => ReadJSON(t, c) = InList("text", n, Append(v, c), w, d)
  BY <1>1 DEF ReadJSON, ReadText
<1>6. /\ ReadJSON(s, "u") = x
      /\ \A c : c # "u" => ReadJSON(s, c) = InList("text", n, Append(v, Unescape(c)), w, d)
  BY <1>1 DEF ReadJSON, ReadText
<1>7. \A c \in {"0000", "0001"} :
         ReadJSON(x, c) = InList("text", n, Append(v, Unescape(c)), w, d)
  BY <1>1 DEF ReadJSON, ReadText
<1> QED BY <1>2, <1>3, <1>4, <1>5, <1>6, <1>7, ReaderIs DEF i, t, s, x, q

\* One token of XML: elements for fields and for values.
LEMMA XMLReads ==
  ASSUME NEW n, NEW v, NEW w, NEW d
  PROVE  /\ \A c \in {"<", "event>", "/event>", "/value>", "/tag>"} :
              Reader("xml", In("gap", n, v, w, d), c) = In("gap", n, v, w, d)
         /\ Reader("xml", In("gap", n, v, w, d), "Field_name=quote") = In("name", n, v, w, d)
         /\ Reader("xml", In("gap", n, v, w, d), "event.tags>") = Gap("event.tags", d)
         /\ \A c \in {"value>", "tag>"} :
              Reader("xml", In("gap", n, v, w, d), c) = In("text", n, v, w, d)
         /\ \A c \in {"/Field>", "/event.tags>"} :
              Reader("xml", In("gap", n, v, w, d), c) = After(n, w, d)
         /\ \A c : c # "quote>" => Reader("xml", In("name", n, v, w, d), c) = In("name", c, v, w, d)
         /\ Reader("xml", In("name", n, v, w, d), "quote>") = Gap(n, d)
<1> DEFINE g == In("gap", n, v, w, d)
           a == In("name", n, v, w, d)
           t == In("text", n, v, w, d)
           q == After(n, w, d)
           o == Gap("event.tags", d)
           p == Gap(n, d)
<1>1. /\ g.mode = "gap" /\ a.mode = "name" /\ Mode(g, "name") = a /\ Mode(g, "text") = t
      /\ \A c : Name(a, c) = In("name", c, v, w, d)
      /\ Name(g, "event.tags") = In("gap", "event.tags", v, w, d) /\ Close(g) = q
  BY InIs, NameIs, ModeIs, CloseIs
<1>2. Open(a, "gap") = p
  BY OpenIs DEF Gap
<1>0. Open(Name(g, "event.tags"), "gap") = o
  <2>1. Open(In("gap", "event.tags", v, w, d), "gap") = In("gap", "event.tags", <<>>, <<>>, d)
    BY OpenIs
  <2> QED BY <1>1, <2>1, Zenon DEF Gap
<1> HIDE DEF g, a, t, q, o, p
<1>3. \A c \in {"<", "event>", "/event>", "/value>", "/tag>"} : ReadXML(g, c) = g
  BY <1>1 DEF ReadXML
<1>4. /\ ReadXML(g, "Field_name=quote") = a /\ ReadXML(g, "event.tags>") = o
      /\ \A c \in {"value>", "tag>"} : ReadXML(g, c) = t
      /\ \A c \in {"/Field>", "/event.tags>"} : ReadXML(g, c) = q
  BY <1>0, <1>1 DEF ReadXML
<1>5. /\ \A c : c # "quote>" => ReadXML(a, c) = In("name", c, v, w, d)
      /\ ReadXML(a, "quote>") = p
  BY <1>1, <1>2 DEF ReadXML
<1> QED BY <1>3, <1>4, <1>5, ReaderIs DEF g, a, t, q, o, p

LEMMA XMLTextReads ==
  ASSUME NEW n, NEW v, NEW w, NEW d
  PROVE  /\ Reader("xml", In("text", n, v, w, d), "<") = In("gap", n, <<>>, Append(w, v), d)
         /\ Reader("xml", In("text", n, v, w, d), "&") = In("esc", n, v, w, d)
         /\ \A c : c \notin {"<", "&"} =>
              Reader("xml", In("text", n, v, w, d), c) = In("text", n, Append(v, c), w, d)
         /\ \A c : c # "u" =>
              Reader("xml", In("esc", n, v, w, d), c) = In("text", n, Append(v, Unescape(c)), w, d)
<1> DEFINE t == In("text", n, v, w, d)
           s == In("esc", n, v, w, d)
<1>1. /\ t.mode = "text" /\ s.mode = "esc" /\ Mode(t, "esc") = s
      /\ EndVal(t, "gap") = In("gap", n, <<>>, Append(w, v), d)
      /\ \A c : Keep(t, c) = In("text", n, Append(v, c), w, d)
      /\ \A c : Keep(s, c) = In("text", n, Append(v, c), w, d)
  BY InIs, ModeIs, EndValIs, KeepIs
<1> HIDE DEF t, s
<1>2. ReadXML(t, "<") = In("gap", n, <<>>, Append(w, v), d)
  BY <1>1 DEF ReadXML
<1>3. ReadXML(t, "&") = s
  BY <1>1 DEF ReadXML, ReadText
<1>4. \A c : c \notin {"<", "&"} => ReadXML(t, c) = In("text", n, Append(v, c), w, d)
  BY <1>1 DEF ReadXML, ReadText
<1>5. \A c : c # "u" => ReadXML(s, c) = In("text", n, Append(v, Unescape(c)), w, d)
  BY <1>1 DEF ReadXML, ReadText
<1> QED BY <1>2, <1>3, <1>4, <1>5, ReaderIs DEF t, s

----------------------------------------------------------------------------
(* What the parts of a program write is read as what they stand for.       *)

LEMMA ReadsFew ==
  ASSUME NEW e, NEW t, NEW a, NEW b, NEW c
  PROVE  /\ Reads(e, t, <<a>>, Reader(e, t, a))
         /\ Reads(e, t, <<a, b>>, Reader(e, Reader(e, t, a), b))
         /\ Reads(e, t, <<a, b, c>>, Reader(e, Reader(e, Reader(e, t, a), b), c))
<1> DEFINE U == {a, b, c}
           x == Reader(e, t, a)
           y == Reader(e, x, b)
           z == Reader(e, y, c)
<1>1. /\ <<>> \in Seq(U) /\ <<a>> \in Seq(U) /\ <<a, b>> \in Seq(U)
      /\ a \in U /\ b \in U /\ c \in U
  OBVIOUS
<1>0. /\ <<a>> = Append(<<>>, a) /\ <<a, b>> = Append(<<a>>, b)
      /\ <<a, b, c>> = Append(<<a, b>>, c)
  <2>1. <<a>> = Append(<<>>, a)
    OBVIOUS
  <2>2. <<a, b>> = Append(<<a>>, b)
    OBVIOUS
  <2>3. <<a, b, c>> = Append(<<a, b>>, c)
    OBVIOUS
  <2> QED BY <2>1, <2>2, <2>3, Zenon
<1> HIDE DEF U
<1>2. Reads(e, t, <<a>>, x)
  BY <1>0, <1>1, ReadsNone, ReadsOn
<1> HIDE DEF x
<1>3. Reads(e, t, <<a, b>>, y)
  BY <1>0, <1>1, <1>2, ReadsOn
<1> HIDE DEF y
<1>4. Reads(e, t, <<a, b, c>>, z)
  BY <1>0, <1>1, <1>3, ReadsOn
<1> QED BY <1>2, <1>3, <1>4 DEF x, y

\* each token of a text in an append of its own
LEMMA RunsEach ==
  ASSUME NEW n \in Nat, NEW k \in 0..n, NEW s \in Seq(Tokens), NEW e, NEW t, NEW u,
         Reads(e, t, s, u)
  PROVE  Runs(e, t, FlattenSeq([j \in 1..Len(s) |-> Hope(k, <<s[j]>>)]), u)
<1> DEFINE m == Len(s)
           f == [j \in 1..m |-> Hope(k, <<s[j]>>)]
<1>1. m \in Nat /\ \A j \in 1..m : <<s[j]>> \in Seq(Tokens)
  OBVIOUS
<1>2. PICK g : g[0] = t /\ g[m] = u /\ \A j \in 1..m : g[j] = Reader(e, g[j - 1], s[j])
  BY DEF Reads
<1>3. \A j \in 1..m : f[j] \in Seq(Pieces(n)) /\ Runs(e, g[j - 1], f[j], g[j])
  <2> SUFFICES ASSUME NEW j \in 1..m
               PROVE  f[j] \in Seq(Pieces(n)) /\ Runs(e, g[j - 1], f[j], g[j])
    OBVIOUS
  <2>1. <<s[j]>> \in Seq(Tokens) /\ f[j] = Hope(k, <<s[j]>>)
    BY <1>1
  <2>2. Reads(e, g[j - 1], <<s[j]>>, g[j])
    BY <1>2, ReadsFew
  <2> HIDE DEF f
  <2> QED BY <2>1, <2>2, AddType, RunsOne
<1>4. f = [j \in 1..m |-> f[j]]
  OBVIOUS
<1> HIDE DEF f, m
<1>5. Runs(e, g[0], FlattenSeq([j \in 1..m |-> f[j]]), g[m])
  BY <1>1, <1>3, RunsFlat
<1> QED BY <1>2, <1>4, <1>5 DEF f, m

\* the parts of a program for the elements of a sequence
LEMMA RunsGrow ==
  ASSUME NEW n \in Nat, NEW U, NEW s \in Seq(U), NEW f,
         \A i \in 1..Len(s) : f[i] \in Seq(Pieces(n)),
         NEW e, NEW h,
         \A i \in 1..Len(s) : \A x \in Seq(U) :
           Len(x) = i - 1 => Runs(e, h[x], f[i], h[Append(x, s[i])])
  PROVE  Runs(e, h[<<>>], FlattenSeq([i \in 1..Len(s) |-> f[i]]), h[s])
<1> DEFINE m == Len(s)
           g == [i \in 0..m |-> h[SubSeq(s, 1, i)]]
<1>1. m \in Nat /\ SubSeq(s, 1, 0) = <<>> /\ SubSeq(s, 1, m) = s
  OBVIOUS
<1>2. g[0] = h[<<>>] /\ g[m] = h[s]
  <2>1. 0 \in 0..m /\ m \in 0..m
    BY <1>1
  <2> QED BY <1>1, <2>1
<1>3. \A i \in 1..m : Runs(e, g[i - 1], f[i], g[i])
  <2> SUFFICES ASSUME NEW i \in 1..m PROVE Runs(e, g[i - 1], f[i], g[i])
    OBVIOUS
  <2> DEFINE x == SubSeq(s, 1, i - 1)
  <2>1. /\ x \in Seq(U) /\ Len(x) = i - 1 /\ s[i] \in U
        /\ SubSeq(s, 1, i) = Append(x, s[i])
    OBVIOUS
  <2>2. g[i] = h[Append(x, s[i])] /\ g[i - 1] = h[x]
    <3>1. i \in 0..m /\ i - 1 \in 0..m
      BY <1>1
    <3> QED BY <2>1, <3>1
  <2> HIDE DEF x, g
  <2> QED BY <2>1, <2>2
<1> HIDE DEF g
<1>4. Runs(e, g[0], FlattenSeq([i \in 1..m |-> f[i]]), g[m])
  BY <1>1, <1>3, RunsFlat
<1> QED BY <1>2, <1>4

\* what stands for a character after the backslash or the ampersand
LEMMA UnescapeIs ==
  /\ Unescape("0") = "NUL" /\ Unescape("0000") = "NUL" /\ Unescape("#00") = "NUL"
  /\ Unescape("0001") = "ctl" /\ Unescape("n") = "\n" /\ Unescape("lt") = "<"
  /\ Unescape("amp") = "&"
  /\ \A x \in {"comma", "\\", "]", "quote"} : Unescape(x) = x
BY DEF Unescape

\* the escapes that JSON and CSV share, from any state in which a text is read
LEMMA EscapeReads ==
  ASSUME NEW c \in Char, NEW e, NEW a, NEW b, NEW h, NEW x,
         Reader(e, a, "\\") = b, Reader(e, b, "u") = h,
         c \notin {"quote", "\\"} => Reader(e, a, c) = x,
         \A y : y # "u" /\ Unescape(y) = c => Reader(e, b, y) = x,
         \A y \in {"0000", "0001"} : Unescape(y) = c => Reader(e, h, y) = x
  PROVE  Reads(e, a, Escaped(c), x)
<1>1. CASE c = "NUL"
  <2>1. Escaped(c) = <<"\\", "u", "0000">>
    BY <1>1 DEF Escaped, EscJSON
  <2>2. Reader(e, h, "0000") = x
    BY UnescapeIs, <1>1
  <2>3. Reads(e, a, <<"\\", "u", "0000">>, x)
    BY <2>2, ReadsFew
  <2> QED BY <2>1, <2>3
<1>2. CASE c = "ctl"
  <2>1. Escaped(c) = <<"\\", "u", "0001">>
    BY <1>2 DEF Escaped
  <2>2. Reader(e, h, "0001") = x
    BY UnescapeIs, <1>2
  <2>3. Reads(e, a, <<"\\", "u", "0001">>, x)
    BY <2>2, ReadsFew
  <2> QED BY <2>1, <2>3
<1>3. CASE c = "\n"
  <2>1. Escaped(c) = <<"\\", "n">>
    BY <1>3 DEF Escaped, EscJSON
  <2>2. Reader(e, b, "n") = x
    BY UnescapeIs, <1>3
  <2> QED BY <2>1, <2>2, ReadsFew
<1>4. CASE c \in {"quote", "\\"}
  <2>1. Escaped(c) = <<"\\", c>>
    BY <1>4 DEF Escaped, EscJSON
  <2>2. Reader(e, b, c) = x
    BY UnescapeIs, <1>4
  <2> QED BY <2>1, <2>2, ReadsFew
<1>5. CASE c \notin {"NUL", "ctl", "\n", "quote", "\\"}
  <2>1. Escaped(c) = <<c>>
    BY <1>5 DEF Escaped, EscJSON
  <2>2. Reader(e, a, c) = x
    BY <1>5
  <2> QED BY <2>1, <2>2, ReadsFew
<1> QED BY <1>1, <1>2, <1>3, <1>4, <1>5

\* a character of a value, escaped as its format wants it
LEMMA CharReads ==
  ASSUME NEW c \in Char, NEW n, NEW v, NEW w, NEW d
  PROVE  /\ Reads("syslog", In("text", n, v, w, d), EscSyslog(c), In("text", n, Append(v, c), w, d))
         /\ Reads("json", In("text", n, v, w, d), Escaped(c), In("text", n, Append(v, c), w, d))
         /\ Reads("json", InList("text", n, v, w, d), Escaped(c),
                  InList("text", n, Append(v, c), w, d))
         /\ Reads("xml", In("text", n, v, w, d), EscXML(c), In("text", n, Append(v, c), w, d))
<1> DEFINE t == In("text", n, v, w, d)
           s == In("esc", n, v, w, d)
           x == In("hex", n, v, w, d)
           u == In("text", n, Append(v, c), w, d)
           lt == InList("text", n, v, w, d)
           ls == InList("esc", n, v, w, d)
           lx == InList("hex", n, v, w, d)
           lu == InList("text", n, Append(v, c), w, d)
<1>3. /\ Reader("syslog", t, "\\") = s
      /\ c \notin {"comma", "quote", "\\"} => Reader("syslog", t, c) = u
      /\ \A y : y # "u" /\ Unescape(y) = c => Reader("syslog", s, y) = u
  BY SyslogReads
<1>4. /\ Reader("json", t, "\\") = s /\ Reader("json", s, "u") = x
      /\ c \notin {"quote", "\\"} => Reader("json", t, c) = u
      /\ \A y : y # "u" /\ Unescape(y) = c => Reader("json", s, y) = u
      /\ \A y \in {"0000", "0001"} : Unescape(y) = c => Reader("json", x, y) = u
  BY JSONTextReads
<1>5. /\ Reader("json", lt, "\\") = ls /\ Reader("json", ls, "u") = lx
      /\ c \notin {"quote", "\\"} => Reader("json", lt, c) = lu
      /\ \A y : y # "u" /\ Unescape(y) = c => Reader("json", ls, y) = lu
      /\ \A y \in {"0000", "0001"} : Unescape(y) = c => Reader("json", lx, y) = lu
  BY JSONListReads
<1>6. /\ Reader("xml", t, "&") = s
      /\ c \notin {"<", "&"} => Reader("xml", t, c) = u
      /\ \A y : y # "u" /\ Unescape(y) = c => Reader("xml", s, y) = u
  BY XMLTextReads
<1> HIDE DEF t, s, x, u, lt, ls, lx, lu
<1>7. Reads("syslog", t, EscSyslog(c), u)
  <2>1. CASE c = "NUL"
    <3>1. EscSyslog(c) = <<"\\", "0">>
      BY <2>1 DEF EscSyslog
    <3>2. Reader("syslog", s, "0") = u
      BY UnescapeIs, <1>3, <2>1
    <3> QED BY <1>3, <3>1, <3>2, ReadsFew
  <2>2. CASE c = "\n"
    <3>1. EscSyslog(c) = <<"\\", "n">>
      BY <2>2 DEF EscSyslog
    <3>2. Reader("syslog", s, "n") = u
      BY UnescapeIs, <1>3, <2>2
    <3> QED BY <1>3, <3>1, <3>2, ReadsFew
  <2>3. CASE c \in {"comma", "\\", "]", "quote"}
    <3>1. EscSyslog(c) = <<"\\", c>>
      BY <2>3 DEF EscSyslog
    <3>2. Reader("syslog", s, c) = u
      BY UnescapeIs, <1>3, <2>3
    <3> QED BY <1>3, <3>1, <3>2, ReadsFew
  <2>4. CASE c \notin {"NUL", "\n", "comma", "\\", "]", "quote"}
    <3>1. EscSyslog(c) = <<c>>
      BY <2>4 DEF EscSyslog
    <3>2. Reader("syslog", t, c) = u
      BY <1>3, <2>4
    <3> QED BY <3>1, <3>2, ReadsFew
  <2> QED BY <2>1, <2>2, <2>3, <2>4
<1>9. Reads("xml", t, EscXML(c), u)
  <2>1. CASE c = "NUL"
    <3>1. EscXML(c) = <<"&", "#00">> /\ Reader("xml", s, "#00") = u
      BY UnescapeIs, <1>6, <2>1 DEF EscXML
    <3> QED BY <1>6, <3>1, ReadsFew
  <2>2. CASE c = "<"
    <3>1. EscXML(c) = <<"&", "lt">> /\ Reader("xml", s, "lt") = u
      BY UnescapeIs, <1>6, <2>2 DEF EscXML
    <3> QED BY <1>6, <3>1, ReadsFew
  <2>3. CASE c = "&"
    <3>1. EscXML(c) = <<"&", "amp">> /\ Reader("xml", s, "amp") = u
      BY UnescapeIs, <1>6, <2>3 DEF EscXML
    <3> QED BY <1>6, <3>1, ReadsFew
  <2>4. CASE c \notin {"NUL", "<", "&"}
    <3>1. EscXML(c) = <<c>> /\ Reader("xml", t, c) = u
      BY <1>6, <2>4 DEF EscXML
    <3> QED BY <3>1, ReadsFew
  <2> QED BY <2>1, <2>2, <2>3, <2>4
<1>10. Reads("json", t, Escaped(c), u)
  BY <1>4, EscapeReads
<1>11. Reads("json", lt, Escaped(c), lu)
  BY <1>5, EscapeReads
<1> QED BY <1>7, <1>9, <1>10, <1>11 DEF t, u, lt, lu

LEMMA RunsToken ==
  ASSUME NEW e, NEW t, NEW k, NEW a, <<a>> \in Seq(Tokens), NEW u, u = Reader(e, t, a)
  PROVE  Runs(e, t, Try(k, <<a>>), u) /\ Runs(e, t, Hope(k, <<a>>), u)
<1>1. Reads(e, t, <<a>>, u)
  BY ReadsFew
<1> QED BY <1>1, RunsOne

LEMMA RunsPair ==
  ASSUME NEW e, NEW t, NEW k, NEW a, NEW b, <<a, b>> \in Seq(Tokens), NEW s, NEW u,
         s = Reader(e, t, a), u = Reader(e, s, b)
  PROVE  Runs(e, t, Try(k, <<a, b>>), u) /\ Runs(e, t, Hope(k, <<a, b>>), u)
<1>1. Reads(e, t, <<a, b>>, u)
  BY ReadsFew
<1> QED BY <1>1, RunsOne

LEMMA RunsParts ==
  ASSUME NEW n \in Nat, NEW a \in Seq(Pieces(n)), NEW b \in Seq(Pieces(n)),
         NEW c \in Seq(Pieces(n)), NEW e, NEW s, NEW t, NEW u, NEW w,
         Runs(e, s, a, t), Runs(e, t, b, u), Runs(e, u, c, w)
  PROVE  Runs(e, s, a \o b \o c, w)
<1>1. a \o b \in Seq(Pieces(n))
  BY ConcatType
<1>2. Runs(e, s, a \o b, u)
  BY RunsConcat
<1> QED BY <1>1, <1>2, RunsConcat

\* the characters of a value
LEMMA TextRuns ==
  ASSUME NEW n \in Nat, NEW k \in 0..n, NEW v \in Texts, NEW nm, NEW w, NEW d
  PROVE  /\ Runs("syslog", In("text", nm, <<>>, w, d), ValueSyslog(k, v), In("text", nm, v, w, d))
         /\ Runs("json", In("text", nm, <<>>, w, d), ValueCSV(k, v), In("text", nm, v, w, d))
         /\ Runs("json", InList("text", nm, <<>>, w, d), ValueCSV(k, v),
                 InList("text", nm, v, w, d))
         /\ Runs("xml", In("text", nm, <<>>, w, d), Each(v, LAMBDA i : Hope(k, EscXML(v[i]))),
                 In("text", nm, v, w, d))
<1> DEFINE m == Len(v)
           h == [x \in Texts |-> In("text", nm, x, w, d)]
           l == [x \in Texts |-> InList("text", nm, x, w, d)]
           f == [i \in 1..m |-> FlattenSeq([j \in 1..Len(EscSyslog(v[i])) |->
                                              Hope(k, <<EscSyslog(v[i])[j]>>)])]
           g == [i \in 1..m |-> CharJSON(k, v[i])]
           x == [i \in 1..m |-> Hope(k, EscXML(v[i]))]
<1>1. m \in Nat /\ v \in Seq(Char) /\ \A i \in 1..m : v[i] \in Char
  BY DEF Texts
<1>2. /\ <<>> \in Texts /\ \A y \in Texts, c \in Char : Append(y, c) \in Texts
  BY DEF Texts
<1>3. /\ h[<<>>] = In("text", nm, <<>>, w, d) /\ h[v] = In("text", nm, v, w, d)
      /\ l[<<>>] = InList("text", nm, <<>>, w, d) /\ l[v] = InList("text", nm, v, w, d)
  BY <1>2
<1>4. \A y \in Texts, c \in Char :
         /\ h[y] = In("text", nm, y, w, d) /\ h[Append(y, c)] = In("text", nm, Append(y, c), w, d)
         /\ l[y] = InList("text", nm, y, w, d)
         /\ l[Append(y, c)] = InList("text", nm, Append(y, c), w, d)
  BY <1>2
<1>5. \A y \in Texts, c \in Char :
         /\ Reads("syslog", h[y], EscSyslog(c), h[Append(y, c)])
         /\ Reads("json", h[y], Escaped(c), h[Append(y, c)])
         /\ Reads("json", l[y], Escaped(c), l[Append(y, c)])
         /\ Reads("xml", h[y], EscXML(c), h[Append(y, c)])
  BY <1>4, CharReads
<1> HIDE DEF h, l, m
<1>6. \A i \in 1..m : EscSyslog(v[i]) \in Seq(Tokens) /\ EscXML(v[i]) \in Seq(Tokens)
  BY <1>1, EscType
<1>7. \A i \in 1..m : g[i] = CharJSON(k, v[i]) /\ x[i] = Hope(k, EscXML(v[i]))
  OBVIOUS
<1>8. \A i \in 1..m : g[i] \in Seq(Pieces(n)) /\ x[i] \in Seq(Pieces(n))
  <2> HIDE DEF g, x
  <2> QED BY <1>1, <1>6, <1>7, AddType, CharTypes
<1>9. ASSUME NEW i \in 1..m PROVE f[i] \in Seq(Pieces(n))
  <2> DEFINE s == EscSyslog(v[i])
             p == [j \in 1..Len(s) |-> Hope(k, <<s[j]>>)]
  <2>1. s \in Seq(Tokens)
    BY <1>6
  <2>2. f[i] = FlattenSeq(p)
    OBVIOUS
  <2> HIDE DEF f, s
  <2>3. Len(s) \in Nat /\ \A j \in 1..Len(s) : <<s[j]>> \in Seq(Tokens)
    BY <2>1
  <2>4. p = [j \in 1..Len(s) |-> p[j]] /\ \A j \in 1..Len(s) : p[j] \in Seq(Pieces(n))
    BY <2>3, AddType
  <2> HIDE DEF p
  <2> QED BY <2>2, <2>3, <2>4, FlatType
<1>10. \A i \in 1..m : \A y \in Texts :
         /\ Runs("syslog", h[y], f[i], h[Append(y, v[i])])
         /\ Runs("json", h[y], g[i], h[Append(y, v[i])])
         /\ Runs("json", l[y], g[i], l[Append(y, v[i])])
         /\ Runs("xml", h[y], x[i], h[Append(y, v[i])])
  <2> SUFFICES ASSUME NEW i \in 1..m, NEW y \in Texts
               PROVE  /\ Runs("syslog", h[y], f[i], h[Append(y, v[i])])
                      /\ Runs("json", h[y], g[i], h[Append(y, v[i])])
                      /\ Runs("json", l[y], g[i], l[Append(y, v[i])])
                      /\ Runs("xml", h[y], x[i], h[Append(y, v[i])])
    OBVIOUS
  <2>1. f[i] = FlattenSeq([j \in 1..Len(EscSyslog(v[i])) |-> Hope(k, <<EscSyslog(v[i])[j]>>)])
    OBVIOUS
  <2> HIDE DEF f, g, x
  <2>2. /\ Reads("syslog", h[y], EscSyslog(v[i]), h[Append(y, v[i])])
        /\ Reads("json", h[y], Escaped(v[i]), h[Append(y, v[i])])
        /\ Reads("json", l[y], Escaped(v[i]), l[Append(y, v[i])])
        /\ Reads("xml", h[y], EscXML(v[i]), h[Append(y, v[i])])
    BY <1>1, <1>5
  <2>3. Runs("syslog", h[y], f[i], h[Append(y, v[i])])
    BY <1>6, <2>1, <2>2, RunsEach
  <2>4. Runs("xml", h[y], x[i], h[Append(y, v[i])])
    BY <1>6, <1>7, <2>2, RunsOne
  <2>5. TextOf(g[i]) = Escaped(v[i])
    BY <1>1, <1>7, CharText
  <2>6. Runs("json", h[y], g[i], h[Append(y, v[i])]) /\ Runs("json", l[y], g[i], l[Append(y, v[i])])
    BY <2>2, <2>5, Zenon DEF Runs
  <2> QED BY <2>3, <2>4, <2>6
<1>11. /\ f = [i \in 1..m |-> f[i]] /\ g = [i \in 1..m |-> g[i]] /\ x = [i \in 1..m |-> x[i]]
  OBVIOUS
<1>12. /\ ValueSyslog(k, v) = FlattenSeq(f) /\ ValueCSV(k, v) = FlattenSeq(g)
       /\ Each(v, LAMBDA i : Hope(k, EscXML(v[i]))) = FlattenSeq(x)
  BY DEF ValueSyslog, ValueCSV, Each, m
<1> HIDE DEF f, g, x
<1>13. /\ \A i \in 1..Len(v) : f[i] \in Seq(Pieces(n)) /\ g[i] \in Seq(Pieces(n))
                               /\ x[i] \in Seq(Pieces(n))
       /\ \A i \in 1..Len(v) : \A y \in Seq(Char) :
            /\ Runs("syslog", h[y], f[i], h[Append(y, v[i])])
            /\ Runs("json", h[y], g[i], h[Append(y, v[i])])
            /\ Runs("json", l[y], g[i], l[Append(y, v[i])])
            /\ Runs("xml", h[y], x[i], h[Append(y, v[i])])
  BY <1>8, <1>9, <1>10 DEF Texts, m
<1>14. /\ Runs("syslog", h[<<>>], FlattenSeq([i \in 1..m |-> f[i]]), h[v])
       /\ Runs("json", h[<<>>], FlattenSeq([i \in 1..m |-> g[i]]), h[v])
       /\ Runs("json", l[<<>>], FlattenSeq([i \in 1..m |-> g[i]]), l[v])
       /\ Runs("xml", h[<<>>], FlattenSeq([i \in 1..m |-> x[i]]), h[v])
  BY <1>1, <1>13, RunsGrow DEF m
<1> QED BY <1>3, <1>11, <1>12, <1>14, Zenon

\* a whole value of JSON, alone or in a list, and of XML
LEMMA ValueRuns ==
  ASSUME NEW n \in Nat, NEW k \in 0..n, NEW v \in Texts, NEW nm, NEW w, NEW d
  PROVE  /\ Runs("json", In("value", nm, <<>>, w, d), ValueJSON(k, v), After(nm, Append(w, v), d))
         /\ Runs("json", InList("list", nm, <<>>, w, d), ValueJSON(k, v),
                 InList("list", nm, <<>>, Append(w, v), d))
         /\ Runs("xml", In("gap", nm, <<>>, w, d), ValueXML(k, v),
                 In("gap", nm, <<>>, Append(w, v), d))
<1> DEFINE q == Hope(k, <<"quote">>)
           p == Hope(k, <<"<", "value>">>)
           b == Hope(k, <<"<", "/value>">>)
           x == Each(v, LAMBDA i : Hope(k, EscXML(v[i])))
<1>1. /\ <<"quote">> \in Seq(Tokens) /\ <<"<", "value>">> \in Seq(Tokens)
      /\ <<"<", "/value>">> \in Seq(Tokens)
  BY LiteralType
<1>2. q \in Seq(Pieces(n)) /\ p \in Seq(Pieces(n)) /\ b \in Seq(Pieces(n))
  BY <1>1, AddType
<1>3. ValueCSV(k, v) \in Seq(Pieces(n)) /\ x \in Seq(Pieces(n))
  BY ValueTypes
<1>4. ValueJSON(k, v) = q \o ValueCSV(k, v) \o q /\ ValueXML(k, v) = p \o x \o b
  BY DEF ValueJSON, ValueXML
<1>5. /\ Runs("json", In("text", nm, <<>>, w, d), ValueCSV(k, v), In("text", nm, v, w, d))
      /\ Runs("json", InList("text", nm, <<>>, w, d), ValueCSV(k, v), InList("text", nm, v, w, d))
      /\ Runs("xml", In("text", nm, <<>>, w, d), x, In("text", nm, v, w, d))
  BY TextRuns
<1>6. /\ Runs("json", In("value", nm, <<>>, w, d), q, In("text", nm, <<>>, w, d))
      /\ Runs("json", In("text", nm, v, w, d), q, After(nm, Append(w, v), d))
  BY <1>1, JSONReads, JSONTextReads, RunsToken
<1>7. /\ Runs("json", InList("list", nm, <<>>, w, d), q, InList("text", nm, <<>>, w, d))
      /\ Runs("json", InList("text", nm, v, w, d), q, InList("list", nm, <<>>, Append(w, v), d))
  BY <1>1, JSONListReads, RunsToken
<1>8. Runs("xml", In("gap", nm, <<>>, w, d), p, In("text", nm, <<>>, w, d))
  BY <1>1, XMLReads, RunsPair
<1>9. Runs("xml", In("text", nm, v, w, d), b, In("gap", nm, <<>>, Append(w, v), d))
  <2>1. /\ Reader("xml", In("text", nm, v, w, d), "<") = In("gap", nm, <<>>, Append(w, v), d)
        /\ Reader("xml", In("gap", nm, <<>>, Append(w, v), d), "/value>")
             = In("gap", nm, <<>>, Append(w, v), d)
    BY XMLReads, XMLTextReads
  <2> QED BY <1>1, <2>1, RunsPair
<1> HIDE DEF q, p, b, x
<1> QED BY <1>2, <1>3, <1>4, <1>5, <1>6, <1>7, <1>8, <1>9, RunsParts

\* a list of parts with a separator between two of them
LEMMA RunsJoin ==
  ASSUME NEW n \in Nat, NEW U, NEW s \in Seq(U), NEW sep \in Seq(Pieces(n)), NEW g,
         \A i \in 1..Len(s) : g[i] \in Seq(Pieces(n)),
         NEW e, NEW h,
         \A i \in 1..Len(s) : \A x \in Seq(U) : Len(x) = i - 1 =>
           Runs(e, h[x], (IF i > 1 THEN sep ELSE <<>>) \o g[i], h[Append(x, s[i])])
  PROVE  Runs(e, h[<<>>],
              FlattenSeq([i \in 1..Len(s) |-> (IF i > 1 THEN sep ELSE <<>>) \o g[i]]), h[s])
<1> DEFINE f == [i \in 1..Len(s) |-> (IF i > 1 THEN sep ELSE <<>>) \o g[i]]
<1>1. \A i \in 1..Len(s) : f[i] = (IF i > 1 THEN sep ELSE <<>>) \o g[i]
  OBVIOUS
<1>2. f = [i \in 1..Len(s) |-> f[i]]
  OBVIOUS
<1> HIDE DEF f
<1>3. \A i \in 1..Len(s) : f[i] \in Seq(Pieces(n))
  <2> DEFINE P == Pieces(n)
             o == <<>>
  <2>1. o \in Seq(P) /\ sep \in Seq(P) /\ \A i \in 1..Len(s) : g[i] \in Seq(P)
    OBVIOUS
  <2> HIDE DEF P, o
  <2>2. \A i \in 1..Len(s) : o \o g[i] \in Seq(P) /\ sep \o g[i] \in Seq(P)
    BY <2>1, ConcatType
  <2>3. \A i \in 1..Len(s) : f[i] = o \o g[i] \/ f[i] = sep \o g[i]
    BY <1>1 DEF o
  <2> QED BY <2>2, <2>3 DEF P
<1>4. \A i \in 1..Len(s) : \A x \in Seq(U) :
         Len(x) = i - 1 => Runs(e, h[x], f[i], h[Append(x, s[i])])
  BY <1>1
<1>5. Runs(e, h[<<>>], FlattenSeq([i \in 1..Len(s) |-> f[i]]), h[s])
  BY <1>3, <1>4, RunsGrow
<1> QED BY <1>2, <1>5 DEF f

\* a list whose reader is in the same state before and after a separator
LEMMA RunsList ==
  ASSUME NEW n \in Nat, NEW U, NEW s \in Seq(U), NEW sep \in Seq(Pieces(n)), NEW g,
         \A i \in 1..Len(s) : g[i] \in Seq(Pieces(n)),
         NEW e, NEW h,
         \A x \in Seq(U) : Runs(e, h[x], sep, h[x]),
         \A i \in 1..Len(s) : \A x \in Seq(U) : Runs(e, h[x], g[i], h[Append(x, s[i])])
  PROVE  Runs(e, h[<<>>],
              FlattenSeq([i \in 1..Len(s) |-> (IF i > 1 THEN sep ELSE <<>>) \o g[i]]), h[s])
<1>1. ASSUME NEW i \in 1..Len(s), NEW x \in Seq(U)
      PROVE  Runs(e, h[x], (IF i > 1 THEN sep ELSE <<>>) \o g[i], h[Append(x, s[i])])
  <2> DEFINE p == IF i > 1 THEN sep ELSE <<>>
  <2>1. p \in Seq(Pieces(n)) /\ Runs(e, h[x], p, h[x])
    <3>1. <<>> \in Seq(Pieces(n))
      OBVIOUS
    <3> QED BY <3>1, RunsNone
  <2> HIDE DEF p
  <2>2. Runs(e, h[x], p \o g[i], h[Append(x, s[i])])
    BY <2>1, RunsConcat
  <2> QED BY <2>2 DEF p
<1> QED BY <1>1, RunsJoin

\* what is read for a list of values in quotes
Quoted(s) == IF s = <<>> THEN <<<<>>>> ELSE s

\* a list of the syslog format, up to its closing quote
LEMMA SyslogList ==
  ASSUME NEW n \in Nat, NEW k \in 0..n, NEW U, NEW s \in Seq(U), NEW g, NEW nm, NEW d,
         \A i \in 1..Len(s) : g[i] \in Seq(Pieces(n)),
         \A i \in 1..Len(s) : \A w :
           Runs("syslog", In("text", nm, <<>>, w, d), g[i], In("text", nm, s[i], w, d)),
         NEW sep \in {Try(k, <<"comma">>), Hope(k, <<"comma">>)},
         NEW end \in {Try(k, <<"quote">>), Hope(k, <<"quote">>)}
  PROVE  Runs("syslog", In("text", nm, <<>>, <<>>, d),
              FlattenSeq([i \in 1..Len(s) |-> (IF i > 1 THEN sep ELSE <<>>) \o g[i]]) \o end,
              After(nm, Quoted(s), d))
<1> DEFINE f == FlattenSeq([i \in 1..Len(s) |-> (IF i > 1 THEN sep ELSE <<>>) \o g[i]])
           last(x) == x[Len(x)]
           front(x) == SubSeq(x, 1, Len(x) - 1)
           h == [x \in Seq(U) |-> IF x = <<>> THEN In("text", nm, <<>>, <<>>, d)
                                  ELSE In("text", nm, last(x), front(x), d)]
<1>1. <<"comma">> \in Seq(Tokens) /\ <<"quote">> \in Seq(Tokens)
  BY LiteralType
<1>2. sep \in Seq(Pieces(n)) /\ end \in Seq(Pieces(n)) /\ <<>> \in Seq(Pieces(n))
  <2>1. <<>> \in Seq(Pieces(n))
    OBVIOUS
  <2> QED BY <1>1, <2>1, AddType
<1>3. \A v, w : Runs("syslog", In("text", nm, v, w, d), sep, In("text", nm, <<>>, Append(w, v), d))
  BY <1>1, SyslogReads, RunsToken
<1>4. \A v, w : Runs("syslog", In("text", nm, v, w, d), end, After(nm, Append(w, v), d))
  BY <1>1, SyslogReads, RunsToken
<1>5. h[<<>>] = In("text", nm, <<>>, <<>>, d)
  OBVIOUS
<1>6. ASSUME NEW x \in Seq(U), x # <<>>
      PROVE  Append(front(x), last(x)) = x /\ h[x] = In("text", nm, last(x), front(x), d)
  <2>1. Append(front(x), last(x)) = x
    BY <1>6
  <2> QED BY <1>6, <2>1
<1>7. ASSUME NEW x \in Seq(U), NEW a \in U
      PROVE  h[Append(x, a)] = In("text", nm, a, x, d)
  <2> DEFINE y == Append(x, a)
  <2>1. y \in Seq(U) /\ y # <<>> /\ last(y) = a /\ front(y) = x
    <3> HIDE DEF h
    <3>1. /\ Len(x) \in Nat /\ y \in Seq(U) /\ Len(y) = Len(x) + 1 /\ y # <<>>
          /\ y[Len(x) + 1] = a
      OBVIOUS
    <3>2. SubSeq(y, 1, Len(x)) = x
      OBVIOUS
    <3>3. Len(y) - 1 = Len(x)
      BY <3>1
    <3> HIDE DEF y
    <3> QED BY <3>1, <3>2, <3>3
  <2> HIDE DEF y, last, front, h
  <2> QED BY <1>6, <2>1 DEF y
<1>8. \A i \in 1..Len(s) : \A x \in Seq(U) : Len(x) = i - 1 =>
        Runs("syslog", h[x], (IF i > 1 THEN sep ELSE <<>>) \o g[i], h[Append(x, s[i])])
  <2> SUFFICES ASSUME NEW i \in 1..Len(s), NEW x \in Seq(U), Len(x) = i - 1
               PROVE  Runs("syslog", h[x], (IF i > 1 THEN sep ELSE <<>>) \o g[i],
                           h[Append(x, s[i])])
    OBVIOUS
  <2>1. s[i] \in U /\ h[Append(x, s[i])] = In("text", nm, s[i], x, d)
    BY <1>7
  <2> HIDE DEF h, last, front
  <2>2. Runs("syslog", In("text", nm, <<>>, x, d), g[i], In("text", nm, s[i], x, d))
    OBVIOUS
  <2>3. CASE i = 1
    <3>1. x = <<>> /\ <<>> \o g[i] = g[i] /\ ~(i > 1)
      BY <2>3
    <3>2. h[x] = In("text", nm, <<>>, x, d)
      BY <1>5, <3>1
    <3> QED BY <2>1, <2>2, <3>1, <3>2
  <2>4. CASE i # 1
    <3>1. x # <<>> /\ i > 1
      BY <2>4
    <3>2. h[x] = In("text", nm, last(x), front(x), d) /\ Append(front(x), last(x)) = x
      BY <1>6, <3>1
    <3>3. Runs("syslog", h[x], sep, In("text", nm, <<>>, x, d))
      BY <1>3, <3>2
    <3>4. Runs("syslog", h[x], sep \o g[i], h[Append(x, s[i])])
      BY <1>2, <2>1, <2>2, <3>3, RunsConcat
    <3> QED BY <3>1, <3>4
  <2> QED BY <2>3, <2>4
<1>9. f \in Seq(Pieces(n))
  <2>1. Len(s) \in Nat
    OBVIOUS
  <2> QED BY <1>2, <2>1, JoinType
<1>10. Runs("syslog", h[<<>>], f, h[s])
  <2> HIDE DEF h
  <2> QED BY <1>2, <1>8, RunsJoin
<1>11. Runs("syslog", h[s], end, After(nm, Quoted(s), d))
  <2>1. CASE s = <<>>
    <3>1. h[s] = In("text", nm, <<>>, <<>>, d) /\ Append(<<>>, <<>>) = <<<<>>>>
      BY <1>5, <2>1
    <3> HIDE DEF h
    <3> QED BY <1>4, <2>1, <3>1 DEF Quoted
  <2>2. CASE s # <<>>
    <3> HIDE DEF h, last, front
    <3>1. h[s] = In("text", nm, last(s), front(s), d) /\ Append(front(s), last(s)) = s
      BY <1>6, <2>2
    <3>2. Runs("syslog", h[s], end, After(nm, s, d))
      BY <1>4, <3>1
    <3> QED BY <2>2, <3>2 DEF Quoted
  <2> QED BY <2>1, <2>2
<1> HIDE DEF f, h
<1>12. Runs("syslog", h[<<>>], f \o end, After(nm, Quoted(s), d))
  BY <1>2, <1>9, <1>10, <1>11, RunsConcat
<1> QED BY <1>5, <1>12 DEF f

\* a list of JSON, between its brackets
LEMMA JSONList ==
  ASSUME NEW n \in Nat, NEW k \in 0..n, NEW U, NEW s \in Seq(U), NEW g, NEW nm, NEW d,
         \A i \in 1..Len(s) : g[i] \in Seq(Pieces(n)),
         \A i \in 1..Len(s) : \A w :
           Runs("json", InList("list", nm, <<>>, w, d), g[i],
                InList("list", nm, <<>>, Append(w, s[i]), d)),
         NEW sep \in {Try(k, <<"comma">>), Hope(k, <<"comma">>)},
         NEW end \in {Try(k, <<"]">>), Hope(k, <<"]">>)}
  PROVE  Runs("json", InList("list", nm, <<>>, <<>>, d),
              FlattenSeq([i \in 1..Len(s) |-> (IF i > 1 THEN sep ELSE <<>>) \o g[i]]) \o end,
              After(nm, s, d))
<1> DEFINE f == FlattenSeq([i \in 1..Len(s) |-> (IF i > 1 THEN sep ELSE <<>>) \o g[i]])
           h == [x \in Seq(U) |-> InList("list", nm, <<>>, x, d)]
<1>1. <<"comma">> \in Seq(Tokens) /\ <<"]">> \in Seq(Tokens)
  BY LiteralType
<1>2. sep \in Seq(Pieces(n)) /\ end \in Seq(Pieces(n)) /\ <<>> \in Seq(Pieces(n))
  <2>1. <<>> \in Seq(Pieces(n))
    OBVIOUS
  <2> QED BY <1>1, <2>1, AddType
<1>3. \A w : /\ Runs("json", InList("list", nm, <<>>, w, d), sep, InList("list", nm, <<>>, w, d))
             /\ Runs("json", InList("list", nm, <<>>, w, d), end, After(nm, w, d))
  <2> SUFFICES ASSUME NEW w
               PROVE  /\ Runs("json", InList("list", nm, <<>>, w, d), sep,
                              InList("list", nm, <<>>, w, d))
                      /\ Runs("json", InList("list", nm, <<>>, w, d), end, After(nm, w, d))
    OBVIOUS
  <2> DEFINE l == InList("list", nm, <<>>, w, d)
             q == After(nm, w, d)
  <2>1. l = Reader("json", l, "comma") /\ q = Reader("json", l, "]")
    BY JSONListReads
  <2> HIDE DEF l, q
  <2>2. Runs("json", l, sep, l)
    BY <1>1, <2>1, RunsToken
  <2>3. Runs("json", l, end, q)
    BY <1>1, <2>1, RunsToken
  <2> QED BY <2>2, <2>3 DEF l, q
<1>4. \A x \in Seq(U) : /\ h[x] = InList("list", nm, <<>>, x, d)
                        /\ \A a \in U : h[Append(x, a)] = InList("list", nm, <<>>, Append(x, a), d)
  OBVIOUS
<1> HIDE DEF h
<1>5. <<>> \in Seq(U) /\ Len(s) \in Nat /\ \A i \in 1..Len(s) : s[i] \in U
  OBVIOUS
<1>6. \A x \in Seq(U) : Runs("json", h[x], sep, h[x])
  BY <1>3, <1>4
<1>7. \A i \in 1..Len(s) : \A x \in Seq(U) : Runs("json", h[x], g[i], h[Append(x, s[i])])
  BY <1>4, <1>5
<1>8. Runs("json", h[<<>>], f, h[s])
  BY <1>2, <1>6, <1>7, RunsList
<1>9. f \in Seq(Pieces(n))
  BY <1>2, <1>5, JoinType
<1> HIDE DEF f
<1>10. h[<<>>] = InList("list", nm, <<>>, <<>>, d) /\ Runs("json", h[s], end, After(nm, s, d))
  BY <1>3, <1>4, <1>5
<1>11. Runs("json", h[<<>>], f \o end, After(nm, s, d))
  BY <1>2, <1>8, <1>9, <1>10, RunsConcat
<1> QED BY <1>10, <1>11 DEF f

\* the elements of XML one after the other
LEMMA XMLList ==
  ASSUME NEW n \in Nat, NEW U, NEW s \in Seq(U), NEW g, NEW nm, NEW d,
         \A i \in 1..Len(s) : g[i] \in Seq(Pieces(n)),
         \A i \in 1..Len(s) : \A w :
           Runs("xml", In("gap", nm, <<>>, w, d), g[i], In("gap", nm, <<>>, Append(w, s[i]), d))
  PROVE  Runs("xml", Gap(nm, d),
              FlattenSeq([i \in 1..Len(s) |-> (IF i > 1 THEN <<>> ELSE <<>>) \o g[i]]),
              In("gap", nm, <<>>, s, d))
<1> DEFINE h == [x \in Seq(U) |-> In("gap", nm, <<>>, x, d)]
           none == <<>>
<1>1. <<>> \in Seq(U) /\ Len(s) \in Nat /\ \A i \in 1..Len(s) : s[i] \in U
  OBVIOUS
<1>2. \A x \in Seq(U) : /\ h[x] = In("gap", nm, <<>>, x, d)
                        /\ \A a \in U : h[Append(x, a)] = In("gap", nm, <<>>, Append(x, a), d)
  OBVIOUS
<1> HIDE DEF h
<1>3. none \in Seq(Pieces(n)) /\ \A x \in Seq(U) : Runs("xml", h[x], none, h[x])
  BY RunsNone
<1>4. \A i \in 1..Len(s) : \A x \in Seq(U) : Runs("xml", h[x], g[i], h[Append(x, s[i])])
  BY <1>1, <1>2
<1> HIDE DEF none
<1>5. Runs("xml", h[<<>>],
           FlattenSeq([i \in 1..Len(s) |-> (IF i > 1 THEN none ELSE <<>>) \o g[i]]), h[s])
  BY <1>3, <1>4, RunsList
<1>6. h[<<>>] = Gap(nm, d) /\ h[s] = In("gap", nm, <<>>, s, d)
  BY <1>1, <1>2 DEF Gap
<1> QED BY <1>5, <1>6, Zenon DEF none

LEMMA ConcatRegroups ==
  ASSUME NEW U, NEW a \in Seq(U), NEW b \in Seq(U), NEW c \in Seq(U)
  PROVE  (a \o b) \o c = a \o (b \o c)
BY ConcatAssociative

LEMMA FieldSyslogRuns ==
  ASSUME NEW n \in Nat, NEW k \in 0..n, NEW f \in FieldOf, f.name \notin Reserved, NEW o, NEW d
  PROVE  Runs("syslog", Gap(o, d), FieldSyslog(k, f), After(f.name, Quoted(f.vals), d))
<1> DEFINE nm == f.name
           s == f.vals
           m == Len(s)
           g == [i \in 1..m |-> ValueSyslog(k, s[i])]
           sep == Try(k, <<"comma">>)
           body == FlattenSeq([i \in 1..m |-> (IF i > 1 THEN sep ELSE <<>>) \o g[i]])
           a == Try(k, <<nm>>)
           b == Try(k, <<"=quote">>)
           end == Try(k, <<"quote">>)
<1>1. nm \in STRING /\ s \in Seq(Texts) /\ m \in Nat /\ \A i \in 1..m : s[i] \in Texts
  <2>1. nm \in STRING /\ s \in Seq(Texts)
    BY DEF FieldOf
  <2> QED BY <2>1
<1>2. nm # "=quote"
  BY DEF Reserved
<1>3. FieldSyslog(k, f) = a \o b \o body \o end
  <2>1. body = Join(f.vals, Try(k, <<"comma">>), LAMBDA v : ValueSyslog(k, v))
    BY DEF Join, Each
  <2> QED BY <2>1, Zenon DEF FieldSyslog
<1>4. /\ <<nm>> \in Seq(Tokens) /\ <<"=quote">> \in Seq(Tokens) /\ <<"quote">> \in Seq(Tokens)
      /\ <<"comma">> \in Seq(Tokens)
  BY <1>1, LiteralType
<1>5. /\ a \in Seq(Pieces(n)) /\ b \in Seq(Pieces(n)) /\ end \in Seq(Pieces(n))
      /\ sep \in Seq(Pieces(n))
  BY <1>4, AddType
<1>6. \A i \in 1..m : g[i] \in Seq(Pieces(n))
  BY <1>1, ValueTypes
<1>7. \A i \in 1..m : \A w :
        Runs("syslog", In("text", nm, <<>>, w, d), g[i], In("text", nm, s[i], w, d))
  BY <1>1, TextRuns
<1> HIDE DEF g
<1>8. body \in Seq(Pieces(n))
  BY <1>1, <1>5, <1>6, JoinType
<1>9. Runs("syslog", In("text", nm, <<>>, <<>>, d), body \o end, After(nm, Quoted(s), d))
  <2> HIDE DEF nm, s
  <2> QED BY <1>1, <1>6, <1>7, SyslogList
<1>10. /\ Runs("syslog", Gap(o, d), a, Gap(nm, d))
       /\ Runs("syslog", Gap(nm, d), b, In("text", nm, <<>>, <<>>, d))
  <2>1. Reader("syslog", Gap(o, d), nm) = Gap(nm, d)
    BY <1>2, SyslogReads DEF Gap
  <2>2. Reader("syslog", Gap(nm, d), "=quote") = In("text", nm, <<>>, <<>>, d)
    BY SyslogReads DEF Gap
  <2> QED BY <1>4, <2>1, <2>2, RunsToken
<1> DEFINE rest == body \o end
           u == After(nm, Quoted(s), d)
<1>11. rest \in Seq(Pieces(n)) /\ a \o b \o body \o end = a \o b \o rest
  <2> DEFINE p == a \o b
  <2> HIDE DEF a, b, body, end
  <2>1. p \in Seq(Pieces(n))
    BY <1>5, ConcatType
  <2> HIDE DEF p
  <2>2. p \o body \o end = p \o (body \o end)
    <3> DEFINE P == Pieces(n)
    <3>1. p \in Seq(P) /\ body \in Seq(P) /\ end \in Seq(P)
      BY <1>5, <1>8, <2>1
    <3> HIDE DEF P
    <3> QED BY ONLY <3>1, ConcatRegroups, SMTT(30)
  <2>3. body \o end \in Seq(Pieces(n))
    BY <1>5, <1>8, ConcatType
  <2> QED BY <2>2, <2>3, Zenon DEF p
<1> HIDE DEF a, b, body, end, nm, s, u
<1>12. Runs("syslog", In("text", nm, <<>>, <<>>, d), rest, u)
  BY <1>9 DEF u
<1> HIDE DEF rest
<1>13. Runs("syslog", Gap(o, d), a \o b \o rest, u)
  BY <1>5, <1>10, <1>11, <1>12, RunsParts
<1> QED BY <1>3, <1>11, <1>13 DEF u, nm, s

LEMMA FieldXMLRuns ==
  ASSUME NEW n \in Nat, NEW k \in 0..n, NEW f \in FieldOf, f.name \notin Reserved, NEW o, NEW d
  PROVE  Runs("xml", Gap(o, d), FieldXML(k, f), After(f.name, f.vals, d))
<1> DEFINE nm == f.name
           s == f.vals
           m == Len(s)
           g == [i \in 1..m |-> ValueXML(k, s[i])]
           body == FlattenSeq([i \in 1..m |-> (IF i > 1 THEN <<>> ELSE <<>>) \o g[i]])
           a == Try(k, <<"<", "Field_name=quote">>)
           b == Try(k, <<nm>>)
           c == Try(k, <<"quote>">>)
           end == Try(k, <<"<", "/Field>">>)
<1>1. nm \in STRING /\ s \in Seq(Texts) /\ m \in Nat /\ \A i \in 1..m : s[i] \in Texts
  <2>1. nm \in STRING /\ s \in Seq(Texts)
    BY DEF FieldOf
  <2> QED BY <2>1
<1>2. nm # "quote>"
  BY DEF Reserved
<1>3. FieldXML(k, f) = a \o b \o c \o body \o end
  <2>1. body = Join(f.vals, <<>>, LAMBDA v : ValueXML(k, v))
    BY DEF Join, Each
  <2> QED BY <2>1, Zenon DEF FieldXML
<1>4. /\ <<nm>> \in Seq(Tokens) /\ <<"quote>">> \in Seq(Tokens)
      /\ <<"<", "Field_name=quote">> \in Seq(Tokens) /\ <<"<", "/Field>">> \in Seq(Tokens)
  BY <1>1, LiteralType
<1>5. /\ a \in Seq(Pieces(n)) /\ b \in Seq(Pieces(n)) /\ c \in Seq(Pieces(n))
      /\ end \in Seq(Pieces(n)) /\ <<>> \in Seq(Pieces(n))
  <2>1. <<>> \in Seq(Pieces(n))
    OBVIOUS
  <2> QED BY <1>4, <2>1, AddType
<1>6. \A i \in 1..m : g[i] \in Seq(Pieces(n))
  BY <1>1, ValueTypes
<1>7. \A i \in 1..m : \A w :
        Runs("xml", In("gap", nm, <<>>, w, d), g[i], In("gap", nm, <<>>, Append(w, s[i]), d))
  BY <1>1, ValueRuns
<1> HIDE DEF g
<1>8. body \in Seq(Pieces(n))
  BY <1>1, <1>5, <1>6, JoinType
<1>9. Runs("xml", Gap(nm, d), body, In("gap", nm, <<>>, s, d))
  <2> HIDE DEF nm, s
  <2> QED BY <1>1, <1>6, <1>7, XMLList
<1>10. /\ Runs("xml", Gap(o, d), a, In("name", o, <<>>, <<>>, d))
       /\ Runs("xml", In("name", o, <<>>, <<>>, d), b, In("name", nm, <<>>, <<>>, d))
       /\ Runs("xml", In("name", nm, <<>>, <<>>, d), c, Gap(nm, d))
       /\ Runs("xml", In("gap", nm, <<>>, s, d), end, After(nm, s, d))
  <2>1. /\ Reader("xml", Gap(o, d), "<") = Gap(o, d)
        /\ Reader("xml", Gap(o, d), "Field_name=quote") = In("name", o, <<>>, <<>>, d)
    BY XMLReads DEF Gap
  <2>2. Reader("xml", In("name", o, <<>>, <<>>, d), nm) = In("name", nm, <<>>, <<>>, d)
    BY <1>2, XMLReads
  <2>3. /\ Reader("xml", In("name", nm, <<>>, <<>>, d), "quote>") = Gap(nm, d)
        /\ Reader("xml", In("gap", nm, <<>>, s, d), "<") = In("gap", nm, <<>>, s, d)
        /\ Reader("xml", In("gap", nm, <<>>, s, d), "/Field>") = After(nm, s, d)
    BY XMLReads
  <2> HIDE DEF nm, s
  <2> QED BY <1>4, <2>1, <2>2, <2>3, RunsToken, RunsPair
<1> HIDE DEF a, b, c, body, end, nm, s
<1>11. Runs("xml", Gap(o, d), a \o b \o c, Gap(nm, d))
  BY <1>5, <1>10, RunsParts
<1>12. a \o b \o c \in Seq(Pieces(n))
  BY <1>5, ConcatType
<1> DEFINE p == a \o b \o c
<1>13. p \in Seq(Pieces(n)) /\ Runs("xml", Gap(o, d), p, Gap(nm, d))
  BY <1>11, <1>12
<1> HIDE DEF p
<1>14. Runs("xml", Gap(o, d), p \o body \o end, After(nm, s, d))
  BY <1>5, <1>8, <1>9, <1>10, <1>13, RunsParts
<1> QED BY <1>3, <1>14 DEF p, nm, s

\* an empty field is legible unless the encoder leaves out a quote
LEMMA FieldJSONRuns ==
  ASSUME NEW n \in Nat, NEW k \in 0..n, NEW f \in FieldOf, f.name \notin Reserved, NEW o, NEW d,
         NEW ultra \in BOOLEAN, ~(ultra /\ f.vals = <<>>)
  PROVE  Runs("json", Gap(o, d), FieldJSON(k, f, ultra), After(f.name, Quoted(f.vals), d))
<1> DEFINE nm == f.name
           s == f.vals
           m == Len(s)
           g == [i \in 1..m |-> ValueJSON(k, s[i])]
           sep == Try(k, <<"comma">>)
           body == FlattenSeq([i \in 1..m |-> (IF i > 1 THEN sep ELSE <<>>) \o g[i]])
           colon == IF ultra THEN "quote:" ELSE "quote:_"
           a == Try(k, <<"quote">>)
           b == Try(k, <<nm>>)
           c == Try(k, <<colon>>)
           open == Try(k, <<"[">>)
           end == Try(k, <<"]">>)
           two == Try(k, <<"quote", "quote">>)
           content == CASE m = 0 -> Try(k, IF ultra THEN <<"quote">> ELSE <<"quote", "quote">>)
                        [] m = 1 -> ValueJSON(k, s[1])
                        [] OTHER -> open \o body \o end
           v == In("value", nm, <<>>, <<>>, d)
<1>1. nm \in STRING /\ s \in Seq(Texts) /\ m \in Nat /\ \A i \in 1..m : s[i] \in Texts
  <2>1. nm \in STRING /\ s \in Seq(Texts)
    BY DEF FieldOf
  <2> QED BY <2>1
<1>2. nm \notin {"quote:", "quote:_"} /\ (m = 0 => s = <<>> /\ ~ultra)
  BY <1>1 DEF Reserved
<1>3. FieldJSON(k, f, ultra) = a \o b \o c \o content
  <2>1. body = Join(f.vals, Try(k, <<"comma">>), LAMBDA x : ValueJSON(k, x))
    BY DEF Join, Each
  <2> QED BY <2>1, Zenon DEF FieldJSON
<1>4. /\ <<nm>> \in Seq(Tokens) /\ <<"quote">> \in Seq(Tokens) /\ <<colon>> \in Seq(Tokens)
      /\ <<"[">> \in Seq(Tokens) /\ <<"]">> \in Seq(Tokens) /\ <<"comma">> \in Seq(Tokens)
      /\ <<"quote", "quote">> \in Seq(Tokens)
  BY <1>1, LiteralType
<1>5. /\ a \in Seq(Pieces(n)) /\ b \in Seq(Pieces(n)) /\ c \in Seq(Pieces(n))
      /\ open \in Seq(Pieces(n)) /\ end \in Seq(Pieces(n)) /\ sep \in Seq(Pieces(n))
      /\ two \in Seq(Pieces(n))
  <2> HIDE DEF colon
  <2> QED BY <1>4, AddType
<1>6. \A i \in 1..m : g[i] \in Seq(Pieces(n))
  BY <1>1, ValueTypes
<1>7. \A i \in 1..m : \A w :
        Runs("json", InList("list", nm, <<>>, w, d), g[i],
             InList("list", nm, <<>>, Append(w, s[i]), d))
  BY <1>1, ValueRuns
<1> HIDE DEF g
<1>8. body \in Seq(Pieces(n))
  BY <1>1, <1>5, <1>6, JoinType
<1>9. Runs("json", InList("list", nm, <<>>, <<>>, d), body \o end, After(nm, s, d))
  <2> HIDE DEF nm, s
  <2> QED BY <1>1, <1>6, <1>7, JSONList
<1>10. /\ Runs("json", Gap(o, d), a, In("name", o, <<>>, <<>>, d))
       /\ Runs("json", In("name", o, <<>>, <<>>, d), b, In("name", nm, <<>>, <<>>, d))
       /\ Runs("json", In("name", nm, <<>>, <<>>, d), c, v)
       /\ Runs("json", v, open, InList("list", nm, <<>>, <<>>, d))
       /\ Runs("json", v, two, After(nm, Append(<<>>, <<>>), d))
  <2>1. Reader("json", Gap(o, d), "quote") = In("name", o, <<>>, <<>>, d)
    BY JSONReads DEF Gap
  <2>2. Reader("json", In("name", o, <<>>, <<>>, d), nm) = In("name", nm, <<>>, <<>>, d)
    BY <1>2, JSONReads
  <2>3. Reader("json", In("name", nm, <<>>, <<>>, d), colon) = v
    BY JSONReads
  <2>4. /\ Reader("json", v, "[") = InList("list", nm, <<>>, <<>>, d)
        /\ Reader("json", v, "quote") = In("text", nm, <<>>, <<>>, d)
    BY JSONReads
  <2>5. Reader("json", In("text", nm, <<>>, <<>>, d), "quote") = After(nm, Append(<<>>, <<>>), d)
    <3> DEFINE z == <<>>
    <3> HIDE DEF nm, z
    <3>1. Reader("json", In("text", nm, z, z, d), "quote") = After(nm, Append(z, z), d)
      BY JSONTextReads
    <3> QED BY <3>1 DEF z
  <2> HIDE DEF nm, s, colon, v
  <2> QED BY <1>4, <2>1, <2>2, <2>3, <2>4, <2>5, RunsToken, RunsPair
<1>11. content \in Seq(Pieces(n)) /\ Runs("json", v, content, After(nm, Quoted(s), d))
  <2>1. CASE m = 0
    <3>1. content = two /\ Quoted(s) = Append(<<>>, <<>>)
      <4>1. Quoted(s) = <<<<>>>> /\ Append(<<>>, <<>>) = <<<<>>>>
        BY <1>2, <2>1 DEF Quoted
      <4>2. (IF ultra THEN <<"quote">> ELSE <<"quote", "quote">>) = <<"quote", "quote">>
        BY <1>2, <2>1
      <4>3. content = Try(k, IF ultra THEN <<"quote">> ELSE <<"quote", "quote">>)
        <5> HIDE DEF m
        <5> QED BY <2>1
      <4> QED BY <4>1, <4>2, <4>3, Zenon
    <3> HIDE DEF content, two, v
    <3> QED BY <1>5, <1>10, <3>1
  <2>2. CASE m = 1
    <3>1. content = ValueJSON(k, s[1])
      BY <2>2
    <3>2. Quoted(s) = s /\ s = Append(<<>>, s[1]) /\ s[1] \in Texts
      BY <1>1, <2>2 DEF Quoted
    <3> HIDE DEF content, s, nm, m
    <3>3. ValueJSON(k, s[1]) \in Seq(Pieces(n))
      BY <3>2, ValueTypes
    <3>4. Runs("json", v, ValueJSON(k, s[1]), After(nm, Append(<<>>, s[1]), d))
      BY <3>2, ValueRuns
    <3> HIDE DEF v
    <3> QED BY <3>1, <3>2, <3>3, <3>4
  <2>3. CASE m \notin {0, 1}
    <3>1. content = open \o body \o end
      BY <2>3, Zenon
    <3>2. Quoted(s) = s
      BY <1>1, <2>3 DEF Quoted
    <3> DEFINE rest == body \o end
               u == After(nm, s, d)
               l == InList("list", nm, <<>>, <<>>, d)
    <3> HIDE DEF content, s, nm, m, v, open, body, end, u, l
    <3>3. rest \in Seq(Pieces(n)) /\ open \o body \o end = open \o rest
      <4>1. open \o body \o end = open \o (body \o end)
        <5> DEFINE P == Pieces(n)
        <5>1. open \in Seq(P) /\ body \in Seq(P) /\ end \in Seq(P)
          BY <1>5, <1>8
        <5> HIDE DEF P
        <5> QED BY ONLY <5>1, ConcatRegroups
      <4> QED BY <1>5, <1>8, <4>1, ConcatType
    <3>4. Runs("json", l, rest, u) /\ Runs("json", v, open, l)
      BY <1>9, <1>10 DEF u, l
    <3> HIDE DEF rest
    <3>5. Runs("json", v, open \o rest, u) /\ open \o rest \in Seq(Pieces(n))
      BY <1>5, <3>3, <3>4, RunsConcat, ConcatType
    <3> QED BY <3>1, <3>2, <3>3, <3>5 DEF u
  <2> QED BY <2>1, <2>2, <2>3
<1> HIDE DEF a, b, c, content, nm, s, v
<1>12. Runs("json", Gap(o, d), a \o b \o c, v)
  BY <1>5, <1>10, RunsParts
<1> DEFINE p == a \o b \o c
<1>13. p \in Seq(Pieces(n)) /\ Runs("json", Gap(o, d), p, v)
  BY <1>5, <1>12, ConcatType
<1> HIDE DEF p
<1>14. Runs("json", Gap(o, d), p \o content, After(nm, Quoted(s), d))
  BY <1>11, <1>13, RunsConcat
<1> QED BY <1>3, <1>14 DEF p, nm, s

----------------------------------------------------------------------------
(* The tags, which a reader takes for the values of one more field.        *)

TagTexts(ts) == [i \in 1..Len(ts) |-> <<ts[i]>>]

LEMMA TagTextsAre ==
  ASSUME NEW ts \in Seq(STRING)
  PROVE  /\ TagTexts(ts) \in Seq(Seq(STRING)) /\ Len(TagTexts(ts)) = Len(ts)
         /\ \A i \in 1..Len(ts) : TagTexts(ts)[i] = Append(<<>>, ts[i])
<1> DEFINE m == Len(ts)
           f == TagTexts(ts)
<1>1. m \in Nat /\ \A i \in 1..m : ts[i] \in STRING
  OBVIOUS
<1>2. f = [i \in 1..m |-> f[i]] /\ \A i \in 1..m : f[i] = <<ts[i]>>
  BY DEF TagTexts
<1>3. \A i \in 1..m : f[i] = Append(<<>>, ts[i]) /\ f[i] \in Seq(STRING)
  <2> SUFFICES ASSUME NEW i \in 1..m PROVE f[i] = Append(<<>>, ts[i]) /\ f[i] \in Seq(STRING)
    OBVIOUS
  <2> DEFINE t == ts[i]
  <2>1. t \in STRING /\ f[i] = <<t>>
    BY <1>1, <1>2
  <2> HIDE DEF t, f
  <2>2. <<t>> = Append(<<>>, t) /\ <<t>> \in Seq(STRING)
    BY <2>1
  <2> QED BY <2>1, <2>2 DEF t
<1> HIDE DEF f, m
<1>4. f \in Seq(Seq(STRING)) /\ Len(f) = m
  BY <1>1, <1>2, <1>3, FlatType
<1> QED BY <1>2, <1>3, <1>4 DEF f, m

LEMMA RunsThree ==
  ASSUME NEW e, NEW t, NEW k, NEW a, NEW b, NEW c, <<a, b, c>> \in Seq(Tokens), NEW s, NEW u, NEW v,
         s = Reader(e, t, a), u = Reader(e, s, b), v = Reader(e, u, c)
  PROVE  Runs(e, t, Try(k, <<a, b, c>>), v)
<1>1. Reads(e, t, <<a, b, c>>, v)
  BY ReadsFew
<1> QED BY <1>1, RunsOne

LEMMA RunsFour ==
  ASSUME NEW e, NEW t, NEW k, NEW a \in Tokens, NEW b \in Tokens, NEW c \in Tokens,
         NEW x \in Tokens,
         NEW s, NEW u, NEW v, NEW w,
         s = Reader(e, t, a), u = Reader(e, s, b), v = Reader(e, u, c), w = Reader(e, v, x)
  PROVE  Runs(e, t, Try(k, <<a, b, c, x>>), w)
<1> DEFINE y == <<a, b, c>>
<1>1. y \in Seq(Tokens) /\ <<a, b, c, x>> = Append(y, x) /\ <<a, b, c, x>> \in Seq(Tokens)
  OBVIOUS
<1>2. Reads(e, t, y, v)
  BY ReadsFew
<1> HIDE DEF y
<1>3. Reads(e, t, Append(y, x), w)
  BY <1>1, <1>2, ReadsOn
<1> QED BY <1>1, <1>3, RunsOne

LEMMA TagsSyslogRuns ==
  ASSUME NEW n \in Nat, NEW ts \in Seq(STRING), \A i \in 1..Len(ts) : ts[i] \notin Reserved,
         NEW o, NEW d
  PROVE  Runs("syslog", Gap(o, d), TagsSyslog(ts), After("event.tags", Quoted(TagTexts(ts)), d))
<1> DEFINE nm == "event.tags"
           s == TagTexts(ts)
           m == Len(ts)
           g == [i \in 1..m |-> Try(0, <<ts[i]>>)]
           sep == Hope(0, <<"comma">>)
           end == Hope(0, <<"quote">>)
           a == Try(0, <<"_", "event.tags", "=quote">>)
           body == FlattenSeq([i \in 1..m |-> (IF i > 1 THEN sep ELSE <<>>) \o g[i]])
<1>1. /\ m \in Nat /\ 0 \in 0..n /\ s \in Seq(Seq(STRING)) /\ Len(s) = m
      /\ \A i \in 1..m : ts[i] \in STRING /\ ts[i] \notin Reserved /\ s[i] = Append(<<>>, ts[i])
  BY TagTextsAre
<1>2. TagsSyslog(ts) = a \o body \o end
  <2>1. body = Join(ts, Hope(0, <<"comma">>), LAMBDA t : Try(0, <<t>>))
    BY DEF Join, Each
  <2> QED BY <2>1, Zenon DEF TagsSyslog
<1>3. a \in Seq(Pieces(n)) /\ end \in Seq(Pieces(n)) /\ sep \in Seq(Pieces(n))
  BY <1>1, LiteralType, AddType
<1>4. \A i \in 1..m : <<ts[i]>> \in Seq(Tokens) /\ g[i] \in Seq(Pieces(n))
  BY <1>1, LiteralType, AddType
<1>5. \A i \in 1..m : \A w :
        Runs("syslog", In("text", nm, <<>>, w, d), g[i], In("text", nm, s[i], w, d))
  <2> SUFFICES ASSUME NEW i \in 1..m, NEW w
               PROVE  Runs("syslog", In("text", nm, <<>>, w, d), g[i], In("text", nm, s[i], w, d))
    OBVIOUS
  <2> DEFINE t == ts[i]
             z == <<>>
  <2>1. t \notin {"comma", "quote", "\\"} /\ <<t>> \in Seq(Tokens) /\ g[i] = Try(0, <<t>>)
        /\ s[i] = Append(z, t)
    BY <1>1, <1>4 DEF Reserved
  <2> HIDE DEF t, nm, z, g, s
  <2>2. Reader("syslog", In("text", nm, z, w, d), t) = In("text", nm, Append(z, t), w, d)
    BY <2>1, SyslogReads
  <2>3. Runs("syslog", In("text", nm, z, w, d), Try(0, <<t>>), In("text", nm, Append(z, t), w, d))
    BY <2>1, <2>2, RunsToken
  <2> QED BY <2>1, <2>3 DEF z
<1>6. Runs("syslog", Gap(o, d), a, In("text", nm, <<>>, <<>>, d))
  <2>1. /\ Reader("syslog", Gap(o, d), "_") = Gap("_", d)
        /\ Reader("syslog", Gap("_", d), "event.tags") = Gap(nm, d)
    <3>1. \A x, c : c # "=quote" => Reader("syslog", Gap(x, d), c) = Gap(c, d)
      BY SyslogReads DEF Gap
    <3>2. "_" # "=quote" /\ nm # "=quote" /\ nm = "event.tags"
      OBVIOUS
    <3> HIDE DEF nm
    <3> QED BY <3>1, <3>2
  <2>3. Reader("syslog", Gap(nm, d), "=quote") = In("text", nm, <<>>, <<>>, d)
    BY SyslogReads DEF Gap
  <2>2. <<"_", "event.tags", "=quote">> \in Seq(Tokens)
    BY LiteralType
  <2> QED BY <2>1, <2>2, <2>3, RunsThree
<1> HIDE DEF g
<1>7. body \in Seq(Pieces(n))
  BY <1>1, <1>3, <1>4, JoinType
<1>8. Runs("syslog", In("text", nm, <<>>, <<>>, d), body \o end, After(nm, Quoted(s), d))
  <2> DEFINE U == Seq(STRING)
  <2> HIDE DEF nm, s, m, U
  <2> QED BY <1>1, <1>4, <1>5, SyslogList DEF U
<1> DEFINE u == After(nm, Quoted(s), d)
           rest == body \o end
           v == In("text", nm, <<>>, <<>>, d)
<1> HIDE DEF a, body, end, u, v, nm, s
<1>9. rest \in Seq(Pieces(n)) /\ a \o body \o end = a \o rest
  <2> DEFINE P == Pieces(n)
  <2>1. a \in Seq(P) /\ body \in Seq(P) /\ end \in Seq(P)
    BY <1>3, <1>7
  <2> HIDE DEF P
  <2>2. (a \o body) \o end = a \o (body \o end)
    BY ONLY <2>1, ConcatRegroups
  <2> QED BY <1>3, <1>7, <2>2, ConcatType
<1>10. Runs("syslog", Gap(o, d), a, v) /\ Runs("syslog", v, rest, u)
  BY <1>6, <1>8 DEF u, v
<1> HIDE DEF rest
<1>11. Runs("syslog", Gap(o, d), a \o rest, u)
  BY <1>3, <1>9, <1>10, RunsConcat
<1> QED BY <1>2, <1>9, <1>11 DEF u, s, nm

LEMMA TagsJSONRuns ==
  ASSUME NEW n \in Nat, NEW ts \in Seq(STRING), \A i \in 1..Len(ts) : ts[i] \notin Reserved,
         NEW o, NEW d
  PROVE  Runs("json", Gap(o, d), TagsJSON(ts), After("event.tags", TagTexts(ts), d))
<1> DEFINE nm == "event.tags"
           s == TagTexts(ts)
           m == Len(ts)
           q == Hope(0, <<"quote">>)
           g == [i \in 1..m |-> q \o Try(0, <<ts[i]>>) \o q]
           sep == Hope(0, <<"comma">>)
           end == Hope(0, <<"]">>)
           a == Try(0, <<"quote", "event.tags", "quote:", "[">>)
           body == FlattenSeq([i \in 1..m |-> (IF i > 1 THEN sep ELSE <<>>) \o g[i]])
<1>1. /\ m \in Nat /\ 0 \in 0..n /\ s \in Seq(Seq(STRING)) /\ Len(s) = m
      /\ \A i \in 1..m : ts[i] \in STRING /\ ts[i] \notin Reserved /\ s[i] = Append(<<>>, ts[i])
  BY TagTextsAre
<1>2. TagsJSON(ts) = a \o body \o end
  <2>1. body = Join(ts, Hope(0, <<"comma">>),
                    LAMBDA t : Hope(0, <<"quote">>) \o Try(0, <<t>>) \o Hope(0, <<"quote">>))
    BY DEF Join, Each
  <2> QED BY <2>1, Zenon DEF TagsJSON
<1>3. /\ a \in Seq(Pieces(n)) /\ end \in Seq(Pieces(n)) /\ sep \in Seq(Pieces(n))
      /\ q \in Seq(Pieces(n))
  BY <1>1, LiteralType, AddType
<1>4. \A i \in 1..m : /\ <<ts[i]>> \in Seq(Tokens) /\ Try(0, <<ts[i]>>) \in Seq(Pieces(n))
                      /\ g[i] \in Seq(Pieces(n))
  <2>1. \A i \in 1..m : <<ts[i]>> \in Seq(Tokens) /\ Try(0, <<ts[i]>>) \in Seq(Pieces(n))
    BY <1>1, LiteralType, AddType
  <2> HIDE DEF q
  <2> QED BY <1>3, <2>1, ConcatType
<1>5. \A i \in 1..m : \A w :
        Runs("json", InList("list", nm, <<>>, w, d), g[i],
             InList("list", nm, <<>>, Append(w, s[i]), d))
  <2> SUFFICES ASSUME NEW i \in 1..m, NEW w
               PROVE  Runs("json", InList("list", nm, <<>>, w, d), g[i],
                           InList("list", nm, <<>>, Append(w, s[i]), d))
    OBVIOUS
  <2> DEFINE t == ts[i]
             z == <<>>
             b == Try(0, <<t>>)
             u1 == InList("list", nm, z, w, d)
             u2 == InList("text", nm, z, w, d)
             u3 == InList("text", nm, Append(z, t), w, d)
             u4 == InList("list", nm, z, Append(w, Append(z, t)), d)
  <2>1. t \notin {"quote", "\\"} /\ <<t>> \in Seq(Tokens) /\ g[i] = q \o b \o q
        /\ s[i] = Append(z, t) /\ b \in Seq(Pieces(n))
    BY <1>1, <1>4 DEF Reserved
  <2>2. <<"quote">> \in Seq(Tokens)
    BY LiteralType
  <2> HIDE DEF t, nm, g, s
  <2>3. u2 = Reader("json", u1, "quote") /\ u3 = Reader("json", u2, t)
        /\ u4 = Reader("json", u3, "quote")
    <3>1. u4 = InList("list", nm, <<>>, Append(w, Append(z, t)), d)
      OBVIOUS
    <3> HIDE DEF z
    <3>2. u2 = Reader("json", u1, "quote")
      BY JSONListReads
    <3>3. u3 = Reader("json", u2, t)
      BY <2>1, JSONListReads
    <3>4. u4 = Reader("json", u3, "quote")
      BY <3>1, JSONListReads
    <3> QED BY <3>2, <3>3, <3>4
  <2> HIDE DEF u1, u2, u3, u4
  <2>4. Runs("json", u1, q, u2) /\ Runs("json", u2, b, u3) /\ Runs("json", u3, q, u4)
    BY <2>1, <2>2, <2>3, RunsToken
  <2> HIDE DEF q, b
  <2>5. Runs("json", u1, q \o b \o q, u4)
    BY <1>3, <2>1, <2>4, RunsParts
  <2> QED BY <2>1, <2>5 DEF u1, u4, z
<1>6. Runs("json", Gap(o, d), a, InList("list", nm, <<>>, <<>>, d))
  <2> DEFINE u1 == In("name", o, <<>>, <<>>, d)
             u2 == In("name", nm, <<>>, <<>>, d)
             u3 == In("value", nm, <<>>, <<>>, d)
             u4 == InList("list", nm, <<>>, <<>>, d)
  <2>1. /\ Reader("json", Gap(o, d), "quote") = u1 /\ Reader("json", u1, "event.tags") = u2
        /\ Reader("json", u2, "quote:") = u3 /\ Reader("json", u3, "[") = u4
    BY JSONReads DEF Gap
  <2>2. "quote" \in Tokens /\ "event.tags" \in Tokens /\ "quote:" \in Tokens /\ "[" \in Tokens
    BY DEF Tokens, Char
  <2> HIDE DEF u1, u2, u3, u4
  <2>3. Runs("json", Gap(o, d), a, u4)
    BY <2>1, <2>2, RunsFour
  <2> QED BY <2>3 DEF u4
<1> HIDE DEF g
<1>7. body \in Seq(Pieces(n))
  BY <1>1, <1>3, <1>4, JoinType
<1>8. Runs("json", InList("list", nm, <<>>, <<>>, d), body \o end, After(nm, s, d))
  <2> DEFINE U == Seq(STRING)
  <2> HIDE DEF nm, s, m, U
  <2> QED BY <1>1, <1>4, <1>5, JSONList DEF U
<1> DEFINE u == After(nm, s, d)
           rest == body \o end
           v == InList("list", nm, <<>>, <<>>, d)
<1> HIDE DEF a, body, end, u, v, nm, s
<1>9. rest \in Seq(Pieces(n)) /\ a \o body \o end = a \o rest
  <2> DEFINE P == Pieces(n)
  <2>1. a \in Seq(P) /\ body \in Seq(P) /\ end \in Seq(P)
    BY <1>3, <1>7
  <2> HIDE DEF P
  <2>2. (a \o body) \o end = a \o (body \o end)
    BY ONLY <2>1, ConcatRegroups
  <2> QED BY <1>3, <1>7, <2>2, ConcatType
<1>10. Runs("json", Gap(o, d), a, v) /\ Runs("json", v, rest, u)
  BY <1>6, <1>8 DEF u, v
<1> HIDE DEF rest
<1>11. Runs("json", Gap(o, d), a \o rest, u)
  BY <1>3, <1>9, <1>10, RunsConcat
<1> QED BY <1>2, <1>9, <1>11 DEF u, s, nm

LEMMA TagsXMLRuns ==
  ASSUME NEW n \in Nat, NEW ts \in Seq(STRING), \A i \in 1..Len(ts) : ts[i] \notin Reserved,
         NEW o, NEW d
  PROVE  Runs("xml", Gap(o, d), TagsXML(ts), After("event.tags", TagTexts(ts), d))
<1> DEFINE nm == "event.tags"
           s == TagTexts(ts)
           m == Len(ts)
           l == Try(0, <<"<", "tag>">>)
           q == Try(0, <<"<", "/tag>">>)
           g == [i \in 1..m |-> l \o Try(0, <<ts[i]>>) \o q]
           end == Try(0, <<"<", "/event.tags>">>)
           a == Try(0, <<"<", "event.tags>">>)
           body == FlattenSeq([i \in 1..m |-> (IF i > 1 THEN <<>> ELSE <<>>) \o g[i]])
<1>1. /\ m \in Nat /\ 0 \in 0..n /\ s \in Seq(Seq(STRING)) /\ Len(s) = m
      /\ \A i \in 1..m : ts[i] \in STRING /\ ts[i] \notin Reserved /\ s[i] = Append(<<>>, ts[i])
  BY TagTextsAre
<1>2. TagsXML(ts) = a \o body \o end
  <2>1. body = Join(ts, <<>>, LAMBDA t : Try(0, <<"<", "tag>">>) \o Try(0, <<t>>)
                                           \o Try(0, <<"<", "/tag>">>))
    BY DEF Join, Each
  <2> QED BY <2>1, Zenon DEF TagsXML
<1>3. /\ a \in Seq(Pieces(n)) /\ end \in Seq(Pieces(n)) /\ l \in Seq(Pieces(n))
      /\ q \in Seq(Pieces(n)) /\ <<>> \in Seq(Pieces(n))
  <2>1. <<>> \in Seq(Pieces(n))
    OBVIOUS
  <2> QED BY <1>1, <2>1, LiteralType, AddType
<1>4. \A i \in 1..m : /\ <<ts[i]>> \in Seq(Tokens) /\ Try(0, <<ts[i]>>) \in Seq(Pieces(n))
                      /\ g[i] \in Seq(Pieces(n))
  <2>1. \A i \in 1..m : <<ts[i]>> \in Seq(Tokens) /\ Try(0, <<ts[i]>>) \in Seq(Pieces(n))
    BY <1>1, LiteralType, AddType
  <2> HIDE DEF l, q
  <2> QED BY <1>3, <2>1, ConcatType
<1>5. \A i \in 1..m : \A w :
        Runs("xml", In("gap", nm, <<>>, w, d), g[i], In("gap", nm, <<>>, Append(w, s[i]), d))
  <2> SUFFICES ASSUME NEW i \in 1..m, NEW w
               PROVE  Runs("xml", In("gap", nm, <<>>, w, d), g[i],
                           In("gap", nm, <<>>, Append(w, s[i]), d))
    OBVIOUS
  <2> DEFINE t == ts[i]
             z == <<>>
             b == Try(0, <<t>>)
             u1 == In("gap", nm, z, w, d)
             u2 == In("text", nm, z, w, d)
             u3 == In("text", nm, Append(z, t), w, d)
             u4 == In("gap", nm, z, Append(w, Append(z, t)), d)
  <2>1. t \notin {"<", "&"} /\ <<t>> \in Seq(Tokens) /\ g[i] = l \o b \o q
        /\ s[i] = Append(z, t) /\ b \in Seq(Pieces(n))
    BY <1>1, <1>4 DEF Reserved
  <2>2. <<"<", "tag>">> \in Seq(Tokens) /\ <<"<", "/tag>">> \in Seq(Tokens)
    BY LiteralType
  <2> HIDE DEF t, nm, g, s
  <2>3. /\ u1 = Reader("xml", u1, "<") /\ u2 = Reader("xml", u1, "tag>")
        /\ u3 = Reader("xml", u2, t)
        /\ u4 = Reader("xml", u3, "<") /\ u4 = Reader("xml", u4, "/tag>")
    <3>1. u4 = In("gap", nm, <<>>, Append(w, Append(z, t)), d)
      OBVIOUS
    <3> HIDE DEF z
    <3>2. u1 = Reader("xml", u1, "<") /\ u2 = Reader("xml", u1, "tag>")
          /\ u4 = Reader("xml", u4, "/tag>")
      BY XMLReads
    <3> QED BY <2>1, <3>1, <3>2, XMLTextReads
  <2> HIDE DEF u1, u2, u3, u4
  <2>4. Runs("xml", u1, l, u2) /\ Runs("xml", u2, b, u3) /\ Runs("xml", u3, q, u4)
    BY <2>1, <2>2, <2>3, RunsToken, RunsPair
  <2> HIDE DEF q, b, l
  <2>5. Runs("xml", u1, l \o b \o q, u4)
    BY <1>3, <2>1, <2>4, RunsParts
  <2> QED BY <2>1, <2>5 DEF u1, u4, z
<1>6. /\ Runs("xml", Gap(o, d), a, Gap(nm, d))
      /\ Runs("xml", In("gap", nm, <<>>, s, d), end, After(nm, s, d))
  <2>1. /\ Reader("xml", Gap(o, d), "<") = Gap(o, d)
        /\ Reader("xml", Gap(o, d), "event.tags>") = Gap(nm, d)
    BY XMLReads DEF Gap
  <2>2. <<"<", "event.tags>">> \in Seq(Tokens) /\ <<"<", "/event.tags>">> \in Seq(Tokens)
    BY LiteralType
  <2> HIDE DEF nm, s
  <2>3. /\ Reader("xml", In("gap", nm, <<>>, s, d), "<") = In("gap", nm, <<>>, s, d)
        /\ Reader("xml", In("gap", nm, <<>>, s, d), "/event.tags>") = After(nm, s, d)
    BY XMLReads
  <2> QED BY <2>1, <2>2, <2>3, RunsPair
<1> HIDE DEF g
<1>7. body \in Seq(Pieces(n))
  BY <1>1, <1>3, <1>4, JoinType
<1>8. Runs("xml", Gap(nm, d), body, In("gap", nm, <<>>, s, d))
  <2> DEFINE U == Seq(STRING)
  <2> HIDE DEF nm, s, m, U
  <2> QED BY <1>1, <1>4, <1>5, XMLList DEF U
<1> HIDE DEF a, body, end, nm, s
<1>9. Runs("xml", Gap(o, d), a \o body \o end, After(nm, s, d))
  BY <1>3, <1>6, <1>7, <1>8, RunsParts
<1> QED BY <1>2, <1>9 DEF s, nm

----------------------------------------------------------------------------
(* The event: its tags and its fields one after the other.                 *)

\* the field that a reader makes of the tags, and of a field
TagField(w)   == <<[name |-> "event.tags", vals |-> w]>>
Shown(fmt, f) == [name |-> f.name, vals |-> IF fmt = "xml" THEN f.vals ELSE Quoted(f.vals)]

Tagged(fmt, e, fl) ==
  IF e.tags = None \/ (fmt = "json" /\ "flat" \notin fl) THEN <<>>
  ELSE TagField(IF fmt = "syslog" THEN Quoted(TagTexts(e.tags)) ELSE TagTexts(e.tags))
Filled(fmt, e) == [i \in 1..Len(Fields(e)) |-> Shown(fmt, Fields(e)[i])]

EventLegible(e) ==
  /\ e.tags # None => \A i \in 1..Len(e.tags) : e.tags[i] \notin Reserved
  /\ \A k \in 1..Len(Fields(e)) : Fields(e)[k].name \notin Reserved

\* a part of a program that a reader takes for one more field
Adds(fmt, g, f) == \A x, d : Runs(fmt, Gap(x, d), g, Gap("", Append(d, f)))

LEMMA FieldsRun ==
  ASSUME NEW n \in Nat, NEW U, NEW s \in Seq(U), NEW g,
         \A i \in 1..Len(s) : g[i] \in Seq(Pieces(n)),
         NEW e, NEW d \in Seq(U), NEW o,
         \A i \in 1..Len(s) : Adds(e, g[i], s[i])
  PROVE  \E x : Runs(e, Gap(o, d), FlattenSeq([i \in 1..Len(s) |-> g[i]]), Gap(x, d \o s))
<1> DEFINE nm(x) == IF x = <<>> THEN o ELSE ""
           h == [x \in Seq(U) |-> Gap(nm(x), d \o x)]
<1>1. Len(s) \in Nat /\ <<>> \in Seq(U) /\ \A i \in 1..Len(s) : s[i] \in U
  OBVIOUS
<1>2. \A x \in Seq(U), a \in U :
        /\ d \o Append(x, a) = Append(d \o x, a) /\ Append(x, a) # <<>> /\ Append(x, a) \in Seq(U)
  <2> SUFFICES ASSUME NEW x \in Seq(U), NEW a \in U
               PROVE  /\ d \o Append(x, a) = Append(d \o x, a)
                      /\ Append(x, a) # <<>> /\ Append(x, a) \in Seq(U)
    OBVIOUS
  <2>1. d \o Append(x, a) = Append(d \o x, a)
    OBVIOUS
  <2>2. Append(x, a) # <<>>
    OBVIOUS
  <2>3. Append(x, a) \in Seq(U)
    OBVIOUS
  <2> QED BY <2>1, <2>2, <2>3
<1>3. nm(<<>>) = o /\ d \o <<>> = d /\ \A x \in Seq(U), a \in U : nm(Append(x, a)) = ""
  <2>1. nm(<<>>) = o
    OBVIOUS
  <2>2. d \o <<>> = d
    OBVIOUS
  <2>3. \A x \in Seq(U), a \in U : nm(Append(x, a)) = ""
    BY <1>2
  <2> QED BY <2>1, <2>2, <2>3
<1>4. h[<<>>] = Gap(o, d) /\ h[s] = Gap(nm(s), d \o s)
  <2>1. h[<<>>] = Gap(nm(<<>>), d \o <<>>) /\ h[s] = Gap(nm(s), d \o s)
    BY <1>1
  <2> HIDE DEF nm, h
  <2> QED BY <1>3, <2>1
<1>5. \A x \in Seq(U), a \in U :
        /\ h[x] = Gap(nm(x), d \o x) /\ h[Append(x, a)] = Gap("", Append(d \o x, a))
  <2> SUFFICES ASSUME NEW x \in Seq(U), NEW a \in U
               PROVE  h[x] = Gap(nm(x), d \o x) /\ h[Append(x, a)] = Gap("", Append(d \o x, a))
    OBVIOUS
  <2> DEFINE y == Append(x, a)
  <2>1. y \in Seq(U) /\ nm(y) = "" /\ d \o y = Append(d \o x, a)
    BY <1>2, <1>3
  <2> HIDE DEF y, nm
  <2>2. h[x] = Gap(nm(x), d \o x) /\ h[y] = Gap(nm(y), d \o y)
    BY <2>1
  <2> HIDE DEF h
  <2> QED BY <2>1, <2>2 DEF y
<1> HIDE DEF h, nm
<1>6. \A i \in 1..Len(s) : \A x \in Seq(U) :
        Len(x) = i - 1 => Runs(e, h[x], g[i], h[Append(x, s[i])])
  <2> SUFFICES ASSUME NEW i \in 1..Len(s), NEW x \in Seq(U)
               PROVE  Runs(e, h[x], g[i], h[Append(x, s[i])])
    OBVIOUS
  <2> DEFINE y == d \o x
  <2>1. h[x] = Gap(nm(x), y) /\ h[Append(x, s[i])] = Gap("", Append(y, s[i]))
    BY <1>1, <1>5
  <2>2. Adds(e, g[i], s[i])
    OBVIOUS
  <2> HIDE DEF y
  <2>3. Runs(e, Gap(nm(x), y), g[i], Gap("", Append(y, s[i])))
    BY <2>2 DEF Adds
  <2> QED BY <2>1, <2>3
<1>7. Runs(e, h[<<>>], FlattenSeq([i \in 1..Len(s) |-> g[i]]), h[s])
  BY <1>6, RunsGrow
<1> QED BY <1>4, <1>7

LEMMA TagsRun ==
  ASSUME NEW n \in Nat, NEW e, EventIs(e), EventLegible(e), NEW o
  PROVE  /\ \E x : Runs("syslog", Gap(o, <<>>), Opt(e.tags, TagsSyslog),
                        Gap(x, Tagged("syslog", e, {})))
         /\ \E x : Runs("xml", Gap(o, <<>>), Opt(e.tags, TagsXML), Gap(x, Tagged("xml", e, {})))
         /\ \A fl : \E x : Runs("json", Gap(o, <<>>),
                                IF "flat" \in fl THEN Opt(e.tags, TagsJSON) ELSE <<>>,
                                Gap(x, Tagged("json", e, fl)))
<1> DEFINE ts == e.tags
           none == <<>>
<1>1. CASE ts = None
  <2>1. /\ Opt(e.tags, TagsSyslog) = none /\ Opt(e.tags, TagsXML) = none
        /\ Opt(e.tags, TagsJSON) = none
    BY <1>1 DEF Opt
  <2>2. \A fmt, fl : Tagged(fmt, e, fl) = none
    BY <1>1 DEF Tagged
  <2>3. \A fmt : Runs(fmt, Gap(o, none), none, Gap(o, none))
    BY RunsNone
  <2> HIDE DEF none
  <2> QED BY <2>1, <2>2, <2>3, Zenon DEF none
<1>2. CASE ts # None
  <2>1. ts \in Seq(STRING) /\ \A i \in 1..Len(ts) : ts[i] \notin Reserved
    BY <1>2 DEF EventIs, EventLegible
  <2>2. /\ Opt(e.tags, TagsSyslog) = TagsSyslog(ts) /\ Opt(e.tags, TagsXML) = TagsXML(ts)
        /\ Opt(e.tags, TagsJSON) = TagsJSON(ts)
    BY <1>2 DEF Opt
  <2>3. /\ \A fl : Tagged("syslog", e, fl) = TagField(Quoted(TagTexts(ts)))
        /\ \A fl : Tagged("xml", e, fl) = TagField(TagTexts(ts))
        /\ \A fl : Tagged("json", e, fl)
                     = IF "flat" \in fl THEN TagField(TagTexts(ts)) ELSE none
    BY <1>2 DEF Tagged
  <2>4. \A w : After("event.tags", w, none) = Gap("", TagField(w))
    <3> SUFFICES ASSUME NEW w PROVE After("event.tags", w, none) = Gap("", TagField(w))
      OBVIOUS
    <3> DEFINE a == [name |-> "event.tags", vals |-> w]
    <3>1. After("event.tags", w, none) = Gap("", Append(none, a)) /\ TagField(w) = <<a>>
      BY DEF After, TagField
    <3> HIDE DEF a
    <3>2. <<a>> = Append(none, a)
      OBVIOUS
    <3> QED BY <3>1, <3>2
  <2> HIDE DEF ts, none
  <2>5. /\ Runs("syslog", Gap(o, none), TagsSyslog(ts), Gap("", TagField(Quoted(TagTexts(ts)))))
        /\ Runs("json", Gap(o, none), TagsJSON(ts), Gap("", TagField(TagTexts(ts))))
        /\ Runs("xml", Gap(o, none), TagsXML(ts), Gap("", TagField(TagTexts(ts))))
    BY <2>1, <2>4, TagsSyslogRuns, TagsJSONRuns, TagsXMLRuns
  <2>6. Runs("json", Gap(o, none), none, Gap(o, none))
    BY RunsNone DEF none
  <2>7. ASSUME NEW fl
        PROVE  \E x : Runs("json", Gap(o, none),
                           IF "flat" \in fl THEN Opt(e.tags, TagsJSON) ELSE none,
                           Gap(x, Tagged("json", e, fl)))
    <3>1. CASE "flat" \in fl
      BY <2>2, <2>3, <2>5, <3>1, Zenon
    <3>2. CASE "flat" \notin fl
      BY <2>3, <2>6, <3>2, Zenon
    <3> QED BY <3>1, <3>2
  <2>8. /\ \E x : Runs("syslog", Gap(o, none), Opt(e.tags, TagsSyslog),
                       Gap(x, Tagged("syslog", e, {})))
        /\ \E x : Runs("xml", Gap(o, none), Opt(e.tags, TagsXML), Gap(x, Tagged("xml", e, {})))
    BY <2>2, <2>3, <2>5, Zenon
  <2> QED BY <2>7, <2>8, Zenon DEF none
<1> QED BY <1>1, <1>2

LEMMA EventFieldsRun ==
  ASSUME NEW n \in Nat, NEW e, EventIs(e), NEW fmt, NEW fl, NEW o, NEW g,
         \A k \in 1..Len(Fields(e)) : /\ g[k] \in Seq(Pieces(n))
                                      /\ Adds(fmt, g[k], Shown(fmt, Fields(e)[k]))
  PROVE  \E x : Runs(fmt, Gap(o, Tagged(fmt, e, fl)),
                     FlattenSeq([k \in 1..Len(Fields(e)) |-> g[k]]),
                     Gap(x, Tagged(fmt, e, fl) \o Filled(fmt, e)))
<1> DEFINE m == Len(Fields(e))
           d == Tagged(fmt, e, fl)
           s == Filled(fmt, e)
           U == {d[1]} \cup {s[k] : k \in 1..m}
<1>1. m \in Nat /\ s = [k \in 1..m |-> s[k]] /\ \A k \in 1..m : s[k] = Shown(fmt, Fields(e)[k])
  BY FieldsType DEF Filled
<1>2. d \in Seq(U)
  <2>1. CASE d = <<>>
    BY <2>1
  <2>2. CASE d # <<>>
    <3>1. PICK w : d = TagField(w)
      BY <2>2 DEF Tagged
    <3>2. PICK a : d = <<a>>
      BY <3>1 DEF TagField
    <3>3. d = <<d[1]>> /\ d[1] \in U
      BY <3>2
    <3> HIDE DEF d, U
    <3>4. \A y \in U : <<y>> \in Seq(U)
      OBVIOUS
    <3> QED BY <3>3, <3>4
  <2> QED BY <2>1, <2>2
<1>3. \A k \in 1..m : s[k] \in U
  BY <1>1
<1> HIDE DEF U, s, m, d
<1>4. s \in Seq(U) /\ Len(s) = m
  <2>1. s \in [1..m -> U]
    BY <1>1, <1>3
  <2> QED BY <1>1, <2>1
<1>5. \A k \in 1..m : g[k] \in Seq(Pieces(n)) /\ Adds(fmt, g[k], s[k])
  BY <1>1 DEF m
<1>6. \E x : Runs(fmt, Gap(o, d), FlattenSeq([k \in 1..Len(s) |-> g[k]]), Gap(x, d \o s))
  BY <1>2, <1>4, <1>5, FieldsRun
<1>7. \E x : Runs(fmt, Gap(o, d), FlattenSeq([k \in 1..m |-> g[k]]), Gap(x, d \o s))
  BY <1>4, <1>6
<1> QED BY <1>7 DEF d, s, m

LEMMA GapReads ==
  /\ \A o, d, c : c # "=quote" => Reader("syslog", Gap(o, d), c) = Gap(c, d)
  /\ \A o, d, c : c # "quote" => Reader("json", Gap(o, d), c) = Gap(o, d)
  /\ \A o, d : \A c \in {"<", "event>", "/event>"} : Reader("xml", Gap(o, d), c) = Gap(o, d)
<1>1. \A o, d, c : c # "=quote" => Reader("syslog", Gap(o, d), c) = Gap(c, d)
  BY SyslogReads DEF Gap
<1>2. \A o, d, c : c # "quote" => Reader("json", Gap(o, d), c) = Gap(o, d)
  BY JSONReads DEF Gap
<1>3. \A o, d : \A c \in {"<", "event>", "/event>"} : Reader("xml", Gap(o, d), c) = Gap(o, d)
  BY XMLReads DEF Gap
<1> QED BY <1>1, <1>2, <1>3

LEMMA FieldsAdd ==
  ASSUME NEW n \in Nat, NEW k \in 0..n, NEW f \in FieldOf, f.name \notin Reserved
  PROVE  /\ Adds("syslog", Hope(0, <<"_">>) \o FieldSyslog(k, f), Shown("syslog", f))
         /\ Adds("xml", FieldXML(k, f), Shown("xml", f))
         /\ \A ultra \in BOOLEAN :
              ~(ultra /\ f.vals = <<>>) =>
                /\ Adds("json", FieldJSON(k, f, ultra), Shown("json", f))
                /\ Adds("json", Try(0, <<"comma_">>) \o FieldJSON(k, f, ultra), Shown("json", f))
<1>1. /\ Shown("syslog", f) = [name |-> f.name, vals |-> Quoted(f.vals)]
      /\ Shown("json", f) = [name |-> f.name, vals |-> Quoted(f.vals)]
      /\ Shown("xml", f) = [name |-> f.name, vals |-> f.vals]
  BY DEF Shown
<1> DEFINE p == FieldSyslog(k, f)
           blank == Hope(0, <<"_">>)
           comma == Try(0, <<"comma_">>)
<1>2. p \in Seq(Pieces(n)) /\ blank \in Seq(Pieces(n)) /\ comma \in Seq(Pieces(n))
  BY FieldTypes, EventLiterals
<1>3. \A x, d : /\ Runs("syslog", Gap(x, d), blank, Gap("_", d))
                /\ Runs("json", Gap(x, d), comma, Gap(x, d))
  <2> SUFFICES ASSUME NEW x, NEW d
               PROVE  /\ Runs("syslog", Gap(x, d), blank, Gap("_", d))
                      /\ Runs("json", Gap(x, d), comma, Gap(x, d))
    OBVIOUS
  <2>1. <<"_">> \in Seq(Tokens) /\ <<"comma_">> \in Seq(Tokens)
    BY LiteralType
  <2>2. Reader("syslog", Gap(x, d), "_") = Gap("_", d)
    <3> DEFINE c == "_"
    <3>1. c # "=quote"
      OBVIOUS
    <3> HIDE DEF c
    <3>2. Reader("syslog", Gap(x, d), c) = Gap(c, d)
      BY <3>1, GapReads
    <3> QED BY <3>2 DEF c
  <2>3. Reader("json", Gap(x, d), "comma_") = Gap(x, d)
    BY GapReads
  <2> QED BY <2>1, <2>2, <2>3, RunsToken
<1> HIDE DEF blank, comma, p
<1>4. ASSUME NEW x, NEW d
      PROVE  Runs("syslog", Gap(x, d), blank \o p, Gap("", Append(d, Shown("syslog", f))))
  <2>1. Runs("syslog", Gap("_", d), p, After(f.name, Quoted(f.vals), d))
    BY FieldSyslogRuns DEF p
  <2>2. After(f.name, Quoted(f.vals), d) = Gap("", Append(d, Shown("syslog", f)))
    BY <1>1, Zenon DEF After
  <2>3. Runs("syslog", Gap(x, d), blank, Gap("_", d))
    BY <1>3
  <2> QED BY <1>2, <2>1, <2>2, <2>3, RunsConcat
<1>5. ASSUME NEW x, NEW d
      PROVE  Runs("xml", Gap(x, d), FieldXML(k, f), Gap("", Append(d, Shown("xml", f))))
  <2>1. Runs("xml", Gap(x, d), FieldXML(k, f), After(f.name, f.vals, d))
    BY FieldXMLRuns
  <2>2. After(f.name, f.vals, d) = Gap("", Append(d, Shown("xml", f)))
    BY <1>1, Zenon DEF After
  <2> QED BY <2>1, <2>2
<1>6. ASSUME NEW ultra \in BOOLEAN, ~(ultra /\ f.vals = <<>>), NEW x, NEW d
      PROVE  /\ Runs("json", Gap(x, d), FieldJSON(k, f, ultra),
                     Gap("", Append(d, Shown("json", f))))
             /\ Runs("json", Gap(x, d), comma \o FieldJSON(k, f, ultra),
                     Gap("", Append(d, Shown("json", f))))
  <2>1. /\ Runs("json", Gap(x, d), FieldJSON(k, f, ultra), After(f.name, Quoted(f.vals), d))
        /\ FieldJSON(k, f, ultra) \in Seq(Pieces(n))
    BY <1>6, FieldJSONRuns, FieldTypes
  <2>2. After(f.name, Quoted(f.vals), d) = Gap("", Append(d, Shown("json", f)))
    BY <1>1, Zenon DEF After
  <2>3. Runs("json", Gap(x, d), comma, Gap(x, d))
    BY <1>3
  <2> QED BY <1>2, <2>1, <2>2, <2>3, RunsConcat
<1>7. Adds("syslog", blank \o p, Shown("syslog", f)) /\ Adds("xml", FieldXML(k, f), Shown("xml", f))
  BY <1>4, <1>5, Zenon DEF Adds
<1>8. ASSUME NEW ultra \in BOOLEAN, ~(ultra /\ f.vals = <<>>)
      PROVE  /\ Adds("json", FieldJSON(k, f, ultra), Shown("json", f))
             /\ Adds("json", comma \o FieldJSON(k, f, ultra), Shown("json", f))
  BY <1>6, <1>8, Zenon DEF Adds
<1> QED BY <1>7, <1>8, Zenon DEF blank, comma, p

LEMMA RunsAll ==
  ASSUME NEW n \in Nat, NEW a \in Seq(Pieces(n)), NEW b \in Seq(Pieces(n)),
         NEW c \in Seq(Pieces(n)), NEW x \in Seq(Pieces(n)),
         NEW e, NEW s, NEW t, NEW u, NEW v, NEW w,
         Runs(e, s, a, t), Runs(e, t, b, u), Runs(e, u, c, v), Runs(e, v, x, w)
  PROVE  Runs(e, s, a \o b \o c \o x, w)
<1>1. a \o b \o c \in Seq(Pieces(n))
  BY ConcatType
<1>2. Runs(e, s, a \o b \o c, v)
  BY RunsParts
<1> QED BY <1>1, <1>2, RunsConcat

LEMMA StartIs == Start = Gap("", <<>>)
BY Zenon DEF Start, Gap, In

\* What a reader hears of an event when every append succeeds.
Heard(fmt, e, fl) == Tagged(fmt, e, fl) \o Filled(fmt, e)

LEMMA EventsRun ==
  ASSUME NEW e, EventIs(e), EventLegible(e)
  PROVE  /\ \E x : Runs("syslog", Start, fmtEventToRFC5424(e), Gap(x, Heard("syslog", e, {})))
         /\ \E x : Runs("xml", Start, fmtEventToXML(e), Gap(x, Heard("xml", e, {})))
         /\ \A fl : ~("ultra" \in fl /\ \E k \in 1..Len(Fields(e)) : Fields(e)[k].vals = <<>>) =>
              \E x : Runs("json", Start, fmtEventToJSON(e, fl), Gap(x, Heard("json", e, fl)))
<1> DEFINE fs == Fields(e)
           m == Len(fs)
<1>1. m \in Nat /\ \A k \in 1..m : fs[k] \in FieldOf /\ k \in 0..m /\ fs[k].name \notin Reserved
  <2>1. fs \in Seq(FieldOf) /\ m \in Nat /\ \A k \in 1..m : fs[k].name \notin Reserved
    BY FieldsType DEF EventLegible
  <2> HIDE DEF fs
  <2>2. \A k \in 1..m : fs[k] \in FieldOf
    BY <2>1
  <2> QED BY <2>1, <2>2 DEF fs
<1>2. \A k \in 1..m : /\ FieldSyslog(k, fs[k]) \in Seq(Pieces(m))
                      /\ FieldXML(k, fs[k]) \in Seq(Pieces(m))
                      /\ \A ultra \in BOOLEAN : FieldJSON(k, fs[k], ultra) \in Seq(Pieces(m))
  <2> HIDE DEF m, fs
  <2> QED BY <1>1, FieldTypes
<1>3. /\ Opt(e.tags, TagsSyslog) \in Seq(Pieces(m)) /\ Opt(e.tags, TagsXML) \in Seq(Pieces(m))
      /\ Opt(e.tags, TagsJSON) \in Seq(Pieces(m))
  <2>1. CASE e.tags = None
    <3>1. <<>> \in Seq(Pieces(m))
      OBVIOUS
    <3> QED BY <2>1, <3>1 DEF Opt
  <2>2. CASE e.tags # None
    <3>1. e.tags \in Seq(STRING)
      BY <2>2 DEF EventIs
    <3> QED BY <1>1, <2>2, <3>1, TagTypes DEF Opt
  <2> QED BY <2>1, <2>2
<1> DEFINE z == <<>>
<1>4. /\ \E x : Runs("syslog", Start, Hope(0, <<"[cee@115">>), Gap(x, z))
      /\ Runs("json", Start, Hope(0, <<"lbrace">>), Gap("", z))
      /\ Runs("xml", Start, Hope(0, <<"<", "event>">>), Gap("", z))
  <2>1. /\ <<"[cee@115">> \in Seq(Tokens) /\ <<"lbrace">> \in Seq(Tokens)
        /\ <<"<", "event>">> \in Seq(Tokens)
    BY LiteralType
  <2>2. Start = Gap("", z)
    BY StartIs
  <2> HIDE DEF z
  <2>3. Reader("syslog", Gap("", z), "[cee@115") = Gap("[cee@115", z)
    <3> DEFINE c == "[cee@115"
               o == ""
    <3>1. c # "=quote"
      OBVIOUS
    <3> HIDE DEF c, o
    <3>2. Reader("syslog", Gap(o, z), c) = Gap(c, z)
      BY <3>1, GapReads
    <3> QED BY <3>2 DEF c, o
  <2>4. Reader("json", Gap("", z), "lbrace") = Gap("", z)
    BY GapReads
  <2>5. /\ Reader("xml", Gap("", z), "<") = Gap("", z)
        /\ Reader("xml", Gap("", z), "event>") = Gap("", z)
    BY GapReads
  <2> QED BY <2>1, <2>2, <2>3, <2>4, <2>5, RunsToken, RunsPair
<1>5. \A o, d : /\ Runs("syslog", Gap(o, d), Hope(0, <<"]">>), Gap("]", d))
                /\ Runs("json", Gap(o, d), Hope(0, <<"rbrace">>), Gap(o, d))
                /\ Runs("xml", Gap(o, d), Hope(0, <<"<", "/event>">>), Gap(o, d))
  <2> SUFFICES ASSUME NEW o, NEW d
               PROVE  /\ Runs("syslog", Gap(o, d), Hope(0, <<"]">>), Gap("]", d))
                      /\ Runs("json", Gap(o, d), Hope(0, <<"rbrace">>), Gap(o, d))
                      /\ Runs("xml", Gap(o, d), Hope(0, <<"<", "/event>">>), Gap(o, d))
    OBVIOUS
  <2>1. /\ <<"]">> \in Seq(Tokens) /\ <<"rbrace">> \in Seq(Tokens)
        /\ <<"<", "/event>">> \in Seq(Tokens)
    BY LiteralType
  <2>2. Reader("syslog", Gap(o, d), "]") = Gap("]", d)
    BY GapReads
  <2>3. Reader("json", Gap(o, d), "rbrace") = Gap(o, d)
    BY GapReads
  <2>4. Reader("xml", Gap(o, d), "<") = Gap(o, d) /\ Reader("xml", Gap(o, d), "/event>") = Gap(o, d)
    BY GapReads
  <2> QED BY <2>1, <2>2, <2>3, <2>4, RunsToken, RunsPair
<1>6. \E x : Runs("syslog", Start, fmtEventToRFC5424(e), Gap(x, Heard("syslog", e, {})))
  <2> DEFINE f == [k \in 1..m |-> Hope(0, <<"_">>) \o FieldSyslog(k, fs[k])]
             a == Hope(0, <<"[cee@115">>)
             b == Opt(e.tags, TagsSyslog)
             c == FlattenSeq(f)
             end == Hope(0, <<"]">>)
             d == Tagged("syslog", e, {})
             w == Heard("syslog", e, {})
  <2>1. \A k \in 1..m : f[k] \in Seq(Pieces(m)) /\ Adds("syslog", f[k], Shown("syslog", fs[k]))
    <3> SUFFICES ASSUME NEW k \in 1..m
                 PROVE  f[k] \in Seq(Pieces(m)) /\ Adds("syslog", f[k], Shown("syslog", fs[k]))
      OBVIOUS
    <3>1. f[k] = Hope(0, <<"_">>) \o FieldSyslog(k, fs[k])
      OBVIOUS
    <3>2. Adds("syslog", Hope(0, <<"_">>) \o FieldSyslog(k, fs[k]), Shown("syslog", fs[k]))
      <4> HIDE DEF fs, m
      <4> QED BY <1>1, FieldsAdd
    <3>3. Hope(0, <<"_">>) \o FieldSyslog(k, fs[k]) \in Seq(Pieces(m))
      BY <1>1, <1>2, EventLiterals, ConcatType
    <3> HIDE DEF f
    <3> QED BY <3>1, <3>2, <3>3
  <2>2. f = [k \in 1..m |-> f[k]]
    OBVIOUS
  <2>3. fmtEventToRFC5424(e) = a \o b \o c \o end
    BY DEF fmtEventToRFC5424, Each
  <2> HIDE DEF f
  <2>4. c \in Seq(Pieces(m))
    <3> HIDE DEF m
    <3> QED BY <1>1, <2>1, <2>2, FlatType
  <2>5. a \in Seq(Pieces(m)) /\ b \in Seq(Pieces(m)) /\ end \in Seq(Pieces(m))
    BY <1>1, <1>3, EventLiterals
  <2>6. PICK x1 : Runs("syslog", Start, a, Gap(x1, z))
    BY <1>4
  <2>7. PICK x2 : Runs("syslog", Gap(x1, z), b, Gap(x2, d))
    BY <1>1, TagsRun
  <2>8. PICK x3 : Runs("syslog", Gap(x2, d), c, Gap(x3, w))
    <3>1. \E x : Runs("syslog", Gap(x2, d), FlattenSeq([k \in 1..m |-> f[k]]),
                      Gap(x, Tagged("syslog", e, {}) \o Filled("syslog", e)))
      BY <1>1, <2>1, EventFieldsRun
    <3> QED BY <2>2, <3>1 DEF Heard
  <2>9. Runs("syslog", Gap(x3, w), end, Gap("]", w))
    BY <1>5
  <2> HIDE DEF a, b, c, end, d, w
  <2>10. Runs("syslog", Start, a \o b \o c \o end, Gap("]", w))
    BY <1>1, <2>4, <2>5, <2>6, <2>7, <2>8, <2>9, RunsAll
  <2> QED BY <2>3, <2>10 DEF w
<1>7. \E x : Runs("xml", Start, fmtEventToXML(e), Gap(x, Heard("xml", e, {})))
  <2> DEFINE f == [k \in 1..m |-> FieldXML(k, fs[k])]
             a == Hope(0, <<"<", "event>">>)
             b == Opt(e.tags, TagsXML)
             c == FlattenSeq(f)
             end == Hope(0, <<"<", "/event>">>)
             d == Tagged("xml", e, {})
             w == Heard("xml", e, {})
  <2>1. \A k \in 1..m : f[k] \in Seq(Pieces(m)) /\ Adds("xml", f[k], Shown("xml", fs[k]))
    <3> SUFFICES ASSUME NEW k \in 1..m
                 PROVE  f[k] \in Seq(Pieces(m)) /\ Adds("xml", f[k], Shown("xml", fs[k]))
      OBVIOUS
    <3>1. f[k] = FieldXML(k, fs[k]) /\ f[k] \in Seq(Pieces(m))
      BY <1>2
    <3>2. Adds("xml", FieldXML(k, fs[k]), Shown("xml", fs[k]))
      <4> HIDE DEF fs, m
      <4> QED BY <1>1, FieldsAdd
    <3> HIDE DEF f
    <3> QED BY <3>1, <3>2
  <2>2. f = [k \in 1..m |-> f[k]]
    OBVIOUS
  <2>3. fmtEventToXML(e) = a \o b \o c \o end
    BY DEF fmtEventToXML, Each
  <2> HIDE DEF f
  <2>4. c \in Seq(Pieces(m))
    <3> HIDE DEF m
    <3> QED BY <1>1, <2>1, <2>2, FlatType
  <2>5. a \in Seq(Pieces(m)) /\ b \in Seq(Pieces(m)) /\ end \in Seq(Pieces(m))
    BY <1>1, <1>3, EventLiterals
  <2>6. Runs("xml", Start, a, Gap("", z))
    BY <1>4
  <2>7. PICK x2 : Runs("xml", Gap("", z), b, Gap(x2, d))
    BY <1>1, TagsRun
  <2>8. PICK x3 : Runs("xml", Gap(x2, d), c, Gap(x3, w))
    <3>1. \E x : Runs("xml", Gap(x2, d), FlattenSeq([k \in 1..m |-> f[k]]),
                      Gap(x, Tagged("xml", e, {}) \o Filled("xml", e)))
      BY <1>1, <2>1, EventFieldsRun
    <3> QED BY <2>2, <3>1 DEF Heard
  <2>9. Runs("xml", Gap(x3, w), end, Gap(x3, w))
    BY <1>5
  <2> HIDE DEF a, b, c, end, d, w
  <2>10. Runs("xml", Start, a \o b \o c \o end, Gap(x3, w))
    BY <1>1, <2>4, <2>5, <2>6, <2>7, <2>8, <2>9, RunsAll
  <2> QED BY <2>3, <2>10 DEF w
<1>8. ASSUME NEW fl, ~("ultra" \in fl /\ \E k \in 1..m : fs[k].vals = <<>>)
      PROVE  \E x : Runs("json", Start, fmtEventToJSON(e, fl), Gap(x, Heard("json", e, fl)))
  <2> DEFINE a == Hope(0, <<"lbrace">>)
             b == IF "flat" \in fl THEN Opt(e.tags, TagsJSON) ELSE <<>>
             comma(k) == IF k > 1 \/ b # <<>> THEN Try(0, <<"comma_">>) ELSE <<>>
             g == [k \in 1..m |-> FieldJSON(k, fs[k], "ultra" \in fl)]
             f == [k \in 1..m |-> comma(k) \o FieldJSON(k, fs[k], "ultra" \in fl)]
             c == FlattenSeq(f)
             end == Hope(0, <<"rbrace">>)
             d == Tagged("json", e, fl)
             w == Heard("json", e, fl)
  <2>0. b \in Seq(Pieces(m)) /\ \A k \in 1..m : comma(k) \in {Try(0, <<"comma_">>), <<>>}
    <3>1. <<>> \in Seq(Pieces(m))
      OBVIOUS
    <3>2. b \in Seq(Pieces(m))
      BY <1>3, <3>1, Zenon
    <3> HIDE DEF b
    <3> QED BY <3>2, Zenon
  <2>1. \A k \in 1..m : f[k] \in Seq(Pieces(m)) /\ Adds("json", f[k], Shown("json", fs[k]))
    <3> SUFFICES ASSUME NEW k \in 1..m
                 PROVE  f[k] \in Seq(Pieces(m)) /\ Adds("json", f[k], Shown("json", fs[k]))
      OBVIOUS
    <3> DEFINE p == FieldJSON(k, fs[k], "ultra" \in fl)
               q == Try(0, <<"comma_">>)
    <3>1. f[k] = comma(k) \o p
      OBVIOUS
    <3>2. ("ultra" \in fl) \in BOOLEAN /\ ~(("ultra" \in fl) /\ fs[k].vals = <<>>)
      BY <1>8
    <3>3. Adds("json", p, Shown("json", fs[k])) /\ Adds("json", q \o p, Shown("json", fs[k]))
      <4> DEFINE ultra == "ultra" \in fl
      <4> HIDE DEF fs, m, ultra
      <4>1. k \in 0..m /\ m \in Nat /\ fs[k] \in FieldOf /\ fs[k].name \notin Reserved
        BY <1>1
      <4>2. ultra \in BOOLEAN /\ ~(ultra /\ fs[k].vals = <<>>)
        BY <3>2, Zenon DEF ultra
      <4>3. /\ Adds("json", FieldJSON(k, fs[k], ultra), Shown("json", fs[k]))
            /\ Adds("json", Try(0, <<"comma_">>) \o FieldJSON(k, fs[k], ultra),
                    Shown("json", fs[k]))
        BY <4>1, <4>2, FieldsAdd, Zenon
      <4> QED BY <4>3, Zenon DEF ultra
    <3>4. p \in Seq(Pieces(m)) /\ q \in Seq(Pieces(m))
      <4>1. FieldJSON(k, fs[k], "ultra" \in fl) \in Seq(Pieces(m))
        BY <1>2, <3>2, Zenon
      <4> QED BY <1>1, <4>1, EventLiterals
    <3>5. comma(k) \in {q, <<>>}
      BY <2>0
    <3> HIDE DEF f, p, q, comma
    <3>6. CASE comma(k) = q
      <4>1. q \o p \in Seq(Pieces(m))
        BY <3>4, ConcatType
      <4> QED BY <3>1, <3>3, <3>6, <4>1
    <3>7. CASE comma(k) = <<>>
      <4>1. <<>> \o p = p
        BY <3>4
      <4> QED BY <3>1, <3>3, <3>4, <3>7, <4>1
    <3> QED BY <3>5, <3>6, <3>7
  <2>2. f = [k \in 1..m |-> f[k]]
    OBVIOUS
  <2>3. fmtEventToJSON(e, fl) = a \o b \o c \o end
    BY Zenon DEF fmtEventToJSON, Each
  <2> HIDE DEF f
  <2>4. c \in Seq(Pieces(m))
    <3> HIDE DEF m
    <3> QED BY <1>1, <2>1, <2>2, FlatType
  <2>5. a \in Seq(Pieces(m)) /\ end \in Seq(Pieces(m))
    BY <1>1, EventLiterals
  <2>6. Runs("json", Start, a, Gap("", z))
    BY <1>4
  <2>7. PICK x2 : Runs("json", Gap("", z), b, Gap(x2, d))
    BY <1>1, TagsRun, Zenon
  <2>8. PICK x3 : Runs("json", Gap(x2, d), c, Gap(x3, w))
    <3>1. \E x : Runs("json", Gap(x2, d), FlattenSeq([k \in 1..m |-> f[k]]),
                      Gap(x, Tagged("json", e, fl) \o Filled("json", e)))
      BY <1>1, <2>1, EventFieldsRun
    <3> QED BY <2>2, <3>1 DEF Heard
  <2>9. Runs("json", Gap(x3, w), end, Gap(x3, w))
    BY <1>5
  <2> HIDE DEF a, b, c, end, d, w
  <2>10. Runs("json", Start, a \o b \o c \o end, Gap(x3, w))
    BY <1>1, <2>0, <2>4, <2>5, <2>6, <2>7, <2>8, <2>9, RunsAll
  <2> QED BY <2>3, <2>10 DEF w
<1> QED BY <1>6, <1>7, <1>8

----------------------------------------------------------------------------
(* What a step of the whole does to the encoders.                          *)

Encodes(e) == \/ EncodeSyslog(e) \/ EncodeXML(e)
              \/ \E fl \in SUBSET {"ultra", "flat"} : EncodeJSON(e, fl)
              \/ \E list \in Seq(STRING) : EncodeCSV(e, list)
EncStep == \/ \E e : EventIs(e) /\ Encodes(e)
           \/ Append1 \/ AppendFails \/ Crash \/ Finish \/ Taken

LEMMA EncMoves ==
  ASSUME ConvInv, [ConvertNext]_<<encVars, tool>>
  PROVE  EncStep \/ UNCHANGED encVars
<1>1. CASE UNCHANGED <<encVars, tool>>
  BY <1>1
<1>2. CASE ConvertNext
  <2>1. CASE initCtx \/ exitCtx \/ Refused \/ setEncUltraCompact \/ StartDecoder \/ NameListFails
    BY <2>1 DEF initCtx, exitCtx, Quiet, Refused, setEncUltraCompact, StartDecoder,
                NameListFails, errout, Abort, Stop
  <2>2. CASE \/ \E fl \in SUBSET {"ultra", "flat"} : setFlags(fl)
             \/ \E e \in {"syslog", "json", "xml", "csv", "all"} : ChooseEncoder(e)
             \/ \E list \in Formats : ChooseFormat(list)
             \/ \E e \in Decoded : HandOver(e)
    BY <2>2 DEF setFlags, ChooseEncoder, ChooseFormat, HandOver, Quiet
  <2>3. CASE DecoderDone \/ DecoderFails \/ NoFormat \/ ShowFails
    BY <2>3 DEF DecoderDone, DecoderFails, NoFormat, ShowFails, errout, Abort, Stop
  <2>4. CASE LibraryCalls
    <3>1. EncNext
      BY <2>4 DEF LibraryCalls
    <3>2. ASSUME NEW e \in Events, Encode(e) PROVE EncStep
      <4>1. EventIs(e) /\ NameLists \subseteq Seq(STRING)
        BY EventsAre, EncodersAssumption, Zenon
      <4>2. Encodes(e)
        BY <3>2, <4>1 DEF Encode, Encodes
      <4> QED BY <4>1, <4>2 DEF EncStep
    <3> QED BY <3>1, <3>2 DEF EncNext, EncStep
  <2>5. CASE CallEncoder
    <3>1. /\ step = "decoding" /\ jobs # <<>> /\ jobs \in Seq(Coders) /\ cur \in Events
          /\ ctx \in Flags /\ (encFmt = None \/ encFmt \in Seq(STRING))
      BY <2>5 DEF CallEncoder, ConvInv, ToolIs
    <3>2. EventIs(cur) /\ Head(jobs) \in Coders
      BY <3>1, EventsAre
    <3>3. \/ EncodeSyslog(cur) \/ EncodeXML(cur) \/ EncodeJSON(cur, ctx)
          \/ encFmt # None /\ EncodeCSV(cur, encFmt)
      BY <2>5, <3>2 DEF CallEncoder, Coders
    <3>4. Encodes(cur)
      BY <3>1, <3>3 DEF Encodes, Flags
    <3> QED BY <3>2, <3>4 DEF EncStep
  <2>6. CASE EncoderRuns
    BY <2>6 DEF EncoderRuns, EncStep
  <2>7. CASE ShowOutput
    BY <2>7 DEF ShowOutput, EncStep
  <2> QED BY <1>2, <2>1, <2>2, <2>3, <2>4, <2>5, <2>6, <2>7 DEF ConvertNext
<1> QED BY <1>1, <1>2

----------------------------------------------------------------------------
(* While no append fails, what was written is the text of the appends that *)
(* were done, none of which read what is not there.                        *)

ProgramOf(fmt, e, ns, fl) ==
  CASE fmt = "syslog" -> fmtEventToRFC5424(e) [] fmt = "xml" -> fmtEventToXML(e)
    [] fmt = "json" -> fmtEventToJSON(e, fl)  [] OTHER -> fmtEventToCSV(e, ns)

Clean(td) == \A i \in 1..Len(td) : td[i].txt # Nothing
\* of the program p, the appends td are still to do
Upto(n, p, td, o) == \E a \in Seq(Pieces(n)) : p = a \o td /\ o = TextOf(a) /\ Clean(a)

Written ==
  fails = 0 =>
    /\ pc \in {"append", "done"} => enc \in Coders
    /\ pc = "append" => Upto(Len(names) + Len(Fields(event)),
                             ProgramOf(enc, event, names, flags), todo, out)
    /\ pc = "done" /\ (out # <<>> \/ r = "ok") =>
         /\ out = TextOf(ProgramOf(enc, event, names, flags))
         /\ Clean(ProgramOf(enc, event, names, flags))

LEMMA WrittenNext ==
  ASSUME fails' = 0 =>
           /\ pc' \in {"append", "done"} => enc' \in Coders
           /\ pc' = "append" => Upto(Len(names') + Len(Fields(event')),
                                     ProgramOf(enc', event', names', flags'), todo', out')
           /\ pc' = "done" /\ (out' # <<>> \/ r' = "ok") =>
                /\ out' = TextOf(ProgramOf(enc', event', names', flags'))
                /\ Clean(ProgramOf(enc', event', names', flags'))
  PROVE  Written'
BY DEF Written

LEMMA BeginWrites ==
  ASSUME NEW fmt \in Coders, NEW e, EventIs(e), NEW ns \in Seq(STRING), NEW program,
         program \in Seq(Pieces(Len(ns) + Len(Fields(e)))),
         Begin(fmt, e, ns, program), program = ProgramOf(fmt, e, ns, flags') \/ pc' = "done"
  PROVE  Written'
<1> DEFINE p == ProgramOf(fmt, e, ns, flags')
           n == Len(ns) + Len(Fields(e))
<1>1. /\ enc' = fmt /\ event' = e /\ names' = ns /\ out' = <<>> /\ r' = "minus1"
      /\ pc' = "append" => todo' = program
  BY DEF Begin
<1>2. Upto(n, program, program, <<>>)
  <2>1. <<>> \in Seq(Pieces(n)) /\ <<>> \o program = program /\ Clean(<<>>)
    BY DEF Clean
  <2> QED BY <2>1, TextOfNone DEF Upto
<1>3. pc' = "append" => Upto(n, p, todo', out')
  <2> HIDE DEF p, n
  <2>1. pc' = "append" => program = p
    BY DEF p
  <2> QED BY <1>1, <1>2, <2>1
<1>4. p = ProgramOf(enc', event', names', flags') /\ n = Len(names') + Len(Fields(event'))
  BY <1>1
<1> HIDE DEF p, n
<1> QED BY <1>1, <1>3, <1>4, WrittenNext

LEMMA EncodesWrites ==
  ASSUME NEW e, EventIs(e), Encodes(e)
  PROVE  Written'
<1> DEFINE n == Len(Fields(e))
           none == <<>>
<1>1. n \in Nat /\ none \in Seq(STRING) /\ Len(none) + n = n /\ Len(none) + Len(Fields(e)) = n
  BY FieldsType
<1>2. /\ fmtEventToRFC5424(e) \in Seq(Pieces(n)) /\ fmtEventToXML(e) \in Seq(Pieces(n))
      /\ \A fl : fmtEventToJSON(e, fl) \in Seq(Pieces(n))
  BY <1>1, ProgramTypes
<1>3. "syslog" \in Coders /\ "xml" \in Coders /\ "json" \in Coders /\ "csv" \in Coders
  BY DEF Coders
<1>4. CASE EncodeSyslog(e)
  <2>1. Begin("syslog", e, none, fmtEventToRFC5424(e))
    BY <1>4 DEF EncodeSyslog
  <2>2. fmtEventToRFC5424(e) = ProgramOf("syslog", e, none, flags')
    BY DEF ProgramOf
  <2> HIDE DEF n, none
  <2> QED BY <1>1, <1>2, <1>3, <2>1, <2>2, BeginWrites
<1>5. CASE EncodeXML(e)
  <2>1. Begin("xml", e, none, fmtEventToXML(e))
    BY <1>5 DEF EncodeXML
  <2>2. fmtEventToXML(e) = ProgramOf("xml", e, none, flags')
    BY DEF ProgramOf
  <2> HIDE DEF n, none
  <2> QED BY <1>1, <1>2, <1>3, <2>1, <2>2, BeginWrites
<1>6. ASSUME NEW fl, EncodeJSON(e, fl) PROVE Written'
  <2>1. flags' = fl /\ Begin("json", e, none, fmtEventToJSON(e, fl))
    BY <1>6 DEF EncodeJSON
  <2>2. fmtEventToJSON(e, fl) = ProgramOf("json", e, none, flags')
    BY <2>1 DEF ProgramOf
  <2>3. fmtEventToJSON(e, fl) \in Seq(Pieces(n))
    BY <1>2
  <2> HIDE DEF n, none
  <2> QED BY <1>1, <1>3, <2>1, <2>2, <2>3, BeginWrites
<1>7. ASSUME NEW list \in Seq(STRING), EncodeCSV(e, list) PROVE Written'
  <2>1. \/ \E ns \in NamesMade(list) : Begin("csv", e, ns, fmtEventToCSV(e, ns))
        \/ Begin("csv", e, none, none) /\ pc' = "done"
    BY <1>7 DEF EncodeCSV
  <2>2. none \in Seq(Pieces(n))
    OBVIOUS
  <2>3. ASSUME NEW ns \in NamesMade(list), Begin("csv", e, ns, fmtEventToCSV(e, ns))
        PROVE  Written'
    <3>1. ns \in Seq(STRING) /\ Len(ns) \in Nat
      BY NamesMadeType
    <3>2. Len(ns) + n \in Nat /\ Len(ns) <= Len(ns) + n
      BY <1>1, <3>1
    <3>3. fmtEventToCSV(e, ns) \in Seq(Pieces(Len(ns) + n))
      <4> HIDE DEF n
      <4> QED BY <3>1, <3>2, RowType
    <3>4. fmtEventToCSV(e, ns) = ProgramOf("csv", e, ns, flags')
      BY DEF ProgramOf
    <3> QED BY <1>3, <2>3, <3>1, <3>3, <3>4, BeginWrites
  <2> HIDE DEF n, none
  <2> QED BY <1>1, <1>3, <2>1, <2>2, <2>3, BeginWrites
<1> QED BY <1>4, <1>5, <1>6, <1>7 DEF Encodes

LEMMA WritesOn ==
  ASSUME EncInv, Written, EncStep \/ UNCHANGED encVars
  PROVE  Written'
<1>1. CASE UNCHANGED encVars
  BY <1>1, WrittenNext DEF Written, encVars, call
<1>2. CASE AppendFails \/ Crash \/ Taken
  <2>1. fails \in Nat
    BY BoundIs DEF EncInv
  <2>2. fails' # 0 \/ pc' \notin {"append", "done"}
    BY <1>2, <2>1 DEF AppendFails, Crash, Taken
  <2> QED BY <2>2, WrittenNext
<1> DEFINE n == Len(names) + Len(Fields(event))
           p == ProgramOf(enc, event, names, flags)
<1>3. pc = "append" => n \in Nat /\ todo \in Seq(Pieces(n)) /\ out \in Seq(Tokens)
  <2>1. pc = "append" => EncIs(event, names, todo) /\ out \in Seq(Tokens)
    BY DEF EncInv
  <2>2. EncIs(event, names, todo) => n \in Nat
    BY FieldsType DEF EncIs
  <2> QED BY <2>1, <2>2 DEF EncIs
<1>4. /\ pc = "append" /\ UNCHANGED call /\ fails = 0 =>
           enc' \in Coders /\ enc \in Coders /\ Upto(n, p, todo, out)
      /\ UNCHANGED call => /\ p = ProgramOf(enc', event', names', flags')
                           /\ n = Len(names') + Len(Fields(event'))
  BY DEF Written, call
<1> HIDE DEF n, p
<1>5. CASE Append1
  <2>1. /\ pc = "append" /\ todo # <<>> /\ Head(todo).txt # Nothing
        /\ out' = out \o Head(todo).txt /\ todo' = Tail(todo)
        /\ pc' = pc /\ fails' = fails /\ UNCHANGED call
    BY <1>5 DEF Append1, Goes, Piece, Broken
  <2>2. ASSUME fails = 0 PROVE Upto(n, p, todo', out')
    <3>1. PICK a \in Seq(Pieces(n)) : p = a \o todo /\ out = TextOf(a) /\ Clean(a)
      BY <1>4, <2>1, <2>2 DEF Upto
    <3> DEFINE x == Head(todo)
               t == Tail(todo)
               b == a \o <<x>>
    <3>2. x \in Pieces(n) /\ t \in Seq(Pieces(n)) /\ todo = <<x>> \o t
      <4>1. x \in Pieces(n) /\ t \in Seq(Pieces(n))
        BY <1>3, <2>1
      <4>2. todo = <<x>> \o t
        BY <1>3, <2>1, HeadTailProperties
      <4> QED BY <4>1, <4>2
    <3>3. x.txt \in Seq(Tokens) /\ <<x>> = Add(x.in, x.chk, x.txt)
      <4>1. x.txt \in Seq(Tokens) /\ x = [in |-> x.in, chk |-> x.chk, txt |-> x.txt]
        BY <3>2 DEF Pieces
      <4> QED BY <4>1 DEF Add
    <3> HIDE DEF x, t
    <3>4. <<x>> \in Seq(Pieces(n))
      BY <3>2
    <3>5. b \in Seq(Pieces(n)) /\ p = b \o t
      <4> DEFINE P == Pieces(n)
                 w == <<x>>
      <4>1. a \in Seq(P) /\ w \in Seq(P) /\ t \in Seq(P)
        BY <3>2, <3>4
      <4> HIDE DEF P, w
      <4>2. (a \o w) \o t = a \o (w \o t)
        BY ONLY <4>1, ConcatRegroups
      <4>3. b \in Seq(Pieces(n))
        BY <3>4, ConcatType
      <4> QED BY <3>1, <3>2, <4>2, <4>3 DEF w
    <3>6. TextOf(b) = out'
      <4>1. TextOf(b) = TextOf(a) \o TextOf(<<x>>)
        BY <1>3, <2>1, <3>4, TextOfConcat
      <4>2. TextOf(<<x>>) = x.txt
        BY <3>3, TextOfOne
      <4> QED BY <2>1, <3>1, <4>1, <4>2 DEF x
    <3>7. Clean(b)
      <4>1. x.txt # Nothing
        BY <2>1 DEF x
      <4>2. Len(b) = Len(a) + 1 /\ b[Len(a) + 1] = x /\ \A i \in 1..Len(a) : b[i] = a[i]
        BY <3>4
      <4> HIDE DEF b
      <4> QED BY <3>1, <4>1, <4>2 DEF Clean
    <3> HIDE DEF b
    <3> QED BY <2>1, <3>5, <3>6, <3>7 DEF Upto, t
  <2> QED BY <1>4, <2>1, <2>2, WrittenNext
<1>6. CASE Finish
  <2>1. /\ pc = "append" /\ todo = <<>> /\ pc' = "done" /\ out' = out /\ fails' = fails
        /\ UNCHANGED call
    BY <1>6 DEF Finish
  <2>2. ASSUME fails = 0 PROVE out = TextOf(p) /\ Clean(p)
    <3>1. PICK a \in Seq(Pieces(n)) : p = a \o todo /\ out = TextOf(a) /\ Clean(a)
      BY <1>4, <2>1, <2>2 DEF Upto
    <3>2. p = a
      BY <2>1, <3>1
    <3> QED BY <3>1, <3>2
  <2> QED BY <1>4, <2>1, <2>2, WrittenNext
<1> QED BY <1>1, <1>2, <1>5, <1>6, EncodesWrites DEF EncStep

LEMMA OutputWritten == ConvertSpec => []Written
<1>1. ConvertInit => Written
  BY DEF ConvertInit, EncInit, Written
<1>2. ConvInv /\ Written /\ [ConvertNext]_<<encVars, tool>> => Written'
  BY EncMoves, WritesOn DEF ConvInv
<1> QED BY ConvInvariant, <1>1, <1>2, PTL DEF ConvertSpec

----------------------------------------------------------------------------
(* What a consumer reads back.                                             *)

LEMMA PlainIs ==
  ASSUME NEW s, NEW t, NEW m \in Nat, DOMAIN s = 1..m, DOMAIN t = 1..m,
         \A i \in 1..m : /\ s[i] = [name |-> s[i].name, vals |-> s[i].vals]
                         /\ t[i] = [name |-> t[i].name, vals |-> t[i].vals]
                         /\ s[i].name = t[i].name
                         /\ \/ s[i].vals = t[i].vals
                            \/ enc # "xml" /\ s[i].vals = Quoted(t[i].vals)
  PROVE  Plain(s) = Plain(t)
<1> DEFINE P(x) == IF enc # "xml" /\ x.vals = <<>> THEN [x EXCEPT !.vals = <<<<>>>>] ELSE x
<1>1. /\ Plain(s) = [i \in 1..m |-> P(s[i])] /\ Plain(t) = [i \in 1..m |-> P(t[i])]
  BY DEF Plain
<1>2. ASSUME NEW i \in 1..m PROVE P(s[i]) = P(t[i])
  <2> DEFINE a == s[i].name
             v == s[i].vals
             w == t[i].vals
  <2>1. /\ s[i] = [name |-> a, vals |-> v] /\ t[i] = [name |-> a, vals |-> w]
        /\ v = w \/ (enc # "xml" /\ v = Quoted(w))
    BY <1>2
  <2> HIDE DEF a, v, w
  <2>2. CASE v = w
    BY <2>1, <2>2
  <2>3. CASE enc # "xml" /\ v = Quoted(w) /\ v # w
    <3>1. w = <<>> /\ v = <<<<>>>> /\ v # <<>>
      BY <2>3 DEF Quoted
    <3>2. P([name |-> a, vals |-> v]) = [name |-> a, vals |-> v]
      BY <3>1
    <3>3. P([name |-> a, vals |-> w]) = [name |-> a, vals |-> v]
      BY <2>3, <3>1
    <3> HIDE DEF P
    <3> QED BY <2>1, <3>2, <3>3
  <2> QED BY <2>1, <2>2, <2>3
<1> HIDE DEF P
<1> QED BY <1>1, <1>2

LEMMA SaysHeard ==
  ASSUME EventIs(event), enc \in {"syslog", "json", "xml"}
  PROVE  Plain(Heard(enc, event, flags)) = Plain(Says)
<1> DEFINE e == event
           fs == Fields(e)
           m == Len(fs)
           a == Tagged(enc, e, flags)
           b == IF e.tags = None \/ (enc = "json" /\ "flat" \notin flags) THEN <<>>
                ELSE TagField([i \in DOMAIN e.tags |-> <<e.tags[i]>>])
           s == Filled(enc, e)
<1>1. Says = b \o fs /\ Heard(enc, event, flags) = a \o s
  BY DEF Says, TagField, Heard
<1>2. m \in Nat /\ fs \in Seq(FieldOf) /\ DOMAIN fs = 1..m
  BY FieldsType
<1>3. /\ \A i \in 1..m : fs[i] = [name |-> fs[i].name, vals |-> fs[i].vals]
      /\ s = [i \in 1..m |-> s[i]]
      /\ \A i \in 1..m : s[i] = Shown(enc, fs[i])
  <2>1. \A i \in 1..m : fs[i] \in FieldOf
    <3> HIDE DEF fs
    <3> QED BY <1>2
  <2>2. \A i \in 1..m : fs[i] = [name |-> fs[i].name, vals |-> fs[i].vals]
    <3> HIDE DEF fs, m
    <3> QED BY <2>1 DEF FieldOf
  <2> QED BY <2>2 DEF Filled
<1>4. \/ a = <<>> /\ b = <<>>
      \/ \E v, w : a = TagField(v) /\ b = TagField(w) /\ (v = w \/ (enc # "xml" /\ v = Quoted(w)))
  <2>1. CASE e.tags = None \/ (enc = "json" /\ "flat" \notin flags)
    BY <2>1 DEF Tagged
  <2>2. CASE ~(e.tags = None \/ (enc = "json" /\ "flat" \notin flags))
    <3> DEFINE w == [i \in DOMAIN e.tags |-> <<e.tags[i]>>]
               v == IF enc = "syslog" THEN Quoted(TagTexts(e.tags)) ELSE TagTexts(e.tags)
    <3>1. w = TagTexts(e.tags)
      <4>1. e.tags \in Seq(STRING)
        BY <2>2 DEF EventIs
      <4> QED BY <4>1 DEF TagTexts
    <3>2. a = TagField(v) /\ b = TagField(w)
      BY <2>2 DEF Tagged
    <3> HIDE DEF w, a, b
    <3>3. v = w \/ (enc # "xml" /\ v = Quoted(w))
      BY <3>1
    <3> HIDE DEF v
    <3> QED BY <3>2, <3>3
  <2> QED BY <2>1, <2>2
<1>5. \A i \in 1..m : /\ s[i].name = fs[i].name
                      /\ s[i] = [name |-> s[i].name, vals |-> s[i].vals]
                      /\ s[i].vals = fs[i].vals \/ (enc # "xml" /\ s[i].vals = Quoted(fs[i].vals))
  <2> HIDE DEF fs, m, s
  <2> QED BY <1>3 DEF Shown
<1> DEFINE Rec(x) == x = [name |-> x.name, vals |-> x.vals]
           Same(x, y) == /\ Rec(x) /\ Rec(y) /\ x.name = y.name
                         /\ x.vals = y.vals \/ (enc # "xml" /\ x.vals = Quoted(y.vals))
<1>6. \A i \in 1..m : Same(s[i], fs[i])
  <2> HIDE DEF fs, m, s
  <2> QED BY <1>3, <1>5
<1> HIDE DEF fs, m, s, a, b
<1>7. DOMAIN s = 1..m /\ Len(s) = m /\ s \in Seq({s[i] : i \in 1..m}) /\ Len(fs) = m
  <2>1. s \in [1..m -> {s[i] : i \in 1..m}]
    BY <1>3
  <2>2. s \in Seq({s[i] : i \in 1..m})
    BY <1>2, <2>1
  <2> QED BY <1>2, <2>1, <2>2 DEF m
<1>8. CASE a = <<>> /\ b = <<>>
  <2>1. a \o s = s /\ b \o fs = fs
    BY <1>2, <1>7, <1>8
  <2>2. Plain(s) = Plain(fs)
    BY <1>2, <1>6, <1>7, PlainIs
  <2> QED BY <1>1, <2>1, <2>2
<1>9. ASSUME NEW v, NEW w, a = TagField(v), b = TagField(w),
             v = w \/ (enc # "xml" /\ v = Quoted(w))
      PROVE  Plain(Heard(enc, event, flags)) = Plain(Says)
  <2> DEFINE x == [name |-> "event.tags", vals |-> v]
             y == [name |-> "event.tags", vals |-> w]
             as == a \o s
             bs == b \o fs
  <2>1. Same(x, y) /\ a = <<x>> /\ b = <<y>>
    BY <1>9 DEF TagField
  <2> HIDE DEF x, y, Same
  <2>2. /\ DOMAIN as = 1..(m + 1) /\ as[1] = x /\ \A i \in 2..(m + 1) : as[i] = s[i - 1]
    <3> DEFINE U == {s[i] : i \in 1..m} \cup {x}
    <3>1. s \in Seq(U) /\ <<x>> \in Seq(U)
      BY <1>2, <1>3, <1>7
    <3> HIDE DEF U
    <3> QED BY <1>2, <1>7, <2>1, <3>1
  <2>3. /\ DOMAIN bs = 1..(m + 1) /\ bs[1] = y /\ \A i \in 2..(m + 1) : bs[i] = fs[i - 1]
    <3> DEFINE U == FieldOf \cup {y}
    <3>1. fs \in Seq(U) /\ <<y>> \in Seq(U)
      BY <1>2
    <3> HIDE DEF U
    <3> QED BY <1>2, <1>7, <2>1, <3>1
  <2> HIDE DEF as, bs
  <2>4. \A i \in 1..(m + 1) : Same(as[i], bs[i])
    <3> SUFFICES ASSUME NEW i \in 1..(m + 1) PROVE Same(as[i], bs[i])
      OBVIOUS
    <3>1. CASE i = 1
      BY <2>1, <2>2, <2>3, <3>1
    <3>2. CASE i # 1
      <4>1. i \in 2..(m + 1) /\ i - 1 \in 1..m
        BY <1>2, <3>2
      <4> QED BY <1>6, <2>2, <2>3, <4>1
    <3> QED BY <3>1, <3>2
  <2>5. Plain(as) = Plain(bs)
    <3>1. m + 1 \in Nat
      BY <1>2
    <3> QED BY <2>2, <2>3, <2>4, <3>1, PlainIs DEF Same
  <2> QED BY <1>1, <2>5 DEF as, bs
<1> QED BY <1>4, <1>8, <1>9

LEMMA LegibleIs ==
  ASSUME EventIs(event), Legible
  PROVE  EventLegible(event)
<1>1. DOMAIN Fields(event) = 1..Len(Fields(event))
  BY FieldsType
<1>2. ASSUME event.tags # None PROVE \A i \in 1..Len(event.tags) : event.tags[i] \notin Reserved
  <2>1. event.tags \in Seq(STRING) /\ Range(event.tags) \cap Reserved = {}
    BY <1>2 DEF EventIs, Legible
  <2>2. \A i \in 1..Len(event.tags) : event.tags[i] \in Range(event.tags)
    BY <2>1 DEF Range
  <2> QED BY <2>1, <2>2
<1>3. \A k \in 1..Len(Fields(event)) : Fields(event)[k].name \notin Reserved
  BY <1>1 DEF Legible
<1> QED BY <1>2, <1>3 DEF EventLegible

LEMMA ReadsWritten ==
  ASSUME EncInv, Written, pc = "done", out # <<>>, fails = 0,
         enc \in {"syslog", "json", "xml"}, Legible, ~HalfQuoted
  PROVE  Read.mode = "gap" /\ Plain(Read.done) = Plain(Says)
<1>1. EventIs(event) /\ out \in Seq(Tokens)
  BY DEF EncInv, EncIs
<1>2. EventLegible(event)
  BY <1>1, LegibleIs
<1> DEFINE d == Heard(enc, event, flags)
           p == ProgramOf(enc, event, names, flags)
<1>3. PICK x : Runs(enc, Start, p, Gap(x, d))
  <2>1. CASE enc = "syslog"
    <3>1. p = fmtEventToRFC5424(event)
      BY <2>1 DEF ProgramOf
    <3>2. d = Heard("syslog", event, {})
      BY <2>1 DEF Heard, Tagged
    <3> HIDE DEF d, p
    <3> QED BY <1>1, <1>2, <2>1, <3>1, <3>2, EventsRun
  <2>2. CASE enc = "xml"
    <3>1. p = fmtEventToXML(event)
      BY <2>2 DEF ProgramOf
    <3>2. d = Heard("xml", event, {})
      BY <2>2 DEF Heard, Tagged
    <3> HIDE DEF d, p
    <3> QED BY <1>1, <1>2, <2>2, <3>1, <3>2, EventsRun
  <2>3. CASE enc = "json"
    <3>1. p = fmtEventToJSON(event, flags)
      BY <2>3 DEF ProgramOf
    <3>2. d = Heard("json", event, flags)
      BY <2>3
    <3>3. ~("ultra" \in flags /\ \E k \in 1..Len(Fields(event)) : Fields(event)[k].vals = <<>>)
      <4>1. DOMAIN Fields(event) = 1..Len(Fields(event))
        BY <1>1, FieldsType
      <4> QED BY <2>3, <4>1 DEF HalfQuoted
    <3> HIDE DEF d, p
    <3> QED BY <1>1, <1>2, <2>3, <3>1, <3>2, <3>3, EventsRun
  <2> QED BY <2>1, <2>2, <2>3
<1>4. out = TextOf(p)
  BY DEF Written
<1>5. Reads(enc, Start, out, Gap(x, d))
  BY <1>3, <1>4 DEF Runs
<1>6. Read = Gap(x, d)
  BY <1>1, <1>5, ReadIs
<1>7. Gap(x, d).mode = "gap" /\ Gap(x, d).done = d
  BY InIs DEF Gap
<1>8. Plain(d) = Plain(Says)
  BY <1>1, SaysHeard
<1> HIDE DEF d
<1>9. Read.mode = "gap" /\ Read.done = d
  BY <1>6, <1>7
<1> HIDE DEF Read
<1> QED BY <1>8, <1>9

(* When every append succeeds, a consumer reads back from the output the   *)
(* event that was encoded, whatever its values are.                        *)
THEOREM OutputReadsBack == ConvertSpec => []ReadsBack
<1>1. ConvInv /\ Written => ReadsBack
  <2> SUFFICES ASSUME ConvInv, Written, pc = "done", out # <<>>, fails = 0, enc # "csv",
                      Legible, ~HalfQuoted
               PROVE  Read.mode = "gap" /\ Plain(Read.done) = Plain(Says)
    BY Zenon DEF ReadsBack
  <2>1. EncInv /\ enc \in {"syslog", "json", "xml"}
    BY DEF ConvInv, Written, Coders
  <2> QED BY <2>1, ReadsWritten
<1> QED BY ConvInvariant, OutputWritten, <1>1, PTL

----------------------------------------------------------------------------
(* The columns of a row of CSV.                                            *)

\* One token of CSV: a column is a text in quotes.
LEMMA CSVReads ==
  ASSUME NEW n, NEW v, NEW w, NEW d
  PROVE  /\ Reader("csv", In("gap", n, v, w, d), "quote") = In("text", n, <<>>, <<>>, d)
         /\ Reader("csv", In("gap", n, v, w, d), "comma") = In("gap", n, v, w, d)
         /\ Reader("csv", In("text", n, v, w, d), "quote") = After(n, Append(w, v), d)
         /\ Reader("csv", In("text", n, v, w, d), "\\") = In("esc", n, v, w, d)
         /\ \A c : c \notin {"quote", "\\"} =>
              Reader("csv", In("text", n, v, w, d), c) = In("text", n, Append(v, c), w, d)
         /\ Reader("csv", In("esc", n, v, w, d), "u") = In("hex", n, v, w, d)
         /\ \A c : c # "u" =>
              Reader("csv", In("esc", n, v, w, d), c) = In("text", n, Append(v, Unescape(c)), w, d)
         /\ \A c \in {"0000", "0001"} :
              Reader("csv", In("hex", n, v, w, d), c) = In("text", n, Append(v, Unescape(c)), w, d)
         /\ \A c : c \notin {"0000", "0001"} =>
              Reader("csv", In("hex", n, v, w, d), c).mode = "torn"
<1> DEFINE g == In("gap", n, v, w, d)
           t == In("text", n, v, w, d)
           s == In("esc", n, v, w, d)
           x == In("hex", n, v, w, d)
           q == After(n, Append(w, v), d)
<1>1. /\ g.mode = "gap" /\ t.mode = "text" /\ s.mode = "esc" /\ Mode(t, "esc") = s
      /\ Open(g, "text") = In("text", n, <<>>, <<>>, d)
      /\ EndVal(t, "gap") = In("gap", n, <<>>, Append(w, v), d)
      /\ \A c : Keep(t, c) = In("text", n, Append(v, c), w, d)
      /\ \A c : Keep(s, c) = In("text", n, Append(v, c), w, d)
      /\ \A c : Keep(x, c) = In("text", n, Append(v, c), w, d)
      /\ x.mode = "hex" /\ Mode(s, "hex") = x
      /\ Mode(x, "torn") = In("torn", n, v, w, d) /\ In("torn", n, v, w, d).mode = "torn"
  BY InIs, ModeIs, OpenIs, EndValIs, KeepIs
<1>2. Close(EndVal(t, "gap")) = q
  BY <1>1, CloseIs
<1> HIDE DEF g, t, s, x, q
<1>3. ReadCSV(g, "quote") = In("text", n, <<>>, <<>>, d) /\ ReadCSV(g, "comma") = g
  BY <1>1 DEF ReadCSV
<1>4. ReadCSV(t, "quote") = q
  BY <1>1, <1>2 DEF ReadCSV, ReadText
<1>5. ReadCSV(t, "\\") = s
  BY <1>1 DEF ReadCSV, ReadText
<1>6. \A c : c \notin {"quote", "\\"} => ReadCSV(t, c) = In("text", n, Append(v, c), w, d)
  BY <1>1 DEF ReadCSV, ReadText
<1>7. /\ ReadCSV(s, "u") = x
      /\ \A c : c # "u" => ReadCSV(s, c) = In("text", n, Append(v, Unescape(c)), w, d)
  BY <1>1 DEF ReadCSV, ReadText
<1>8. /\ \A c \in {"0000", "0001"} : ReadCSV(x, c) = In("text", n, Append(v, Unescape(c)), w, d)
      /\ \A c : c \notin {"0000", "0001"} => ReadCSV(x, c).mode = "torn"
  BY <1>1 DEF ReadCSV, ReadText
<1>9. \A y, c : Reader("csv", y, c) = ReadCSV(y, c)
  BY DEF Reader
<1> QED BY <1>3, <1>4, <1>5, <1>6, <1>7, <1>8, <1>9 DEF g, t, s, x, q

\* in a column, after \u in it, and between two of them, after the columns d
Within(v, d) == In("text", "", v, <<>>, d)
Hexed(v, d)  == In("hex", "", v, <<>>, d)
Between(d)    == Gap("", d)
\* after one more column
Cells(d, v) == Append(d, [name |-> "", vals |-> <<v>>])

LEMMA ColumnReads ==
  ASSUME NEW d, NEW v
  PROVE  /\ Reader("csv", Between(d), "quote") = Within(<<>>, d)
         /\ Reader("csv", Between(d), "comma") = Between(d)
         /\ Reader("csv", Within(v, d), "quote") = Between(Cells(d, v))
         /\ \A c : c \notin {"quote", "\\"} =>
              Reader("csv", Within(v, d), c) = Within(Append(v, c), d)
<1> DEFINE n == ""
           w == <<>>
<1>1. /\ \A x, y : Within(x, y) = In("text", n, x, w, y)
      /\ \A y : Between(y) = In("gap", n, w, w, y)
  BY DEF Within, Between, Gap
<1>2. After(n, Append(w, v), d) = Between(Cells(d, v))
  <2>1. Append(w, v) = <<v>>
    OBVIOUS
  <2> QED BY <2>1 DEF After, Between, Cells
<1> HIDE DEF n
<1>3. /\ Reader("csv", In("gap", n, w, w, d), "quote") = In("text", n, <<>>, <<>>, d)
      /\ Reader("csv", In("gap", n, w, w, d), "comma") = In("gap", n, w, w, d)
  BY CSVReads
<1>4. In("text", n, <<>>, <<>>, d) = Within(<<>>, d)
  BY <1>1
<1> HIDE DEF w
<1>5. Reader("csv", In("text", n, v, w, d), "quote") = After(n, Append(w, v), d)
  BY CSVReads
<1>6. \A c : c \notin {"quote", "\\"} =>
        Reader("csv", In("text", n, v, w, d), c) = In("text", n, Append(v, c), w, d)
  BY CSVReads
<1>7. /\ Reader("csv", Between(d), "quote") = Within(<<>>, d)
      /\ Reader("csv", Between(d), "comma") = Between(d)
  BY <1>1, <1>3, <1>4
<1>8. Reader("csv", Within(v, d), "quote") = Between(Cells(d, v))
  BY <1>1, <1>2, <1>5
<1>9. \A c : c \notin {"quote", "\\"} =>
        Reader("csv", Within(v, d), c) = Within(Append(v, c), d)
  BY <1>1, <1>6
<1> QED BY <1>7, <1>8, <1>9

\* the text s is read in a column as the text w
Stays(s, w) ==
  \A v \in Seq(Tokens) : \A d : Reads("csv", Within(v, d), s, Within(v \o w, d))
Spells(td, w) == Stays(TextOf(td), w)

LEMMA CharStays ==
  ASSUME NEW c \in Char
  PROVE  Stays(Escaped(c), <<c>>)
<1> SUFFICES ASSUME NEW v \in Seq(Tokens), NEW d
             PROVE  Reads("csv", Within(v, d), Escaped(c), Within(v \o <<c>>, d))
  BY DEF Stays
<1> DEFINE t == Within(v, d)
           s == In("esc", "", v, <<>>, d)
           x == Hexed(v, d)
           u == Within(Append(v, c), d)
<1>1. /\ Reader("csv", t, "\\") = s /\ Reader("csv", s, "u") = x
      /\ c \notin {"quote", "\\"} => Reader("csv", t, c) = u
      /\ \A y : y # "u" /\ Unescape(y) = c => Reader("csv", s, y) = u
      /\ \A y \in {"0000", "0001"} : Unescape(y) = c => Reader("csv", x, y) = u
  <2> DEFINE n == ""
             w == <<>>
  <2>1. t = In("text", n, v, w, d) /\ u = In("text", n, Append(v, c), w, d)
    BY DEF Within
  <2>2. s = In("esc", n, v, w, d) /\ x = In("hex", n, v, w, d)
    BY DEF Hexed
  <2> HIDE DEF n, w, t, s, x, u
  <2> QED BY <2>1, <2>2, CSVReads
<1>2. v \o <<c>> = Append(v, c)
  <2>1. c \in Tokens
    BY DEF Tokens
  <2> QED BY <2>1
<1> HIDE DEF t, s, x, u
<1>3. Reads("csv", t, Escaped(c), u)
  BY <1>1, EscapeReads
<1> QED BY <1>2, <1>3 DEF t, u

LEMMA TokenStays ==
  ASSUME NEW c \in Tokens, c \notin {"quote", "\\"}
  PROVE  Stays(<<c>>, <<c>>)
<1> SUFFICES ASSUME NEW v \in Seq(Tokens), NEW d
             PROVE  Reads("csv", Within(v, d), <<c>>, Within(v \o <<c>>, d))
  BY DEF Stays
<1>1. Reader("csv", Within(v, d), c) = Within(Append(v, c), d)
  BY ColumnReads
<1>2. v \o <<c>> = Append(v, c)
  OBVIOUS
<1> QED BY <1>1, <1>2, ReadsFew

LEMMA SpellsNone == Spells(<<>>, <<>>)
<1>1. \A v \in Seq(Tokens) : v \o <<>> = v
  OBVIOUS
<1> QED BY <1>1, TextOfNone, ReadsNone DEF Spells, Stays

LEMMA SpellsOne ==
  ASSUME NEW k, NEW txt \in Seq(Tokens), NEW w, Stays(txt, w)
  PROVE  Spells(Try(k, txt), w) /\ Spells(Hope(k, txt), w)
BY TextOfOne DEF Spells, Try, Hope

LEMMA SpellsConcat ==
  ASSUME NEW n \in Nat, NEW a \in Seq(Pieces(n)), NEW b \in Seq(Pieces(n)),
         NEW v \in Seq(Tokens), NEW w \in Seq(Tokens), Spells(a, v), Spells(b, w)
  PROVE  Spells(a \o b, v \o w)
<1> SUFFICES ASSUME NEW x \in Seq(Tokens), NEW d
             PROVE  Reads("csv", Within(x, d), TextOf(a \o b), Within(x \o (v \o w), d))
  BY DEF Spells, Stays
<1>1. x \o v \in Seq(Tokens)
  BY ConcatType
<1>2. /\ Reads("csv", Within(x, d), TextOf(a), Within(x \o v, d))
      /\ Reads("csv", Within(x \o v, d), TextOf(b), Within((x \o v) \o w, d))
  BY <1>1 DEF Spells, Stays
<1>3. Runs("csv", Within(x, d), a \o b, Within((x \o v) \o w, d))
  BY <1>2, RunsConcat DEF Runs
<1>4. (x \o v) \o w = x \o (v \o w)
  <2> DEFINE T == Tokens
  <2>1. x \in Seq(T) /\ v \in Seq(T) /\ w \in Seq(T)
    OBVIOUS
  <2> HIDE DEF T
  <2> QED BY ONLY <2>1, ConcatRegroups, SMTT(30)
<1> QED BY <1>3, <1>4 DEF Runs

LEMMA SpellsFlat ==
  ASSUME NEW n \in Nat, NEW m \in Nat, NEW f, NEW g,
         \A i \in 1..m : f[i] \in Seq(Pieces(n)) /\ g[i] \in Seq(Tokens) /\ Spells(f[i], g[i])
  PROVE  Spells(FlattenSeq([i \in 1..m |-> f[i]]), FlattenSeq([i \in 1..m |-> g[i]]))
<1> DEFINE F(k) == FlattenSeq([i \in 1..k |-> f[i]])
           G(k) == FlattenSeq([i \in 1..k |-> g[i]])
           T == {k \in 0..m : ~Spells(F(k), G(k))}
<1> SUFFICES ASSUME T # {} PROVE FALSE
  <2>1. m \in 0..m
    OBVIOUS
  <2> QED BY <2>1
<1>1. PICK k \in T : \A j \in T : k <= j
  <2>1. T \in SUBSET Nat
    OBVIOUS
  <2> HIDE DEF T
  <2> QED BY <2>1, Least
<1>2. k \in 0..m /\ ~Spells(F(k), G(k))
  OBVIOUS
<1>3. F(0) = <<>> /\ G(0) = <<>>
  <2>1. [i \in 1..0 |-> f[i]] = <<>> /\ [i \in 1..0 |-> g[i]] = <<>>
    OBVIOUS
  <2> QED BY <2>1 DEF FlattenSeq
<1>4. k # 0
  <2> HIDE DEF F, G
  <2> QED BY <1>2, <1>3, SpellsNone
<1> DEFINE j == k - 1
<1>5. j \in Nat /\ j \in 0..m /\ j + 1 = k /\ k \in 1..m /\ ~(k <= j)
  BY <1>2, <1>4
<1>6. Spells(F(j), G(j))
  <2>1. j \notin T
    <3> HIDE DEF T, j
    <3> QED BY <1>1, <1>5
  <2> HIDE DEF F, G, j
  <2> QED BY <1>5, <2>1
<1> HIDE DEF j, T
<1>7. F(j) \in Seq(Pieces(n)) /\ F(k) = F(j) \o f[k]
  <2>1. \A i \in 1..(j + 1) : f[i] \in Seq(Pieces(n))
    BY <1>5
  <2>2. /\ FlattenSeq([i \in 1..j |-> f[i]]) \in Seq(Pieces(n))
        /\ FlattenSeq([i \in 1..(j + 1) |-> f[i]])
             = FlattenSeq([i \in 1..j |-> f[i]]) \o f[j + 1]
    BY <1>5, <2>1, FlattenGrows
  <2> QED BY <1>5, <2>2
<1>8. G(j) \in Seq(Tokens) /\ G(k) = G(j) \o g[k]
  <2>1. \A i \in 1..(j + 1) : g[i] \in Seq(Tokens)
    BY <1>5
  <2>2. /\ FlattenSeq([i \in 1..j |-> g[i]]) \in Seq(Tokens)
        /\ FlattenSeq([i \in 1..(j + 1) |-> g[i]])
             = FlattenSeq([i \in 1..j |-> g[i]]) \o g[j + 1]
    BY <1>5, <2>1, FlattenGrows
  <2> QED BY <1>5, <2>2
<1>9. f[k] \in Seq(Pieces(n)) /\ g[k] \in Seq(Tokens) /\ Spells(f[k], g[k])
  BY <1>5
<1> HIDE DEF F, G
<1>10. Spells(F(j) \o f[k], G(j) \o g[k])
  BY <1>6, <1>7, <1>8, <1>9, SpellsConcat
<1> QED BY <1>2, <1>7, <1>8, <1>10

\* A reader in a column, which may have found its text torn: what is
\* appended there one by one keeps it so, whichever of it is missing.
InColumn(t, d) ==
  \/ t.mode = "torn"
  \/ \E v \in Seq(Tokens) : t = Within(v, d) \/ t = Hexed(v, d)
Keeps(s) ==
  \A d : \A t : InColumn(t, d) => \E u : InColumn(u, d) /\ Reads("csv", t, s, u)

LEMMA TornReads ==
  ASSUME NEW t, t.mode = "torn", NEW s \in Seq(Tokens)
  PROVE  Reads("csv", t, s, t)
<1> DEFINE n == Len(s)
           g == [i \in 0..n |-> t]
<1>1. n \in Nat
  OBVIOUS
<1>2. \A c : Reader("csv", t, c) = t
  BY DEF Reader, ReadCSV, ReadText
<1> HIDE DEF n
<1>3. g[0] = t /\ g[n] = t /\ \A i \in 1..n : g[i] = t /\ g[i - 1] = t
  BY <1>1
<1> HIDE DEF g
<1> QED BY <1>2, <1>3 DEF Reads, n

LEMMA HexedReads ==
  ASSUME NEW v, NEW d
  PROVE  /\ Reader("csv", Within(v, d), "\\") = In("esc", "", v, <<>>, d)
         /\ Reader("csv", In("esc", "", v, <<>>, d), "u") = Hexed(v, d)
         /\ \A c : c # "u" => Reader("csv", In("esc", "", v, <<>>, d), c)
                                = Within(Append(v, Unescape(c)), d)
         /\ \A c \in {"0000", "0001"} :
              Reader("csv", Hexed(v, d), c) = Within(Append(v, Unescape(c)), d)
         /\ \A c : c \notin {"0000", "0001"} => Reader("csv", Hexed(v, d), c).mode = "torn"
<1> DEFINE n == ""
           w == <<>>
           t == Within(v, d)
           x == Hexed(v, d)
           s == In("esc", n, v, w, d)
           u == [c \in {"0000", "0001"} |-> Within(Append(v, Unescape(c)), d)]
<1>1. t = In("text", n, v, w, d) /\ x = In("hex", n, v, w, d)
  BY DEF Within, Hexed
<1>2. \A c : Within(Append(v, Unescape(c)), d) = In("text", n, Append(v, Unescape(c)), w, d)
  BY DEF Within
<1>3. s = In("esc", n, v, w, d)
  OBVIOUS
<1> HIDE DEF n, w, t, x, s
<1>4. /\ Reader("csv", t, "\\") = s /\ Reader("csv", s, "u") = x
      /\ \A c : c # "u" => Reader("csv", s, c) = Within(Append(v, Unescape(c)), d)
      /\ \A c \in {"0000", "0001"} : Reader("csv", x, c) = Within(Append(v, Unescape(c)), d)
      /\ \A c : c \notin {"0000", "0001"} => Reader("csv", x, c).mode = "torn"
  BY <1>1, <1>2, <1>3, CSVReads
<1> QED BY <1>4 DEF s, t, x, n, w

LEMMA KeepsConcat ==
  ASSUME NEW a \in Seq(Tokens), NEW b \in Seq(Tokens), Keeps(a), Keeps(b)
  PROVE  Keeps(a \o b)
<1> SUFFICES ASSUME NEW d, NEW t, InColumn(t, d)
             PROVE  \E w : InColumn(w, d) /\ Reads("csv", t, a \o b, w)
  BY DEF Keeps
<1>1. PICK u : InColumn(u, d) /\ Reads("csv", t, a, u)
  BY DEF Keeps
<1>2. PICK w : InColumn(w, d) /\ Reads("csv", u, b, w)
  BY <1>1 DEF Keeps
<1>3. Reads("csv", t, a \o b, w)
  BY <1>1, <1>2, ReadsConcat
<1> QED BY <1>2, <1>3

\* a token that is no quote, and one that follows a backslash
LEMMA TokenKeeps ==
  ASSUME NEW c \in Tokens
  PROVE  /\ c \notin {"quote", "\\"} => Keeps(<<c>>)
         /\ Unescape(c) \in Tokens => Keeps(<<"\\", c>>)
<1>0. <<c>> \in Seq(Tokens) /\ <<"\\", c>> \in Seq(Tokens)
  <2>1. "\\" \in Tokens
    BY DEF Tokens, Char
  <2> QED BY <2>1
<1>1. ASSUME c \notin {"quote", "\\"}, NEW d, NEW t, InColumn(t, d)
      PROVE  \E u : InColumn(u, d) /\ Reads("csv", t, <<c>>, u)
  <2> DEFINE x == Reader("csv", t, c)
  <2>0. Reads("csv", t, <<c>>, x)
    BY ReadsFew, Zenon
  <2>1. CASE t.mode = "torn"
    BY <1>0, <1>1, <2>1, TornReads
  <2>2. ASSUME NEW v \in Seq(Tokens), t = Within(v, d)
        PROVE  \E u : InColumn(u, d) /\ Reads("csv", t, <<c>>, u)
    <3>1. x = Within(Append(v, c), d) /\ Append(v, c) \in Seq(Tokens)
      BY <1>1, <2>2, ColumnReads
    <3> HIDE DEF x
    <3>2. InColumn(x, d)
      BY <3>1 DEF InColumn
    <3> QED BY <2>0, <3>2
  <2>3. ASSUME NEW v \in Seq(Tokens), t = Hexed(v, d)
        PROVE  \E u : InColumn(u, d) /\ Reads("csv", t, <<c>>, u)
    <3>1. c \in {"0000", "0001"} => x = Within(Append(v, Unescape(c)), d)
      BY <2>3, HexedReads, Zenon
    <3>2. c \notin {"0000", "0001"} => x.mode = "torn"
      BY <2>3, HexedReads, Zenon
    <3>3. c \in {"0000", "0001"} => Append(v, Unescape(c)) \in Seq(Tokens)
      <4>1. c \in {"0000", "0001"} => Unescape(c) \in Tokens
        BY UnescapeIs DEF Tokens, Char
      <4> QED BY <4>1
    <3> HIDE DEF x
    <3>4. InColumn(x, d)
      BY <3>1, <3>2, <3>3 DEF InColumn
    <3> QED BY <2>0, <3>4
  <2> QED BY <1>1, <2>1, <2>2, <2>3 DEF InColumn
<1>2. ASSUME Unescape(c) \in Tokens, NEW d, NEW t, InColumn(t, d)
      PROVE  \E u : InColumn(u, d) /\ Reads("csv", t, <<"\\", c>>, u)
  <2> DEFINE b == "\\"
             x == Reader("csv", t, b)
             y == Reader("csv", x, c)
  <2>0. Reads("csv", t, <<b, c>>, y)
    <3> HIDE DEF b
    <3> QED BY ReadsFew
  <2>1. CASE t.mode = "torn"
    BY <1>0, <1>2, <2>1, TornReads
  <2>2. ASSUME NEW v \in Seq(Tokens), t = Within(v, d)
        PROVE  \E u : InColumn(u, d) /\ Reads("csv", t, <<"\\", c>>, u)
    <3>1. c # "u" => y = Within(Append(v, Unescape(c)), d)
      BY <2>2, HexedReads
    <3>2. c = "u" => y = Hexed(v, d)
      BY <2>2, HexedReads
    <3>3. Append(v, Unescape(c)) \in Seq(Tokens)
      BY <1>2
    <3> HIDE DEF y
    <3>4. InColumn(y, d)
      BY <3>1, <3>2, <3>3 DEF InColumn
    <3> QED BY <2>0, <3>4
  <2>3. ASSUME NEW v \in Seq(Tokens), t = Hexed(v, d)
        PROVE  \E u : InColumn(u, d) /\ Reads("csv", t, <<"\\", c>>, u)
    <3>1. x.mode = "torn"
      <4>1. b \notin {"0000", "0001"}
        OBVIOUS
      <4> HIDE DEF b
      <4> QED BY <2>3, <4>1, HexedReads, Zenon
    <3> HIDE DEF x
    <3>2. Reads("csv", x, <<c>>, x) /\ Reads("csv", t, <<b>>, x)
      <4>1. Reads("csv", x, <<c>>, x)
        BY <1>0, <3>1, TornReads
      <4>2. Reads("csv", t, <<b>>, x)
        <5> HIDE DEF b
        <5> QED BY ReadsFew, Zenon DEF x
      <4> QED BY <4>1, <4>2
    <3>3. <<b>> \o <<c>> = <<b, c>> /\ <<b>> \in Seq(Tokens) /\ <<c>> \in Seq(Tokens)
      <4>1. b \in Tokens
        BY DEF Tokens, Char
      <4> HIDE DEF b
      <4> QED BY <4>1, AppendToOne
    <3>4. Reads("csv", t, <<b, c>>, x)
      <4> HIDE DEF b
      <4>1. Reads("csv", t, <<b>> \o <<c>>, x)
        BY <3>2, <3>3, ReadsConcat
      <4> QED BY <3>3, <4>1
    <3> QED BY <3>1, <3>4 DEF InColumn
  <2> QED BY <1>2, <2>1, <2>2, <2>3 DEF InColumn
<1> QED BY <1>1, <1>2, Zenon DEF Keeps

LEMMA CharKeeps ==
  ASSUME NEW c \in Char
  PROVE  Keeps(EscJSON(c)) /\ Keeps(<<"\\", "u">>) /\ Keeps(<<"0001">>)
<1>0. {"u", "n", "0000", "0001", "quote", "\\", "\n", "NUL", "ctl", c} \subseteq Tokens
  BY DEF Tokens, Char
<1>1. Keeps(<<"\\", "u">>) /\ Keeps(<<"\\", "n">>) /\ Keeps(<<"0000">>) /\ Keeps(<<"0001">>)
  <2> DEFINE u == "u"
             n == "n"
             x == "0000"
             y == "0001"
  <2>1. /\ u \in Tokens /\ n \in Tokens /\ x \in Tokens /\ y \in Tokens
        /\ x \notin {"quote", "\\"} /\ y \notin {"quote", "\\"}
    BY <1>0
  <2>2. Unescape(u) \in Tokens /\ Unescape(n) \in Tokens
    BY <1>0 DEF Unescape
  <2> HIDE DEF u, n, x, y
  <2>3. Keeps(<<"\\", u>>) /\ Keeps(<<"\\", n>>) /\ Keeps(<<x>>) /\ Keeps(<<y>>)
    BY <2>1, <2>2, TokenKeeps
  <2> QED BY <2>3 DEF u, n, x, y
<1>2. CASE c = "NUL"
  <2> DEFINE b == "\\"
             u == "u"
             x == "0000"
  <2>1. b \in Tokens /\ u \in Tokens /\ x \in Tokens
    BY <1>0
  <2>2. EscJSON(c) = <<b, u, x>> /\ Keeps(<<b, u>>) /\ Keeps(<<x>>)
    BY <1>1, <1>2 DEF EscJSON
  <2> HIDE DEF b, u, x
  <2>3. /\ <<b, u>> \in Seq(Tokens) /\ <<x>> \in Seq(Tokens)
        /\ <<b, u>> \o <<x>> = <<b, u, x>>
    BY <2>1, AppendToPair
  <2>4. Keeps(<<b, u>> \o <<x>>)
    BY <2>2, <2>3, KeepsConcat
  <2> QED BY <1>1, <2>2, <2>3, <2>4
<1>3. CASE c = "\n"
  <2>1. EscJSON(c) = <<"\\", "n">>
    BY <1>3 DEF EscJSON
  <2> QED BY <1>1, <2>1
<1>4. CASE c \in {"quote", "\\"}
  <2>1. EscJSON(c) = <<"\\", c>>
    BY <1>4 DEF EscJSON
  <2>2. Unescape(c) = c /\ c \in Tokens
    BY <1>0, <1>4, UnescapeIs
  <2> QED BY <1>1, <2>1, <2>2, TokenKeeps
<1>5. CASE c \notin {"NUL", "\n", "quote", "\\"}
  <2>1. EscJSON(c) = <<c>>
    BY <1>5 DEF EscJSON
  <2> QED BY <1>0, <1>1, <1>5, <2>1, TokenKeeps
<1> QED BY <1>2, <1>3, <1>4, <1>5

\* the appends of a column, each of which keeps the reader in it
CellPieces(n) == {p \in Pieces(n) : p.txt = Nothing \/ (p.in # 0 /\ Keeps(p.txt))}
Spelt(n, td, w) == td \in Seq(CellPieces(n)) /\ w \in Seq(Tokens) /\ Spells(td, w)

LEMMA CellsAreAppends == \A n : Seq(CellPieces(n)) \subseteq Seq(Pieces(n))
<1> SUFFICES ASSUME NEW n, NEW s \in Seq(CellPieces(n)) PROVE s \in Seq(Pieces(n))
  OBVIOUS
<1> DEFINE C == CellPieces(n)
<1>1. C \subseteq Pieces(n)
  BY DEF CellPieces
<1>2. s \in Seq(C)
  OBVIOUS
<1> HIDE DEF C
<1>3. \A i \in 1..Len(s) : s[i] \in Pieces(n)
  BY <1>1, <1>2
<1> QED BY <1>2, <1>3, SeqOver

LEMMA SpeltNone == \A n : Spelt(n, <<>>, <<>>)
<1>1. \A n : <<>> \in Seq(CellPieces(n))
  OBVIOUS
<1>2. <<>> \in Seq(Tokens)
  OBVIOUS
<1> QED BY <1>1, <1>2, SpellsNone DEF Spelt

LEMMA SpeltOne ==
  ASSUME NEW n \in Nat, NEW k \in 1..n, NEW txt \in Seq(Tokens), NEW w \in Seq(Tokens),
         Keeps(txt), Stays(txt, w)
  PROVE  Spelt(n, Try(k, txt), w) /\ Spelt(n, Hope(k, txt), w)
<1>1. ASSUME NEW b \in BOOLEAN PROVE Add(k, b, txt) \in Seq(CellPieces(n))
  <2> DEFINE p == [in |-> k, chk |-> b, txt |-> txt]
  <2>1. p \in Pieces(n) /\ p.in # 0 /\ p.txt = txt
    BY DEF Pieces
  <2> HIDE DEF p
  <2>2. p \in CellPieces(n)
    BY <2>1 DEF CellPieces
  <2> QED BY <2>2 DEF Add, p
<1>2. Try(k, txt) \in Seq(CellPieces(n)) /\ Hope(k, txt) \in Seq(CellPieces(n))
  BY <1>1 DEF Try, Hope
<1> QED BY <1>2, SpellsOne DEF Spelt

LEMMA SpeltConcat ==
  ASSUME NEW n \in Nat, NEW a, NEW b, NEW v, NEW w, Spelt(n, a, v), Spelt(n, b, w)
  PROVE  Spelt(n, a \o b, v \o w)
<1>1. /\ a \in Seq(CellPieces(n)) /\ b \in Seq(CellPieces(n))
      /\ v \in Seq(Tokens) /\ w \in Seq(Tokens) /\ Spells(a, v) /\ Spells(b, w)
  BY DEF Spelt
<1>2. a \in Seq(Pieces(n)) /\ b \in Seq(Pieces(n))
  BY <1>1, CellsAreAppends
<1>3. a \o b \in Seq(CellPieces(n)) /\ v \o w \in Seq(Tokens)
  BY <1>1, ConcatType
<1>4. Spells(a \o b, v \o w)
  BY <1>1, <1>2, SpellsConcat
<1> QED BY <1>3, <1>4 DEF Spelt

LEMMA SpeltFlat ==
  ASSUME NEW n \in Nat, NEW m \in Nat, NEW f, NEW g, \A i \in 1..m : Spelt(n, f[i], g[i])
  PROVE  Spelt(n, FlattenSeq([i \in 1..m |-> f[i]]), FlattenSeq([i \in 1..m |-> g[i]]))
<1> DEFINE F == [i \in 1..m |-> f[i]]
           G == [i \in 1..m |-> g[i]]
<1>1. \A i \in 1..m : /\ f[i] \in Seq(CellPieces(n)) /\ g[i] \in Seq(Tokens)
                      /\ Spells(f[i], g[i])
  BY DEF Spelt
<1>2. /\ F = [i \in 1..m |-> F[i]] /\ \A i \in 1..m : F[i] \in Seq(CellPieces(n))
      /\ G = [i \in 1..m |-> G[i]] /\ \A i \in 1..m : G[i] \in Seq(Tokens)
  BY <1>1
<1>3. Spells(FlattenSeq(F), FlattenSeq(G))
  BY <1>1, CellsAreAppends, SpellsFlat
<1> HIDE DEF F, G
<1>4. FlattenSeq(F) \in Seq(CellPieces(n)) /\ FlattenSeq(G) \in Seq(Tokens)
  BY <1>2, FlatType
<1>5. Spelt(n, FlattenSeq(F), FlattenSeq(G))
  BY <1>3, <1>4 DEF Spelt
<1> QED BY <1>5 DEF F, G

\* a sequence is the concatenation of its elements
LEMMA FlattenOnes ==
  ASSUME NEW U, NEW s \in Seq(U)
  PROVE  FlattenSeq([i \in 1..Len(s) |-> <<s[i]>>]) = s
<1> DEFINE n == Len(s)
           f == [i \in 1..n |-> <<s[i]>>]
           F(k) == FlattenSeq([i \in 1..k |-> f[i]])
           T == {k \in 0..n : F(k) # SubSeq(s, 1, k)}
<1>0. n \in Nat /\ SubSeq(s, 1, n) = s /\ SubSeq(s, 1, 0) = <<>>
      /\ \A i \in 1..n : s[i] \in U /\ <<s[i]>> \in Seq(U)
  OBVIOUS
<1>1. ASSUME T # {} PROVE FALSE
  <2>1. PICK k \in T : \A j \in T : k <= j
    <3>1. T \in SUBSET Nat
      OBVIOUS
    <3> HIDE DEF T
    <3> QED BY <1>1, <3>1, Least
  <2>2. k \in 0..n /\ F(k) # SubSeq(s, 1, k)
    OBVIOUS
  <2>3. F(0) = <<>>
    <3>1. [i \in 1..0 |-> f[i]] = <<>>
      OBVIOUS
    <3> QED BY <3>1 DEF FlattenSeq
  <2>4. k # 0
    <3> HIDE DEF F
    <3> QED BY <1>0, <2>2, <2>3
  <2> DEFINE j == k - 1
  <2>5. j \in Nat /\ j \in 0..n /\ j + 1 = k /\ k \in 1..n /\ ~(k <= j)
    BY <1>0, <2>2, <2>4
  <2>6. F(j) = SubSeq(s, 1, j)
    <3>1. j \notin T
      <4> HIDE DEF T, j
      <4> QED BY <2>1, <2>5
    <3> HIDE DEF F, j
    <3> QED BY <2>5, <3>1
  <2> HIDE DEF j, T
  <2>7. F(k) = F(j) \o f[k] /\ f[k] = <<s[k]>>
    <3>1. \A i \in 1..n : f[i] = <<s[i]>>
      OBVIOUS
    <3> HIDE DEF f, n
    <3>2. \A i \in 1..(j + 1) : f[i] \in Seq(U)
      <4>1. \A i \in 1..(j + 1) : i \in 1..n
        BY <1>0, <2>5
      <4>2. \A i \in 1..n : f[i] \in Seq(U)
        BY <1>0, <3>1
      <4> QED BY <4>1, <4>2
    <3>3. FlattenSeq([i \in 1..(j + 1) |-> f[i]])
            = FlattenSeq([i \in 1..j |-> f[i]]) \o f[j + 1]
      BY <2>5, <3>2, FlattenGrows
    <3> QED BY <2>5, <3>1, <3>3
  <2> HIDE DEF F
  <2>8. SubSeq(s, 1, k) = SubSeq(s, 1, j) \o <<s[k]>>
    <3>1. SubSeq(s, 1, j) \in Seq(U) /\ s[k] \in U
      BY <1>0, <2>5
    <3>2. SubSeq(s, 1, k) = Append(SubSeq(s, 1, j), s[k])
      BY <2>5
    <3>3. \A x \in Seq(U), c \in U : Append(x, c) = x \o <<c>>
      OBVIOUS
    <3> QED BY <3>1, <3>2, <3>3, Zenon
  <2> QED BY <2>2, <2>6, <2>7, <2>8
<1>2. n \in 0..n
  BY <1>0
<1>3. F(n) = s
  BY <1>0, <1>1, <1>2
<1>4. [i \in 1..n |-> f[i]] = f
  OBVIOUS
<1> QED BY <1>3, <1>4

\* a character of a value, in one append or two
LEMMA CharSpelt ==
  ASSUME NEW n \in Nat, NEW k \in 1..n, NEW c \in Char
  PROVE  Spelt(n, CharJSON(k, c), <<c>>)
<1>1. <<c>> \in Seq(Tokens)
  <2>1. c \in Tokens
    BY DEF Tokens
  <2> QED BY <2>1
<1>2. Spells(CharJSON(k, c), <<c>>)
  BY CharText, CharStays DEF Spells
<1>3. CharJSON(k, c) \in Seq(CellPieces(n))
  <2>1. ASSUME NEW txt \in Seq(Tokens), Keeps(txt) PROVE Hope(k, txt) \in Seq(CellPieces(n))
    <3> DEFINE p == [in |-> k, chk |-> FALSE, txt |-> txt]
    <3>1. p \in Pieces(n) /\ p.in # 0 /\ p.txt = txt
      BY DEF Pieces
    <3> HIDE DEF p
    <3>2. p \in CellPieces(n)
      BY <2>1, <3>1 DEF CellPieces
    <3> QED BY <3>2 DEF Hope, Add, p
  <2> DEFINE esc == <<"\\", "u">>
             digits == <<"0001">>
             a == Hope(k, esc)
             b == Hope(k, digits)
             x == Hope(k, EscJSON(c))
  <2>2. a \in Seq(CellPieces(n)) /\ b \in Seq(CellPieces(n)) /\ x \in Seq(CellPieces(n))
    <3>1. /\ esc \in Seq(Tokens) /\ digits \in Seq(Tokens) /\ EscJSON(c) \in Seq(Tokens)
          /\ Keeps(esc) /\ Keeps(digits) /\ Keeps(EscJSON(c))
      BY CharTypes, CharKeeps
    <3> HIDE DEF esc, digits
    <3> QED BY <2>1, <3>1
  <2>3. CharJSON(k, c) = IF c = "ctl" THEN a \o b ELSE x
    BY Zenon DEF CharJSON
  <2> HIDE DEF a, b, x
  <2>4. a \o b \in Seq(CellPieces(n))
    BY <2>2, ConcatType
  <2> QED BY <2>2, <2>3, <2>4
<1> QED BY <1>1, <1>2, <1>3 DEF Spelt

\* the characters of a value
LEMMA ValueSpelt ==
  ASSUME NEW n \in Nat, NEW k \in 1..n, NEW v \in Texts
  PROVE  Spelt(n, ValueCSV(k, v), v)
<1> DEFINE m == Len(v)
           f == [i \in 1..m |-> CharJSON(k, v[i])]
           g == [i \in 1..m |-> <<v[i]>>]
<1>1. m \in Nat /\ v \in Seq(Char) /\ \A i \in 1..m : v[i] \in Char
  BY DEF Texts
<1>2. \A i \in 1..m : f[i] = CharJSON(k, v[i]) /\ g[i] = <<v[i]>>
  OBVIOUS
<1>3. f = [i \in 1..m |-> f[i]] /\ g = [i \in 1..m |-> g[i]]
  OBVIOUS
<1>4. ValueCSV(k, v) = FlattenSeq(f)
  BY DEF ValueCSV, Each
<1>5. v = FlattenSeq(g)
  BY <1>1, FlattenOnes
<1> HIDE DEF f, g, m
<1>6. \A i \in 1..m : Spelt(n, f[i], g[i])
  <2> SUFFICES ASSUME NEW i \in 1..m PROVE Spelt(n, f[i], g[i])
    OBVIOUS
  <2>1. v[i] \in Char
    BY <1>1
  <2>2. Spelt(n, CharJSON(k, v[i]), <<v[i]>>)
    BY <2>1, CharSpelt
  <2> QED BY <1>2, <2>2
<1>7. Spelt(n, FlattenSeq([i \in 1..m |-> f[i]]), FlattenSeq([i \in 1..m |-> g[i]]))
  BY <1>1, <1>6, SpeltFlat
<1> QED BY <1>3, <1>4, <1>5, <1>7, Zenon

\* what a column says of its field
CellOf(f) ==
  IF Len(f.vals) = 1 THEN f.vals[1]
  ELSE <<"[">> \o Join(f.vals, <<"comma">>, LAMBDA v : v) \o <<"]">>

\* an append of one token that the reader keeps
LEMMA TokenSpelt ==
  ASSUME NEW n \in Nat, NEW k \in 1..n, NEW c \in Tokens, c \notin {"quote", "\\"}
  PROVE  Spelt(n, Try(k, <<c>>), <<c>>)
<1>1. <<c>> \in Seq(Tokens)
  OBVIOUS
<1> QED BY <1>1, TokenKeeps, TokenStays, SpeltOne

LEMMA FieldSpelt ==
  ASSUME NEW n \in Nat, NEW k \in 1..n, NEW f \in FieldOf
  PROVE  /\ FieldCSV(k, f) \in Seq(CellPieces(n))
         /\ f.vals # <<>> => Spelt(n, FieldCSV(k, f), CellOf(f))
         /\ f.vals = <<>> => ~Clean(FieldCSV(k, f))
<1> DEFINE m == Len(f.vals)
           opens == Try(k, <<"[">>)
           closes == Try(k, <<"]">>)
           g == [i \in 1..m |-> (IF i > 1 THEN Try(k, <<"comma">>) ELSE <<>>)
                                \o ValueCSV(k, f.vals[i])]
           h == [i \in 1..m |-> (IF i > 1 THEN <<"comma">> ELSE <<>>) \o f.vals[i]]
<1>1. m \in Nat /\ f.vals \in Seq(Texts) /\ \A i \in 1..m : f.vals[i] \in Texts
  <2>1. f.vals \in Seq(Texts)
    BY DEF FieldOf
  <2> QED BY <2>1
<1>2. /\ Spelt(n, opens, <<"[">>) /\ Spelt(n, closes, <<"]">>)
      /\ Spelt(n, Try(k, <<"comma">>), <<"comma">>)
  <2>1. \A c \in {"[", "]", "comma"} : c \in Tokens /\ c \notin {"quote", "\\"}
    BY DEF Tokens, Char
  <2> QED BY <2>1, TokenSpelt
<1>3. \A i \in 1..m : Spelt(n, ValueCSV(k, f.vals[i]), f.vals[i])
  BY <1>1, ValueSpelt
<1>4. Spelt(n, FlattenSeq(g), FlattenSeq(h))
  <2>1. \A i \in 1..m : Spelt(n, g[i], h[i])
    <3> SUFFICES ASSUME NEW i \in 1..m PROVE Spelt(n, g[i], h[i])
      OBVIOUS
    <3> DEFINE a == IF i > 1 THEN Try(k, <<"comma">>) ELSE <<>>
               b == IF i > 1 THEN <<"comma">> ELSE <<>>
    <3>1. Spelt(n, a, b)
      BY <1>2, SpeltNone, Zenon
    <3>2. g[i] = a \o ValueCSV(k, f.vals[i]) /\ h[i] = b \o f.vals[i]
      BY Zenon
    <3> HIDE DEF a, b, g, h, m
    <3>3. Spelt(n, a \o ValueCSV(k, f.vals[i]), b \o f.vals[i])
      BY <1>3, <3>1, SpeltConcat
    <3> QED BY <3>2, <3>3
  <2>2. g = [i \in 1..m |-> g[i]] /\ h = [i \in 1..m |-> h[i]]
    OBVIOUS
  <2> HIDE DEF g, h, m
  <2>3. Spelt(n, FlattenSeq([i \in 1..m |-> g[i]]), FlattenSeq([i \in 1..m |-> h[i]]))
    BY <1>1, <2>1, SpeltFlat
  <2> QED BY <2>2, <2>3, Zenon
<1>5. /\ FlattenSeq(g) = Join(f.vals, Try(k, <<"comma">>), LAMBDA v : ValueCSV(k, v))
      /\ FlattenSeq(h) = Join(f.vals, <<"comma">>, LAMBDA v : v)
  BY DEF Join, Each
<1>6. FieldCSV(k, f) = CASE m = 0 -> opens \o Try(k, Nothing)
                         [] m = 1 -> ValueCSV(k, f.vals[1])
                         [] OTHER -> opens \o FlattenSeq(g) \o closes
  BY <1>5, Zenon DEF FieldCSV
<1>7. CellOf(f) = IF m = 1 THEN f.vals[1] ELSE <<"[">> \o FlattenSeq(h) \o <<"]">>
  BY <1>5, Zenon DEF CellOf
<1>8. f.vals = <<>> <=> m = 0
  BY <1>1
<1>9. CASE m = 0
  <2> DEFINE a == [in |-> k, chk |-> TRUE, txt |-> <<"[">>]
             b == [in |-> k, chk |-> TRUE, txt |-> Nothing]
  <2>1. opens = <<a>> /\ Try(k, Nothing) = <<b>> /\ b.txt = Nothing
    BY DEF Try, Add
  <2>2. a \in CellPieces(n)
    <3>1. opens \in Seq(CellPieces(n))
      BY <1>2 DEF Spelt
    <3> HIDE DEF a, b, opens
    <3> QED BY <2>1, <3>1
  <2>3. b \in CellPieces(n)
    <3>1. Nothing \in Seq(Tokens)
      BY NothingType
    <3> HIDE DEF Nothing
    <3>2. b \in Pieces(n)
      BY <3>1 DEF Pieces
    <3> QED BY <2>1, <3>2 DEF CellPieces
  <2>4. FieldCSV(k, f) = opens \o Try(k, Nothing)
    <3> HIDE DEF m, opens, g, closes
    <3> QED BY <1>6, <1>9
  <2> HIDE DEF a, b
  <2> DEFINE C == CellPieces(n)
             s == <<a>> \o <<b>>
  <2>5. s \in Seq(C) /\ Len(s) = 2 /\ s[2] = b
    <3>1. <<a>> \in Seq(C) /\ Len(<<a>>) = 1 /\ <<b>> \in Seq(C) /\ Len(<<b>>) = 1
          /\ <<b>>[1] = b
      BY <2>2, <2>3
    <3> HIDE DEF C
    <3> QED BY <3>1
  <2> HIDE DEF s
  <2>6. ~Clean(s)
    <3>1. 2 \in 1..2
      OBVIOUS
    <3> QED BY <2>1, <2>5, <3>1 DEF Clean
  <2>7. FieldCSV(k, f) = s
    BY <2>1, <2>4, Zenon DEF s
  <2> HIDE DEF m
  <2> QED BY <1>8, <1>9, <2>5, <2>6, <2>7
<1>10. CASE m = 1
  <2>1. Spelt(n, FieldCSV(k, f), CellOf(f))
    <3>1. 1 \in 1..m
      BY <1>10
    <3> HIDE DEF m
    <3>2. FieldCSV(k, f) = ValueCSV(k, f.vals[1]) /\ CellOf(f) = f.vals[1]
      BY <1>6, <1>7, <1>10
    <3> QED BY <1>3, <3>1, <3>2
  <2> HIDE DEF m
  <2> QED BY <1>8, <1>10, <2>1 DEF Spelt
<1>11. CASE m # 0 /\ m # 1
  <2> HIDE DEF g, h, opens, closes
  <2>1. FieldCSV(k, f) = opens \o FlattenSeq(g) \o closes
    BY <1>6, <1>11, Zenon
  <2>2. CellOf(f) = <<"[">> \o FlattenSeq(h) \o <<"]">>
    BY <1>7, <1>11, Zenon
  <2>3. Spelt(n, opens \o FlattenSeq(g), <<"[">> \o FlattenSeq(h))
    BY <1>2, <1>4, SpeltConcat, Zenon
  <2>4. Spelt(n, opens \o FlattenSeq(g) \o closes, <<"[">> \o FlattenSeq(h) \o <<"]">>)
    BY <1>2, <2>3, SpeltConcat, Zenon
  <2>5. Spelt(n, FieldCSV(k, f), CellOf(f))
    BY <2>1, <2>2, <2>4, Zenon
  <2> HIDE DEF m
  <2> QED BY <1>8, <1>11, <2>5 DEF Spelt
<1> HIDE DEF m
<1> QED BY <1>9, <1>10, <1>11

\* what the column for a name says of an event
CellIn(e, name) ==
  LET found == {i \in DOMAIN Fields(e) : Fields(e)[i].name = name}
  IN  IF found = {} THEN <<>>
      ELSE CellOf(Fields(e)[CHOOSE i \in found : \A j \in found : i <= j])

LEMMA CellIs == ASSUME NEW name PROVE Cell(name) = CellIn(event, name)
BY Zenon DEF Cell, CellIn, CellOf

LEMMA ColumnSpelt ==
  ASSUME NEW e, EventIs(e), NEW n \in Nat, NEW k \in 1..n, NEW name
  PROVE  /\ Column(k, e, name) \in Seq(CellPieces(n))
         /\ Clean(Column(k, e, name)) => Spelt(n, Column(k, e, name), CellIn(e, name))
<1> DEFINE fs == Fields(e)
           found == {i \in DOMAIN fs : fs[i].name = name}
           first == CHOOSE i \in found : \A j \in found : i <= j
<1>0. CellIn(e, name) = IF found = {} THEN <<>> ELSE CellOf(fs[first])
  BY Zenon DEF CellIn
<1>1. CASE e.fields = None
  <2> DEFINE b == [in |-> 0, chk |-> TRUE, txt |-> Nothing]
  <2>1. Column(k, e, name) = <<b>> /\ b.txt = Nothing
    BY <1>1, Zenon DEF Column, Try, Add
  <2>2. b \in CellPieces(n)
    <3>1. Nothing \in Seq(Tokens)
      BY NothingType
    <3> HIDE DEF Nothing
    <3>2. b \in Pieces(n)
      BY <3>1 DEF Pieces
    <3> QED BY <2>1, <3>2 DEF CellPieces
  <2> HIDE DEF b
  <2>3. ~Clean(<<b>>)
    <3>1. Len(<<b>>) = 1 /\ <<b>>[1] = b /\ 1 \in 1..1
      OBVIOUS
    <3> QED BY <2>1, <3>1 DEF Clean
  <2> QED BY <2>1, <2>2, <2>3
<1>2. CASE e.fields # None /\ found = {}
  <2>1. Column(k, e, name) = <<>>
    BY <1>2, Zenon DEF Column
  <2>2. CellIn(e, name) = <<>>
    <3> HIDE DEF found, first, fs
    <3> QED BY <1>0, <1>2
  <2> QED BY <2>1, <2>2, SpeltNone DEF Spelt
<1>3. CASE e.fields # None /\ found # {}
  <2>1. fs \in Seq(FieldOf) /\ Len(fs) \in Nat /\ DOMAIN fs = 1..Len(fs)
    BY FieldsType
  <2>2. found \subseteq DOMAIN fs /\ found \in SUBSET Nat
    BY <2>1
  <2> HIDE DEF found
  <2>3. \E i \in found : \A j \in found : i <= j
    BY <1>3, <2>2, Least
  <2>4. first \in found
    BY <2>3
  <2>5. Column(k, e, name) = FieldCSV(k, fs[first])
    BY <1>3, Zenon DEF Column, found
  <2>6. CellIn(e, name) = CellOf(fs[first])
    BY <1>3, <1>0, Zenon
  <2> HIDE DEF first
  <2>8. fs[first] \in FieldOf
    <3>1. first \in 1..Len(fs)
      BY <2>1, <2>2, <2>4, Zenon
    <3> HIDE DEF fs
    <3> QED BY <2>1, <3>1
  <2> HIDE DEF fs
  <2> QED BY <2>5, <2>6, <2>8, FieldSpelt
<1> QED BY <1>1, <1>2, <1>3

LEMMA CleanConcat ==
  ASSUME NEW U, NEW a \in Seq(U), NEW b \in Seq(U), Clean(a \o b)
  PROVE  Clean(a) /\ Clean(b)
<1> DEFINE c == a \o b
           l == Len(a)
           m == Len(b)
<1>1. /\ l \in Nat /\ m \in Nat /\ Len(c) = l + m /\ \A i \in 1..l : c[i] = a[i]
      /\ \A i \in (l + 1)..(l + m) : c[i] = b[i - l]
  BY ConcatProperties
<1>2. Clean(c)
  OBVIOUS
<1> HIDE DEF c, l, m
<1>3. \A i \in 1..l : a[i].txt # Nothing
  BY <1>1, <1>2 DEF Clean
<1>4. ASSUME NEW i \in 1..m PROVE b[i].txt # Nothing
  <2>1. i + l \in (l + 1)..(l + m) /\ i + l \in 1..(l + m) /\ (i + l) - l = i
    BY <1>1
  <2>2. c[i + l] = b[i] /\ c[i + l].txt # Nothing
    BY <1>1, <1>2, <2>1 DEF Clean
  <2> QED BY <2>2
<1> QED BY <1>3, <1>4 DEF Clean, l, m

\* a part of a program without a piece that reads what is not there has none
LEMMA CleanFlat ==
  ASSUME NEW U, NEW m \in Nat, NEW f, \A i \in 1..m : f[i] \in Seq(U),
         Clean(FlattenSeq([i \in 1..m |-> f[i]]))
  PROVE  \A i \in 1..m : Clean(f[i])
<1> DEFINE F(k) == FlattenSeq([i \in 1..k |-> f[i]])
           Good(k) == Clean(F(k)) => \A i \in 1..k : Clean(f[i])
           T == {k \in 0..m : ~Good(k)}
<1>0. Clean(F(m)) /\ m \in 0..m
  OBVIOUS
<1> SUFFICES ASSUME T # {} PROVE FALSE
  <2> HIDE DEF F
  <2> QED BY <1>0
<1>1. PICK k \in T : \A j \in T : k <= j
  <2>1. T \in SUBSET Nat
    OBVIOUS
  <2> HIDE DEF T
  <2> QED BY <2>1, Least
<1>2. k \in 0..m /\ ~Good(k)
  OBVIOUS
<1>3. k # 0
  <2> HIDE DEF F
  <2> QED BY <1>2
<1> DEFINE j == k - 1
<1>4. j \in Nat /\ j \in 0..m /\ j + 1 = k /\ k \in 1..m /\ ~(k <= j)
  BY <1>2, <1>3
<1>5. Good(j)
  <2>1. j \notin T
    <3> HIDE DEF T, j
    <3> QED BY <1>1, <1>4
  <2> HIDE DEF Good, j
  <2> QED BY <1>4, <2>1
<1> HIDE DEF j, T
<1>6. F(j) \in Seq(U) /\ F(k) = F(j) \o f[k] /\ f[k] \in Seq(U)
  <2>1. \A i \in 1..(j + 1) : f[i] \in Seq(U)
    BY <1>4
  <2>2. /\ FlattenSeq([i \in 1..j |-> f[i]]) \in Seq(U)
        /\ FlattenSeq([i \in 1..(j + 1) |-> f[i]])
             = FlattenSeq([i \in 1..j |-> f[i]]) \o f[j + 1]
    BY <1>4, <2>1, FlattenGrows
  <2> QED BY <1>4, <2>2
<1> HIDE DEF F
<1>7. Clean(F(k)) /\ ~\A i \in 1..k : Clean(f[i])
  BY <1>2
<1>8. Clean(F(j)) /\ Clean(f[k])
  <2>1. Clean(F(j) \o f[k])
    BY <1>6, <1>7
  <2> QED BY <1>6, <2>1, CleanConcat
<1>9. \A i \in 1..j : Clean(f[i])
  BY <1>5, <1>8
<1>10. \A i \in 1..k : i \in 1..j \/ i = k
  BY <1>4
<1> QED BY <1>7, <1>8, <1>9, <1>10

\* the row's part for the k-th name
Part(k, e, ns) == Try(0, <<"quote">>) \o Column(k, e, ns[k]) \o Try(0, <<"quote">>)
                  \o (IF k < Len(ns) THEN Try(0, <<"comma">>) ELSE <<>>)

LEMMA RowIs ==
  ASSUME NEW e, NEW ns
  PROVE  fmtEventToCSV(e, ns) = FlattenSeq([k \in 1..Len(ns) |-> Part(k, e, ns)])
BY DEF fmtEventToCSV, Each, Part

\* the literals of a row
LEMMA RowLiterals ==
  ASSUME NEW n \in Nat
  PROVE  /\ Try(0, <<"quote">>) \in Seq(Pieces(n)) /\ Try(0, <<"comma">>) \in Seq(Pieces(n))
         /\ <<>> \in Seq(Pieces(n))
         /\ <<"quote">> \in Seq(Tokens) /\ <<"comma">> \in Seq(Tokens)
<1>1. <<"quote">> \in Seq(Tokens) /\ <<"comma">> \in Seq(Tokens)
  BY LiteralType
<1> QED BY <1>1, EventLiterals

LEMMA PartType ==
  ASSUME NEW e, EventIs(e), NEW n \in Nat, NEW k \in 1..n, NEW ns
  PROVE  Part(k, e, ns) \in Seq(Pieces(n))
<1> DEFINE c == Column(k, e, ns[k])
           l == IF k < Len(ns) THEN Try(0, <<"comma">>) ELSE <<>>
           q == Try(0, <<"quote">>)
<1>1. c \in Seq(Pieces(n))
  BY ColumnSpelt, CellsAreAppends
<1>2. q \in Seq(Pieces(n)) /\ l \in Seq(Pieces(n))
  BY RowLiterals, Zenon
<1> HIDE DEF c, l, q
<1>3. q \o c \o q \o l \in Seq(Pieces(n))
  BY <1>1, <1>2, ConcatType
<1> QED BY <1>3 DEF Part, q, c, l

LEMMA PartRuns ==
  ASSUME NEW e, EventIs(e), NEW n \in Nat, NEW k \in 1..n, NEW ns, Clean(Part(k, e, ns)), NEW d
  PROVE  Runs("csv", Between(d), Part(k, e, ns), Between(Cells(d, CellIn(e, ns[k]))))
<1> DEFINE c == Column(k, e, ns[k])
           l == IF k < Len(ns) THEN Try(0, <<"comma">>) ELSE <<>>
           q == Try(0, <<"quote">>)
           w == CellIn(e, ns[k])
           x == Cells(d, w)
           P == Pieces(n)
<1>1. c \in Seq(P) /\ q \in Seq(P) /\ l \in Seq(P)
  <2>1. c \in Seq(Pieces(n))
    BY ColumnSpelt, CellsAreAppends
  <2>2. q \in Seq(Pieces(n)) /\ l \in Seq(Pieces(n))
    BY RowLiterals, Zenon
  <2> QED BY <2>1, <2>2
<1>2. Part(k, e, ns) = q \o c \o q \o l
  BY DEF Part
<1>3. Clean(c)
  <2> HIDE DEF c, l, q, P
  <2>1. Clean(q \o c \o q \o l)
    BY <1>2, Zenon
  <2>2. q \o c \in Seq(P) /\ q \o c \o q \in Seq(P)
    BY <1>1, ConcatType
  <2>3. Clean(q \o c \o q)
    BY <1>1, <2>1, <2>2, CleanConcat
  <2>4. Clean(q \o c)
    BY <1>1, <2>2, <2>3, CleanConcat
  <2> QED BY <1>1, <2>4, CleanConcat
<1>4. Spelt(n, c, w)
  BY <1>3, ColumnSpelt
<1>5. /\ Reader("csv", Between(d), "quote") = Within(<<>>, d)
      /\ Reader("csv", Within(w, d), "quote") = Between(x)
      /\ Reader("csv", Between(x), "comma") = Between(x)
  BY ColumnReads
<1> HIDE DEF c, w, x
<1>6. Runs("csv", Between(d), q, Within(<<>>, d))
  BY <1>5, RowLiterals, RunsToken
<1>7. Runs("csv", Within(<<>>, d), c, Within(w, d))
  <2>1. w \in Seq(Tokens) /\ Spells(c, w)
    BY <1>4 DEF Spelt
  <2>2. <<>> \in Seq(Tokens) /\ <<>> \o w = w
    BY <2>1
  <2>3. Reads("csv", Within(<<>>, d), TextOf(c), Within(<<>> \o w, d))
    BY <2>1, <2>2 DEF Spells, Stays
  <2> QED BY <2>2, <2>3, Zenon DEF Runs
<1>8. Runs("csv", Within(w, d), q, Between(x))
  BY <1>5, RowLiterals, RunsToken
<1>9. Runs("csv", Between(x), l, Between(x))
  <2>1. Runs("csv", Between(x), Try(0, <<"comma">>), Between(x))
    BY <1>5, RowLiterals, RunsToken
  <2>2. Runs("csv", Between(x), <<>>, Between(x))
    BY RunsNone
  <2> QED BY <2>1, <2>2, Zenon
<1> HIDE DEF q, l
<1>10. Runs("csv", Between(d), q \o c \o q \o l, Between(x))
  <2>1. Runs("csv", Between(d), q \o c \o q, Between(x))
    BY <1>1, <1>6, <1>7, <1>8, RunsParts
  <2>2. q \o c \o q \in Seq(Pieces(n))
    BY <1>1, ConcatType
  <2> QED BY <1>1, <1>9, <2>1, <2>2, RunsConcat
<1> QED BY <1>2, <1>10, Zenon DEF x, w

LEMMA RowReads ==
  ASSUME NEW e, EventIs(e), NEW ns \in Seq(STRING), Clean(fmtEventToCSV(e, ns))
  PROVE  Runs("csv", Start, fmtEventToCSV(e, ns),
              Between([i \in 1..Len(ns) |-> [name |-> "", vals |-> <<CellIn(e, ns[i])>>]]))
<1> DEFINE n == Len(ns)
           f == [k \in 1..n |-> Part(k, e, ns)]
           s == [i \in 1..n |-> [name |-> "", vals |-> <<CellIn(e, ns[i])>>]]
           U == {s[i] : i \in 1..n}
           h == [x \in Seq(U) |-> Between(x)]
<1>1. n \in Nat
  OBVIOUS
<1>2. s \in Seq(U) /\ Len(s) = n /\ \A i \in 1..n : s[i] \in U
  <2>1. s = [i \in 1..n |-> s[i]] /\ \A i \in 1..n : s[i] \in U
    OBVIOUS
  <2> HIDE DEF n, s, U
  <2>2. s \in [1..n -> U]
    BY <2>1
  <2> QED BY <1>1, <2>1, <2>2
<1>3. \A d, i : i \in 1..n => Append(d, s[i]) = Cells(d, CellIn(e, ns[i]))
  BY DEF Cells
<1>4. \A i \in 1..n : f[i] = Part(i, e, ns)
  OBVIOUS
<1>5. f = [i \in 1..n |-> f[i]] /\ fmtEventToCSV(e, ns) = FlattenSeq(f)
  BY RowIs
<1>6. \A x \in Seq(U) : h[x] = Between(x)
  OBVIOUS
<1> HIDE DEF n, f, s, U, h
<1>7. <<>> \in Seq(U) /\ \A x \in Seq(U), y \in U : Append(x, y) \in Seq(U)
  OBVIOUS
<1>8. \A i \in 1..n : f[i] \in Seq(Pieces(n))
  BY <1>1, <1>4, PartType
<1>9. \A i \in 1..n : Clean(f[i])
  BY <1>1, <1>5, <1>8, CleanFlat
<1>10. \A i \in 1..Len(s) : \A x \in Seq(U) :
         Len(x) = i - 1 => Runs("csv", h[x], f[i], h[Append(x, s[i])])
  <2> SUFFICES ASSUME NEW i \in 1..n, NEW x \in Seq(U)
               PROVE  Runs("csv", h[x], f[i], h[Append(x, s[i])])
    BY <1>2
  <2>1. h[x] = Between(x) /\ h[Append(x, s[i])] = Between(Cells(x, CellIn(e, ns[i])))
    BY <1>2, <1>3, <1>6, <1>7
  <2>2. Runs("csv", Between(x), Part(i, e, ns), Between(Cells(x, CellIn(e, ns[i]))))
    BY <1>1, <1>4, <1>9, PartRuns
  <2> QED BY <1>4, <2>1, <2>2
<1>11. Runs("csv", h[<<>>], FlattenSeq([i \in 1..Len(s) |-> f[i]]), h[s])
  BY <1>1, <1>2, <1>8, <1>10, RunsGrow
<1>12. h[<<>>] = Start /\ h[s] = Between(s)
  BY <1>2, <1>6, <1>7, StartIs DEF Between
<1>13. Runs("csv", Start, fmtEventToCSV(e, ns), Between(s))
  BY <1>2, <1>5, <1>11, <1>12
<1> QED BY <1>13 DEF s, n

----------------------------------------------------------------------------
(* A row when appends fail.  The appends still to do lead from where the   *)
(* reader is, in a column or between two, with so many columns to go, to   *)
(* the end of the row.  An append that fails and does not end the call     *)
(* takes only appends with it that do not move the reader on this walk.    *)

At(m, l) == [mode |-> m, left |-> l]

Moves(s, p, t) ==
  \/ p.txt = Nothing /\ t = s
  \/ s.mode = "text" /\ p.in # 0 /\ Keeps(p.txt) /\ t = s
  \/ s.mode = "gap" /\ p.in = 0 /\ p.chk /\ p.txt = <<"comma">> /\ t = s
  \/ s.mode = "gap" /\ p.in = 0 /\ p.chk /\ p.txt = <<"quote">> /\ t = At("text", s.left)
  \/ s.mode = "text" /\ p.in = 0 /\ p.chk /\ p.txt = <<"quote">> /\ t = At("gap", s.left - 1)

Walk(s, td, t) ==
  \E h : /\ h[0] = s /\ h[Len(td)] = t
         /\ \A i \in 1..Len(td) : Moves(h[i - 1], td[i], h[i])

LEMMA WalkNone == \A s, t : Walk(s, <<>>, t) <=> s = t
<1>1. ASSUME NEW s PROVE Walk(s, <<>>, s)
  <2> DEFINE h == [i \in {0} |-> s]
  <2>1. h[0] = s /\ Len(<<>>) = 0 /\ \A i \in 1..0 : Moves(h[i - 1], <<>>[i], h[i])
    OBVIOUS
  <2> HIDE DEF h
  <2> QED BY <2>1 DEF Walk
<1>2. ASSUME NEW s, NEW t, Walk(s, <<>>, t) PROVE s = t
  <2>1. Len(<<>>) = 0
    OBVIOUS
  <2> QED BY <1>2, <2>1 DEF Walk
<1> QED BY <1>1, <1>2

LEMMA WalkConcat ==
  ASSUME NEW U, NEW a \in Seq(U), NEW b \in Seq(U), NEW s, NEW u, NEW w,
         Walk(s, a, u), Walk(u, b, w)
  PROVE  Walk(s, a \o b, w)
<1> DEFINE m == Len(a)
           n == Len(b)
           c == a \o b
<1>1. /\ m \in Nat /\ n \in Nat /\ Len(c) = m + n /\ \A i \in 1..m : c[i] = a[i]
      /\ \A i \in (m + 1)..(m + n) : c[i] = b[i - m]
  BY ConcatProperties
<1>2. PICK g : g[0] = s /\ g[m] = u /\ \A i \in 1..m : Moves(g[i - 1], a[i], g[i])
  BY DEF Walk
<1>3. PICK h : h[0] = u /\ h[n] = w /\ \A i \in 1..n : Moves(h[i - 1], b[i], h[i])
  BY DEF Walk
<1> DEFINE k == [i \in 0..(m + n) |-> IF i <= m THEN g[i] ELSE h[i - m]]
<1> HIDE DEF m, n, c
<1>4. \A i \in 0..m : k[i] = g[i]
  BY <1>1
<1>5. \A i \in m..(m + n) : k[i] = h[i - m]
  <2> SUFFICES ASSUME NEW i \in m..(m + n) PROVE k[i] = h[i - m]
    OBVIOUS
  <2>1. i \in 0..(m + n) /\ (i = m => i - m = 0) /\ m \in 0..m
    BY <1>1
  <2>2. CASE i = m
    BY <1>2, <1>3, <1>4, <2>1, <2>2
  <2>3. CASE i # m
    <3>1. ~(i <= m)
      BY <1>1, <2>3
    <3> QED BY <2>1, <3>1
  <2> QED BY <2>2, <2>3
<1> HIDE DEF k
<1>6. k[0] = s /\ k[m + n] = w
  <2>1. 0 \in 0..m /\ m + n \in m..(m + n) /\ (m + n) - m = n
    BY <1>1
  <2> QED BY <1>2, <1>3, <1>4, <1>5, <2>1
<1>7. ASSUME NEW i \in 1..(m + n) PROVE Moves(k[i - 1], c[i], k[i])
  <2>1. CASE i <= m
    <3>1. i \in 1..m /\ i \in 0..m /\ i - 1 \in 0..m
      BY <1>1, <2>1
    <3> QED BY <1>1, <1>2, <1>4, <3>1
  <2>2. CASE i > m
    <3>1. /\ i \in (m + 1)..(m + n) /\ i \in m..(m + n) /\ i - 1 \in m..(m + n)
          /\ i - m \in 1..n /\ (i - 1) - m = (i - m) - 1
      BY <1>1, <2>2
    <3> QED BY <1>1, <1>3, <1>5, <3>1
  <2> QED BY <1>1, <2>1, <2>2
<1>8. Walk(s, c, w)
  BY <1>1, <1>6, <1>7 DEF Walk
<1> QED BY <1>8 DEF c

LEMMA WalkOne ==
  ASSUME NEW s, NEW p, NEW t, Moves(s, p, t)
  PROVE  Walk(s, <<p>>, t)
<1> DEFINE h == [i \in 0..1 |-> IF i = 0 THEN s ELSE t]
<1>1. h[0] = s /\ h[1] = t
  OBVIOUS
<1>2. Len(<<p>>) = 1 /\ <<p>>[1] = p
  OBVIOUS
<1> HIDE DEF h
<1>3. \A i \in 1..1 : Moves(h[i - 1], <<p>>[i], h[i])
  <2>1. 1 - 1 = 0 /\ \A i \in 1..1 : i = 1
    OBVIOUS
  <2> QED BY <1>1, <1>2, <2>1
<1> QED BY <1>1, <1>2, <1>3 DEF Walk

\* the appends of a column
LEMMA WalkRests ==
  ASSUME NEW n \in Nat, NEW td \in Seq(CellPieces(n)), NEW l
  PROVE  Walk(At("text", l), td, At("text", l))
<1> DEFINE m == Len(td)
           s == At("text", l)
           h == [i \in 0..m |-> s]
<1>1. m \in Nat /\ \A i \in 1..m : td[i] \in CellPieces(n)
  <2> DEFINE C == CellPieces(n)
  <2>1. td \in Seq(C)
    OBVIOUS
  <2> HIDE DEF C
  <2>2. m \in Nat /\ \A i \in 1..m : td[i] \in C
    BY <2>1
  <2> QED BY <2>2 DEF C
<1>2. \A p \in CellPieces(n) : Moves(s, p, s)
  BY DEF CellPieces, Moves, At
<1>3. \A i \in 0..m : h[i] = s
  OBVIOUS
<1>4. \A i \in 1..m : i \in 0..m /\ i - 1 \in 0..m
  OBVIOUS
<1>5. 0 \in 0..m /\ m \in 0..m
  BY <1>1
<1> HIDE DEF m, h, s
<1>6. \A i \in 1..m : Moves(h[i - 1], td[i], h[i])
  BY <1>1, <1>2, <1>3, <1>4
<1>7. Walk(s, td, s)
  BY <1>3, <1>5, <1>6 DEF Walk, m
<1> QED BY <1>7 DEF s

\* the walk after some appends that do not move the reader
LEMMA WalkSkips ==
  ASSUME NEW U, NEW td \in Seq(U), NEW s, NEW t, Walk(s, td, t), NEW m \in 1..(Len(td) + 1),
         \A i \in 1..(m - 1) : \A x, y : Moves(x, td[i], y) => x = y
  PROVE  Walk(s, SubSeq(td, m, Len(td)), t)
<1> DEFINE n == Len(td)
           b == SubSeq(td, m, n)
           l == n - m + 1
<1>1. /\ n \in Nat /\ m \in Nat /\ l \in Nat /\ Len(b) = l
      /\ \A i \in 1..l : b[i] = td[i + (m - 1)]
  <2>1. n \in Nat /\ m \in Nat /\ l \in Nat
    OBVIOUS
  <2>2. Len(b) = l
    OBVIOUS
  <2>3. \A i \in 1..l : b[i] = td[i + (m - 1)]
    OBVIOUS
  <2> QED BY <2>1, <2>2, <2>3
<1>2. PICK h : h[0] = s /\ h[n] = t /\ \A i \in 1..n : Moves(h[i - 1], td[i], h[i])
  BY DEF Walk
<1> DEFINE g == [i \in 0..l |-> h[i + (m - 1)]]
           T == {i \in 0..(m - 1) : h[i] # s}
<1> HIDE DEF n, b, l
<1>3. T = {}
  <2> SUFFICES ASSUME T # {} PROVE FALSE
    OBVIOUS
  <2>1. PICK i \in T : \A j \in T : i <= j
    <3>1. T \in SUBSET Nat
      OBVIOUS
    <3> HIDE DEF T
    <3> QED BY <3>1, Least
  <2>2. i \in 0..(m - 1) /\ h[i] # s /\ i # 0
    BY <1>2
  <2>3. i \in 1..(m - 1) /\ i \in 1..n /\ i - 1 \in 0..(m - 1) /\ ~(i <= i - 1)
    BY <1>1, <2>2 DEF n
  <2>4. h[i - 1] = s
    <3>1. i - 1 \notin T
      <4> HIDE DEF T
      <4> QED BY <2>1, <2>3
    <3> QED BY <2>3, <3>1
  <2>5. Moves(h[i - 1], td[i], h[i])
    BY <1>2, <2>3
  <2> QED BY <2>2, <2>3, <2>4, <2>5
<1>4. g[0] = s /\ g[l] = t
  <2>1. 0 \in 0..l /\ l \in 0..l /\ 0 + (m - 1) = m - 1 /\ l + (m - 1) = n /\ m - 1 \in 0..(m - 1)
    BY <1>1 DEF l
  <2>2. h[m - 1] = s
    BY <1>3, <2>1
  <2> QED BY <1>2, <2>1, <2>2
<1>5. \A i \in 0..l : g[i] = h[i + (m - 1)]
  OBVIOUS
<1> HIDE DEF g
<1>6. ASSUME NEW i \in 1..l PROVE Moves(g[i - 1], b[i], g[i])
  <2>1. /\ i \in 0..l /\ i - 1 \in 0..l /\ (i - 1) + (m - 1) = (i + (m - 1)) - 1
        /\ i + (m - 1) \in 1..n
    BY <1>1 DEF l
  <2>2. Moves(h[(i + (m - 1)) - 1], td[i + (m - 1)], h[i + (m - 1)])
    BY <1>2, <2>1
  <2> QED BY <1>1, <1>5, <2>1, <2>2
<1>7. Walk(s, b, t)
  BY <1>1, <1>4, <1>6 DEF Walk
<1> QED BY <1>7 DEF b, n

\* the first step of a walk
LEMMA WalkStep ==
  ASSUME NEW U, NEW td \in Seq(U), td # <<>>, NEW s, NEW t, Walk(s, td, t)
  PROVE  \E u : Moves(s, Head(td), u) /\ Walk(u, Tail(td), t)
<1> DEFINE n == Len(td)
           b == Tail(td)
<1>1. /\ n \in Nat /\ n # 0 /\ Len(b) = n - 1 /\ Head(td) = td[1]
      /\ \A i \in 1..(n - 1) : b[i] = td[i + 1]
  BY HeadTailProperties
<1>2. PICK h : h[0] = s /\ h[n] = t /\ \A i \in 1..n : Moves(h[i - 1], td[i], h[i])
  BY DEF Walk
<1> DEFINE g == [i \in 0..(n - 1) |-> h[i + 1]]
<1> HIDE DEF n, b
<1>3. \A i \in 0..(n - 1) : g[i] = h[i + 1]
  OBVIOUS
<1> HIDE DEF g
<1>4. g[0] = h[1] /\ g[n - 1] = t
  <2>1. 0 \in 0..(n - 1) /\ n - 1 \in 0..(n - 1) /\ 0 + 1 = 1 /\ (n - 1) + 1 = n
    BY <1>1
  <2> QED BY <1>2, <1>3, <2>1
<1>5. Moves(s, Head(td), h[1])
  <2>1. 1 \in 1..n /\ 1 - 1 = 0
    BY <1>1
  <2> QED BY <1>1, <1>2, <2>1
<1>6. ASSUME NEW i \in 1..(n - 1) PROVE Moves(g[i - 1], b[i], g[i])
  <2>1. /\ i \in 0..(n - 1) /\ i - 1 \in 0..(n - 1) /\ (i - 1) + 1 = i /\ (i + 1) - 1 = i
        /\ i + 1 \in 1..n
    BY <1>1
  <2>2. Moves(h[i], td[i + 1], h[i + 1])
    BY <1>2, <2>1
  <2> QED BY <1>1, <1>3, <2>1, <2>2
<1>7. Walk(h[1], b, t)
  BY <1>1, <1>4, <1>6 DEF Walk
<1> QED BY <1>5, <1>7 DEF b

\* the walk through the row of an event
LEMMA WalkFlat ==
  ASSUME NEW U, NEW m \in Nat, NEW f, \A i \in 1..m : f[i] \in Seq(U),
         NEW h, \A i \in 1..m : Walk(h[i - 1], f[i], h[i])
  PROVE  Walk(h[0], FlattenSeq([i \in 1..m |-> f[i]]), h[m])
<1> DEFINE F(k) == FlattenSeq([i \in 1..k |-> f[i]])
           T == {k \in 0..m : ~Walk(h[0], F(k), h[k])}
<1> SUFFICES ASSUME T # {} PROVE FALSE
  <2>1. m \in 0..m
    OBVIOUS
  <2> QED BY <2>1
<1>1. PICK k \in T : \A j \in T : k <= j
  <2>1. T \in SUBSET Nat
    OBVIOUS
  <2> HIDE DEF T
  <2> QED BY <2>1, Least
<1>2. k \in 0..m /\ ~Walk(h[0], F(k), h[k])
  OBVIOUS
<1>3. F(0) = <<>>
  <2>1. [i \in 1..0 |-> f[i]] = <<>>
    OBVIOUS
  <2> QED BY <2>1 DEF FlattenSeq
<1>4. k # 0
  <2> HIDE DEF F
  <2> QED BY <1>2, <1>3, WalkNone
<1> DEFINE j == k - 1
<1>5. j \in Nat /\ j \in 0..m /\ j + 1 = k /\ k \in 1..m /\ ~(k <= j) /\ k - 1 = j
  BY <1>2, <1>4
<1>6. Walk(h[0], F(j), h[j])
  <2>1. j \notin T
    <3> HIDE DEF T, j
    <3> QED BY <1>1, <1>5
  <2> HIDE DEF F, j
  <2> QED BY <1>5, <2>1
<1> HIDE DEF j, T
<1>7. F(j) \in Seq(U) /\ F(k) = F(j) \o f[k]
  <2>1. \A i \in 1..(j + 1) : f[i] \in Seq(U)
    BY <1>5
  <2>2. /\ FlattenSeq([i \in 1..j |-> f[i]]) \in Seq(U)
        /\ FlattenSeq([i \in 1..(j + 1) |-> f[i]])
             = FlattenSeq([i \in 1..j |-> f[i]]) \o f[j + 1]
    BY <1>5, <2>1, FlattenGrows
  <2> QED BY <1>5, <2>2
<1>8. Walk(h[j], f[k], h[k]) /\ f[k] \in Seq(U)
  BY <1>5
<1> DEFINE a == F(j)
<1>9. a \in Seq(U) /\ F(k) = a \o f[k] /\ Walk(h[0], a, h[j])
  BY <1>6, <1>7
<1> HIDE DEF a, F
<1>10. Walk(h[0], a \o f[k], h[k])
  BY <1>8, <1>9, WalkConcat
<1> QED BY <1>2, <1>9, <1>10

LEMMA PartWalks ==
  ASSUME NEW e, EventIs(e), NEW n \in Nat, NEW k \in 1..n, NEW ns, NEW l \in Int
  PROVE  Walk(At("gap", l), Part(k, e, ns), At("gap", l - 1))
<1> DEFINE c == Column(k, e, ns[k])
           last == IF k < Len(ns) THEN Try(0, <<"comma">>) ELSE <<>>
           q == Try(0, <<"quote">>)
           P == Pieces(n)
           a == At("gap", l)
           b == At("text", l)
           d == At("gap", l - 1)
           open == [in |-> 0, chk |-> TRUE, txt |-> <<"quote">>]
           sep == [in |-> 0, chk |-> TRUE, txt |-> <<"comma">>]
<1>1. c \in Seq(P) /\ q \in Seq(P) /\ last \in Seq(P)
  <2>1. c \in Seq(Pieces(n))
    BY ColumnSpelt, CellsAreAppends
  <2>2. q \in Seq(Pieces(n)) /\ last \in Seq(Pieces(n))
    BY RowLiterals, Zenon
  <2> QED BY <2>1, <2>2
<1>2. Part(k, e, ns) = q \o c \o q \o last
  BY DEF Part
<1>3. q = <<open>> /\ Try(0, <<"comma">>) = <<sep>>
  BY DEF Try, Add
<1>4. Walk(b, c, b)
  <2>1. c \in Seq(CellPieces(n))
    BY ColumnSpelt
  <2> HIDE DEF c
  <2> QED BY <2>1, WalkRests
<1>5. Moves(a, open, b) /\ Moves(b, open, d) /\ Moves(d, sep, d)
  <2>1. a.mode = "gap" /\ b.mode = "text" /\ d.mode = "gap" /\ a.left = l /\ b.left = l
    BY DEF At
  <2>2. /\ open.in = 0 /\ open.chk /\ open.txt = <<"quote">>
        /\ sep.in = 0 /\ sep.chk /\ sep.txt = <<"comma">>
    OBVIOUS
  <2>3. b = At("text", a.left) /\ d = At("gap", b.left - 1)
    BY <2>1
  <2> HIDE DEF a, b, d, open, sep
  <2>4. Moves(a, open, b)
    BY <2>1, <2>2, <2>3, Zenon DEF Moves
  <2>5. Moves(b, open, d)
    BY <2>1, <2>2, <2>3, Zenon DEF Moves
  <2>6. Moves(d, sep, d)
    BY <2>1, <2>2, <2>3, Zenon DEF Moves
  <2> QED BY <2>4, <2>5, <2>6
<1>6. Walk(d, last, d)
  <2> HIDE DEF a, b, d, sep, open
  <2>1. Walk(d, <<sep>>, d)
    BY <1>5, WalkOne
  <2>2. Walk(d, <<>>, d)
    BY WalkNone
  <2> QED BY <1>3, <2>1, <2>2, Zenon
<1>7. Walk(a, q, b) /\ Walk(b, q, d)
  <2> HIDE DEF a, b, d, open, q
  <2> QED BY <1>3, <1>5, WalkOne
<1> HIDE DEF a, b, c, d, q, last, P
<1>8. q \o c \in Seq(P) /\ q \o c \o q \in Seq(P)
  BY <1>1, ConcatType
<1>9. Walk(a, q \o c, b)
  BY <1>1, <1>4, <1>7, WalkConcat
<1>10. Walk(a, q \o c \o q, d)
  BY <1>1, <1>7, <1>8, <1>9, WalkConcat
<1>11. Walk(a, q \o c \o q \o last, d)
  BY <1>1, <1>6, <1>8, <1>10, WalkConcat
<1> QED BY <1>2, <1>11, Zenon DEF a, d

LEMMA RowWalks ==
  ASSUME NEW e, EventIs(e), NEW ns \in Seq(STRING)
  PROVE  Walk(At("gap", Len(ns)), fmtEventToCSV(e, ns), At("gap", 0))
<1> DEFINE n == Len(ns)
           f == [k \in 1..n |-> Part(k, e, ns)]
           h == [i \in 0..n |-> At("gap", n - i)]
<1>1. n \in Nat
  OBVIOUS
<1>2. \A i \in 1..n : f[i] = Part(i, e, ns)
  OBVIOUS
<1>3. f = [i \in 1..n |-> f[i]] /\ fmtEventToCSV(e, ns) = FlattenSeq(f)
  BY RowIs
<1>4. \A i \in 0..n : h[i] = At("gap", n - i)
  OBVIOUS
<1>5. h[0] = At("gap", n) /\ h[n] = At("gap", 0)
  <2>1. 0 \in 0..n /\ n \in 0..n /\ n - 0 = n /\ n - n = 0
    BY <1>1
  <2> HIDE DEF h, n
  <2> QED BY <1>4, <2>1
<1> HIDE DEF n, f, h
<1>6. \A i \in 1..n : f[i] \in Seq(Pieces(n))
  BY <1>1, <1>2, PartType
<1>7. ASSUME NEW i \in 1..n PROVE Walk(h[i - 1], f[i], h[i])
  <2>1. i - 1 \in 0..n /\ i \in 0..n /\ n - i = (n - (i - 1)) - 1 /\ n - (i - 1) \in Int
    BY <1>1
  <2>2. Walk(At("gap", n - (i - 1)), Part(i, e, ns), At("gap", (n - (i - 1)) - 1))
    BY <1>1, <2>1, PartWalks
  <2> QED BY <1>2, <1>4, <2>1, <2>2
<1>8. Walk(h[0], FlattenSeq([i \in 1..n |-> f[i]]), h[n])
  BY <1>1, <1>6, <1>7, WalkFlat
<1> QED BY <1>3, <1>5, <1>8 DEF n

\* where a reader of what was written of a row is, with n columns in all
Rows == [name : {""}, vals : Seq(Seq(Tokens))]
\* ... in a row that is whole up to there
Amid(s, u, n) ==
  \E d \in Seq(Rows) :
    /\ s.left \in Int /\ Len(d) + s.left = n
    /\ \/ s.mode = "gap" /\ u = Between(d)
       \/ s.mode = "text" /\ InColumn(u, d)
InRow(s, o, n) == \E u : Reads("csv", Start, o, u) /\ (u.mode = "torn" \/ Amid(s, u, n))

\* such a reader comes to the end of the row with what is still to do
Shaped(td, o, n) == \E s : Walk(s, td, At("gap", 0)) /\ InRow(s, o, n)
\* ... or is there
Ended(o, n) ==
  \E u : /\ Reads("csv", Start, o, u)
         /\ u.mode = "torn" \/ \E d \in Seq(Rows) : Len(d) = n /\ u = Between(d)

LEMMA CellsType ==
  ASSUME NEW d \in Seq(Rows), NEW v \in Seq(Tokens)
  PROVE  Cells(d, v) \in Seq(Rows) /\ Len(Cells(d, v)) = Len(d) + 1
<1>1. [name |-> "", vals |-> <<v>>] \in Rows
  <2>1. <<v>> \in Seq(Seq(Tokens))
    OBVIOUS
  <2> QED BY <2>1 DEF Rows
<1> DEFINE x == [name |-> "", vals |-> <<v>>]
<1> HIDE DEF x
<1>2. x \in Rows
  BY <1>1 DEF x
<1>3. Append(d, x) \in Seq(Rows) /\ Len(Append(d, x)) = Len(d) + 1
  BY <1>2
<1> QED BY <1>3 DEF Cells, x

LEMMA RowTokens ==
  ASSUME NEW d
  PROVE  /\ Reads("csv", Between(d), <<"comma">>, Between(d))
         /\ Reads("csv", Between(d), <<"quote">>, Within(<<>>, d))
         /\ \A v : /\ Reads("csv", Within(v, d), <<"quote">>, Between(Cells(d, v)))
                   /\ \E u : Reads("csv", Hexed(v, d), <<"quote">>, u) /\ u.mode = "torn"
<1> SUFFICES ASSUME NEW v
             PROVE  /\ Reads("csv", Between(d), <<"comma">>, Between(d))
                    /\ Reads("csv", Between(d), <<"quote">>, Within(<<>>, d))
                    /\ Reads("csv", Within(v, d), <<"quote">>, Between(Cells(d, v)))
                    /\ \E u : Reads("csv", Hexed(v, d), <<"quote">>, u) /\ u.mode = "torn"
  BY Zenon
<1> DEFINE e == "csv"
           c == "comma"
           q == "quote"
           x == Within(<<>>, d)
           y == Within(v, d)
           z == Between(Cells(d, v))
           b == Between(d)
           h == Hexed(v, d)
           u == Reader(e, h, q)
<1>1. Reader(e, b, c) = b /\ Reader(e, b, q) = x /\ Reader(e, y, q) = z
  BY ColumnReads
<1>2. u.mode = "torn"
  <2>1. q \notin {"0000", "0001"}
    OBVIOUS
  <2> HIDE DEF q
  <2> QED BY <2>1, HexedReads, Zenon
<1> HIDE DEF e, c, q, x, y, z, b, h
<1>3. Reads(e, b, <<c>>, b) /\ Reads(e, b, <<q>>, x) /\ Reads(e, y, <<q>>, z)
  BY <1>1, ReadsFew
<1>4. Reads(e, h, <<q>>, u)
  BY ReadsFew, Zenon
<1> HIDE DEF u
<1>5. \E w : Reads(e, h, <<q>>, w) /\ w.mode = "torn"
  BY <1>2, <1>4
<1> QED BY <1>3, <1>5 DEF e, c, q, x, y, z, b, h

LEMMA InRowMoves ==
  ASSUME NEW k \in Nat, NEW p \in Pieces(k), p.txt # Nothing, NEW s, NEW t, Moves(s, p, t),
         NEW o \in Seq(Tokens), NEW n \in Nat, InRow(s, o, n)
  PROVE  InRow(t, o \o p.txt, n)
<1>1. PICK u : Reads("csv", Start, o, u) /\ (u.mode = "torn" \/ Amid(s, u, n))
  BY DEF InRow
<1> DEFINE x == p.txt
<1>2. x \in Seq(Tokens) /\ x # Nothing
  BY DEF Pieces
<1> SUFFICES \E w : Reads("csv", u, x, w) /\ (w.mode = "torn" \/ Amid(t, w, n))
  <2>1. PICK w : Reads("csv", u, x, w) /\ (w.mode = "torn" \/ Amid(t, w, n))
    OBVIOUS
  <2> HIDE DEF x
  <2>2. Reads("csv", Start, o \o x, w)
    BY <1>1, <1>2, <2>1, ReadsConcat
  <2>3. InRow(t, o \o x, n)
    BY <2>1, <2>2 DEF InRow
  <2> QED BY <2>3 DEF x
<1>3. CASE u.mode = "torn"
  BY <1>2, <1>3, TornReads
<1>4. CASE u.mode # "torn"
  <2>1. PICK d \in Seq(Rows) :
          /\ s.left \in Int /\ Len(d) + s.left = n
          /\ \/ s.mode = "gap" /\ u = Between(d)
             \/ s.mode = "text" /\ InColumn(u, d)
    BY <1>1, <1>4 DEF Amid
  <2>2. Len(d) \in Nat
    OBVIOUS
  <2>3. CASE s.mode = "text" /\ Keeps(x) /\ t = s
    <3>1. PICK w : InColumn(w, d) /\ Reads("csv", u, x, w)
      BY <2>1, <2>3 DEF Keeps
    <3>2. Amid(t, w, n)
      BY <2>1, <2>3, <3>1 DEF Amid
    <3> QED BY <3>1, <3>2
  <2>4. CASE s.mode = "gap" /\ x = <<"comma">> /\ t = s
    <3>1. u = Between(d)
      BY <2>1, <2>4
    <3>2. Reads("csv", u, x, u)
      BY <2>4, <3>1, RowTokens, Zenon
    <3>3. Amid(t, u, n)
      BY <2>1, <2>4, <3>1 DEF Amid
    <3> QED BY <3>2, <3>3
  <2>5. CASE s.mode = "gap" /\ x = <<"quote">> /\ t = At("text", s.left)
    <3> DEFINE w == Within(<<>>, d)
    <3>1. u = Between(d)
      BY <2>1, <2>5
    <3>2. Reads("csv", u, x, w)
      BY <2>5, <3>1, RowTokens, Zenon
    <3>3. InColumn(w, d)
      <4>1. <<>> \in Seq(Tokens)
        OBVIOUS
      <4> QED BY <4>1, Zenon DEF InColumn
    <3>4. t.mode = "text" /\ t.left = s.left
      BY <2>5 DEF At
    <3> HIDE DEF w
    <3>5. Amid(t, w, n)
      BY <2>1, <3>3, <3>4 DEF Amid
    <3> QED BY <3>2, <3>5
  <2>6. CASE s.mode = "text" /\ x = <<"quote">> /\ t = At("gap", s.left - 1)
    <3>1. PICK v \in Seq(Tokens) : u = Within(v, d) \/ u = Hexed(v, d)
      BY <1>4, <2>1, <2>6 DEF InColumn
    <3>2. CASE u = Hexed(v, d)
      BY <2>6, <3>2, RowTokens, Zenon
    <3>3. CASE u = Within(v, d)
      <4> DEFINE e == Cells(d, v)
                 w == Between(e)
      <4>1. Reads("csv", u, x, w)
        BY <2>6, <3>3, RowTokens, Zenon
      <4>2. e \in Seq(Rows) /\ Len(e) = Len(d) + 1
        BY CellsType
      <4>3. t.mode = "gap" /\ t.left = s.left - 1
        BY <2>6 DEF At
      <4> HIDE DEF e
      <4>4. t.left \in Int /\ Len(e) + t.left = n
        <5> DEFINE i == s.left
                   j == t.left
                   l == Len(d)
                   m == Len(e)
        <5>1. i \in Int /\ l \in Nat /\ l + i = n /\ m = l + 1 /\ j = i - 1
          BY <2>1, <2>2, <4>2, <4>3
        <5> HIDE DEF i, j, l, m
        <5>2. j \in Int /\ m + j = n
          BY <5>1
        <5> QED BY <5>2 DEF j, m
      <4>5. w = Between(e)
        OBVIOUS
      <4> HIDE DEF w
      <4>6. Amid(t, w, n)
        BY <4>2, <4>3, <4>4, <4>5 DEF Amid
      <4> QED BY <4>1, <4>6
    <3> QED BY <3>1, <3>2, <3>3
  <2> HIDE DEF x
  <2>7. \/ s.mode = "text" /\ Keeps(x) /\ t = s
        \/ s.mode = "gap" /\ x = <<"comma">> /\ t = s
        \/ s.mode = "gap" /\ x = <<"quote">> /\ t = At("text", s.left)
        \/ s.mode = "text" /\ x = <<"quote">> /\ t = At("gap", s.left - 1)
    BY <1>2, Zenon DEF Moves, x
  <2> QED BY <2>3, <2>4, <2>5, <2>6, <2>7
<1> QED BY <1>3, <1>4

\* Whatever fails, a row that is returned with 0 ends after its last column,
\* unless its text is torn.
RowInv ==
  enc = "csv" =>
    /\ pc = "append" => Shaped(todo, out, Len(names))
    /\ pc = "done" /\ r = "ok" => Ended(out, Len(names))

LEMMA RowInvNext ==
  ASSUME enc' = "csv" => /\ pc' = "append" => Shaped(todo', out', Len(names'))
                         /\ pc' = "done" /\ r' = "ok" => Ended(out', Len(names'))
  PROVE  RowInv'
BY DEF RowInv

LEMMA RowBegins ==
  ASSUME NEW e, EventIs(e), Encodes(e)
  PROVE  RowInv'
<1>1. CASE \/ EncodeSyslog(e) \/ EncodeXML(e)
           \/ \E fl \in SUBSET {"ultra", "flat"} : EncodeJSON(e, fl)
  <2>1. enc' # "csv"
    BY <1>1 DEF EncodeSyslog, EncodeXML, EncodeJSON, Begin
  <2> QED BY <2>1, RowInvNext
<1>2. ASSUME NEW list \in Seq(STRING), EncodeCSV(e, list) PROVE RowInv'
  <2>1. \/ \E ns \in NamesMade(list) : Begin("csv", e, ns, fmtEventToCSV(e, ns))
        \/ Begin("csv", e, <<>>, <<>>) /\ pc' = "done"
    BY <1>2 DEF EncodeCSV
  <2>2. CASE Begin("csv", e, <<>>, <<>>) /\ pc' = "done"
    <3>1. pc' = "done" /\ r' = "minus1"
      BY <2>2 DEF Begin
    <3> QED BY <3>1, RowInvNext
  <2>3. ASSUME NEW ns \in NamesMade(list), Begin("csv", e, ns, fmtEventToCSV(e, ns)) PROVE RowInv'
    <3>1. ns \in Seq(STRING) /\ Len(ns) \in Nat
      BY NamesMadeType
    <3>2. /\ names' = ns /\ out' = <<>> /\ r' = "minus1"
          /\ pc' = "append" => todo' = fmtEventToCSV(e, ns)
      BY <2>3 DEF Begin
    <3> DEFINE p == fmtEventToCSV(e, ns)
               n == Len(ns)
    <3>3. Walk(At("gap", n), p, At("gap", 0))
      BY <3>1, RowWalks
    <3>4. InRow(At("gap", n), <<>>, n)
      <4> DEFINE d == <<>>
      <4>1. d \in Seq(Rows) /\ Len(d) = 0 /\ Start = Between(d)
        <5>1. d \in Seq(Rows) /\ Len(d) = 0
          OBVIOUS
        <5>2. Start = Between(d)
          BY StartIs, Zenon DEF Between
        <5> QED BY <5>1, <5>2
      <4>2. Reads("csv", Start, <<>>, Between(d))
        BY <4>1, ReadsNone
      <4>3. At("gap", n).left = n /\ At("gap", n).mode = "gap" /\ Len(d) + n = n /\ n \in Int
        BY <3>1, <4>1 DEF At
      <4> HIDE DEF d, n
      <4>4. Amid(At("gap", n), Between(d), n)
        BY <4>1, <4>3 DEF Amid
      <4> QED BY <4>2, <4>4 DEF InRow
    <3> HIDE DEF p, n
    <3>5. Shaped(p, <<>>, n)
      BY <3>3, <3>4 DEF Shaped
    <3>6. pc' = "append" => Shaped(todo', out', Len(names'))
      BY <3>2, <3>5 DEF p, n
    <3> QED BY <3>2, <3>6, RowInvNext
  <2> QED BY <2>1, <2>2, <2>3
<1> QED BY <1>1, <1>2 DEF Encodes

LEMMA RowGoesOn ==
  ASSUME EncInv, RowInv, enc = "csv", Append1 \/ AppendFails \/ Finish
  PROVE  RowInv'
<1> DEFINE n == Len(names)
           k == Len(names) + Len(Fields(event))
           P == Pieces(k)
           gap == At("gap", 0)
<1>1. /\ pc = "append" /\ EventIs(event) /\ names \in Seq(STRING) /\ out \in Seq(Tokens)
      /\ todo \in Seq(P)
  <2>1. pc = "append"
    BY DEF Append1, AppendFails, Finish, Goes
  <2> QED BY <2>1 DEF EncInv, EncIs
<1>2. n \in Nat /\ k \in Nat
  BY <1>1, FieldsType
<1>3. PICK s : Walk(s, todo, gap) /\ InRow(s, out, n)
  BY <1>1 DEF RowInv, Shaped
<1>4. enc' = enc /\ names' = names
  BY DEF Append1, AppendFails, Finish, call
<1> HIDE DEF P, gap
<1>5. CASE Append1
  <2>1. /\ todo # <<>> /\ pc' = "append" /\ out' = out \o Head(todo).txt /\ todo' = Tail(todo)
        /\ Head(todo).txt # Nothing
    BY <1>1, <1>5 DEF Append1, Goes, Broken, Piece
  <2>2. PICK u : Moves(s, Head(todo), u) /\ Walk(u, Tail(todo), gap)
    BY <1>1, <1>3, <2>1, WalkStep
  <2>3. Head(todo) \in Pieces(k)
    <3>1. Head(todo) \in P
      BY <1>1, <2>1
    <3> QED BY <3>1 DEF P
  <2> HIDE DEF n, k
  <2>4. InRow(u, out', n)
    BY <1>1, <1>2, <1>3, <2>1, <2>2, <2>3, InRowMoves
  <2>5. Shaped(todo', out', n)
    BY <2>1, <2>2, <2>4 DEF Shaped, gap
  <2> QED BY <1>4, <2>1, <2>5, RowInvNext DEF n
<1>6. CASE AppendFails
  <2>1. todo # <<>> /\ out' = out
    BY <1>6 DEF AppendFails, Goes
  <2>2. Len(todo) \in Nat /\ Head(todo) = todo[1] /\ 1 \in 1..Len(todo)
    BY <1>1, <2>1
  <2>3. \A p, x, y : Moves(x, p, y) /\ (p.in # 0 \/ ~p.chk) => x = y
    BY DEF Moves
  <2>4. CASE Piece.chk /\ Piece.in = 0
    <3>1. pc' = "done" /\ r' = "nomem"
      BY <1>6, <2>4 DEF AppendFails
    <3> QED BY <3>1, RowInvNext
  <2>5. CASE ~Piece.chk
    <3>1. pc' = "append" /\ todo' = Tail(todo)
      BY <1>1, <1>6, <2>5 DEF AppendFails
    <3>2. PICK u : Moves(s, Head(todo), u) /\ Walk(u, Tail(todo), gap)
      BY <1>1, <1>3, <2>1, WalkStep
    <3>3. u = s
      BY <2>3, <2>5, <3>2 DEF Piece
    <3>4. Shaped(todo', out', n)
      BY <1>3, <2>1, <3>1, <3>2, <3>3 DEF Shaped, gap
    <3> QED BY <1>4, <3>1, <3>4, RowInvNext
  <2>6. CASE Piece.chk /\ Piece.in # 0
    <3> DEFINE f == Piece.in
               m == EndOf(f)
    <3>1. pc' = "append" /\ todo' = SubSeq(todo, m, Len(todo))
      BY <1>1, <1>6, <2>6 DEF AppendFails
    <3>2. m \in 1..(Len(todo) + 1) /\ \A i \in 1..(m - 1) : todo[i].in = f
      BY <1>1, EndOfIs
    <3>3. f # 0
      BY <2>6
    <3> HIDE DEF m, f
    <3>4. \A i \in 1..(m - 1) : \A x, y : Moves(x, todo[i], y) => x = y
      BY <2>3, <3>2, <3>3
    <3>5. Walk(s, todo', gap)
      BY <1>1, <1>3, <3>1, <3>2, <3>4, WalkSkips
    <3>6. Shaped(todo', out', n)
      BY <1>3, <2>1, <3>5 DEF Shaped, gap
    <3> QED BY <1>4, <3>1, <3>6, RowInvNext
  <2> QED BY <2>4, <2>5, <2>6
<1>7. CASE Finish
  <2>1. todo = <<>> /\ out' = out /\ pc' = "done"
    BY <1>7 DEF Finish
  <2>2. s = gap
    BY <1>3, <2>1, WalkNone
  <2>3. s.mode = "gap" /\ s.left = 0
    BY <2>2 DEF gap, At
  <2> HIDE DEF n
  <2>4. PICK u : Reads("csv", Start, out, u) /\ (u.mode = "torn" \/ Amid(s, u, n))
    BY <1>3 DEF InRow
  <2>5. ASSUME Amid(s, u, n) PROVE \E d \in Seq(Rows) : Len(d) = n /\ u = Between(d)
    <3>1. PICK d \in Seq(Rows) : Len(d) + s.left = n /\ u = Between(d)
      BY <2>3, <2>5 DEF Amid
    <3>2. Len(d) \in Nat /\ Len(d) + 0 = n
      BY <2>3, <3>1
    <3> QED BY <3>1, <3>2
  <2>6. Ended(out', n)
    BY <2>1, <2>4, <2>5 DEF Ended
  <2> QED BY <1>4, <2>1, <2>6, RowInvNext DEF n
<1> QED BY <1>5, <1>6, <1>7

LEMMA RowStep ==
  ASSUME EncInv, RowInv, EncStep \/ UNCHANGED encVars
  PROVE  RowInv'
<1>1. CASE UNCHANGED encVars
  BY <1>1, RowInvNext DEF RowInv, encVars, call
<1>2. CASE Taken \/ Crash
  <2>1. pc' \notin {"append", "done"}
    BY <1>2 DEF Taken, Crash
  <2> QED BY <2>1, RowInvNext
<1>3. CASE (Append1 \/ AppendFails \/ Finish) /\ enc # "csv"
  <2>1. enc' = enc
    BY <1>3 DEF Append1, AppendFails, Finish, call
  <2> QED BY <1>3, <2>1, RowInvNext
<1> QED BY <1>1, <1>2, <1>3, RowBegins, RowGoesOn DEF EncStep

LEMMA RowsEnd == ConvertSpec => []RowInv
<1>1. ConvertInit => RowInv
  BY DEF ConvertInit, EncInit, RowInv
<1>2. ConvInv /\ RowInv /\ [ConvertNext]_<<encVars, tool>> => RowInv'
  BY EncMoves, RowStep DEF ConvInv
<1> QED BY ConvInvariant, <1>1, <1>2, PTL DEF ConvertSpec

LEMMA WholeRow ==
  ASSUME EncInv, Written, RowInv, pc = "done", enc = "csv", r = "ok"
  PROVE  \/ Read.mode = "torn" /\ fails > 0
         \/ /\ Read.mode = "gap" /\ Len(Read.done) = Len(names)
            /\ fails = 0 => \A k \in DOMAIN names : Read.done[k].vals = <<Cell(names[k])>>
<1>1. EventIs(event) /\ names \in Seq(STRING) /\ out \in Seq(Tokens)
  BY DEF EncInv, EncIs
<1>2. \A d : Between(d).mode = "gap" /\ Between(d).done = d
  <2> DEFINE n == ""
             m == "gap"
             w == <<>>
  <2>1. \A d : Between(d) = In(m, n, w, w, d)
    BY Zenon DEF Between, Gap
  <2> HIDE DEF n, m, w
  <2>2. \A d : Between(d).mode = m /\ Between(d).done = d
    BY <2>1, InIs
  <2> QED BY <2>2 DEF m
<1>3. Read.mode = "torn" \/ (Read.mode = "gap" /\ Len(Read.done) = Len(names))
  <2>1. PICK u : /\ Reads("csv", Start, out, u)
                 /\ u.mode = "torn" \/ \E d \in Seq(Rows) : Len(d) = Len(names) /\ u = Between(d)
    BY DEF RowInv, Ended
  <2>2. Read = u
    BY <1>1, <2>1, ReadIs
  <2> HIDE DEF Read
  <2> QED BY <1>2, <2>1, <2>2
<1>4. ASSUME fails = 0
      PROVE  /\ Read.mode = "gap"
             /\ \A k \in DOMAIN names : Read.done[k].vals = <<Cell(names[k])>>
  <2> DEFINE p == fmtEventToCSV(event, names)
             d == [i \in 1..Len(names) |-> [name |-> "", vals |-> <<CellIn(event, names[i])>>]]
  <2>1. out = TextOf(p) /\ Clean(p)
    <3>1. ProgramOf(enc, event, names, flags) = p
      BY DEF ProgramOf
    <3> QED BY <1>4, <3>1 DEF Written
  <2>2. Reads("csv", Start, out, Between(d))
    BY <1>1, <2>1, RowReads DEF Runs
  <2>3. \A k \in DOMAIN names : d[k].vals = <<CellIn(event, names[k])>>
    <3>1. DOMAIN names = 1..Len(names)
      BY <1>1
    <3> QED BY <3>1
  <2> HIDE DEF d
  <2>4. Read = Between(d)
    BY <1>1, <2>2, ReadIs
  <2> HIDE DEF Read
  <2> QED BY <1>2, <2>3, <2>4, CellIs
<1>5. fails \in Nat
  BY EncTyped, BoundIs DEF EncTypeOK
<1> HIDE DEF Read
<1>6. CASE fails = 0
  BY <1>3, <1>4, <1>6
<1>7. CASE fails # 0
  BY <1>3, <1>5, <1>7
<1> QED BY <1>6, <1>7

(* A row that is returned with 0 has one column for each name, whatever    *)
(* failed while it was written, unless a failure tore an escape apart;     *)
(* when nothing failed, no escape is torn and each column has the values   *)
(* of the first field with its name.                                       *)
THEOREM RowsAreWhole == ConvertSpec => []RowIsWhole
<1>1. ConvInv /\ Written /\ RowInv => RowIsWhole
  <2> SUFFICES ASSUME ConvInv, Written, RowInv, pc = "done", enc = "csv", r = "ok"
               PROVE  \/ Read.mode = "torn" /\ fails > 0
                      \/ /\ Read.mode = "gap" /\ Len(Read.done) = Len(names)
                         /\ fails = 0 =>
                              \A k \in DOMAIN names : Read.done[k].vals = <<Cell(names[k])>>
    BY Zenon DEF RowIsWhole
  <2> QED BY WholeRow, Zenon DEF ConvInv
<1> QED BY ConvInvariant, OutputWritten, RowsEnd, <1>1, PTL
=============================================================================
