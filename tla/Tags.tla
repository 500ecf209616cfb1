-------------------------------- MODULE Tags --------------------------------
(***************************************************************************)
(* Tag buckets shared by reference count (tagbucket.c) and the part of     *)
(* event.c that holds, replaces and extends them.                          *)
(*                                                                         *)
(* Several holders refer to one bucket: the client, once per               *)
(* ee_newTagbucket or ee_addRefTagbucket, and every event it was assigned  *)
(* to.  A holder gives its reference up with ee_deleteTagbucket.  The      *)
(* client is well behaved: it uses buckets of its own and those of its     *)
(* events (ee_EventGetTagbucket), and only deletes references of its own.  *)
(* The list of tag nodes is a sequence; nodes are only ever appended and   *)
(* never freed, so the iterator's cookie, a node pointer, is a position.   *)
(***************************************************************************)
EXTENDS Integers, Sequences, FiniteSets, SequencesExt

CONSTANTS Bucket,    \* addresses of tag buckets
          Event,     \* addresses of events
          Tag,       \* tag names
          Null,
          MaxRefs,   \* bound: references the client takes to one bucket
          MaxTags    \* bound: tags in one bucket

ASSUME TagsAssumption == /\ Null \notin Bucket \cup Event \cup Tag
                         /\ MaxRefs \in Nat \ {0} /\ MaxTags \in Nat

VARIABLES
  live,     \* the buckets that are allocated
  ref,      \* refCount of each bucket
  tags,     \* the names in its list; NULL where es_strdup failed
  mine,     \* auxiliary: how many references the client holds
  events,   \* the events that exist
  ev,       \* event->tags
  it,       \* the client's iteration: bucket, cookie, tags returned so far
  rc        \* what the last call returned

vars == <<live, ref, tags, mine, events, ev, it, rc>>

Init == /\ live = {}
        /\ ref = [b \in Bucket |-> 0]
        /\ tags = [b \in Bucket |-> <<>>]
        /\ mine = [b \in Bucket |-> 0]
        /\ events = {}
        /\ ev = [e \in Event |-> Null]
        /\ it = [bucket |-> Null, cookie |-> 0, seen |-> <<>>]
        /\ rc = "ok"

Fails(code) == rc' = code /\ UNCHANGED <<live, ref, tags, mine, events, ev, it>>
NoMem == Fails("nomem")

\* what the client can get hold of: its own buckets and, by
\* ee_EventGetTagbucket, those of events
Held(b) == mine[b] > 0 \/ \E e \in events : ev[e] = b

----------------------------------------------------------------------------
(* tagbucket.c                                                             *)

NewTagbucket ==
  \/ NoMem
  \/ \E b \in Bucket \ live :
       /\ live' = live \cup {b}
       /\ ref' = [ref EXCEPT ![b] = 1]
       /\ tags' = [tags EXCEPT ![b] = <<>>]
       /\ mine' = [mine EXCEPT ![b] = 1]
       /\ rc' = "ok"
       /\ UNCHANGED <<events, ev, it>>

AddRefTagbucket(b) ==
  /\ Held(b) /\ mine[b] < MaxRefs
  /\ ref' = [ref EXCEPT ![b] = @ + 1]
  /\ mine' = [mine EXCEPT ![b] = @ + 1]
  /\ rc' = "ok"
  /\ UNCHANGED <<live, tags, events, ev, it>>

\* Mutant of Release: the count is taken down when it is still shared.
ReleaseEarly(b) == /\ ref' = [ref EXCEPT ![b] = @ - 1]
                   /\ live' = IF ref[b] <= 2 THEN live \ {b} ELSE live

\* Mutant of Release: the count is taken down for the test and once more.
ReleaseTwice(b) == /\ ref' = [ref EXCEPT ![b] = @ - 2]
                   /\ UNCHANGED live

\* ee_deleteTagbucket compares the count it had before the decrement
Release(b) == /\ ref' = [ref EXCEPT ![b] = @ - 1]
              /\ live' = IF ref[b] = 0 THEN live \ {b} ELSE live

DeleteTagbucket(b) == /\ mine[b] > 0
                      /\ Release(b)
                      /\ mine' = [mine EXCEPT ![b] = @ - 1]
                      /\ rc' = "ok"
                      /\ UNCHANGED <<tags, events, ev, it>>

\* Mutant of Put: the node becomes the new root.
PutFirst(b, name) == tags' = [tags EXCEPT ![b] = <<name>> \o @]

Put(b, name) == tags' = [tags EXCEPT ![b] = Append(@, name)]

AddTagToBucket(b, t) ==
  /\ Held(b) /\ Len(tags[b]) < MaxTags
  /\ \/ NoMem
     \/ /\ Put(b, t) /\ rc' = "ok"
        /\ UNCHANGED <<live, ref, mine, events, ev, it>>

\* One ee_TagbucketGetNextTag that asks for node k; the walk is over when
\* there is none.
Fetch(b, k, seen) ==
  /\ it' = IF k <= Len(tags[b])
           THEN [bucket |-> b, cookie |-> k, seen |-> Append(seen, tags[b][k])]
           ELSE [bucket |-> Null, cookie |-> 0, seen |-> seen]
  /\ rc' = "ok"
  /\ UNCHANGED <<live, ref, tags, mine, events, ev>>

\* Mutant of GetNextTag: the walk follows next once too often.
GetNextSkips(b) == /\ Held(b)
                   /\ \/ Fetch(b, 1, <<>>)
                      \/ it.bucket = b /\ Fetch(b, it.cookie + 2, it.seen)

(* A NULL cookie starts a walk; the cookie of the last call continues it.  *)
GetNextTag(b) == /\ Held(b)
                 /\ \/ Fetch(b, 1, <<>>)
                    \/ it.bucket = b /\ Fetch(b, it.cookie + 1, it.seen)

----------------------------------------------------------------------------
(* event.c                                                                 *)

NewEvent == \/ NoMem
            \/ \E e \in Event \ events :
                 /\ events' = events \cup {e}
                 /\ ev' = [ev EXCEPT ![e] = Null]
                 /\ rc' = "ok"
                 /\ UNCHANGED <<live, ref, tags, mine, it>>

\* ee_deleteTagbucket(event->tags), when the event has any
ReleaseTags(e) == IF ev[e] = Null THEN UNCHANGED <<live, ref>>
                                  ELSE Release(ev[e])

DeleteEvent(e) == /\ e \in events
                  /\ ReleaseTags(e)
                  /\ events' = events \ {e}
                  /\ ev' = [ev EXCEPT ![e] = Null]
                  /\ rc' = "ok"
                  /\ UNCHANGED <<tags, mine, it>>

\* Mutant of AssignTagbucket: the tags the event had are forgotten.
AssignForgets(e, b) == /\ e \in events /\ b \in Bucket /\ mine[b] > 0
                       /\ ev' = [ev EXCEPT ![e] = b]
                       /\ mine' = [mine EXCEPT ![b] = @ - 1]
                       /\ rc' = "ok"
                       /\ UNCHANGED <<live, ref, tags, events, it>>

(* ee_assignTagbucketToEvent: the client's reference becomes the event's.  *)
AssignTagbucket(e, b) ==
  \/ Null \in {e, b} /\ Fails("einval")
  \/ /\ e \in events /\ b \in Bucket /\ mine[b] > 0
     /\ ReleaseTags(e)
     /\ ev' = [ev EXCEPT ![e] = b]
     /\ mine' = [mine EXCEPT ![b] = @ - 1]
     /\ rc' = "ok"
     /\ UNCHANGED <<tags, events, it>>

(* ee_addTagToEvent makes the bucket if there is none, and then adds a     *)
(* copy of the name, which is NULL when es_strdup finds no memory.         *)
AddTagToEvent(e, t) ==
  /\ e \in events
  /\ \/ ev[e] = Null /\ Fails("-1")
     \/ /\ ev[e] = Null
        /\ \E b \in Bucket \ live :
             /\ live' = live \cup {b}
             /\ ref' = [ref EXCEPT ![b] = 1]
             /\ ev' = [ev EXCEPT ![e] = b]
             /\ \/ rc' = "nomem" /\ tags' = [tags EXCEPT ![b] = <<>>]
                \/ /\ MaxTags > 0
                   /\ \E name \in {t, Null} :
                        tags' = [tags EXCEPT ![b] = <<name>>]
                   /\ rc' = "ok"
        /\ UNCHANGED <<mine, events, it>>
     \/ /\ ev[e] # Null /\ Len(tags[ev[e]]) < MaxTags
        /\ \/ NoMem
           \/ /\ \E name \in {t, Null} : Put(ev[e], name)
              /\ rc' = "ok"
              /\ UNCHANGED <<live, ref, mine, events, ev, it>>

----------------------------------------------------------------------------
BucketCall(b) == \/ AddRefTagbucket(b)
                 \/ DeleteTagbucket(b)
                 \/ GetNextTag(b)
                 \/ \E t \in Tag : AddTagToBucket(b, t)

EventCall(e) == \/ DeleteEvent(e)
                \/ \E t \in Tag : AddTagToEvent(e, t)

Next == \/ NewTagbucket \/ NewEvent
        \/ \E b \in Bucket : BucketCall(b)
        \/ \E e \in Event : EventCall(e)
        \/ \E e \in Event \cup {Null}, b \in Bucket \cup {Null} :
             AssignTagbucket(e, b)

Spec == Init /\ [][Next]_vars

----------------------------------------------------------------------------
(* Every variable has its type.                                            *)
TypeOK == /\ live \subseteq Bucket
          /\ ref \in [Bucket -> Nat]
          /\ tags \in [Bucket -> Seq(Tag \cup {Null})]
          /\ \A b \in Bucket : Len(tags[b]) <= MaxTags
          /\ mine \in [Bucket -> 0..MaxRefs]
          /\ events \subseteq Event
          /\ ev \in [Event -> Bucket \cup {Null}]
          /\ it.bucket \in Bucket \cup {Null} /\ it.cookie \in 0..MaxTags
          /\ rc \in {"ok", "nomem", "-1", "einval"}

Holders(b) == {e \in events : ev[e] = b}

(* The reference count of a bucket is the number of its holders, over any  *)
(* interleaving of sharing, assigning, replacing and deleting              *)
(* (tagbucket.c:62-84, event.c:64-93).                                     *)
RefCountExact ==
  \A b \in live : ref[b] = mine[b] + Cardinality(Holders(b))

(* A bucket that anyone still holds is allocated: one holder's delete      *)
(* never pulls it from under another (tagbucket.c:78-83).                  *)
HeldIsLive == \A b \in Bucket : Held(b) => b \in live

(* A walk that has ended has returned every tag of the bucket once and in  *)
(* order (tagbucket.c:110-129).  This is promised for a bucket that stays  *)
(* as it is; tagbucket.h:122-125 calls a change between two calls "NOT     *)
(* permitted" and asks for a new walk then.  But a holder does not see     *)
(* what the others do, and the code does better than the header says: the  *)
(* walk goes on, and returns the tags that were added meanwhile as well.   *)
WalkIsComplete ==
  [][\A b \in Bucket : GetNextTag(b) /\ it'.bucket = Null
                        => it'.seen = tags[b]]_vars

(* While anyone holds a bucket, the tags in it stay, in their order: calls *)
(* of other holders can only add at the end (tagbucket.c:88-107).          *)
TagsOnlyGrow ==
  [][\A b \in Bucket : Held(b) /\ Held(b)' => IsPrefix(tags[b], tags'[b])]_vars

(* The delete function "checks the reference count and only deletes if it  *)
(* is down to zero" (tagbucket.h:67-68): no bucket stays allocated once    *)
(* its last holder deleted it.                                             *)
LastHolderFrees == \A b \in live : Held(b)
=============================================================================
