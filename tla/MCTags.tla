------------------------------- MODULE MCTags -------------------------------
(* A small instance of Tags for TLC: two buckets and two events, so that a *)
(* bucket can be shared by two events and the client at once and replaced  *)
(* in one of them.                                                         *)
EXTENDS Tags, TLC

Symmetry == Permutations(Event) \cup Permutations(Bucket) \cup Permutations(Tag)
=============================================================================
