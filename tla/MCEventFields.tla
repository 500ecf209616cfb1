--------------------------- MODULE MCEventFields ---------------------------
(* A small instance of EventFields for TLC: two events, so that a field or *)
(* value could end up in both, and more fields than values.                *)
EXTENDS EventFields, TLC

Symmetry == Permutations(Event) \cup Permutations(Field)
            \cup Permutations(Value) \cup Permutations(Name)
=============================================================================
