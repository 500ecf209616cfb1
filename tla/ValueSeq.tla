------------------------------ MODULE ValueSeq ------------------------------
(***************************************************************************)
(* What an ee_field promises its users (field.h): while it exists it is a  *)
(* bounded sequence of values.  A value is added as the last member        *)
(* (field.h:112-114), any member can be replaced in place, and no call     *)
(* ever drops, reorders or duplicates the others.                          *)
(***************************************************************************)
EXTENDS Naturals, Sequences

CONSTANTS Value,    \* the values a client can put into a field
          MaxVals   \* LIBEE_CEE_MAX_VALS_PER_FIELD

VARIABLES open,     \* TRUE while the field exists
          vals      \* its values, in the order they were added

svars == <<open, vals>>

Init == open = FALSE /\ vals = <<>>

Open == /\ ~open
        /\ open' = TRUE
        /\ vals' \in {<<>>} \cup {<<v>> : v \in Value}

Add(v) == /\ open
          /\ Len(vals) < MaxVals
          /\ vals' = Append(vals, v)
          /\ UNCHANGED open

Put(k, v) == /\ open
             /\ k \in 1..Len(vals)
             /\ vals' = [vals EXCEPT ![k] = v]
             /\ UNCHANGED open

Close == open /\ open' = FALSE /\ vals' = <<>>

Next == \/ Open
        \/ \E v \in Value : Add(v)
        \/ \E v \in Value, k \in 1..MaxVals : Put(k, v)
        \/ Close

Spec == Init /\ [][Next]_svars
=============================================================================
