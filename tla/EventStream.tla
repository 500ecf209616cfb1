---------------------------- MODULE EventStream ----------------------------
(***************************************************************************)
(* What a decoder of the line format of int.h promises its caller: every   *)
(* line acts on the event under construction as soon as it was accepted,   *)
(* an event is handed over once and whole, events come in the order of     *)
(* their lines, and after the decoder has stopped nothing more happens.    *)
(***************************************************************************)
EXTENDS Naturals, Sequences

CONSTANTS Text,    \* field names and values
          MaxVals, \* values one field can have
          None     \* no event

VARIABLES sent,    \* the events handed to the caller
          open,    \* the event under construction, or None
          over     \* TRUE when the decoder has returned

evars == <<sent, open, over>>

Init == sent = <<>> /\ open = None /\ over = FALSE

Begin == ~over /\ open = None /\ open' = <<>> /\ UNCHANGED <<sent, over>>

NewField(name) == /\ ~over /\ open # None
                  /\ open' = Append(open, [name |-> name, vals |-> <<>>])
                  /\ UNCHANGED <<sent, over>>

NewValue(v) == /\ ~over /\ open \notin {None, <<>>}
               /\ LET f == open[Len(open)]
                  IN  /\ Len(f.vals) < MaxVals
                      /\ open' = [open EXCEPT ![Len(open)] =
                                   [name |-> f.name, vals |-> Append(f.vals, v)]]
               /\ UNCHANGED <<sent, over>>

Send == /\ ~over /\ open # None
        /\ sent' = Append(sent, open) /\ open' = None
        /\ over' \in BOOLEAN

Stop == ~over /\ over' = TRUE /\ open' = None /\ UNCHANGED sent

Next == \/ Begin \/ Send \/ Stop
        \/ \E t \in Text : NewField(t) \/ NewValue(t)

Spec == Init /\ [][Next]_evars
=============================================================================
