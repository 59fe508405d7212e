------------------------------- MODULE Cycle -------------------------------
(***************************************************************************)
(* What CYC() promises (src/RND.txt:34-35: "produces a cyclic random       *)
(* pattern. The same value will not repeat in a cycle. The random sequence *)
(* will be changed every cycle."): values are drawn from a finite set, each *)
(* once before any comes again, in an order nobody knows.                  *)
(***************************************************************************)
EXTENDS Naturals

VARIABLES
  values,   \* what can be drawn; settled before the first draw
  tried,    \* the values of this cycle so far
  trials    \* how many draws there were in this cycle

Init == /\ tried = {} /\ trials = 0

Settle == /\ trials = 0
          /\ UNCHANGED <<tried, trials>>

Draw == /\ tried # values
        /\ \E v \in values \ tried : tried' = tried \cup {v}
        /\ trials' = trials + 1
        /\ UNCHANGED values

(* The cycle is over; the first draw of the next one may come at once *)
Restart == /\ tried = values
           /\ tried' = {} /\ trials' = 0
           /\ UNCHANGED values

RestartAndDraw == /\ tried = values
                  /\ \E v \in values : tried' = {v}
                  /\ trials' = 1
                  /\ UNCHANGED values

Next == Settle \/ Draw \/ Restart \/ RestartAndDraw

Spec == Init /\ [][Next]_<<values, tried, trials>>
=============================================================================
