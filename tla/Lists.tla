------------------------------- MODULE Lists -------------------------------
(* The linked lists of the runtime, as sequences *)
EXTENDS Integers, Sequences

(* The elements of list that are in S, in their order: what a loop leaves   *)
(* that unlinks the others                                                  *)
Those(list, S) ==
  LET left[n \in Nat] ==
        IF n = 0 THEN <<>>
        ELSE IF list[n] \in S THEN Append(left[n - 1], list[n]) ELSE left[n - 1]
  IN  left[Len(list)]
=============================================================================
