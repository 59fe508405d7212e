------------------------------- MODULE Switch -------------------------------
(***************************************************************************)
(* What the rest of the project takes for granted about the execution of   *)
(* threads: control is with the process of the simulator, which runs       *)
(* v_top_loop, or with one Jeda thread, and passing it on is one step.     *)
(* Handshake shows that the mutexes, flags and condition variables of the  *)
(* pthread build implement this.                                           *)
(***************************************************************************)
CONSTANTS
  Thread,
  Loop       \* the process that runs v_top_loop

VARIABLES
  who,       \* who has control
  queue      \* where each thread sits

vars == <<who, queue>>

Init == who = Loop /\ queue = [t \in Thread |-> "unallocated"]

(* v_top_loop takes a ready thread and gives it control *)
Dispatch(t) ==
  /\ who = Loop /\ queue[t] = "ready"
  /\ who' = t
  /\ queue' = [queue EXCEPT ![t] = "none"]

(* A thread enters queue q and returns control *)
GiveUp(t, q) ==
  /\ who = t
  /\ who' = Loop
  /\ queue' = [queue EXCEPT ![t] = q]

(* Who has control creates a thread *)
Create(c) ==
  /\ queue[c] = "unallocated"
  /\ queue' = [queue EXCEPT ![c] = "ready"]
  /\ UNCHANGED who

(* Who has control wakes a thread *)
Wake(t) ==
  /\ queue[t] = "sleep"
  /\ queue' = [queue EXCEPT ![t] = "ready"]
  /\ UNCHANGED who

(* v_top_loop frees the zombies *)
FreeZombies ==
  /\ who = Loop
  /\ queue' = [t \in Thread |-> IF queue[t] = "zombie" THEN "freed" ELSE queue[t]]
  /\ UNCHANGED who

Next == \/ \E t \in Thread : \/ Dispatch(t) \/ Create(t) \/ Wake(t)
                             \/ \E q \in {"ready", "sleep", "zombie"} : GiveUp(t, q)
        \/ FreeZombies

Spec == Init /\ [][Next]_vars
=============================================================================
