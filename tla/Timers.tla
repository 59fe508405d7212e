------------------------------- MODULE Timers -------------------------------
(***************************************************************************)
(* What the time-out queue of runtime/thread.c promises: every waiting     *)
(* thread has an alarm of its own, set to a number of CLOCK cycles; each   *)
(* cycle brings every alarm one cycle closer; the alarms that reach zero   *)
(* go off in that very cycle, in the order they were set when they are     *)
(* due together; and no call disturbs the alarm of another thread.         *)
(***************************************************************************)
EXTENDS Lists, Functions

CONSTANTS Thread, Limits

VARIABLES alarms,   \* the alarms by due time: a sequence of [thread, left]
          fired     \* the threads whose alarms the last step set off, in order

vars == <<alarms, fired>>

Init == alarms = <<>> /\ fired = <<>>

(* A new alarm goes behind those that are due no later than it *)
Set(t, limit) ==
  LET a     == alarms
      later == {x \in Range(a) : x.left > limit}
      soon  == {x \in Range(a) : x.left <= limit}
  IN  /\ \A i \in DOMAIN a : a[i].thread # t
      /\ alarms' = Those(a, soon) \o <<[thread |-> t, left |-> limit]>> \o Those(a, later)
      /\ fired' = <<>>

Cancel(t) ==
  LET a      == alarms
      others == {x \in Range(a) : x.thread # t}
  IN  /\ \E i \in DOMAIN a : a[i].thread = t
      /\ alarms' = Those(a, others)
      /\ fired' = <<>>

Tick ==
  LET a       == alarms
      going   == Those(a, {x \in Range(a) : x.left = 1})
      staying == Those(a, {x \in Range(a) : x.left > 1})
  IN  /\ fired'  = [i \in DOMAIN going |-> going[i].thread]
      /\ alarms' = [i \in DOMAIN staying |-> [staying[i] EXCEPT !.left = @ - 1]]

Next == \/ \E t \in Thread : (\E l \in Limits : Set(t, l)) \/ Cancel(t)
        \/ Tick

Spec == Init /\ [][Next]_vars
=============================================================================
