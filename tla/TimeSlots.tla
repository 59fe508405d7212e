------------------------------ MODULE TimeSlots ------------------------------
(***************************************************************************)
(* The turns of the Verilog simulator and the Jeda program (runtime/pli.c). *)
(* While Verilog runs, callbacks note the objects the program waits for in *)
(* two lists and ask for a call at the end of the time slot, once          *)
(* (tf_isynchronize).  That call (JD_misctf_reason_sync) serves the        *)
(* objects of the lists, runs the ready threads until they all wait        *)
(* (JD_v_top_loop) and clears the lists.  The thread that runs is the      *)
(* first of the ready ones.                                                *)
(***************************************************************************)
EXTENDS Integers, SequencesExt

CONSTANTS
  Thread,
  Port,
  Clock,      \* the ports that are reference clocks
  Task,       \* the Verilog task the program calls
  None

ASSUME SlotsAssumption == /\ IsFiniteSet(Thread)
                          /\ Clock \subseteq Port
                          /\ Task \notin Port \cup Thread
                          /\ Port \cap Thread = {}
                          /\ None \notin Port \cup Thread \cup {Task}

VARIABLES
  turn,              \* "verilog" or "jeda"
  ready,             \* ready_queue, its head the thread that runs
  clocked_list,      \* the reference clocks that changed in the slot
  changed_list,      \* the other objects that did
  tf_isynchronized   \* the end of this slot will call

slotVars == <<turn, ready, clocked_list, changed_list, tf_isynchronized>>

Runs(t) == turn = "jeda" /\ ready # <<>> /\ t = Head(ready)

(* JD_thread_pause of the thread that runs *)
Sleeps(t) ==
  /\ Runs(t)
  /\ ready' = Tail(ready)
  /\ UNCHANGED <<turn, clocked_list, changed_list, tf_isynchronized>>

SlotsInit ==
  /\ turn = "verilog"
  /\ ready \in SetToSeqs(Thread)
  /\ clocked_list = <<>> /\ changed_list = <<>>
  /\ tf_isynchronized = TRUE
=============================================================================
