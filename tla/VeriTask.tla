------------------------------ MODULE VeriTask ------------------------------
(***************************************************************************)
(* The call of a Verilog task by threads of the program: JD_veri_task_call,*)
(* set_veri_task_call, JEDA_task_call_vcl_func and task_call_action        *)
(* (runtime/pli.c), and the always block that the linker writes for it     *)
(* (linker/vcodegen.c).                                                    *)
(***************************************************************************)
EXTENDS TimeSlots

VARIABLES
  callers,     \* task.queue: who called and waits
  busy,
  call, done,  \* the two signals between the program and the always block
  done_vcl,    \* done has a value change callback
  args         \* whose arguments Verilog was given, and whether they are right

taskVars == <<callers, busy, call, done, done_vcl, args>>

NoArgs == [of |-> None, right |-> TRUE]

TaskInit == /\ callers = <<>> /\ busy = FALSE
            /\ call = 0 /\ done = 0 /\ done_vcl = FALSE
            /\ args = NoArgs

(* set_veri_task_call: the arguments lie below the top of the stack of the  *)
(* thread that runs, but one place further below in a thread that waits     *)
SetVeriTaskCall(t, running) ==
  /\ busy' = TRUE /\ call' = 1 /\ done_vcl' = TRUE
  /\ args' = [of |-> t, right |-> running]

(* JD_veri_task_call *)
VeriTaskCall(t) ==
  /\ Sleeps(t)
  /\ callers' = Append(callers, t)
  /\ IF busy THEN UNCHANGED <<busy, call, done_vcl, args>> ELSE SetVeriTaskCall(t, TRUE)
  /\ UNCHANGED done

(* The task has run in Verilog, and the callback of done *)
TaskEnds ==
  /\ turn = "verilog" /\ call = 1
  /\ call' = 0 /\ done' = 1
  /\ IF done_vcl
     THEN /\ done_vcl' = FALSE
          /\ changed_list' = Append(changed_list, Task)
          /\ tf_isynchronized' = TRUE
     ELSE UNCHANGED <<done_vcl, changed_list, tf_isynchronized>>
  /\ UNCHANGED <<turn, ready, clocked_list, callers, busy, args>>

(* Mutant of NextCall: who waits is not called for *)
NextCallNot ==
  busy' = FALSE /\ UNCHANGED <<call, done_vcl, args>>

(* "check if another task is waiting in the queue" *)
NextCall ==
  IF Len(callers) > 1 THEN SetVeriTaskCall(callers[2], FALSE)
                      ELSE busy' = FALSE /\ UNCHANGED <<call, done_vcl, args>>

(* task_call_action, in the end of a slot *)
ServeTask ==
  IF Task \in Range(changed_list)
  THEN callers' = Tail(callers) /\ done' = 0 /\ NextCall
  ELSE UNCHANGED taskVars

(* Mutant of Returned: the last caller *)
ReturnedLast == IF Task \in Range(changed_list) THEN <<Last(callers)>> ELSE <<>>

(* The thread task_call_action makes ready *)
Returned == IF Task \in Range(changed_list) THEN <<Head(callers)>> ELSE <<>>
-----------------------------------------------------------------------------
(* One call of the task is active at a time, that of the thread that came   *)
(* first, and its end is not missed: the task is called for or done and     *)
(* listed, with a callback to tell its end, until its caller is woken.      *)
OneCallActive ==
  /\ busy <=> callers # <<>>
  /\ busy => args.of = Head(callers)
  /\ busy <=> \/ call = 1 /\ done_vcl
              \/ turn = "verilog" /\ Task \in Range(changed_list)

(* "only one that comes first will be accepted, and the following calls are *)
(* queued till the active call is finished": each call with the arguments   *)
(* of its caller.                                                           *)
TaskGetsArguments == call = 1 => args.right
=============================================================================
