------------------------------ MODULE Interface ------------------------------
(***************************************************************************)
(* A program that waits for edges of ports, calls a Verilog task, delays   *)
(* itself and drives a clock, in turn with the simulator.                  *)
(***************************************************************************)
EXTENDS Ports, VeriTask, Delays

CONSTANT Uses      \* the sets of facilities a program may use

ASSUME UsesAssumption == Uses \subseteq SUBSET {"ports", "task", "delay", "clock"}

VARIABLE uses

vars == <<slotVars, portVars, taskVars, delayVars, uses>>

Init == SlotsInit /\ PortsInit /\ TaskInit /\ DelaysInit /\ uses \in Uses

(* What a thread does that runs *)
Forget(t) == wish' = [wish EXCEPT ![t] = NoWish]

WaitForEdge(t) ==
  /\ "ports" \in uses
  /\ \E p \in Port, e \in Edges, n \in Cycles : SyncOnPort(t, p, e, n)
  /\ UNCHANGED <<taskVars, delayVars, uses>>

CallTask(t) ==
  /\ "task" \in uses /\ VeriTaskCall(t) /\ Forget(t)
  /\ UNCHANGED <<value, last_val, edge, clocked, requests, sync_count, monitored, settled>>
  /\ UNCHANGED <<delayVars, uses>>

DelayItself(t) ==
  /\ "delay" \in uses /\ \E d \in Delay : UnitDelay(t, d)
  /\ Forget(t)
  /\ UNCHANGED <<value, last_val, edge, clocked, requests, sync_count, monitored, settled>>
  /\ UNCHANGED <<taskVars, uses>>

DriveAClock(t) ==
  /\ "clock" \in uses
  /\ \E p \in Driven :
       \/ \E v \in {"0", "1"}, start \in Period \cup {0}, d1, d2 \in Period :
            DriveClock(t, p, v, start, d1, d2)
       \/ drive_clock[p] # "stopped" /\ StopClock(t, p)
  /\ UNCHANGED <<portVars, taskVars, uses>>

(* What Verilog does *)
PortChanges ==
  /\ \E p \in Port, v \in Value : /\ p \in Driven /\ output[p] # "x" => v = output[p]
                                  /\ ValueChanges(p, v)
  /\ UNCHANGED <<taskVars, delayVars, uses>>

TaskFinishes == TaskEnds /\ UNCHANGED <<portVars, delayVars, uses>>

DelayEnds == Reactivate /\ UNCHANGED <<portVars, taskVars, uses>>

(* Time passes when the driven ports have their values *)
NextTime ==
  /\ \A p \in Driven : output[p] \in {"x", value[p]}
  /\ TimePasses
  /\ UNCHANGED <<portVars, taskVars, uses>>

(* The objects of the two lists, in their order *)
ServeAll ==
  LET woken(list) ==
        FlattenSeq([i \in DOMAIN list |-> IF list[i] = Task THEN Returned ELSE Woken(list[i])])
  IN  /\ ready' = ready \o woken(clocked_list) \o woken(changed_list)
      /\ ServePorts /\ ServeTask

(* JD_misctf_reason_sync up to JD_v_top_loop *)
SlotEnds ==
  /\ turn = "verilog" /\ tf_isynchronized /\ ~broken
  /\ turn' = "jeda"
  /\ ServeAll
  /\ UNCHANGED <<clocked_list, changed_list, tf_isynchronized, delayVars, uses>>

(* ... and after it *)
BackToVerilog ==
  /\ turn = "jeda" /\ ready = <<>>
  /\ turn' = "verilog"
  /\ clocked_list' = <<>> /\ changed_list' = <<>> /\ tf_isynchronized' = FALSE
  /\ ClearPorts
  /\ UNCHANGED <<ready, taskVars, delayVars, uses>>

Suspends(t) == WaitForEdge(t) \/ CallTask(t) \/ DelayItself(t)

Next == \/ \E t \in Thread : Suspends(t) \/ DriveAClock(t)
        \/ PortChanges \/ TaskFinishes \/ DelayEnds \/ NextTime
        \/ SlotEnds \/ BackToVerilog

Spec == Init /\ [][Next]_vars

-----------------------------------------------------------------------------
(* A thread is ready or waits in one place: no list, queue or count loses   *)
(* it or wakes it twice.                                                    *)
NobodyLost ==
  \A t \in Thread :
    Cardinality({<<"ready", i>> : i \in {i \in DOMAIN ready : ready[i] = t}}
      \cup {<<"task", i>> : i \in {i \in DOMAIN callers : callers[i] = t}}
      \cup {<<"delay", i>> : i \in {i \in DOMAIN delay_queue : delay_queue[i] = t}}
      \cup UNION {{<<p, e, i>> : i \in {i \in DOMAIN requests[p][e] : requests[p][e][i].thread = t}}
                    : p \in Port, e \in Edges}) = 1
=============================================================================
