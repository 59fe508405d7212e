------------------------------- MODULE Event --------------------------------
(***************************************************************************)
(* The event (runtime/core_sys_funcs.c, JD_sc_event_mf_...): a trigger that *)
(* is active for the rest of the time slot (PULSE) or until it is cleared   *)
(* (ON), and a queue of threads that wait for it; those that wait in        *)
(* sync_clear() clear it as they get it.                                    *)
(***************************************************************************)
EXTENDS WaitQueues

CONSTANT SyncLimits    \* the arguments of timeout()

ASSUME SyncLimitAssumption == SyncLimits \subseteq Nat
ASSUME EventAssumption == "event" \in ObjQueues

VARIABLES
  trigger_status,    \* evnt->trigger_status: "OFF", "PULSE" or "ON"
  event_timeout,     \* evnt->timeout
  promised           \* history: "ON" from trigger_on(), "PULSE" from trigger()
                     \*   to the end of the slot, if nobody has cleared it since

eventVars == <<trigger_status, event_timeout, promised>>

EventInit == /\ QueuesInit
             /\ trigger_status = "OFF" /\ event_timeout = 0
             /\ promised = "none"

receivers == wait_queue["event"]
-----------------------------------------------------------------------------
(* The places in the queue of the threads that wait in sync_clear() *)
ClearingPlaces == {n \in 1 .. Len(receivers) : sysflagcount[receivers[n]] = 1}

(* Mutant of Reached: if for while *)
ReachedFirst == IF receivers = <<>> THEN 0 ELSE 1

(* The loop of a trigger wakes the receivers up to the first that clears *)
Reached == IF ClearingPlaces = {} THEN Len(receivers) ELSE Min(ClearingPlaces)

(* The threads that clear the trigger *)
Takers == {receivers[n] : n \in ClearingPlaces \cap 1 .. Reached}

(* trigger_pulse() *)
TriggerPulse(t) ==
  /\ Runs(t)
  /\ Serve("event", Reached)
  /\ UNCHANGED <<sysflagcount, blockVars, trigger_status, event_timeout, promised>>

(* Mutant of StatusAfter: the status stays for a receiver that clears it *)
StatusStays(status) == status

(* The status a trigger leaves *)
StatusAfter(status) == IF Takers = {} THEN status ELSE "OFF"

(* trigger() makes the status PULSE, trigger_on() ON *)
Trigger(t, status) ==
  /\ Runs(t)
  /\ Serve("event", Reached)
  /\ trigger_status' = StatusAfter(status)
  /\ promised' = IF Takers # {} THEN "none" ELSE IF promised = "ON" THEN "ON" ELSE status
  /\ UNCHANGED <<sysflagcount, blockVars, event_timeout>>

(* trigger_off() *)
TriggerOff(t) ==
  /\ Runs(t)
  /\ trigger_status' = "OFF" /\ promised' = "none"
  /\ UNCHANGED <<vars, queueVars, event_timeout>>

(* t finds the trigger active, and clears it if clear *)
TakeTrigger(t, clear) ==
  /\ trigger_status # "OFF"
  /\ Answer(t, 1)
  /\ IF clear THEN trigger_status' = "OFF" /\ promised' = "none"
              ELSE UNCHANGED <<trigger_status, promised>>
  /\ UNCHANGED event_timeout

(* sync() and sync_clear() *)
Sync(t, clear) ==
  /\ Runs(t)
  /\ \/ TakeTrigger(t, clear)
     \/ /\ trigger_status = "OFF"
        /\ WaitIn("event", t, event_timeout, IF clear THEN 1 ELSE 0)
        /\ UNCHANGED eventVars

(* check() and check_clear() *)
CheckTrigger(t, clear) ==
  /\ Runs(t)
  /\ \/ TakeTrigger(t, clear)
     \/ trigger_status = "OFF" /\ Answer(t, 0) /\ UNCHANGED eventVars

(* timeout( limit ) *)
EventTimeout(t, limit) ==
  /\ Runs(t) /\ event_timeout' = limit
  /\ UNCHANGED <<vars, queueVars, trigger_status, promised>>

(* JD_event_flush: the end of v_top_loop *)
Flush ==
  /\ trigger_status' = IF ~in_loop' /\ trigger_status = "PULSE" THEN "OFF" ELSE trigger_status
  /\ promised' = IF ~in_loop' /\ promised = "PULSE" THEN "none" ELSE promised
  /\ UNCHANGED event_timeout

EventStep(t) == \/ \E status \in {"PULSE", "ON"} : Trigger(t, status)
                \/ TriggerPulse(t) \/ TriggerOff(t)
                \/ \E clear \in BOOLEAN : Sync(t, clear) \/ CheckTrigger(t, clear)
                \/ \E limit \in SyncLimits : EventTimeout(t, limit)
                \/ GoOn("event", t, WaitAnswer(t)) /\ UNCHANGED eventVars

EventNext == \/ KernelStep /\ FollowKernel /\ Flush
             \/ \E t \in Thread : EventStep(t)
-----------------------------------------------------------------------------
(* Nobody waits while the trigger is active: a thread that comes finds it,  *)
(* and the triggers leave it active only if they emptied the queue.         *)
NobodyWaitsOnTrigger == trigger_status # "OFF" => receivers = <<>>

(* What trigger() promises lasts to the end of the slot, whoever comes in   *)
(* which order: its receivers get it (the manual: "regardless of the order  *)
(* of the execution of the thread").                                        *)
SlotTriggerLasts == promised = "PULSE" => trigger_status = "PULSE" /\ receivers = <<>>

(* What trigger_on() promises lasts until it is cleared (the manual: "This  *)
(* trigger remains active until it is cleared").                            *)
OnStaysOn == promised = "ON" => trigger_status # "OFF"
=============================================================================
