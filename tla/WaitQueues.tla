---------------------------- MODULE WaitQueues -----------------------------
(***************************************************************************)
(* The queues of the synchronisation objects (runtime/core_sys_funcs.c) on *)
(* top of the thread kernel.  A thread that has to wait for an object      *)
(* enters its queue, and the time-out queue if the object has a time       *)
(* limit, and calls JD_thread_pause; the thread that serves it takes it    *)
(* out of both and makes it ready.  JD_count_timeq takes it out of the     *)
(* queue of the object as well.                                            *)
(***************************************************************************)
EXTENDS Threads, SequencesExt

VARIABLES
  wait_queue,     \* the queue of each object, in order
  sysflagcount    \* thrd->sysflagcount: what a waiting thread asks of the object

queueVars == <<wait_queue, sysflagcount>>

QueuesInit == /\ Init
              /\ wait_queue = [o \in ObjQueues |-> <<>>]
              /\ sysflagcount = [t \in Thread |-> 0]

(***************************************************************************)
(* What the threads of the modules that extend this one do besides using   *)
(* the objects: they create threads that report to nobody, pause, are      *)
(* terminated and end, and time slots go by.                               *)
(***************************************************************************)
KernelStep ==
  \/ Dispatch \/ EndTimeSlot \/ MainReturns \/ SimulationOver
  \/ \E posedge \in BOOLEAN : StartTimeSlot(posedge)
  \/ \E t \in Thread : \/ Begin(t) \/ Resume(t)
                       \/ Fork(t, "fork") \/ Knife(t) \/ Exit(t)
                       \/ \E c \in Thread : Exec(t, c)
                       \/ Terminate(t) \/ ThreadPause(t)

(* Mutant of FollowKernel: JD_count_timeq leaves the queue alone *)
KernelLeavesQueues == UNCHANGED queueVars

(* The threads a kernel step makes ready leave the queue they wait in *)
FollowKernel ==
  /\ wait_queue' = [o \in ObjQueues |-> Those(wait_queue[o], {t \in Thread : queue'[t] = o})]
  /\ UNCHANGED sysflagcount

(* Mutant of WaitIn: JD_enqueue_top for JD_enqueue *)
WaitInOnTop(o, t, limit, flag) ==
  /\ wait_queue' = [wait_queue EXCEPT ![o] = <<t>> \o @]
  /\ sysflagcount' = [sysflagcount EXCEPT ![t] = flag]
  /\ SetTimeLimit(t, limit)
  /\ Suspend(t, o, o)
  /\ UNCHANGED <<ready_queue, blockVars, termVars, timeout, forked, creator, value>>

(* t waits for object o, at most limit cycles if that is not 0 *)
WaitIn(o, t, limit, flag) ==
  /\ wait_queue' = [wait_queue EXCEPT ![o] = Append(@, t)]
  /\ sysflagcount' = [sysflagcount EXCEPT ![t] = flag]
  /\ SetTimeLimit(t, limit)
  /\ Suspend(t, o, o)
  /\ UNCHANGED <<ready_queue, blockVars, termVars, timeout, forked, creator, value>>

(* "if( thrd->time_limit ) JD_dequeue_timeq( .. )" for the threads of woken *)
StopTimers(woken) ==
  FoldLeft(LAMBDA q, t : IF time_limit[t] = 0 THEN q ELSE DequeueTimeq(q, t), timeq, woken)

(* The first n threads of the queue of o *)
FirstOf(o, n) == SubSeq(wait_queue[o], 1, n)

(* Make the first n waiters of o ready, in order *)
Serve(o, n) ==
  LET woken == FirstOf(o, n) IN
  /\ wait_queue' = [wait_queue EXCEPT ![o] = SubSeq(@, n + 1, Len(@))]
  /\ queue' = [t \in Thread |-> IF t \in Range(woken) THEN "ready" ELSE queue[t]]
  /\ ready_queue' = ready_queue \o woken
  /\ timeq' = StopTimers(woken)
  /\ UNCHANGED <<thread, at, loopVars, termVars, time_limit, timeout, history>>

(* The answer of a wait: 0 if the thread finds its timeout flag set *)
WaitAnswer(t) == IF timeout[t] THEN 0 ELSE 1

(* A thread that waited for o goes on with answer a, or leaves if it was    *)
(* terminated                                                               *)
GoOn(o, t, a) ==
  /\ thread = t /\ at[t] = o /\ ~internal_error
  /\ \/ Stopped(t) /\ ExitTerminated(t)
     \/ /\ ~Stopped(t)
        /\ at' = [at EXCEPT ![t] = "code"]
        /\ acc' = [acc EXCEPT ![t] = a]
        /\ UNCHANGED <<thread, ready_queue, queue, loopVars, parent, child, wait_child,
                       forking, form, termVars, timeVars, history>>
  /\ UNCHANGED queueVars

(* t goes on at once with answer a *)
Answer(t, a) ==
  /\ acc' = [acc EXCEPT ![t] = a]
  /\ UNCHANGED <<runVars, loopVars, parent, child, wait_child, forking, form, termVars,
                 timeVars, history, queueVars>>

(* A thread waits in the queue of an object exactly if it is in its list,   *)
(* once: JD_dequeue_top and JD_dequeue by a time limit never take the same  *)
(* thread out twice or miss one.                                            *)
WaitersListed ==
  \A o \in ObjQueues : /\ IsInjective(wait_queue[o])
                       /\ Range(wait_queue[o]) = {t \in Thread : queue[t] = o}
=============================================================================
