------------------------------ MODULE Handshake -----------------------------
(***************************************************************************)
(* How the pthread build (no JEDA_SELF_THREAD_CONTROL) passes control: one *)
(* pthread per Jeda thread, one for v_top_loop, the mutexes m_mutex,       *)
(* d_mutex and l_mutex, the condition variables main_cond, s_cond, l_cond  *)
(* and the flag main_flag of each thread (runtime/thread.c, top_loop.c).   *)
(* The simulator's own thread and the pthread it creates for v_top_loop    *)
(* and joins are the one process Loop.                                     *)
(*                                                                         *)
(* An action is what a process does between two operations on mutexes and  *)
(* condition variables.  A wait on a condition variable may end without a  *)
(* signal.  What a thread does while it runs is left open: it forks,       *)
(* wakes others, suspends itself or exits.                                 *)
(***************************************************************************)
CONSTANTS
  Thread,
  Loop,
  None

ASSUME LoopAssumption == Loop \notin Thread /\ None \notin Thread \cup {Loop}

Process == Thread \cup {Loop}

VARIABLES
  pc,            \* where each process is
  queue,         \* thrd->queue
  main_flag,     \* thrd->main_flag
  m_mutex, d_mutex, l_mutex,    \* who holds the mutex
  next,          \* the thread v_top_loop gave control to
  made,          \* the thread being created
  keep_looping

lockVars == <<m_mutex, d_mutex, l_mutex>>
vars == <<pc, queue, main_flag, lockVars, next, made, keep_looping>>

Making  == {"make_lock", "make_test", "make_wait"}     \* creating a thread
Handing == {"unlock", "signal", "lock", "test", "wait"} \* Loop gave control away
LoopPoints == {"idle", "begin", "pick", "free"} \cup Making \cup Handing
ThreadPoints == {"absent", "born", "born_unlock", "born_signal", "run", "ended"}
                  \cup Making \cup Handing
Queues == {"unallocated", "ready", "none", "sleep", "zombie", "freed"}

Init ==
  /\ pc = [p \in Process |-> IF p = Loop THEN "idle" ELSE "absent"]
  /\ queue = [t \in Thread |-> "unallocated"]
  /\ main_flag = [t \in Thread |-> FALSE]
  /\ m_mutex = None /\ d_mutex = None
  /\ l_mutex = [t \in Thread |-> None]
  /\ next = None /\ made = None
  /\ keep_looping = TRUE

Go(p, point) == pc' = [pc EXCEPT ![p] = point]

(* pthread_cond_signal: p goes to point; waiter, if it waits at from, goes  *)
(* on to take its mutex again at to                                         *)
GoAndSignal(p, point, waiter, from, to) ==
  pc' = [x \in Process |-> IF x = p THEN point
                           ELSE IF x = waiter /\ pc[x] = from THEN to ELSE pc[x]]
-----------------------------------------------------------------------------
(* v_top_loop *)

(* JD_v_top_loop: the pthread of v_top_loop is created *)
StartLoop ==
  /\ pc[Loop] = "idle" /\ Go(Loop, "begin")
  /\ keep_looping' = TRUE
  /\ UNCHANGED <<queue, main_flag, lockVars, next, made>>

Begin ==
  /\ pc[Loop] = "begin" /\ m_mutex = None
  /\ m_mutex' = Loop
  /\ Go(Loop, "pick")
  /\ UNCHANGED <<queue, main_flag, d_mutex, l_mutex, next, made, keep_looping>>

Pick(t) ==
  /\ pc[Loop] = "pick" /\ keep_looping /\ queue[t] = "ready"
  /\ queue' = [queue EXCEPT ![t] = "none"]
  /\ main_flag' = [main_flag EXCEPT ![t] = TRUE]
  /\ next' = t
  /\ Go(Loop, "unlock")
  /\ UNCHANGED <<lockVars, made, keep_looping>>

(* pthread_cond_signal( &thrd->s_cond ) *)
SignalThread ==
  /\ pc[Loop] = "signal" /\ GoAndSignal(Loop, "lock", next, "wait", "lock")
  /\ UNCHANGED <<queue, main_flag, lockVars, next, made, keep_looping>>

(* "while( thrd->main_flag ) pthread_cond_wait( JD_main_cond, JD_m_mutex )" *)
TestLoop ==
  /\ pc[Loop] = "test"
  /\ IF main_flag[next] THEN m_mutex' = None /\ Go(Loop, "wait")
                        ELSE UNCHANGED m_mutex /\ Go(Loop, "pick")
  /\ UNCHANGED <<queue, main_flag, d_mutex, l_mutex, next, made, keep_looping>>

(* Nothing is ready, or the loop was stopped *)
EndLoop ==
  /\ pc[Loop] = "pick"
  /\ ~keep_looping \/ \A t \in Thread : queue[t] # "ready"
  /\ m_mutex' = None
  /\ Go(Loop, "free")
  /\ UNCHANGED <<queue, main_flag, d_mutex, l_mutex, next, made, keep_looping>>

FreeZombies ==
  /\ pc[Loop] = "free" /\ Go(Loop, "idle")
  /\ queue' = [t \in Thread |-> IF queue[t] = "zombie" THEN "freed" ELSE queue[t]]
  /\ UNCHANGED <<main_flag, lockVars, next, made, keep_looping>>
-----------------------------------------------------------------------------
(* The mutex m_mutex, taken and given back by all *)

(* Mutant of Lock: the mutex is tried, and the result ignored *)
LockNotWaiting(p) ==
  /\ pc[p] = "lock"
  /\ m_mutex' = p
  /\ Go(p, "test")
  /\ UNCHANGED <<queue, main_flag, d_mutex, l_mutex, next, made, keep_looping>>

Lock(p) ==
  /\ pc[p] = "lock" /\ m_mutex = None
  /\ m_mutex' = p
  /\ Go(p, "test")
  /\ UNCHANGED <<queue, main_flag, d_mutex, l_mutex, next, made, keep_looping>>

(* To unlock a mutex one does not hold is undefined: it stays or is freed *)
Unlock(p) ==
  /\ pc[p] = "unlock"
  /\ \/ m_mutex' = None
     \/ m_mutex # p /\ UNCHANGED m_mutex
  /\ Go(p, "signal")
  /\ UNCHANGED <<queue, main_flag, d_mutex, l_mutex, next, made, keep_looping>>

(* A wait ends without a signal *)
SpuriousWake(p) ==
  /\ \/ pc[p] = "wait" /\ Go(p, "lock")
     \/ pc[p] = "make_wait" /\ Go(p, "make_lock")
  /\ UNCHANGED <<queue, main_flag, lockVars, next, made, keep_looping>>
-----------------------------------------------------------------------------
(* The switch of a thread: JD_thread_sleep, JD_thread_pause, JD_thread_exit *)

(* Mutant of TestThread: "if" for "while" *)
TestThreadOnce(t) ==
  /\ pc[t] = "test" /\ Go(t, "run")
  /\ UNCHANGED <<queue, main_flag, lockVars, next, made, keep_looping>>

(* "while( !this->main_flag ) pthread_cond_wait( &this->s_cond, .. )" *)
TestThread(t) ==
  /\ pc[t] = "test"
  /\ IF main_flag[t] THEN UNCHANGED m_mutex /\ Go(t, "run")
                     ELSE m_mutex' = None /\ Go(t, "wait")
  /\ UNCHANGED <<queue, main_flag, d_mutex, l_mutex, next, made, keep_looping>>

(* t enters queue q, clears its flag and goes to unlock m_mutex *)
GiveUp(t, q) ==
  /\ pc[t] = "run" /\ d_mutex # t
  /\ queue' = [queue EXCEPT ![t] = q]
  /\ main_flag' = [main_flag EXCEPT ![t] = FALSE]
  /\ Go(t, "unlock")
  /\ UNCHANGED <<lockVars, next, made>>

Suspend(t, q) == GiveUp(t, q) /\ UNCHANGED keep_looping

(* stop, fatal_error, .. : back to the ready queue, and the loop ends *)
StopLoop(t) == GiveUp(t, "ready") /\ keep_looping' = FALSE

(* The exit instructions hold d_mutex while they unlink the thread *)
Exit(t) == d_mutex = None /\ GiveUp(t, "zombie") /\ UNCHANGED keep_looping

(* Mutant of SignalMain: the exit of a thread does not signal *)
SignalMainUnlessEnding(t) ==
  /\ pc[t] = "signal"
  /\ IF queue[t] \in {"zombie", "freed"} THEN Go(t, "ended")
                                         ELSE GoAndSignal(t, "lock", Loop, "wait", "lock")
  /\ UNCHANGED <<queue, main_flag, lockVars, next, made, keep_looping>>

(* pthread_cond_signal( JD_main_cond ), and the end of an exiting thread *)
SignalMain(t) ==
  /\ pc[t] = "signal"
  /\ GoAndSignal(t, IF queue[t] \in {"zombie", "freed"} THEN "ended" ELSE "lock",
                 Loop, "wait", "lock")
  /\ UNCHANGED <<queue, main_flag, lockVars, next, made, keep_looping>>
-----------------------------------------------------------------------------
(* Creation of a thread *)

(* main_flag = 1 and pthread_create, by p, of a thread that starts at point *)
Create(p, c, point) ==
  /\ queue[c] = "unallocated"
  /\ queue' = [queue EXCEPT ![c] = "ready"]
  /\ main_flag' = [main_flag EXCEPT ![c] = TRUE]
  /\ made' = c
  /\ pc' = [pc EXCEPT ![p] = "make_lock", ![c] = point]
  /\ UNCHANGED <<lockVars, next, keep_looping>>

(* JD_gen_main *)
CreateMain(c) ==
  /\ pc[Loop] = "idle" /\ \A t \in Thread : queue[t] = "unallocated"
  /\ Create(Loop, c, "born")

(* JD_exec_exec *)
Exec(t, c) == pc[t] = "run" /\ d_mutex = t /\ Create(t, c, "born")

(* jeda_func_call_action, the call of an exported function from Verilog:    *)
(* the new thread runs do_jeda_func_call, which calls the function at once, *)
(* without JD_sync_exec                                                     *)
CallFromVerilog(c) ==
  /\ pc[Loop] = "idle"
  /\ \E t \in Thread : queue[t] # "unallocated"
  /\ Create(Loop, c, "run")

MakeLock(p) ==
  /\ pc[p] = "make_lock" /\ l_mutex[made] = None
  /\ l_mutex' = [l_mutex EXCEPT ![made] = p]
  /\ Go(p, "make_test")
  /\ UNCHANGED <<queue, main_flag, m_mutex, d_mutex, next, made, keep_looping>>

(* Mutant of MakeTest: the creator does not wait for the flag *)
MakeTestNot(p) ==
  /\ pc[p] = "make_test" /\ Go(p, IF p = Loop THEN "idle" ELSE "run")
  /\ UNCHANGED <<queue, main_flag, lockVars, next, made, keep_looping>>

(* "while( thrd->main_flag ) pthread_cond_wait( &thrd->l_cond, .. )"; the   *)
(* creator keeps l_mutex                                                    *)
MakeTest(p) ==
  /\ pc[p] = "make_test"
  /\ IF main_flag[made]
     THEN l_mutex' = [l_mutex EXCEPT ![made] = None] /\ Go(p, "make_wait")
     ELSE UNCHANGED l_mutex /\ Go(p, IF p = Loop THEN "idle" ELSE "run")
  /\ UNCHANGED <<queue, main_flag, m_mutex, d_mutex, next, made, keep_looping>>

(* JD_sync_exec *)
Born(c) ==
  /\ pc[c] = "born" /\ l_mutex[c] = None
  /\ l_mutex' = [l_mutex EXCEPT ![c] = c]
  /\ main_flag' = [main_flag EXCEPT ![c] = FALSE]
  /\ Go(c, "born_unlock")
  /\ UNCHANGED <<queue, m_mutex, d_mutex, next, made, keep_looping>>

BornUnlock(c) ==
  /\ pc[c] = "born_unlock"
  /\ l_mutex' = [l_mutex EXCEPT ![c] = None]
  /\ Go(c, "born_signal")
  /\ UNCHANGED <<queue, main_flag, m_mutex, d_mutex, next, made, keep_looping>>

(* Mutant of BornSignal: the signal is left out *)
BornNoSignal(c) ==
  /\ pc[c] = "born_signal" /\ Go(c, "lock")
  /\ UNCHANGED <<queue, main_flag, lockVars, next, made, keep_looping>>

(* pthread_cond_signal( &mythread->l_cond ) to whoever waits for c *)
BornSignal(c) ==
  /\ pc[c] = "born_signal"
  /\ pc' = [x \in Process |-> IF x = c THEN "lock"
                              ELSE IF made = c /\ pc[x] = "make_wait" THEN "make_lock"
                              ELSE pc[x]]
  /\ UNCHANGED <<queue, main_flag, lockVars, next, made, keep_looping>>
-----------------------------------------------------------------------------
(* What else the one in control does *)

(* fork, and join, spoon or knife, with d_mutex held in between *)
Fork(t) ==
  /\ pc[t] = "run" /\ d_mutex = None
  /\ d_mutex' = t
  /\ UNCHANGED <<pc, queue, main_flag, m_mutex, l_mutex, next, made, keep_looping>>

EndFork(t) ==
  /\ pc[t] = "run" /\ d_mutex = t
  /\ d_mutex' = None
  /\ UNCHANGED <<pc, queue, main_flag, m_mutex, l_mutex, next, made, keep_looping>>

(* A thread that runs, or the simulator between two slots, wakes another *)
Wake(p, t) ==
  /\ pc[p] \in {"run", "idle"} /\ d_mutex = None /\ queue[t] = "sleep"
  /\ queue' = [queue EXCEPT ![t] = "ready"]
  /\ UNCHANGED <<pc, main_flag, lockVars, next, made, keep_looping>>
-----------------------------------------------------------------------------
LoopStep == \/ StartLoop \/ Begin \/ EndLoop \/ FreeZombies
            \/ SignalThread \/ TestLoop
            \/ \E t \in Thread : Pick(t) \/ CreateMain(t)

ThreadStep(t) == \/ TestThread(t) \/ SignalMain(t)
                 \/ Born(t) \/ BornUnlock(t) \/ BornSignal(t)
                 \/ Exit(t) \/ StopLoop(t) \/ \E q \in {"ready", "sleep"} : Suspend(t, q)
                 \/ Fork(t) \/ EndFork(t) \/ \E c \in Thread : Exec(t, c)

Step(p) == Lock(p) \/ Unlock(p) \/ MakeLock(p) \/ MakeTest(p)

Next == \/ LoopStep
        \/ \E t \in Thread : ThreadStep(t)
        \/ \E p \in Process : Step(p) \/ SpuriousWake(p) \/ \E t \in Thread : Wake(p, t)

Spec == Init /\ [][Next]_vars

(* The same with calls from Verilog *)
CallSpec == Init /\ [][Next \/ \E c \in Thread : CallFromVerilog(c)]_vars

(* A process that can take its next step in the handshake does, and waits   *)
(* do not end without a signal for ever                                     *)
Fairness == /\ \A p \in Process : WF_vars(Step(p))
            /\ WF_vars(SignalThread) /\ WF_vars(TestLoop)
            /\ \A t \in Thread : WF_vars(TestThread(t) \/ SignalMain(t) \/ Born(t)
                                           \/ BornUnlock(t) \/ BornSignal(t))
            /\ <>[][\A p \in Process : ~SpuriousWake(p)]_vars

FairSpec == Spec /\ Fairness
-----------------------------------------------------------------------------
TypeOK ==
  /\ pc \in [Process -> LoopPoints \cup ThreadPoints]
  /\ queue \in [Thread -> Queues]
  /\ main_flag \in [Thread -> BOOLEAN]
  /\ m_mutex \in Process \cup {None} /\ d_mutex \in Thread \cup {None}
  /\ l_mutex \in [Thread -> Process \cup {None}]
  /\ next \in Thread \cup {None} /\ made \in Thread \cup {None}
  /\ keep_looping \in BOOLEAN
  /\ pc[Loop] \in LoopPoints /\ \A t \in Thread : pc[t] \in ThreadPoints

(* Who has control: a thread from the moment its flag is set until it       *)
(* clears it                                                                *)
Who == IF pc[Loop] \in Handing /\ main_flag[next] THEN next ELSE Loop

(* p reads and writes what the threads share: the queues, the links between *)
(* threads, the registers of the virtual machine                            *)
InControl(p) == IF p = Loop THEN pc[Loop] \notin Handing ELSE pc[p] \in {"run"} \cup Making

(* Only one process at a time works on the shared state, and it is the one  *)
(* that was given control ("it handshakes with the Jeda program thread").   *)
OneInControl == \A p \in Process : InControl(p) => p = Who

(* v_top_loop frees the structure of a thread only when the pthread of that *)
(* thread is done with it.                                                  *)
FreedIsLeft == \A t \in Thread : queue[t] = "freed" => pc[t] \in {"signal", "ended"}

(* How the mutexes and flags guarantee this in Spec: m_mutex is held by who *)
(* works on the shared state; a flag is set for the thread that has control *)
(* and for the thread that is being created, whose creator waits for it.    *)
MutexHeld ==
  /\ m_mutex = Loop <=> pc[Loop] \in {"pick", "unlock", "test"}
  /\ \A t \in Thread : m_mutex = t <=> pc[t] \in {"test", "unlock", "run"} \cup Making

RunsIfGiven == \A t \in Thread :
  /\ pc[t] \in {"run"} \cup Making => main_flag[t] /\ next = t /\ pc[Loop] \in Handing
  /\ pc[t] = "unlock" => pc[Loop] \in Handing
  /\ main_flag[t] => (next = t /\ pc[Loop] \in Handing) \/ pc[t] = "born"

BornIsAwaited == \A t \in Thread : pc[t] = "born" =>
  /\ main_flag[t] /\ made = t
  /\ pc[Loop] \in Making \/ (pc[Loop] \in Handing /\ \E p \in Thread : p = next /\ pc[p] \in Making)

PlaceOfThread == \A t \in Thread :
  /\ queue[t] = "unallocated" <=> pc[t] = "absent"
  /\ queue[t] \in {"zombie", "freed"} => pc[t] \in {"unlock", "signal", "ended"}

Given == pc[Loop] \in Handing => next \in Thread

HInv == /\ TypeOK
        /\ MutexHeld /\ RunsIfGiven /\ BornIsAwaited /\ PlaceOfThread /\ Given
        /\ FreedIsLeft

(* Passing control is one step *)
S == INSTANCE Switch WITH who <- Who

ImplementsSwitch == S!Spec

(* No signal is lost: a thread that v_top_loop takes from the ready queue   *)
(* comes to run, v_top_loop goes on after a thread has given up control or  *)
(* has exited, and so does the creator of a thread.                         *)
ControlArrives == \A t \in Thread : (pc[Loop] = "unlock" /\ next = t) ~> pc[t] = "run"

ControlReturns == \A t \in Thread : pc[t] = "unlock" ~> pc[Loop] = "pick"

MakerGoesOn == \A p \in Process : pc[p] = "make_lock" ~> pc[p] \in {"run", "idle"}
=============================================================================
