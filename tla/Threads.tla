------------------------------ MODULE Threads ------------------------------
(***************************************************************************)
(* The thread kernel of the Jeda runtime: runtime/thread.c together with   *)
(* the scheduler loop of runtime/top_loop.c.                               *)
(*                                                                         *)
(* Exactly one Jeda thread executes at a time, and it goes on until it     *)
(* suspends itself.  The loop v_top_loop resumes the threads of the ready  *)
(* queue in order until the queue is empty, which ends the time slot; the  *)
(* simulator then opens the next slot.  A thread forks children and waits  *)
(* for all of them (join), for one (spoon) or for none (knife); p_and and  *)
(* p_or fork children whose truth values they combine.  Independently of   *)
(* these blocks every thread is in the termination tree, on which          *)
(* terminate and thread_join() work.                                       *)
(*                                                                         *)
(* Every action is what one thread does between two points at which        *)
(* another thread can observe it: one virtual-machine instruction, one     *)
(* system function up to the place where it suspends, or the rest of that  *)
(* function after the thread is resumed.                                   *)
(***************************************************************************)
EXTENDS TimeQueue, Lists

CONSTANTS
  Main,               \* the thread of main()
  ObjQueues,          \* the queues of events, semaphores, lists
  JoinLimits,         \* the time limits given to thread_join(), in cycles
  SelfThreadControl,  \* JEDA_SELF_THREAD_CONTROL: coroutines, not pthreads
  StopOnFirstError    \* +jeda_stop_on_first_error

(* Where a thread can sit, and the points in the code at which it can be    *)
(* suspended: those of this module; a wait in the queue of an object goes on *)
(* at the point of that name                                                *)
KernelQueues == {"unallocated", "none", "ready", "sleep", "port", "zombie", "freed"}
ResumePoints == {"join", "spoon", "thread_join", "pause", "port"}
KernelPoints == {"start", "code", "exited"} \cup ResumePoints

QueueNames == KernelQueues \cup ObjQueues
Points     == KernelPoints \cup ObjQueues

ASSUME MainAssumption  == Main \in Thread
ASSUME ValueAssumption == None \notin {0, 1}
ASSUME LimitAssumption == JoinLimits \subseteq Nat \ {0}
ASSUME BuildAssumption == SelfThreadControl \in BOOLEAN /\ StopOnFirstError \in BOOLEAN
ASSUME QueueAssumption == ObjQueues \cap (KernelQueues \cup KernelPoints) = {}

(* The forms of a block, which decide the exit instruction of its children *)
Forms == {"fork", "p_and", "p_or"}

VARIABLES
  thread,             \* THREAD: the thread that executes, None in v_top_loop
  ready_queue,        \* JD_ready_queue
  queue,              \* thrd->queue: where each thread sits
  at,                 \* where each thread is suspended
  in_loop,            \* v_top_loop is active
  keep_looping,
  end_of_simulation,
  internal_error,     \* JEDA INTERNAL ERROR, a NULL pointer followed, a
                      \* thread woken that has exited, or a loop over the
                      \* time-out queue that never ends: nothing goes on
  edge_req,           \* the threads with a sync request at a port

  parent,             \* thrd->parent: whom the exit of a thread concerns
  child,              \* the sibling list a thread's child field heads
  wait_child,
  forking,            \* the form of the block between fork and join, or "no"
  form,               \* the form of the block a thread was forked in
  acc,                \* the value register, at the stack top of a sleeper

  term_parent, term_child,   \* the termination tree: up, and the child lists
  thread_join,
  terminated,

  timeq,              \* the time-out queue
  time_limit,
  timeout,

  forked,             \* history: the children of a thread's last block
  creator,            \* history: the thread that forked a thread
  value,              \* history: the truth value a thread exited with
  expired             \* history: the last wait was ended by its time limit

runVars   == <<thread, ready_queue, queue, at>>
loopVars  == <<in_loop, keep_looping, end_of_simulation, internal_error, edge_req>>
blockVars == <<parent, child, wait_child, forking, form, acc>>
termVars  == <<term_parent, term_child, thread_join, terminated>>
timeVars  == <<timeq, time_limit, timeout>>
history   == <<forked, creator, value, expired>>
vars      == <<runVars, loopVars, blockVars, termVars, timeVars, history>>

Init ==
  /\ thread = None
  /\ ready_queue = <<Main>>
  /\ queue = [t \in Thread |-> IF t = Main THEN "ready" ELSE "unallocated"]
  /\ at = [t \in Thread |-> "start"]
  /\ in_loop = TRUE /\ keep_looping = TRUE
  /\ end_of_simulation = FALSE /\ internal_error = FALSE
  /\ edge_req = {}
  /\ parent = [t \in Thread |-> None]
  /\ child = [t \in Thread |-> {}]
  /\ wait_child = [t \in Thread |-> 0]
  /\ forking = "no"
  /\ form = [t \in Thread |-> "fork"]
  /\ acc = [t \in Thread |-> 0]
  /\ term_parent = [t \in Thread |-> None]
  /\ term_child = [t \in Thread |-> {}]
  /\ thread_join = [t \in Thread |-> FALSE]
  /\ terminated = [t \in Thread |-> FALSE]
  /\ timeq = EmptyTimeQueue
  /\ time_limit = [t \in Thread |-> 0]
  /\ timeout = [t \in Thread |-> FALSE]
  /\ forked = [t \in Thread |-> {}]
  /\ creator = [t \in Thread |-> None]
  /\ value = [t \in Thread |-> None]
  /\ expired = [t \in Thread |-> FALSE]
-----------------------------------------------------------------------------
(* Helpers of the instructions *)

(* What a walk along the sets of next visits that starts with those of first: *)
(* the least set that contains first and is closed under next               *)
Reach(first, next) ==
  {t \in Thread : \A S \in SUBSET Thread :
     first \subseteq S /\ (\A x \in S : next[x] \subseteq S) => t \in S}

(* t executes its program: it is neither suspended nor about to return *)
Executes(t) == thread = t /\ at[t] = "code" /\ ~internal_error

(* t executes an instruction outside of a fork .. join sequence *)
Runs(t) == Executes(t) /\ forking = "no"

(* t suspends itself in queue q, to be resumed at point p *)
Suspend(t, q, p) ==
  /\ thread' = None
  /\ queue' = [queue EXCEPT ![t] = q]
  /\ at' = [at EXCEPT ![t] = p]

(* Some thread of woken is in no queue that JD_dequeue could take it from *)
InNoQueue(woken) ==
  \E t \in Range(woken) : queue[t] \in {"unallocated", "none", "zombie", "freed"}

(* "JD_dequeue( thrd->queue, thrd ) ; JD_enqueue( JD_ready_queue, thrd )"   *)
(* for the threads of the sequence woken, in whatever queue each one sits   *)
Release(woken) ==
  /\ queue' = [t \in Thread |-> IF t \in Range(woken) THEN "ready" ELSE queue[t]]
  /\ ready_queue' = (IF \A t \in Range(woken) : queue[t] # "ready" THEN ready_queue
                     ELSE Those(ready_queue, Thread \ Range(woken))) \o woken

(* JD_enqueue_timeq of t, unless limit is 0; the limit is kept either way.  *)
(* Its search goes round for ever in a queue that was damaged into a ring   *)
SetTimeLimit(t, limit) ==
  /\ time_limit' = [time_limit EXCEPT ![t] = limit]
  /\ timeq' = IF limit = 0 THEN timeq ELSE EnqueueTimeq(timeq, t, limit)
  /\ internal_error' = (limit # 0 /\ ~SearchEnds(timeq, t, limit))
  /\ UNCHANGED <<in_loop, keep_looping, end_of_simulation, edge_req>>
  /\ expired' = [expired EXCEPT ![t] = FALSE]

(* Mutant of TermSubtree: only the children *)
TermChildrenOnly(t) == term_child[t]

(* The threads that terminate_thread reaches from the children of t *)
TermSubtree(t) == Reach(term_child[t], term_child)

(* Mutant of TermHeirs: the children of t are forgotten *)
TermHeirsLost(t) == term_child[term_parent[t]] \ {t}

(* The children exit_term_link leaves to the termination parent of t *)
TermHeirs(t) == (term_child[term_parent[t]] \ {t}) \cup term_child[t]

(* Mutants of JoinerDone: the parent need not be in thread_join(); the test *)
(* comes before t is unlinked                                               *)
JoinerUnasked(t) == term_parent[t] # None /\ TermHeirs(t) = {}

JoinerTestedEarly(t) == /\ term_parent[t] # None
                        /\ thread_join[term_parent[t]]
                        /\ term_child[term_parent[t]] = {}

(* exit_term_link( t ) wakes the termination parent out of thread_join() *)
JoinerDone(t) == /\ term_parent[t] # None
                 /\ thread_join[term_parent[t]]
                 /\ TermHeirs(t) = {}

(***************************************************************************)
(* exit_term_link: unlink t and hand its children to its parent.  When     *)
(* that leaves a thread_join() without threads to wait for, the time limit *)
(* that is looked at and removed is the one of t, the exiting thread.      *)
(***************************************************************************)
ExitTermLink(t) ==
  LET p == term_parent[t] IN
  /\ IF p = None THEN UNCHANGED <<term_parent, term_child>>
     ELSE /\ term_child' = [term_child EXCEPT ![p] = TermHeirs(t)]
          /\ term_parent' = [c \in Thread |-> IF c \in term_child[t]
                                              THEN p ELSE term_parent[c]]
  /\ IF JoinerDone(t)
     THEN /\ thread_join' = [thread_join EXCEPT ![p] = FALSE]
          /\ time_limit' = [time_limit EXCEPT ![t] = 0]
          /\ timeq' = IF time_limit[t] = 0 THEN timeq ELSE DequeueTimeq(timeq, t)
     ELSE UNCHANGED <<thread_join, time_limit, timeq>>
  /\ UNCHANGED timeout

(* The thread exit_term_link( t ) makes ready *)
WokenJoiner(t) == IF JoinerDone(t) THEN <<term_parent[t]>> ELSE <<>>

(* JD_dequeue reports an internal error when the threads of woken are taken *)
(* from the sleep queue one by one                                          *)
QueueInconsistent(woken) ==
  (\E x \in Range(woken) : queue[x] # "sleep") \/ ~IsInjective(woken)

(* JD_thread_exit after the threads of woken were moved from the sleep      *)
(* queue to the ready queue                                                 *)
BecomeZombie(t, woken, error) ==
  /\ thread' = None
  /\ ready_queue' = ready_queue \o woken
  /\ queue' = [x \in Thread |-> IF x = t THEN "zombie"
                                ELSE IF x \in Range(woken) THEN "ready" ELSE queue[x]]
  /\ at' = [at EXCEPT ![t] = "exited"]
  /\ internal_error' = (error \/ QueueInconsistent(woken))
  /\ UNCHANGED <<in_loop, keep_looping, end_of_simulation, edge_req>>

(* Mutant of LastOut: one child too early *)
LastButOneOut(t, decided) ==
  parent[t] # None /\ (decided \/ wait_child[parent[t]] \in {1, 2})

(* The exit of t ends the wait of its parent; decided short-cuts the count *)
LastOut(t, decided) == parent[t] # None /\ (decided \/ wait_child[parent[t]] = 1)

WokenParent(t, decided) == IF LastOut(t, decided) THEN <<parent[t]>> ELSE <<>>

(* Mutant of CutOff: the siblings keep their parent *)
NoneCutOff(t, decided) == {}

(* The siblings the last exit of a block cuts off from the parent *)
CutOff(t, decided) == IF LastOut(t, decided) THEN child[parent[t]] \ {t} ELSE {}

(* What the three exit instructions do to the sibling list of t *)
LeaveBlock(t, decided) ==
  LET p == parent[t] IN
  /\ parent' = [c \in Thread |-> IF c \in CutOff(t, decided) THEN None ELSE parent[c]]
  /\ child' = IF p = None THEN child
              ELSE [child EXCEPT ![p] = IF LastOut(t, decided) THEN {} ELSE @ \ {t}]
  /\ wait_child' = IF p = None \/ decided THEN wait_child
                   ELSE [wait_child EXCEPT ![p] = @ - 1]

(* The unlinking of a lone sibling that is not the last one out follows the *)
(* NULL pointer sibling_bw                                                  *)
NoSibling(t, decided) ==
  parent[t] # None /\ ~LastOut(t, decided) /\ child[parent[t]] \ {t} = {}
-----------------------------------------------------------------------------
(* The scheduler: v_top_loop and the simulator that calls it *)

(* v_top_loop takes the next thread; the timeout flag is cleared here *)
Dispatch ==
  /\ in_loop /\ keep_looping /\ thread = None /\ ~internal_error
  /\ ready_queue # <<>>
  /\ LET t == Head(ready_queue)
     IN  /\ thread' = t
         /\ queue' = [queue EXCEPT ![t] = "none"]
         /\ timeout' = [timeout EXCEPT ![t] = FALSE]
  /\ ready_queue' = Tail(ready_queue)
  /\ UNCHANGED <<at, loopVars, blockVars, termVars, timeq, time_limit, history>>

(* v_top_loop ends: nothing is ready, or the loop was stopped; it frees the *)
(* zombies                                                                  *)
EndTimeSlot ==
  /\ in_loop /\ thread = None /\ ~internal_error
  /\ ready_queue = <<>> \/ ~keep_looping
  /\ in_loop' = FALSE
  /\ queue' = [t \in Thread |-> IF queue[t] = "zombie" THEN "freed" ELSE queue[t]]
  /\ UNCHANGED <<thread, ready_queue, at, edge_req, keep_looping, end_of_simulation,
                 internal_error, blockVars, termVars, timeVars, history>>

(* process_req_sync: an edge serves the sync request of a thread *)
WakeFromEdge(t) ==
  /\ ~in_loop /\ ~end_of_simulation /\ ~internal_error
  /\ t \in edge_req
  /\ edge_req' = edge_req \ {t}
  /\ Release(<<t>>)
  /\ internal_error' = InNoQueue(<<t>>)
  /\ UNCHANGED <<thread, at, in_loop, keep_looping, end_of_simulation, blockVars,
                 termVars, timeVars, history>>

(* JD_count_timeq: the waits whose limit has run out end.  The loop never   *)
(* does in a queue that was damaged into a ring of them                     *)
CountTimeLimits ==
  LET gone == Expiry(timeq).gone IN
  /\ timeq' = CountTimeq(timeq)
  /\ timeout' = [t \in Thread |-> timeout[t] \/ t \in Range(gone)]
  /\ thread_join' = [t \in Thread |-> thread_join[t] /\ t \notin Range(gone)]
  /\ expired' = [t \in Thread |-> expired[t] \/ t \in Range(gone)]
  /\ Release(gone)
  /\ internal_error' = (InNoQueue(gone) \/ ~CountEnds(timeq))

(* The end of JD_misctf_reason_sync: with threads in the time-out     *)
(* queue, count on a posedge of CLOCK; then call v_top_loop                 *)
StartTimeSlot(posedge) ==
  /\ ~in_loop /\ ~end_of_simulation /\ ~internal_error
  /\ in_loop' = TRUE
  /\ keep_looping' = TRUE
  /\ IF posedge /\ timeq.head # None THEN CountTimeLimits
     ELSE UNCHANGED <<queue, ready_queue, internal_error, timeq, timeout,
                      thread_join, expired>>
  /\ UNCHANGED <<thread, at, edge_req, end_of_simulation, blockVars, term_parent,
                 term_child, terminated, time_limit, forked, creator, value>>
-----------------------------------------------------------------------------
(* A resumed thread finishes the function that suspended it *)

(* Mutant of Stopped: the flag is ignored *)
NeverStopped(t) == FALSE

(* "if( this->terminated )" where a thread was resumed *)
Stopped(t) == terminated[t]

(* The way out of JD_thread_sleep, JD_thread_pause and JD_sync_exec for a   *)
(* terminated thread                                                        *)
ExitTerminated(t) ==
  /\ ExitTermLink(t)
  /\ BecomeZombie(t, WokenJoiner(t), FALSE)
  /\ UNCHANGED <<terminated, blockVars, history>>

(***************************************************************************)
(* JD_sync_exec, the first thing a new thread executes.  With coroutines a *)
(* thread that was terminated before it started is just switched away      *)
(* from: it stays in the termination tree, in no queue.                    *)
(***************************************************************************)
Begin(t) ==
  /\ thread = t /\ at[t] = "start" /\ ~internal_error
  /\ \/ /\ ~Stopped(t)
        /\ at' = [at EXCEPT ![t] = "code"]
        /\ UNCHANGED <<thread, ready_queue, queue, loopVars, blockVars, termVars,
                       timeVars, history>>
     \/ /\ Stopped(t) /\ ~SelfThreadControl
        /\ ExitTerminated(t)
     \/ /\ Stopped(t) /\ SelfThreadControl
        /\ thread' = None
        /\ UNCHANGED <<ready_queue, queue, at, loopVars, blockVars, termVars,
                       timeVars, history>>

(* The rest of JD_thread_sleep or JD_thread_pause, and of its caller *)
Resume(t) ==
  /\ thread = t /\ at[t] \in ResumePoints /\ ~internal_error
  /\ \/ Stopped(t) /\ ExitTerminated(t)
     \/ /\ ~Stopped(t)
        /\ at' = [at EXCEPT ![t] = "code"]
        /\ acc' = IF at[t] = "thread_join"
                  THEN [acc EXCEPT ![t] = IF timeout[t] THEN 0 ELSE 1] ELSE acc
        /\ UNCHANGED <<thread, ready_queue, queue, loopVars, parent, child, wait_child,
                       forking, form, termVars, timeVars, history>>
-----------------------------------------------------------------------------
(* Instructions: fork, exec, join, spoon, knife, exit, terminate *)

(* JD_exec_fork; p_and and p_or have loaded their neutral element before *)
Fork(t, f) ==
  /\ Runs(t)
  /\ \E c \in Thread : queue[c] = "unallocated"      \* the bound on threads
  /\ forking' = f
  /\ forked' = [forked EXCEPT ![t] = {}]
  /\ acc' = [acc EXCEPT ![t] = IF f = "fork" THEN acc[t] ELSE IF f = "p_and" THEN 1 ELSE 0]
  /\ UNCHANGED <<runVars, loopVars, parent, child, wait_child, form, termVars,
                 timeVars, creator, value, expired>>

(* JD_exec_exec with JD_copy_thread: c is the new thread *)
Exec(t, c) ==
  /\ Executes(t) /\ forking \in Forms
  /\ queue[c] = "unallocated"
  /\ parent' = [parent EXCEPT ![c] = t]
  /\ child' = [child EXCEPT ![t] = @ \cup {c}]
  /\ form' = [form EXCEPT ![c] = forking]
  /\ term_parent' = [term_parent EXCEPT ![c] = t]
  /\ term_child' = [term_child EXCEPT ![t] = @ \cup {c}]
  /\ queue' = [queue EXCEPT ![c] = "ready"]
  /\ ready_queue' = Append(ready_queue, c)
  /\ forked' = [forked EXCEPT ![t] = @ \cup {c}]
  /\ creator' = [creator EXCEPT ![c] = t]
  /\ UNCHANGED <<thread, at, loopVars, wait_child, forking, acc, thread_join,
                 terminated, timeVars, value, expired>>

(* The end of a block that was given at least one statement *)
EndsBlock(t, forms) == Executes(t) /\ forking \in forms /\ forked[t] # {}

(* Wait in the sleep queue for n children *)
WaitForChildren(t, n, point) ==
  /\ wait_child' = [wait_child EXCEPT ![t] = n]
  /\ forking' = "no"
  /\ Suspend(t, "sleep", point)
  /\ expired' = [expired EXCEPT ![t] = FALSE]
  /\ UNCHANGED <<ready_queue, loopVars, parent, child, form, acc, termVars, timeVars,
                 forked, creator, value>>

Join(t) == EndsBlock(t, Forms) /\ WaitForChildren(t, Cardinality(forked[t]), "join")

Spoon(t) == EndsBlock(t, {"fork"}) /\ WaitForChildren(t, 1, "spoon")

Knife(t) ==
  /\ EndsBlock(t, {"fork"})
  /\ forking' = "no"
  /\ parent' = [c \in Thread |-> IF c \in child[t] THEN None ELSE parent[c]]
  /\ child' = [child EXCEPT ![t] = {}]
  /\ UNCHANGED <<runVars, loopVars, wait_child, form, acc, termVars, timeVars, history>>

(* What JD_exec_exit, .._p_and and .._p_or have in common *)
ExitInstruction(t, decided) ==
  /\ LeaveBlock(t, decided)
  /\ ExitTermLink(t)
  /\ BecomeZombie(t, WokenParent(t, decided) \o WokenJoiner(t), NoSibling(t, decided))
  /\ UNCHANGED <<forking, form, forked, creator, expired>>

Exit(t) ==
  /\ Runs(t) /\ t # Main /\ form[t] = "fork"
  /\ ExitInstruction(t, FALSE)
  /\ UNCHANGED <<terminated, acc, value>>

(* Mutant of Combined: the operators are exchanged *)
CombinedExchanged(t, v) == LET a == acc[parent[t]] IN
                           IF form[t] = "p_or" THEN (IF a = 0 THEN 0 ELSE v)
                                               ELSE (IF a = 1 THEN 1 ELSE v)

(* The value of the block so far, with the value v of t *)
Combined(t, v) == LET a == acc[parent[t]] IN
                  IF form[t] = "p_and" THEN (IF a = 0 THEN 0 ELSE v)
                                       ELSE (IF a = 1 THEN 1 ELSE v)

(* The value that decides a block without the rest of its children *)
Decisive(f) == IF f = "p_and" THEN 0 ELSE 1

(* JD_exec_exit_p_and and JD_exec_exit_p_or *)
ExitWithValue(t, v) ==
  LET p == parent[t]
      decided == p # None /\ Combined(t, v) = Decisive(form[t])
  IN  /\ Runs(t) /\ t # Main /\ form[t] \in {"p_and", "p_or"}
      /\ acc' = IF p = None THEN acc ELSE [acc EXCEPT ![p] = Combined(t, v)]
      /\ terminated' = [c \in Thread |-> terminated[c] \/ c \in CutOff(t, decided)]
      /\ value' = [value EXCEPT ![t] = v]
      /\ ExitInstruction(t, decided)

(* JD_exec_terminate: cut the threads below t off and mark them *)
Terminate(t) ==
  LET below == TermSubtree(t) IN
  /\ Runs(t)
  /\ terminated' = [c \in Thread |-> terminated[c] \/ c \in below]
  /\ term_parent' = [c \in Thread |-> IF c \in below THEN None ELSE term_parent[c]]
  /\ term_child' = [c \in Thread |-> IF c \in below \cup {t} THEN {} ELSE term_child[c]]
  /\ UNCHANGED <<runVars, loopVars, blockVars, thread_join, timeVars, history>>
-----------------------------------------------------------------------------
(* System functions *)

(* Mutant of ThreadPause: JD_enqueue_top for JD_enqueue *)
ThreadPauseOnTop(t) ==
  /\ Runs(t)
  /\ ready_queue' = <<t>> \o ready_queue
  /\ Suspend(t, "ready", "pause")
  /\ UNCHANGED <<loopVars, blockVars, termVars, timeVars, history>>

(* JD_sf_thread_pause *)
ThreadPause(t) ==
  /\ Runs(t)
  /\ ready_queue' = Append(ready_queue, t)
  /\ Suspend(t, "ready", "pause")
  /\ UNCHANGED <<loopVars, blockVars, termVars, timeVars, history>>

(* JD_sf_thread_join; without descendants it returns at once *)
ThreadJoin(t, limit) ==
  /\ Runs(t) /\ term_child[t] # {}
  /\ SetTimeLimit(t, limit)
  /\ thread_join' = [thread_join EXCEPT ![t] = TRUE]
  /\ Suspend(t, "sleep", "thread_join")
  /\ UNCHANGED <<ready_queue, blockVars, term_parent, term_child, terminated, timeout,
                 forked, creator, value>>

(* JD_sync_on_port: wait for a later edge of a clock *)
SyncOnEdge(t) ==
  /\ Runs(t)
  /\ Suspend(t, "port", "port")
  /\ edge_req' = edge_req \cup {t}
  /\ expired' = [expired EXCEPT ![t] = FALSE]
  /\ UNCHANGED <<ready_queue, in_loop, keep_looping, end_of_simulation,
                 internal_error, blockVars, termVars, timeVars, forked, creator,
                 value>>

(* Stop v_top_loop with t at the front of the ready queue *)
StopLoop(t, end) ==
  /\ Runs(t)
  /\ keep_looping' = FALSE
  /\ end_of_simulation' = end
  /\ ready_queue' = <<t>> \o ready_queue
  /\ Suspend(t, "ready", "pause")
  /\ UNCHANGED <<in_loop, internal_error, edge_req, blockVars, termVars, timeVars, history>>

(* JEDA_exit_simulation; JEDA_fatal_error does the same to the threads *)
ExitSimulation(t) == StopLoop(t, TRUE)

(* JEDA_verif_error: the next time slot goes on with t *)
VerifError(t) == StopOnFirstError /\ StopLoop(t, end_of_simulation)

(* The return from main(): JEDA_end_of_simulation and JD_thread_kill *)
MainReturns ==
  /\ Runs(Main)
  /\ thread' = None
  /\ end_of_simulation' = TRUE
  /\ queue' = [queue EXCEPT ![Main] = "zombie"]
  /\ at' = [at EXCEPT ![Main] = "exited"]
  /\ UNCHANGED <<ready_queue, in_loop, keep_looping, internal_error, edge_req,
                 blockVars, termVars, timeVars, history>>
-----------------------------------------------------------------------------
Scheduler == \/ Dispatch
             \/ EndTimeSlot
             \/ \E posedge \in BOOLEAN : StartTimeSlot(posedge)
             \/ \E t \in Thread : WakeFromEdge(t)

(* The fork, join, spoon, knife and exit of a block *)
Blocks(t) == \/ \E f \in Forms : Fork(t, f)
             \/ \E c \in Thread : Exec(t, c)
             \/ Join(t) \/ Spoon(t) \/ Knife(t)
             \/ Exit(t)
             \/ \E v \in {0, 1} : ExitWithValue(t, v)

Step(t) == \/ Begin(t) \/ Resume(t)
           \/ Blocks(t)
           \/ Terminate(t)
           \/ ThreadPause(t)
           \/ \E limit \in JoinLimits \cup {0} : ThreadJoin(t, limit)
           \/ SyncOnEdge(t)
           \/ ExitSimulation(t) \/ VerifError(t)

(* After the end of the simulation v_top_loop is not called again *)
SimulationOver == ~in_loop /\ end_of_simulation /\ UNCHANGED vars

Next == Scheduler \/ MainReturns \/ SimulationOver \/ \E t \in Thread : Step(t)

Spec == Init /\ [][Next]_vars

(***************************************************************************)
(* The process executes: v_top_loop goes on, and a thread that was resumed *)
(* reaches its next instruction, one after the other, until it suspends    *)
(* itself.  The rest of the simulator keeps its clock running.             *)
(***************************************************************************)
Fairness == /\ WF_vars(Dispatch) /\ WF_vars(EndTimeSlot)
            /\ WF_vars(StartTimeSlot(TRUE))
            /\ WF_vars(MainReturns \/ \E t \in Thread : Step(t))

FairSpec == Spec /\ Fairness
-----------------------------------------------------------------------------
RunTypes   == /\ thread \in Link
              /\ ready_queue \in Seq(Thread)
              /\ queue \in [Thread -> QueueNames]
              /\ at \in [Thread -> Points]

LoopTypes  == /\ in_loop \in BOOLEAN /\ keep_looping \in BOOLEAN
              /\ end_of_simulation \in BOOLEAN /\ internal_error \in BOOLEAN
              /\ edge_req \subseteq Thread

BlockTypes == /\ parent \in [Thread -> Link]
              /\ child \in [Thread -> SUBSET Thread]
              /\ wait_child \in [Thread -> Int]
              /\ forking \in Forms \cup {"no"}
              /\ form \in [Thread -> Forms]
              /\ acc \in [Thread -> {0, 1}]

TermTypes  == /\ term_parent \in [Thread -> Link]
              /\ term_child \in [Thread -> SUBSET Thread]
              /\ thread_join \in [Thread -> BOOLEAN]
              /\ terminated \in [Thread -> BOOLEAN]

TimeTypes  == /\ timeq \in TimeQueues
              /\ time_limit \in [Thread -> Nat]
              /\ timeout \in [Thread -> BOOLEAN]

HistoryTypes == /\ forked \in [Thread -> SUBSET Thread]
                /\ creator \in [Thread -> Link]
                /\ value \in [Thread -> {0, 1, None}]
                /\ expired \in [Thread -> BOOLEAN]

TypeOK == RunTypes /\ LoopTypes /\ BlockTypes /\ TermTypes /\ TimeTypes /\ HistoryTypes

Gone(t) == queue[t] \in {"zombie", "freed"}

Alive(t) == queue[t] \notin {"unallocated", "zombie", "freed"}

(* t was switched away from by JD_sync_exec and is in no queue *)
Lost(t) == queue[t] = "none" /\ thread # t

(* t sleeps in a block *)
InBlock(t) == queue[t] = "sleep" /\ at[t] \in {"join", "spoon"}

(* The ancestors of t: those that forked it, directly or not *)
Creators == [t \in Thread |-> {creator[t]} \ {None}]

Ancestors(t) == Reach(Creators[t], Creators)

(* The ancestor of t that is next to t among those that have not exited *)
IsNearest(a, t) == /\ a \in Ancestors(t) /\ ~Gone(a)
                   /\ \A b \in Ancestors(t) : Gone(b) \/ b = a \/ b \in Ancestors(a)

(* No queue is entered twice and no thread is in two: the check in          *)
(* JD_dequeue ("thread queue inconsistent") and the NULL pointers in the    *)
(* exit instructions are never reached, and the loops over the time-out     *)
(* queue end.                                                               *)
NoInternalError == ~internal_error

(* A thread is in exactly one place: it executes, or it is once in the      *)
(* ready queue, or it is in the queue of what it waits for, where the one   *)
(* who is to wake it looks for it.  The one exception is a thread that was  *)
(* terminated before it began.                                              *)
OnePlace ==
  /\ IsInjective(ready_queue)
  /\ \A t \in Thread : queue[t] = "ready" <=> t \in Range(ready_queue)
  /\ \A t \in Thread : thread = t => queue[t] = "none"
  /\ \A t \in Thread : Lost(t) => terminated[t] /\ at[t] = "start"
  /\ \A t \in Thread : queue[t] \in {"port"} \cup ObjQueues => at[t] = queue[t]
  /\ \A t \in Thread : queue[t] = "sleep" => at[t] \in {"join", "spoon", "thread_join"}
  /\ edge_req = {t \in Thread : queue[t] = "port"}

(* The wait of a parent is neither lost nor ended twice: while it sleeps in *)
(* its block, every child it still counts is alive, not terminated, and     *)
(* reports to it, and no other thread does; with join it counts them all.   *)
BlockCounts ==
  \A p \in Thread : InBlock(p) /\ ~terminated[p] =>
    /\ child[p] = {c \in Thread : parent[c] = p /\ ~Gone(c)}
    /\ \A c \in child[p] : Alive(c) /\ ~terminated[c]
    /\ child[p] # {}
    /\ wait_child[p] = IF at[p] = "spoon" THEN 1 ELSE Cardinality(child[p])

(* What terminate and thread_join() work on is the family of a thread: the  *)
(* termination parent of a running thread is its nearest ancestor that has  *)
(* not exited, and the lists below a thread hold no thread that has.        *)
TermTreeIsFamily ==
  /\ \A t \in Thread : Alive(t) /\ ~terminated[t] =>
       \A a \in Thread : IsNearest(a, t) => term_parent[t] = a /\ t \in term_child[a]
  /\ \A t \in Thread : ~Gone(t) =>
       \A c \in term_child[t] : Alive(c) /\ term_parent[c] = t

(* A terminated thread never executes another instruction of its program. *)
TerminatedIsStopped == \A t \in Thread : terminated[t] => at[t] # "code"

(* No thread that can still run holds a pointer to a thread whose memory    *)
(* v_top_loop has freed: neither the parent its exit instruction reports to *)
(* nor its links in the termination tree.                                   *)
NoDanglingThread ==
  ~end_of_simulation =>
    \A t \in Thread : Alive(t) =>
      /\ term_parent[t] # None => queue[term_parent[t]] # "freed"
      /\ \A c \in term_child[t] : queue[c] # "freed"
      /\ ~terminated[t] /\ parent[t] # None => queue[parent[t]] # "freed"

(* A sleeping thread_join() waits for some thread that can still execute.   *)
(* (The manual: it waits for the completion of all the descendant threads.) *)
ThreadJoinHasCause ==
  \A p \in Thread : queue[p] = "sleep" /\ at[p] = "thread_join" /\ ~terminated[p] =>
    \E c \in term_child[p] : ~Lost(c)

(* A join goes on only after every child of the block has exited, a spoon   *)
(* only after one has.                                                      *)
BlockEnds ==
  [][\A p \in Thread : at[p] \in {"join", "spoon"} /\ at'[p] = "code" =>
       /\ \E c \in forked[p] : Gone(c)
       /\ (at[p] = "join" /\ \A c \in forked[p] : form[c] = "fork") =>
            \A c \in forked[p] : Gone(c)]_vars

(* p_and is the conjunction and p_or the disjunction of their operands: the *)
(* deciding value is returned exactly if some operand had it, the other one *)
(* only when all operands have been evaluated, and after a decision the     *)
(* operands still at work are terminated.                                   *)
ParallelResult ==
  [][\A p \in Thread : at[p] = "join" /\ at'[p] = "code" =>
       \A f \in {"p_and", "p_or"} : (\A c \in forked[p] : form[c] = f) =>
         /\ acc[p] = Decisive(f) <=> \E c \in forked[p] : value[c] = Decisive(f)
         /\ acc[p] # Decisive(f) => \A c \in forked[p] : Gone(c)
         /\ \A c \in forked[p] : Gone(c) \/ terminated[c]]_vars

(* terminate reaches all living descendants of the thread, through parents  *)
(* that have exited long ago, and nobody else.                              *)
TerminateIsExact ==
  [][\A t \in Thread : Terminate(t) =>
       \A c \in Thread : Alive(c) =>
         (terminated'[c] <=> terminated[c] \/ t \in Ancestors(c))]_vars

(* thread_join() goes on, other than by its time limit, only when every     *)
(* descendant has exited or was terminated.                                 *)
ThreadJoinComplete ==
  [][\A p \in Thread : at[p] = "thread_join" /\ at'[p] = "code" /\ ~expired[p] =>
       \A c \in Thread : p \in Ancestors(c) => Gone(c) \/ terminated[c]]_vars

(* thread_join() tells its caller that the time limit ended the wait.       *)
(* (The manual: when the time out happens it returns 0, otherwise 1.)       *)
ThreadJoinReports ==
  [][\A p \in Thread : at[p] = "thread_join" /\ at'[p] = "code" =>
       acc'[p] = IF expired[p] THEN 0 ELSE 1]_vars

(* The loops of JD_enqueue_timeq and JD_count_timeq come to their end       *)
(* (thread.c:214-223: "The count decrement can be done just by decrementing *)
(* the count in the top of the queue"), for every limit a program uses.     *)
TimeLoopsEnd ==
  /\ timeq.head # None => CountEnds(timeq)
  /\ \A t \in Thread : Runs(t) => \A limit \in JoinLimits : SearchEnds(timeq, t, limit)

(* The ready queue starves nobody: a ready thread is resumed, unless the    *)
(* simulation ends before its turn, or nothing goes on any more because of  *)
(* an internal error or of a loop over a time-out queue that thread.c:891   *)
(* has damaged (see TimeLoopsEnd).                                          *)
ReadyRuns ==
  \A t \in Thread : queue[t] = "ready" ~> thread = t \/ end_of_simulation \/ internal_error
=============================================================================
