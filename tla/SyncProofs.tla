----------------------------- MODULE SyncProofs ------------------------------
(***************************************************************************)
(* Proofs about SyncObjects, for any number of threads, all time limits    *)
(* and either build: semaphores lose no unit and serve in order, mail is   *)
(* delivered once and in order, and nobody waits on what is there: units,  *)
(* triggers, messages and the free keys of regions.                        *)
(***************************************************************************)
EXTENDS SyncObjects, ThreadsProofs

(***************************************************************************)
(* What the programs of SyncObjects do with the kernel: nobody is in       *)
(* thread_join(), the children of a block have a parent only until the     *)
(* knife that ends it, and the thread that executes is in no queue.  So    *)
(* the exit of a thread wakes nobody.                                      *)
(***************************************************************************)
Calm ==
  /\ thread # None => in_loop
  /\ \A t \in Thread : thread = t => queue[t] = "none"
  /\ \A t \in Thread : ~thread_join[t]
  /\ forking # "no" => thread # None /\ at[thread] = "code"
  /\ \A c \in Thread : parent[c] # None =>
       forking # "no" /\ parent[c] = thread /\ c \in child[parent[c]]

(* What a step does to the queues and points of the threads: it moves them  *)
(* to those of the kernel, if at all                                        *)
StaysInKernel ==
  \A t \in Thread : /\ queue'[t] = queue[t] \/ queue'[t] \in KernelQueues
                    /\ at'[t] = at[t] \/ at'[t] \in KernelPoints

LEMMA QueuesApart == ObjQueues \cap KernelQueues = {} /\ ObjQueues \cap KernelPoints = {}
  BY QueueAssumption

LEMMA NobodyJoins ==
  ASSUME TypeOK, Calm, NEW t \in Thread PROVE ~JoinerDone(t) /\ WokenJoiner(t) = <<>>
<1>1. term_parent[t] # None => term_parent[t] \in Thread
  BY DEF TypeOK, TermTypes, Link
<1>. QED BY <1>1 DEF Calm, JoinerDone, WokenJoiner

(* The exit of a thread whose parent does not wait: it becomes a zombie and *)
(* moves nobody                                                             *)
LEMMA QuietZombie ==
  ASSUME TypeOK, Calm, NEW t \in Thread, thread = t, NEW error, BecomeZombie(t, <<>>, error)
  PROVE  /\ thread' = None /\ in_loop' = in_loop
         /\ queue' = [queue EXCEPT ![t] = "zombie"]
         /\ at' = [at EXCEPT ![t] = "exited"]
<1>1. Range(<<>>) = {}
  BY EmptyOnce
<1>2. queue' = [x \in Thread |-> IF x = t THEN "zombie" ELSE queue[x]]
  BY <1>1 DEF BecomeZombie
<1>3. queue' = [queue EXCEPT ![t] = "zombie"]
  BY <1>2 DEF TypeOK, RunTypes
<1>. QED BY <1>3 DEF BecomeZombie, TypeOK, RunTypes

LEMMA ExitTerminatedCalm ==
  ASSUME TypeOK, Calm, NEW t \in Thread, thread = t, at[t] # "code", ExitTerminated(t)
  PROVE  Calm' /\ StaysInKernel /\ in_loop' = in_loop
<1>1. WokenJoiner(t) = <<>> /\ ~JoinerDone(t)
  BY NobodyJoins
<1>2. BecomeZombie(t, <<>>, FALSE)
  BY <1>1 DEF ExitTerminated
<1>3. /\ thread' = None /\ in_loop' = in_loop
      /\ queue' = [queue EXCEPT ![t] = "zombie"]
      /\ at' = [at EXCEPT ![t] = "exited"]
  BY <1>2, QuietZombie
<1>4. UNCHANGED <<thread_join, parent, child, forking>>
  BY <1>1 DEF ExitTerminated, ExitTermLink, blockVars
<1>5. forking = "no"
  BY DEF Calm
<1>6. Calm'
  BY <1>3, <1>4, <1>5, NoneAssumption DEF Calm
<1>7. StaysInKernel
  BY <1>3 DEF StaysInKernel, TypeOK, RunTypes, KernelQueues, KernelPoints
<1>. QED BY <1>3, <1>6, <1>7

(* An exit between blocks *)
LEMMA ExitCalm ==
  ASSUME TypeOK, Calm, NEW t \in Thread, Exit(t)
  PROVE  Calm' /\ StaysInKernel /\ in_loop' = in_loop
<1>1. thread = t /\ forking = "no" /\ parent[t] = None /\ ExitInstruction(t, FALSE)
  BY DEF Exit, Runs, Executes, Calm
<1>2. ~LastOut(t, FALSE) /\ WokenParent(t, FALSE) = <<>> /\ CutOff(t, FALSE) = {}
  BY <1>1 DEF LastOut, WokenParent, CutOff
<1>3. WokenJoiner(t) = <<>> /\ ~JoinerDone(t)
  BY NobodyJoins
<1>4. BecomeZombie(t, <<>>, NoSibling(t, FALSE))
  <2>1. <<>> \o <<>> = <<>>
    OBVIOUS
  <2>. QED BY <1>1, <1>2, <1>3, <2>1 DEF ExitInstruction
<1>5. /\ thread' = None /\ in_loop' = in_loop
      /\ queue' = [queue EXCEPT ![t] = "zombie"]
      /\ at' = [at EXCEPT ![t] = "exited"]
  BY <1>1, <1>4, QuietZombie
<1>6. /\ parent' = [c \in Thread |-> parent[c]] /\ forking' = forking
      /\ UNCHANGED thread_join
  BY <1>1, <1>2, <1>3 DEF ExitInstruction, LeaveBlock, ExitTermLink
<1>7. Calm'
  BY <1>1, <1>5, <1>6, NoneAssumption DEF Calm
<1>8. StaysInKernel
  BY <1>5 DEF StaysInKernel, TypeOK, RunTypes, KernelQueues, KernelPoints
<1>. QED BY <1>5, <1>7, <1>8

(* The flag of a knife: the children of the block lose their parent *)
LEMMA KnifeCalm ==
  ASSUME TypeOK, Calm, NEW t \in Thread, Knife(t) PROVE Calm' /\ StaysInKernel
<1>1. /\ thread = t /\ UNCHANGED <<thread, queue, at, thread_join, in_loop>>
      /\ parent' = [c \in Thread |-> IF c \in child[t] THEN None ELSE parent[c]]
  BY DEF Knife, EndsBlock, Executes, runVars, termVars, loopVars
<1>2. \A c \in Thread : parent'[c] = None
  BY <1>1 DEF Calm
<1>3. forking' = "no"
  BY DEF Knife
<1>4. Calm'
  BY <1>1, <1>2, <1>3 DEF Calm
<1>. QED BY <1>1, <1>4 DEF StaysInKernel

LEMMA ExecCalm ==
  ASSUME TypeOK, Calm, NEW t \in Thread, NEW c \in Thread, Exec(t, c)
  PROVE  Calm' /\ StaysInKernel
<1>1. /\ thread = t /\ forking # "no" /\ queue[c] = "unallocated" /\ queue[t] = "none"
      /\ UNCHANGED <<thread, at, thread_join, forking, in_loop>>
      /\ queue' = [queue EXCEPT ![c] = "ready"]
      /\ parent' = [parent EXCEPT ![c] = t]
      /\ child' = [child EXCEPT ![t] = @ \cup {c}]
  BY DEF Exec, Executes, Forms, Calm, loopVars
<1>2. c # t
  BY <1>1
<1>3. \A x \in Thread : thread' = x => queue'[x] = "none"
  BY <1>1, <1>2 DEF Calm
<1>4. \A x \in Thread : parent'[x] # None => parent'[x] = thread' /\ x \in child'[parent'[x]]
  BY <1>1 DEF Calm, TypeOK, BlockTypes
<1>5. Calm'
  BY <1>1, <1>3, <1>4 DEF Calm
<1>. QED BY <1>1, <1>5 DEF StaysInKernel, TypeOK, RunTypes, KernelQueues

LEMMA ForkCalm ==
  ASSUME TypeOK, Calm, NEW t \in Thread, Fork(t, "fork") PROVE Calm' /\ StaysInKernel
<1>1. /\ thread = t /\ at[t] = "code" /\ forking = "no"
      /\ UNCHANGED <<thread, queue, at, thread_join, parent, child, in_loop>>
  BY DEF Fork, Runs, Executes, runVars, termVars, loopVars
<1>. QED BY <1>1, NoneAssumption DEF Calm, StaysInKernel

(* The steps at which the loop or a thread goes on, or gives way to others *)
LEMMA DispatchCalm ==
  ASSUME TypeOK, Calm, Dispatch PROVE Calm' /\ StaysInKernel
<1>1. /\ thread = None /\ thread' = Head(ready_queue)
      /\ queue' = [queue EXCEPT ![Head(ready_queue)] = "none"]
      /\ in_loop' /\ UNCHANGED <<at, thread_join, parent, child, forking>>
  BY DEF Dispatch, blockVars, termVars, loopVars
<1>2. queue' \in [Thread -> QueueNames] /\ \A t \in Thread : thread' = t => queue'[t] = "none"
  BY <1>1 DEF TypeOK, RunTypes, QueueNames, KernelQueues
<1>3. Calm'
  BY <1>1, <1>2 DEF Calm
<1>. QED BY <1>1, <1>3 DEF StaysInKernel, TypeOK, RunTypes, KernelQueues

LEMMA SlotCalm ==
  ASSUME TypeOK, Calm, EndTimeSlot \/ \E posedge \in BOOLEAN : StartTimeSlot(posedge)
  PROVE  Calm' /\ StaysInKernel
<1>1. UNCHANGED <<thread, at, parent, child, forking>>
  BY DEF EndTimeSlot, StartTimeSlot, blockVars
<1>2. \A t \in Thread : ~thread_join'[t]
  BY DEF EndTimeSlot, StartTimeSlot, CountTimeLimits, termVars, Calm
<1>3. thread = None
  BY DEF EndTimeSlot, StartTimeSlot, Calm
<1>4. \A t \in Thread : queue'[t] = queue[t] \/ queue'[t] \in KernelQueues
  <2>1. CASE EndTimeSlot
    <3>1. queue' = [t \in Thread |-> IF queue[t] = "zombie" THEN "freed" ELSE queue[t]]
      BY <2>1 DEF EndTimeSlot
    <3>. QED BY <3>1 DEF KernelQueues
  <2>2. CASE UNCHANGED queue
    BY <2>2
  <2>3. CASE \E woken : Release(woken)
    BY <2>3 DEF Release, KernelQueues
  <2>. QED BY <2>1, <2>2, <2>3 DEF StartTimeSlot, CountTimeLimits
<1>5. Calm'
  BY <1>1, <1>2, <1>3, NoneAssumption DEF Calm
<1>. QED BY <1>1, <1>4, <1>5 DEF StaysInKernel

LEMMA BeginCalm ==
  ASSUME TypeOK, Calm, NEW t \in Thread, Begin(t)
  PROVE  Calm' /\ StaysInKernel /\ in_loop' = in_loop
<1>1. thread = t /\ at[t] # "code" /\ forking = "no" /\ thread # None /\ in_loop
  BY NoneAssumption DEF Begin, Calm
<1>2. CASE ExitTerminated(t)
  BY <1>1, <1>2, ExitTerminatedCalm
<1>3. CASE ~ExitTerminated(t)
  <2>1. /\ at' = [at EXCEPT ![t] = "code"] \/ at' = at
        /\ thread' = thread \/ thread' = None
        /\ UNCHANGED <<queue, in_loop, parent, child, forking, thread_join>>
    BY <1>3 DEF Begin, loopVars, blockVars, termVars
  <2>2. Calm'
    BY <1>1, <2>1, NoneAssumption DEF Calm
  <2>. QED BY <2>1, <2>2 DEF StaysInKernel, TypeOK, RunTypes, KernelPoints
<1>. QED BY <1>2, <1>3

LEMMA ResumeCalm ==
  ASSUME TypeOK, Calm, NEW t \in Thread, Resume(t)
  PROVE  Calm' /\ StaysInKernel /\ in_loop' = in_loop
<1>1. thread = t /\ at[t] # "code" /\ forking = "no"
  BY DEF Resume, ResumePoints, Calm
<1>2. CASE ExitTerminated(t)
  BY <1>1, <1>2, ExitTerminatedCalm
<1>3. CASE ~ExitTerminated(t)
  <2>1. /\ at' = [at EXCEPT ![t] = "code"]
        /\ UNCHANGED <<thread, queue, in_loop, parent, child, forking, thread_join>>
    BY <1>3 DEF Resume, loopVars, termVars
  <2>2. Calm'
    BY <1>1, <2>1 DEF Calm
  <2>. QED BY <2>1, <2>2 DEF StaysInKernel, TypeOK, RunTypes, KernelPoints
<1>. QED BY <1>2, <1>3

LEMMA TerminateCalm ==
  ASSUME TypeOK, Calm, NEW t \in Thread, Terminate(t) PROVE Calm' /\ StaysInKernel
<1>1. UNCHANGED <<thread, queue, at, in_loop, parent, child, forking, thread_join>>
  BY DEF Terminate, runVars, loopVars, blockVars
<1>. QED BY <1>1 DEF Calm, StaysInKernel

(* A thread suspends itself *)
LEMMA SuspendCalm ==
  ASSUME TypeOK, Calm, NEW t \in Thread, Runs(t), NEW q, NEW p, Suspend(t, q, p),
         UNCHANGED <<in_loop, parent, child, forking, thread_join>>
  PROVE  Calm'
<1>1. thread = t /\ forking = "no" /\ thread' = None
  BY DEF Runs, Executes, Suspend
<1>. QED BY <1>1, NoneAssumption DEF Calm

LEMMA PauseCalm ==
  ASSUME TypeOK, Calm, NEW t \in Thread, ThreadPause(t) \/ \E end \in BOOLEAN : StopLoop(t, end)
  PROVE  Calm' /\ StaysInKernel /\ in_loop' = in_loop
<1>1. /\ Runs(t) /\ Suspend(t, "ready", "pause")
      /\ UNCHANGED <<in_loop, parent, child, forking, thread_join>>
  BY DEF ThreadPause, StopLoop, loopVars, blockVars, termVars
<1>2. Calm'
  BY <1>1, SuspendCalm
<1>. QED BY <1>1, <1>2 DEF StaysInKernel, Suspend, TypeOK, RunTypes, KernelQueues,
                       KernelPoints, ResumePoints

LEMMA MainReturnsCalm ==
  ASSUME TypeOK, Calm, MainReturns PROVE Calm' /\ StaysInKernel
<1>1. /\ thread = Main /\ forking = "no" /\ thread' = None
      /\ queue' = [queue EXCEPT ![Main] = "zombie"]
      /\ at' = [at EXCEPT ![Main] = "exited"]
      /\ UNCHANGED <<in_loop, parent, child, forking, thread_join>>
  BY DEF MainReturns, Runs, Executes, blockVars, termVars
<1>2. Calm'
  BY <1>1, NoneAssumption DEF Calm
<1>. QED BY <1>1, <1>2 DEF StaysInKernel, TypeOK, RunTypes, KernelQueues, KernelPoints

LEMMA CalmSame == TypeOK /\ Calm /\ UNCHANGED vars => Calm' /\ StaysInKernel
<1> SUFFICES ASSUME TypeOK, Calm, UNCHANGED vars PROVE Calm' /\ StaysInKernel
  OBVIOUS
<1>1. UNCHANGED <<thread, queue, at, in_loop, parent, child, forking, thread_join>>
  BY DEF vars, runVars, loopVars, blockVars, termVars
<1>. QED BY <1>1 DEF Calm, StaysInKernel

(* A step of the kernel keeps the types, stays calm, and moves threads only *)
(* to places of the kernel                                                  *)
LEMMA KernelStepCalm ==
  ASSUME TypeOK, Calm, KernelStep PROVE TypeOK' /\ Calm' /\ StaysInKernel
<1>1. CASE Dispatch \/ EndTimeSlot \/ \E posedge \in BOOLEAN : StartTimeSlot(posedge)
  BY <1>1, DispatchTypes, EndTimeSlotTypes, StartTimeSlotTypes, DispatchCalm, SlotCalm
<1>2. CASE MainReturns \/ SimulationOver
  BY <1>2, MainReturnsTypes, MainReturnsCalm, TypesSame, CalmSame DEF SimulationOver
<1>3. ASSUME NEW t \in Thread, Begin(t) \/ Resume(t) PROVE TypeOK' /\ Calm' /\ StaysInKernel
  BY <1>3, BeginTypes, ResumeTypes, BeginCalm, ResumeCalm
<1>4. ASSUME NEW t \in Thread, Fork(t, "fork") \/ Knife(t) \/ Exit(t)
      PROVE  TypeOK' /\ Calm' /\ StaysInKernel
  <2>1. "fork" \in Forms
    BY DEF Forms
  <2>. QED BY <1>4, <2>1, ForkTypes, KnifeTypes, ExitTypes, ForkCalm, KnifeCalm, ExitCalm
<1>5. ASSUME NEW t \in Thread, NEW c \in Thread, Exec(t, c)
      PROVE  TypeOK' /\ Calm' /\ StaysInKernel
  BY <1>5, ExecTypes, ExecCalm
<1>6. ASSUME NEW t \in Thread, Terminate(t) \/ ThreadPause(t)
      PROVE  TypeOK' /\ Calm' /\ StaysInKernel
  BY <1>6, TerminateTypes, ThreadPauseTypes, TerminateCalm, PauseCalm
<1>. QED BY <1>1, <1>2, <1>3, <1>4, <1>5, <1>6 DEF KernelStep
-----------------------------------------------------------------------------
(* The parts of a queue *)

LEMMA FrontPart ==
  ASSUME NEW X, NEW s \in Seq(X), NEW n \in 0 .. Len(s)
  PROVE  /\ SubSeq(s, 1, n) \in Seq(X) /\ Len(SubSeq(s, 1, n)) = n
         /\ Range(SubSeq(s, 1, n)) = {s[i] : i \in 1 .. n}
<1>1. /\ SubSeq(s, 1, n) \in Seq(X) /\ Len(SubSeq(s, 1, n)) = n
      /\ \A i \in 1 .. n : SubSeq(s, 1, n)[i] = s[i]
  OBVIOUS
<1>2. DOMAIN SubSeq(s, 1, n) = 1 .. n
  BY <1>1
<1>. QED BY <1>1, <1>2 DEF Range

LEMMA RestPart ==
  ASSUME NEW X, NEW s \in Seq(X), NEW n \in 0 .. Len(s)
  PROVE  /\ SubSeq(s, n + 1, Len(s)) \in Seq(X)
         /\ Range(SubSeq(s, n + 1, Len(s))) = {s[i] : i \in n + 1 .. Len(s)}
         /\ IsInjective(s) => IsInjective(SubSeq(s, n + 1, Len(s)))
<1> DEFINE r == SubSeq(s, n + 1, Len(s))
<1>1. /\ r \in Seq(X) /\ Len(r) = Len(s) - n
      /\ \A i \in 1 .. Len(s) - n : r[i] = s[i + n]
  OBVIOUS
<1>2. DOMAIN r = 1 .. Len(s) - n
  BY <1>1
<1> HIDE DEF r
<1>3. Range(r) = {s[i] : i \in n + 1 .. Len(s)}
  <2>1. ASSUME NEW i \in n + 1 .. Len(s) PROVE s[i] \in Range(r)
    <3>1. i - n \in 1 .. Len(s) - n /\ s[i] = r[i - n]
      BY <1>1
    <3>. QED BY <1>2, <3>1 DEF Range
  <2>2. ASSUME NEW i \in 1 .. Len(s) - n PROVE r[i] \in {s[j] : j \in n + 1 .. Len(s)}
    <3>1. i + n \in n + 1 .. Len(s) /\ r[i] = s[i + n]
      BY <1>1
    <3>. QED BY <3>1
  <2>. QED BY <1>2, <2>1, <2>2 DEF Range
<1>4. ASSUME IsInjective(s) PROVE IsInjective(r)
  <2> SUFFICES ASSUME NEW i \in 1 .. Len(s) - n, NEW j \in 1 .. Len(s) - n, r[i] = r[j]
               PROVE  i = j
    BY <1>2 DEF IsInjective
  <2>1. i + n \in DOMAIN s /\ j + n \in DOMAIN s /\ s[i + n] = s[j + n]
    BY <1>1
  <2>2. i + n = j + n
    BY <1>4, <2>1 DEF IsInjective
  <2>. QED BY <2>2
<1>. QED BY <1>1, <1>3, <1>4 DEF r

(* The two parts of a queue without repetitions have no element in common *)
LEMMA PartsApart ==
  ASSUME NEW X, NEW s \in Seq(X), NEW n \in 0 .. Len(s), IsInjective(s)
  PROVE  Range(SubSeq(s, n + 1, Len(s))) = Range(s) \ Range(SubSeq(s, 1, n))
<1>1. Range(s) = {s[i] : i \in 1 .. Len(s)}
  BY DEF Range
<1>2. \A i \in 1 .. n : \A j \in n + 1 .. Len(s) : s[i] # s[j]
  BY DEF IsInjective
<1>3. /\ Range(SubSeq(s, 1, n)) = {s[i] : i \in 1 .. n}
      /\ Range(SubSeq(s, n + 1, Len(s))) = {s[i] : i \in n + 1 .. Len(s)}
  BY FrontPart, RestPart
<1>4. \A i : i \in 1 .. Len(s) <=> i \in 1 .. n \/ i \in n + 1 .. Len(s)
  OBVIOUS
<1>. QED BY <1>1, <1>2, <1>3, <1>4

(* A set of positions in a list has a greatest one *)
LEMMA GreatestNumber ==
  ASSUME NEW n \in Nat, NEW A \in SUBSET (1 .. n), A # {} PROVE Max(A) \in A
<1> DEFINE T == {m \in Nat : n - m \in A}
<1>1. T \in SUBSET Nat /\ T # {}
  <2>1. PICK a \in A : TRUE
    OBVIOUS
  <2>2. n - a \in Nat /\ n - (n - a) = a
    OBVIOUS
  <2>3. n - a \in T
    BY <2>2
  <2>. QED BY <2>3
<1>2. PICK m \in T : \A k \in T : m <= k
  <2> HIDE DEF T
  <2>. QED BY <1>1, LeastNumber
<1>3. n - m \in A /\ m \in Nat
  BY <1>2
<1>4. ASSUME NEW a \in A PROVE n - m >= a
  <2>1. n - a \in Nat /\ n - (n - a) = a
    OBVIOUS
  <2>2. n - a \in T
    BY <2>1
  <2>. QED BY <1>2, <1>3, <2>1, <2>2
<1>. QED BY <1>3, <1>4 DEF Max

(* JD_dequeue_timeq for one thread of several that are served *)
StopOne(q, t) == IF time_limit[t] = 0 THEN q ELSE DequeueTimeq(q, t)

IsStopping(iter, woken) ==
  iter = [A \in SUBSET DOMAIN woken |->
            IF A = {} THEN timeq ELSE StopOne(iter[A \ {Max(A)}], woken[Max(A)])]

LEMMA StopTimersRuns ==
  ASSUME NEW woken \in Seq(Thread), timeq \in TimeQueues
  PROVE  \E iter : IsStopping(iter, woken) /\ StopTimers(woken) = iter[DOMAIN woken]
<1> DEFINE f == CHOOSE iter : IsStopping(iter, woken)
           D == SUBSET DOMAIN woken
           pred == [A \in D |-> A \ {Max(A)}]
           measure == [A \in D |-> Cardinality(A)]
           step == [p \in D \X TimeQueues |-> IF p[1] = {} THEN p[2]
                                              ELSE StopOne(p[2], woken[Max(p[1])])]
<1>1. StopTimers(woken) = f[DOMAIN woken]
  BY DEF StopTimers, FoldLeft, MapThenFoldSet, IsStopping, StopOne
<1>2. /\ DOMAIN woken = 1 .. Len(woken) /\ Len(woken) \in Nat
      /\ IsFiniteSet(DOMAIN woken)
  BY FS_Interval
<1>3. ASSUME NEW A \in D
      PROVE  /\ A # {} => Max(A) \in A
             /\ measure[A] \in Nat /\ (measure[A] = 0 <=> A = {})
             /\ measure[A] # 0 => measure[pred[A]] < measure[A]
  <2>1. A # {} => Max(A) \in A
    BY <1>2, GreatestNumber
  <2>. QED BY <1>2, <2>1, OneLess
<1>4. IsRecursion(D, TimeQueues, timeq, step, pred, measure)
  <2>1. ASSUME NEW p \in D \X TimeQueues
        PROVE  (IF p[1] = {} THEN p[2] ELSE StopOne(p[2], woken[Max(p[1])])) \in TimeQueues
    <3>1. p[1] \in D /\ p[2] \in TimeQueues
      OBVIOUS
    <3>2. p[1] # {} => Max(p[1]) \in 1 .. Len(woken)
      BY <1>2, <3>1, GreatestNumber
    <3>3. p[1] # {} => woken[Max(p[1])] \in Thread
      BY <3>2
    <3>. QED BY <3>1, <3>3, DequeueType DEF StopOne
  <2>2. step \in [D \X TimeQueues -> TimeQueues]
    <3> HIDE DEF D
    <3>. QED BY <2>1
  <2>3. pred \in [D -> D]
    OBVIOUS
  <2>4. measure \in [D -> Nat]
    <3>1. \A A \in D : Cardinality(A) \in Nat
      BY <1>2, OneLess
    <3> HIDE DEF D
    <3>. QED BY <3>1
  <2>5. \A A \in D : measure[A] # 0 => measure[pred[A]] < measure[A]
    BY <1>3
  <2> HIDE DEF D, pred, measure, step
  <2>. QED BY <2>2, <2>3, <2>4, <2>5 DEF IsRecursion
<1>5. PICK g \in [D -> TimeQueues] : Solves(g, D, timeq, step, pred, measure)
  <2> HIDE DEF D, pred, measure, step
  <2>. QED BY <1>4, Solution
<1>6. ASSUME NEW A \in D
      PROVE  g[A] = IF A = {} THEN timeq ELSE StopOne(g[A \ {Max(A)}], woken[Max(A)])
  <2>1. g[A] = IF measure[A] = 0 THEN timeq ELSE step[<<A, g[pred[A]]>>]
    BY <1>5 DEF Solves
  <2>2. A \ {Max(A)} \in D /\ g[A \ {Max(A)}] \in TimeQueues
    BY <1>5
  <2>3. A # {} => step[<<A, g[pred[A]]>>] = StopOne(g[A \ {Max(A)}], woken[Max(A)])
    <3>1. <<A, g[A \ {Max(A)}]>> \in D \X TimeQueues
      BY <2>2
    <3> HIDE DEF D
    <3>. QED BY <3>1
  <2> HIDE DEF step, measure
  <2>. QED BY <1>3, <2>1, <2>3
<1>7. IsStopping(g, woken)
  <2>. QED BY <1>5, <1>6 DEF IsStopping
<1>8. IsStopping(f, woken)
  BY <1>7
<1> HIDE DEF f
<1>. QED BY <1>1, <1>8

(* Whoever is served, the time-out queue stays one *)
LEMMA StopTimersType ==
  ASSUME NEW woken \in Seq(Thread), timeq \in TimeQueues
  PROVE  StopTimers(woken) \in TimeQueues
<1>1. PICK iter : IsStopping(iter, woken) /\ StopTimers(woken) = iter[DOMAIN woken]
  BY StopTimersRuns
<1>2. DOMAIN woken = 1 .. Len(woken) /\ Len(woken) \in Nat /\ IsFiniteSet(DOMAIN woken)
  BY FS_Interval
<1> DEFINE Bad == {n \in Nat : \E A \in SUBSET DOMAIN woken :
                                 Cardinality(A) = n /\ iter[A] \notin TimeQueues}
<1> SUFFICES Bad = {}
  BY <1>1, <1>2, OneLess
<1> SUFFICES ASSUME Bad # {} PROVE FALSE
  OBVIOUS
<1>3. PICK n \in Bad : \A m \in Bad : n <= m
  BY LeastNumber
<1>4. PICK A \in SUBSET DOMAIN woken : Cardinality(A) = n /\ iter[A] \notin TimeQueues
  BY <1>3
<1>5. iter[A] = IF A = {} THEN timeq ELSE StopOne(iter[A \ {Max(A)}], woken[Max(A)])
  BY <1>1 DEF IsStopping
<1>6. A # {} /\ Max(A) \in A
  BY <1>2, <1>4, <1>5, GreatestNumber
<1>7. /\ A \ {Max(A)} \in SUBSET DOMAIN woken /\ Cardinality(A \ {Max(A)}) = n - 1
      /\ n \in Nat /\ n - 1 \in Nat
  <2>1. Cardinality(A) \in Nat /\ Cardinality(A) # 0 /\ Cardinality(A \ {Max(A)}) = Cardinality(A) - 1
    BY <1>2, <1>6, OneLess
  <2>. QED BY <1>4, <2>1
<1>8. n - 1 \notin Bad
  <2> HIDE DEF Bad
  <2>. QED BY <1>3, <1>7
<1>9. iter[A \ {Max(A)}] \in TimeQueues
  BY <1>7, <1>8
<1>10. woken[Max(A)] \in Thread
  BY <1>2, <1>6
<1>. QED BY <1>4, <1>5, <1>6, <1>9, <1>10, DequeueType DEF StopOne
-----------------------------------------------------------------------------
(* What the four kinds of object have in common *)

WaitTypes == wait_queue \in [ObjQueues -> Seq(Thread)] /\ sysflagcount \in [Thread -> Nat]

BaseInv == TypeOK /\ Calm /\ WaitTypes /\ WaitersListed

LEMMA BaseInit == QueuesInit => BaseInv
<1> SUFFICES ASSUME QueuesInit PROVE BaseInv
  OBVIOUS
<1>1. TypeOK
  BY TypeInit DEF QueuesInit
<1>2. Calm
  BY NoneAssumption DEF QueuesInit, Init, Calm
<1>3. WaitTypes
  BY DEF QueuesInit, WaitTypes
<1>4. WaitersListed
  <2>1. \A o \in ObjQueues : \A t \in Thread : queue[t] # o
    BY QueuesApart DEF QueuesInit, Init, KernelQueues
  <2>. QED BY <2>1, EmptyOnce DEF QueuesInit, WaitersListed
<1>. QED BY <1>1, <1>2, <1>3, <1>4 DEF BaseInv

(* Threads move between queues of the kernel, and the objects' stay *)
LEMMA ListedSame ==
  ASSUME WaitersListed, UNCHANGED wait_queue,
         \A t \in Thread : queue'[t] = queue[t] \/ (queue[t] \in KernelQueues /\ queue'[t] \in KernelQueues)
  PROVE  WaitersListed'
<1>1. \A o \in ObjQueues : \A t \in Thread : queue'[t] = o <=> queue[t] = o
  BY QueuesApart
<1>. QED BY <1>1 DEF WaitersListed

LEMMA BaseSame == BaseInv /\ UNCHANGED <<vars, queueVars>> => BaseInv'
<1> SUFFICES ASSUME BaseInv, UNCHANGED <<vars, queueVars>> PROVE BaseInv'
  OBVIOUS
<1>1. TypeOK' /\ Calm'
  BY TypesSame, CalmSame DEF BaseInv
<1>. QED BY <1>1 DEF BaseInv, WaitTypes, WaitersListed, queueVars, vars, runVars

LEMMA BaseKernel == ASSUME BaseInv, KernelStep, FollowKernel PROVE BaseInv' /\ StaysInKernel
<1>1. TypeOK' /\ Calm' /\ StaysInKernel
  BY KernelStepCalm DEF BaseInv
<1>2. ASSUME NEW o \in ObjQueues
      PROVE  /\ wait_queue'[o] \in Seq(Thread) /\ IsInjective(wait_queue'[o])
             /\ Range(wait_queue'[o]) = {t \in Thread : queue'[t] = o}
  <2>1. wait_queue[o] \in Seq(Thread) /\ IsInjective(wait_queue[o])
    BY DEF BaseInv, WaitTypes, WaitersListed
  <2>2. wait_queue'[o] = Those(wait_queue[o], {t \in Thread : queue'[t] = o})
    BY DEF FollowKernel
  <2>3. \A t \in Thread : queue'[t] = o => queue[t] = o
    BY <1>1, QueuesApart DEF StaysInKernel
  <2>4. Range(wait_queue'[o]) = Range(wait_queue[o]) \cap {t \in Thread : queue'[t] = o}
    BY <2>1, <2>2, ThoseRange
  <2>5. wait_queue'[o] \in Seq(Thread) /\ IsInjective(wait_queue'[o])
    BY <2>1, <2>2, ThoseRange, ThoseOnce
  <2>. QED BY <2>3, <2>4, <2>5 DEF BaseInv, WaitersListed
<1>3. WaitTypes'
  BY <1>2 DEF BaseInv, WaitTypes, FollowKernel
<1>4. WaitersListed'
  BY <1>2 DEF WaitersListed
<1>. QED BY <1>1, <1>3, <1>4 DEF BaseInv

(* A thread that executes is not in a queue *)
LEMMA RunnerWaitsNowhere ==
  ASSUME BaseInv, NEW t \in Thread, thread = t, NEW o \in ObjQueues
  PROVE  t \notin Range(wait_queue[o])
<1>1. queue[t] = "none" /\ "none" \in KernelQueues
  BY DEF BaseInv, Calm, KernelQueues
<1>. QED BY <1>1, QueuesApart DEF BaseInv, WaitersListed

LEMMA BaseWait ==
  ASSUME BaseInv, NEW o \in ObjQueues, NEW t \in Thread, Runs(t), NEW limit \in Nat, NEW flag \in Nat,
         WaitIn(o, t, limit, flag)
  PROVE  BaseInv'
<1>1. o \in QueueNames /\ o \in Points
  BY DEF QueueNames, Points
<1>2. TypeOK'
  <2>1. RunTypes'
    BY <1>1, SuspendTypes DEF WaitIn, BaseInv, TypeOK, RunTypes
  <2>2. TimeTypes' /\ LoopTypes'
    BY SetTimeLimitTypes DEF WaitIn, BaseInv, TypeOK
  <2>3. HistoryTypes'
    BY DEF WaitIn, SetTimeLimit, BaseInv, TypeOK, HistoryTypes
  <2>. QED BY <2>1, <2>2, <2>3, BlockTypesSame, TermTypesSame
           DEF WaitIn, BaseInv, TypeOK
<1>3. Calm'
  BY SuspendCalm DEF WaitIn, SetTimeLimit, BaseInv, blockVars, termVars
<1>4. WaitTypes'
  BY AppendRange DEF WaitIn, BaseInv, WaitTypes
<1>5. WaitersListed'
  <2>1. thread = t /\ queue' = [queue EXCEPT ![t] = o] /\ queue \in [Thread -> QueueNames]
    BY DEF Runs, Executes, WaitIn, Suspend, BaseInv, TypeOK, RunTypes
  <2>2. ASSUME NEW p \in ObjQueues, p # o
        PROVE  /\ IsInjective(wait_queue'[p])
               /\ Range(wait_queue'[p]) = {x \in Thread : queue'[x] = p}
    <3>1. wait_queue'[p] = wait_queue[p]
      BY <2>2 DEF WaitIn, BaseInv, WaitTypes
    <3>2. queue[t] # p
      BY <2>1, QueuesApart DEF BaseInv, Calm, KernelQueues
    <3>. QED BY <2>1, <2>2, <3>1, <3>2 DEF BaseInv, WaitersListed
  <2>3. /\ IsInjective(wait_queue'[o])
        /\ Range(wait_queue'[o]) = {x \in Thread : queue'[x] = o}
    <3>1. wait_queue'[o] = Append(wait_queue[o], t) /\ wait_queue[o] \in Seq(Thread)
      BY DEF WaitIn, BaseInv, WaitTypes
    <3>2. IsInjective(wait_queue[o]) /\ t \notin Range(wait_queue[o])
      BY <2>1, RunnerWaitsNowhere DEF BaseInv, WaitersListed
    <3>3. IsInjective(wait_queue'[o]) /\ Range(wait_queue'[o]) = Range(wait_queue[o]) \cup {t}
      BY <3>1, <3>2, AppendOnce
    <3>. QED BY <2>1, <3>3 DEF BaseInv, WaitersListed
  <2>. QED BY <2>2, <2>3 DEF WaitersListed
<1>. QED BY <1>2, <1>3, <1>4, <1>5 DEF BaseInv

LEMMA BaseServe ==
  ASSUME BaseInv, NEW o \in ObjQueues, NEW n \in 0 .. Len(wait_queue[o]), Serve(o, n),
         UNCHANGED blockVars, sysflagcount' \in [Thread -> Nat]
  PROVE  /\ BaseInv'
         /\ \A t \in Thread : queue'[t] = o <=> t \in Range(wait_queue[o]) \ Range(FirstOf(o, n))
<1> DEFINE q == wait_queue[o]
           woken == FirstOf(o, n)
<1>1. q \in Seq(Thread) /\ IsInjective(q) /\ Range(q) = {t \in Thread : queue[t] = o}
  BY DEF BaseInv, WaitTypes, WaitersListed
<1>2. woken \in Seq(Thread) /\ \A t \in Range(woken) : t \in Thread /\ queue[t] = o
  <2>1. woken \in Seq(Thread) /\ Range(woken) = {q[i] : i \in 1 .. n}
    <3>1. n \in 0 .. Len(q) /\ woken = SubSeq(q, 1, n)
      BY DEF FirstOf
    <3> HIDE DEF q, woken
    <3>. QED BY <1>1, <3>1, FrontPart
  <2>2. \A i \in 1 .. n : q[i] \in Range(q)
    BY <1>1 DEF Range
  <2>. QED BY <1>1, <2>1, <2>2
<1>3. /\ SubSeq(q, n + 1, Len(q)) \in Seq(Thread) /\ IsInjective(SubSeq(q, n + 1, Len(q)))
      /\ Range(SubSeq(q, n + 1, Len(q))) = Range(q) \ Range(woken)
  BY <1>1, RestPart, PartsApart DEF FirstOf
<1>4. /\ queue' = [t \in Thread |-> IF t \in Range(woken) THEN "ready" ELSE queue[t]]
      /\ ready_queue' = ready_queue \o woken
      /\ timeq' = StopTimers(woken)
      /\ wait_queue' = [wait_queue EXCEPT ![o] = SubSeq(q, n + 1, Len(q))]
      /\ UNCHANGED <<thread, at, loopVars, termVars, time_limit, timeout, history>>
  BY DEF Serve
<1> HIDE DEF woken, q
<1>5. \A p \in ObjQueues : p # "ready" /\ p # "none"
  BY QueuesApart DEF KernelQueues
<1>6. TypeOK'
  <2>1. ready_queue' \in Seq(Thread)
    BY <1>2, <1>4, ConcatRange DEF BaseInv, TypeOK, RunTypes
  <2>2. RunTypes'
    BY <1>4, <2>1 DEF BaseInv, TypeOK, RunTypes, QueueNames, KernelQueues
  <2>3. TimeTypes'
    BY <1>2, <1>4, StopTimersType DEF BaseInv, TypeOK, TimeTypes
  <2>. QED BY <1>4, <2>2, <2>3, LoopTypesSame, BlockTypesSame, TermTypesSame, HistoryTypesSame
           DEF BaseInv, TypeOK
<1>7. Calm'
  <2>1. \A t \in Thread : thread' = t => queue'[t] = "none"
    BY <1>2, <1>4, <1>5 DEF BaseInv, Calm
  <2>2. UNCHANGED <<thread, at, in_loop, parent, child, forking, thread_join>>
    BY <1>4 DEF loopVars, blockVars, termVars
  <2>. QED BY <2>1, <2>2 DEF BaseInv, Calm
<1>8. WaitTypes'
  BY <1>3, <1>4 DEF BaseInv, WaitTypes
<1>9. \A t \in Thread : queue'[t] = o <=> t \in Range(q) \ Range(woken)
  BY <1>1, <1>4, <1>5
<1>10. WaitersListed'
  <2>1. ASSUME NEW p \in ObjQueues, p # o
        PROVE  /\ IsInjective(wait_queue'[p])
               /\ Range(wait_queue'[p]) = {x \in Thread : queue'[x] = p}
    <3>1. wait_queue'[p] = wait_queue[p]
      BY <1>4, <2>1 DEF BaseInv, WaitTypes
    <3>2. \A x \in Thread : queue'[x] = p <=> queue[x] = p
      BY <1>2, <1>4, <1>5, <2>1
    <3>. QED BY <3>1, <3>2 DEF BaseInv, WaitersListed
  <2>2. wait_queue'[o] = SubSeq(q, n + 1, Len(q))
    BY <1>4 DEF BaseInv, WaitTypes
  <2>3. Range(q) \subseteq Thread
    BY <1>1
  <2>4. Range(wait_queue'[o]) = {x \in Thread : queue'[x] = o}
    BY <1>3, <1>9, <2>2, <2>3
  <2>. QED BY <1>3, <2>1, <2>2, <2>4 DEF WaitersListed
<1>. QED BY <1>6, <1>7, <1>8, <1>9, <1>10 DEF BaseInv, q, woken

LEMMA BaseGoOn ==
  ASSUME BaseInv, NEW o \in ObjQueues, NEW t \in Thread, NEW a \in {0, 1}, GoOn(o, t, a)
  PROVE  BaseInv' /\ \A x \in Thread : at'[x] = at[x] \/ (x = t /\ at'[x] \in KernelPoints)
<1>1. thread = t /\ queue[t] = "none" /\ at[t] = o /\ o # "code" /\ UNCHANGED queueVars
  BY QueuesApart DEF GoOn, BaseInv, Calm, KernelPoints
<1>2. CASE ExitTerminated(t)
  <2>1. TypeOK' /\ Calm'
    BY <1>1, <1>2, ExitTerminatedTypes, ExitTerminatedCalm DEF BaseInv
  <2>2. queue' = [queue EXCEPT ![t] = "zombie"] /\ at' = [at EXCEPT ![t] = "exited"]
    <3>1. BecomeZombie(t, <<>>, FALSE)
      BY <1>2, NobodyJoins DEF ExitTerminated, BaseInv
    <3>. QED BY <1>1, <3>1, QuietZombie DEF BaseInv
  <2>3. WaitersListed'
    BY <1>1, <2>2, ListedSame DEF BaseInv, queueVars, TypeOK, RunTypes, KernelQueues
  <2>. QED BY <1>1, <2>1, <2>2, <2>3
       DEF BaseInv, WaitTypes, queueVars, TypeOK, RunTypes, KernelPoints
<1>3. CASE ~ExitTerminated(t)
  <2>1. /\ at' = [at EXCEPT ![t] = "code"] /\ acc' = [acc EXCEPT ![t] = a]
        /\ UNCHANGED <<thread, ready_queue, queue, loopVars, parent, child, wait_child,
                       forking, form, termVars, timeVars, history>>
    BY <1>3 DEF GoOn
  <2>2. RunTypes' /\ BlockTypes'
    BY <2>1 DEF BaseInv, TypeOK, RunTypes, BlockTypes, Points, KernelPoints
  <2>3. TypeOK'
    BY <2>1, <2>2, LoopTypesSame, TermTypesSame, TimeTypesSame, HistoryTypesSame
    DEF BaseInv, TypeOK
  <2>4. Calm'
    <3>1. UNCHANGED <<thread, queue, in_loop, parent, child, forking, thread_join>>
      BY <2>1 DEF loopVars, termVars
    <3>2. at' = [at EXCEPT ![t] = "code"] /\ at \in [Thread -> Points]
      BY <2>1 DEF BaseInv, TypeOK, RunTypes
    <3>. QED BY <1>1, <3>1, <3>2 DEF BaseInv, Calm
  <2>5. WaitersListed'
    BY <1>1, <2>1 DEF BaseInv, WaitersListed, queueVars
  <2>. QED BY <1>1, <2>1, <2>3, <2>4, <2>5
       DEF BaseInv, WaitTypes, queueVars, TypeOK, RunTypes, KernelPoints
<1>. QED BY <1>2, <1>3

LEMMA BaseAnswer ==
  ASSUME BaseInv, NEW t \in Thread, NEW a \in {0, 1}, Answer(t, a) PROVE BaseInv'
<1>1. BlockTypes'
  BY DEF Answer, BaseInv, TypeOK, BlockTypes
<1>2. TypeOK'
  BY <1>1, RunTypesSame, LoopTypesSame, TermTypesSame, TimeTypesSame, HistoryTypesSame
  DEF Answer, BaseInv, TypeOK
<1>3. UNCHANGED <<thread, queue, at, in_loop, parent, child, forking, thread_join, wait_queue, sysflagcount>>
  BY DEF Answer, runVars, loopVars, termVars, queueVars
<1>4. Calm'
  BY <1>3 DEF BaseInv, Calm
<1>. QED BY <1>2, <1>3, <1>4 DEF BaseInv, WaitTypes, WaitersListed

LEMMA BaseExitSimulation ==
  ASSUME BaseInv, NEW t \in Thread, ExitSimulation(t), UNCHANGED queueVars
  PROVE  BaseInv' /\ StaysInKernel
<1>1. StopLoop(t, TRUE)
  BY DEF ExitSimulation
<1>2. TypeOK' /\ Calm' /\ StaysInKernel
  BY <1>1, StopLoopTypes, PauseCalm DEF BaseInv
<1>3. /\ queue[t] = "none" /\ queue' = [queue EXCEPT ![t] = "ready"]
  BY <1>1 DEF StopLoop, Suspend, Runs, Executes, BaseInv, Calm
<1>4. WaitersListed'
  BY <1>3, ListedSame DEF BaseInv, queueVars, TypeOK, RunTypes, KernelQueues
<1>. QED BY <1>2, <1>4 DEF BaseInv, WaitTypes, queueVars
-----------------------------------------------------------------------------
(* The inductive invariants of the four kinds: with what is stated of each  *)
(* kind, that an object which is not there is as new                        *)

SemTypes == unit \in Nat /\ sem_timeout \in Nat /\ taken \in [Thread -> Int]

(* The history of those that came agrees with the queue, and who waits asks *)
(* for something                                                            *)
ArrivedAgrees ==
  object = "semaphore" => /\ arrived = waiters
                          /\ \A t \in Range(waiters) : sysflagcount[t] >= 1

SemInv == SemTypes /\ UnitsAccounted /\ ArrivedAgrees

EventTypes == /\ event_timeout \in Nat
              /\ trigger_status \in {"OFF", "PULSE", "ON"}
              /\ promised \in {"none", "PULSE", "ON"}

EventInv == /\ EventTypes /\ NobodyWaitsOnTrigger /\ SlotTriggerLasts
            /\ object # "event" => trigger_status = "OFF" /\ promised = "none"

MailTypes == /\ mail_timeout \in Nat /\ sent \in Nat
             /\ mail \in Seq(Nat) /\ delivered \in Seq(Nat)

(* The messages, by their numbers: those taken out, then those in the list  *)
MailNumbered == /\ sent = Len(delivered) + Len(mail)
                /\ \A n \in 1 .. Len(delivered) : delivered[n] = n
                /\ \A n \in 1 .. Len(mail) : mail[n] = Len(delivered) + n

MailInv == /\ MailTypes /\ MailNumbered /\ NobodyWaitsOnMail
           /\ object # "mailbox" => mail = <<>>

RegionTypes == /\ region \in [Regions -> Seq(Keys)] /\ key \in [Thread -> Nat]
               /\ inside \in [Thread -> SUBSET (Regions \X Keys)]

(* Who waits in enter() has a key on the stack, and no other program has *)
KeysAsked ==
  \A t \in Thread : /\ object = "region" /\ at[t] \in Regions => key[t] \in Keys
                    /\ object # "region" => key[t] = 0

RegionInv == /\ RegionTypes /\ KeysAsked
             /\ NewElement \notin Keys => NobodyWaitsOnFreeKey

SyncInv == /\ object \in Objects /\ BaseInv
           /\ SemInv /\ EventInv /\ MailInv /\ RegionInv
-----------------------------------------------------------------------------
(* The mailbox *)

LEMMA NobodyInEmpty ==
  ASSUME NEW s \in Seq(Thread), Range(s) = {} PROVE s = <<>>
  BY DEF Range

(* Kernel steps let nobody into a queue *)
LEMMA EmptyStays ==
  ASSUME BaseInv, NEW o \in ObjQueues, wait_queue[o] = <<>>, BaseInv', StaysInKernel
  PROVE  wait_queue'[o] = <<>>
<1>1. \A t \in Thread : queue[t] # o
  BY EmptyOnce DEF BaseInv, WaitersListed
<1>2. \A t \in Thread : queue'[t] # o
  BY <1>1, QueuesApart DEF StaysInKernel
<1>3. Range(wait_queue'[o]) = {} /\ wait_queue'[o] \in Seq(Thread)
  BY <1>2 DEF BaseInv, WaitersListed, WaitTypes
<1>. QED BY <1>3, NobodyInEmpty

(* Serving all waiters, or nobody where nobody waits, leaves nobody *)
LEMMA ServedEmpty ==
  ASSUME BaseInv, NEW o \in ObjQueues, Serve(o, Len(wait_queue[o]))
  PROVE  wait_queue'[o] = <<>>
<1> DEFINE q == wait_queue[o]
<1>1. q \in Seq(Thread) /\ wait_queue'[o] = SubSeq(q, Len(q) + 1, Len(q))
  BY DEF BaseInv, WaitTypes, Serve
<1> HIDE DEF q
<1>. QED BY <1>1

LEMMA MailInit1 == MailInit => MailInv
<1> SUFFICES ASSUME MailInit PROVE MailInv
  OBVIOUS
<1>. QED BY DEF MailInit, MailInv, MailTypes, MailNumbered, NobodyWaitsOnMail

(* The messages are numbered as they are sent, whether readers wait or not *)
LEMMA SendKeeps ==
  ASSUME BaseInv, MailInv, object = "mailbox", NEW t \in Thread, Send(t)
  PROVE  BaseInv' /\ MailTypes' /\ MailNumbered' /\ NobodyWaitsOnMail'
<1>1. /\ "mailbox" \in ObjQueues /\ readers = wait_queue["mailbox"] /\ readers \in Seq(Thread)
      /\ mail_timeout \in Nat /\ sent \in Nat /\ mail \in Seq(Nat) /\ delivered \in Seq(Nat)
  BY MailboxAssumption DEF readers, BaseInv, WaitTypes, MailInv, MailTypes
<1>2. /\ sent' = sent + 1 /\ mail_timeout' = mail_timeout /\ sent' \in Nat
      /\ Serve("mailbox", IF readers = <<>> THEN 0 ELSE 1)
      /\ UNCHANGED blockVars /\ sysflagcount' \in [Thread -> Nat]
  BY <1>1 DEF Send, BaseInv, WaitTypes
<1>3. (IF readers = <<>> THEN 0 ELSE 1) \in 0 .. Len(wait_queue["mailbox"])
  BY <1>1
<1>4. BaseInv'
  BY <1>1, <1>2, <1>3, BaseServe
<1>5. CASE readers = <<>>
  <2>1. mail' = Append(mail, sent + 1) /\ delivered' = delivered
    BY <1>5 DEF Send, HandOver, Deposit
  <2>2. wait_queue'["mailbox"] = <<>>
    <3>1. Len(wait_queue["mailbox"]) = 0
      BY <1>1, <1>5
    <3>. QED BY <1>1, <1>2, <1>5, <3>1, ServedEmpty
  <2>3. MailNumbered'
    <3>1. /\ Len(mail') = Len(mail) + 1 /\ mail'[Len(mail) + 1] = sent + 1
          /\ \A n \in 1 .. Len(mail) : mail'[n] = mail[n]
      BY <1>1, <2>1
    <3>2. /\ sent = Len(delivered) + Len(mail)
          /\ \A n \in 1 .. Len(delivered) : delivered[n] = n
          /\ \A n \in 1 .. Len(mail) : mail[n] = Len(delivered) + n
      BY DEF MailInv, MailNumbered
    <3>3. Len(delivered) \in Nat /\ Len(mail) \in Nat
      BY <1>1
    <3>4. ASSUME NEW n \in 1 .. Len(mail') PROVE mail'[n] = Len(delivered) + n
      <4>1. n \in 1 .. Len(mail) \/ n = Len(mail) + 1
        BY <3>1, <3>3
      <4>. QED BY <3>1, <3>2, <3>3, <4>1
    <3>. QED BY <1>2, <2>1, <3>1, <3>2, <3>3, <3>4 DEF MailNumbered
  <2>. QED BY <1>1, <1>2, <1>4, <2>1, <2>2, <2>3 DEF MailTypes, NobodyWaitsOnMail, readers
<1>6. CASE readers # <<>>
  <2>1. mail = <<>>
    BY <1>6 DEF MailInv, NobodyWaitsOnMail
  <2>2. /\ mail' = SubSeq(Append(mail, sent + 1), 1, Len(Append(mail, sent + 1)) - 1)
        /\ delivered' = Append(delivered, Append(mail, sent + 1)[Len(Append(mail, sent + 1))])
    BY <1>6 DEF Send, HandOver, Deposit
  <2>3. mail' = <<>> /\ delivered' = Append(delivered, sent + 1)
    BY <1>1, <2>1, <2>2
  <2>4. MailNumbered'
    BY <1>1, <1>2, <2>1, <2>3 DEF MailInv, MailNumbered
  <2>. QED BY <1>1, <1>2, <1>4, <2>3, <2>4 DEF MailTypes, NobodyWaitsOnMail
<1>. QED BY <1>5, <1>6

LEMMA ReceiveKeeps ==
  ASSUME BaseInv, MailInv, object = "mailbox", NEW t \in Thread, Receive(t)
  PROVE  BaseInv' /\ MailTypes' /\ MailNumbered' /\ NobodyWaitsOnMail'
<1>1. /\ "mailbox" \in ObjQueues
      /\ mail_timeout \in Nat /\ sent \in Nat /\ mail \in Seq(Nat) /\ delivered \in Seq(Nat)
  BY MailboxAssumption DEF MailInv, MailTypes
<1>2. Runs(t) /\ sent' = sent /\ mail_timeout' = mail_timeout
  BY DEF Receive
<1>3. CASE mail # <<>>
  <2>1. /\ mail' = Tail(mail) /\ delivered' = Append(delivered, Head(mail))
        /\ UNCHANGED <<vars, queueVars>>
    BY <1>3 DEF Receive
  <2>2. BaseInv' /\ wait_queue' = wait_queue
    BY <2>1, BaseSame DEF queueVars
  <2>3. MailTypes'
    BY <1>1, <1>2, <1>3, <2>1 DEF MailTypes
  <2>4. MailNumbered'
    <3>1. Len(mail') = Len(mail) - 1 /\ \A n \in 1 .. Len(mail) - 1 : mail'[n] = mail[n + 1]
      BY <1>1, <1>3, <2>1
    <3>2. /\ Len(delivered') = Len(delivered) + 1
          /\ \A n \in 1 .. Len(delivered) : delivered'[n] = delivered[n]
          /\ delivered'[Len(delivered) + 1] = mail[1]
      BY <1>1, <1>3, <2>1
    <3>3. /\ sent = Len(delivered) + Len(mail) /\ Len(delivered) \in Nat /\ Len(mail) \in Nat
          /\ Len(mail) # 0
          /\ \A n \in 1 .. Len(delivered) : delivered[n] = n
          /\ \A n \in 1 .. Len(mail) : mail[n] = Len(delivered) + n
      BY <1>1, <1>3 DEF MailInv, MailNumbered
    <3>4. ASSUME NEW n \in 1 .. Len(delivered') PROVE delivered'[n] = n
      <4>1. n \in 1 .. Len(delivered) \/ n = Len(delivered) + 1
        BY <3>2, <3>3
      <4>2. mail[1] = Len(delivered) + 1
        BY <3>3
      <4>. QED BY <3>2, <3>3, <4>1, <4>2
    <3>5. ASSUME NEW n \in 1 .. Len(mail') PROVE mail'[n] = Len(delivered') + n
      <4>1. n \in 1 .. Len(mail) - 1 /\ n + 1 \in 1 .. Len(mail)
        BY <3>1, <3>3
      <4>. QED BY <3>1, <3>2, <3>3, <4>1
    <3>. QED BY <1>2, <3>1, <3>2, <3>3, <3>4, <3>5 DEF MailNumbered
  <2>. QED BY <1>3, <2>2, <2>3, <2>4 DEF MailInv, NobodyWaitsOnMail, readers
<1>4. CASE mail = <<>>
  <2>1. WaitIn("mailbox", t, mail_timeout, 0) /\ UNCHANGED <<mail, delivered>>
    BY <1>4 DEF Receive
  <2>2. BaseInv'
    BY <1>1, <1>2, <2>1, BaseWait
  <2>. QED BY <1>2, <1>4, <2>1, <2>2 DEF MailInv, MailTypes, MailNumbered, NobodyWaitsOnMail
<1>. QED BY <1>3, <1>4

LEMMA MailKeeps ==
  ASSUME BaseInv, MailInv, object = "mailbox", object' = object, MailNext
  PROVE  BaseInv' /\ MailInv'
<1>1. CASE KernelStep /\ FollowKernel /\ UNCHANGED mailVars
  <2>1. BaseInv' /\ StaysInKernel
    BY <1>1, BaseKernel
  <2>2. readers = <<>> => readers' = <<>>
    BY <2>1, EmptyStays, MailboxAssumption DEF readers
  <2>. QED BY <1>1, <2>1, <2>2 DEF MailInv, MailTypes, MailNumbered, NobodyWaitsOnMail, mailVars
<1>2. ASSUME NEW t \in Thread, Send(t) \/ Receive(t) PROVE BaseInv' /\ MailInv'
  BY <1>2, SendKeeps, ReceiveKeeps DEF MailInv
<1>3. ASSUME NEW t \in Thread, NEW limit \in ReceiveLimits, MailTimeout(t, limit)
      PROVE  BaseInv' /\ MailInv'
  <2>1. BaseInv' /\ wait_queue' = wait_queue
    BY <1>3, BaseSame DEF MailTimeout, queueVars
  <2>. QED BY <1>3, <2>1, ReceiveLimitAssumption
       DEF MailTimeout, MailInv, MailTypes, MailNumbered, NobodyWaitsOnMail, readers
<1>4. ASSUME NEW t \in Thread, GoOn("mailbox", t, acc[t]), UNCHANGED mailVars
      PROVE  BaseInv' /\ MailInv'
  <2>1. acc[t] \in {0, 1}
    BY DEF BaseInv, TypeOK, BlockTypes
  <2>2. BaseInv' /\ wait_queue' = wait_queue
    BY <1>4, <2>1, BaseGoOn, MailboxAssumption DEF GoOn, queueVars
  <2>. QED BY <1>4, <2>2 DEF mailVars, MailInv, MailTypes, MailNumbered, NobodyWaitsOnMail, readers
<1>. QED BY <1>1, <1>2, <1>3, <1>4 DEF MailNext, MailStep

LEMMA MailStays ==
  ASSUME MailInv, UNCHANGED <<mailVars, object>>, object # "mailbox" \/ wait_queue' = wait_queue
  PROVE  MailInv'
  BY DEF mailVars, MailInv, MailTypes, MailNumbered, NobodyWaitsOnMail, readers

LEMMA NumberedInOrder == MailTypes /\ MailNumbered => MailInOrder
<1> SUFFICES ASSUME MailTypes, MailNumbered PROVE MailInOrder
  OBVIOUS
<1> DEFINE d == delivered
           r == [n \in 1 .. sent |-> n]
<1>1. /\ d \in Seq(Nat) /\ mail \in Seq(Nat) /\ Len(d) \in Nat /\ Len(mail) \in Nat
      /\ sent = Len(d) + Len(mail)
      /\ \A n \in 1 .. Len(d) : d[n] = n
      /\ \A n \in 1 .. Len(mail) : mail[n] = Len(d) + n
  BY DEF MailTypes, MailNumbered
<1>2. r \in Seq(Nat) /\ Len(r) = sent /\ \A n \in 1 .. sent : r[n] = n
  BY DEF MailTypes
<1> HIDE DEF d, r
<1>3. /\ d \o mail \in Seq(Nat) /\ Len(d \o mail) = sent
      /\ \A n \in 1 .. sent : (d \o mail)[n] = IF n <= Len(d) THEN d[n] ELSE mail[n - Len(d)]
  BY <1>1, ConcatProperties
<1>4. ASSUME NEW n \in 1 .. sent PROVE (d \o mail)[n] = r[n]
  <2>1. n \in 1 .. Len(d) \/ (n \notin 1 .. Len(d) /\ n - Len(d) \in 1 .. Len(mail))
    BY <1>1
  <2>2. (d \o mail)[n] = n
    BY <1>1, <1>3, <2>1
  <2>. QED BY <1>2, <2>2
<1>5. d \o mail = r
  BY <1>2, <1>3, <1>4, SeqEqual
<1>. QED BY <1>5 DEF MailInOrder, d, r
-----------------------------------------------------------------------------
(* The event *)

(* The receivers a trigger wakes: up to the first that clears it, or all *)
LEMMA TriggerReaches ==
  ASSUME BaseInv
  PROVE  /\ Reached \in 0 .. Len(receivers)
         /\ Takers = {} => Reached = Len(receivers)
<1>1. receivers \in Seq(Thread) /\ Len(receivers) \in Nat
  BY EventAssumption DEF receivers, BaseInv, WaitTypes
<1>2. ClearingPlaces \in SUBSET (1 .. Len(receivers))
  BY DEF ClearingPlaces
<1>3. CASE ClearingPlaces = {}
  BY <1>1, <1>3 DEF Reached
<1>4. CASE ClearingPlaces # {}
  <2>1. PICK n \in ClearingPlaces : \A m \in ClearingPlaces : n <= m
    <3>1. ClearingPlaces \in SUBSET Nat
      BY <1>1, <1>2
    <3>. QED BY <1>4, <3>1, LeastNumber
  <2>2. Reached \in ClearingPlaces
    BY <1>4, <2>1 DEF Reached, Min
  <2>3. Reached \in 1 .. Len(receivers) /\ Reached \in 1 .. Reached
    BY <1>1, <1>2, <2>2
  <2>4. receivers[Reached] \in Takers
    BY <2>2, <2>3 DEF Takers
  <2>. QED BY <1>1, <2>3, <2>4
<1>. QED BY <1>3, <1>4

(* What a trigger serves stays typed, and nobody waits on if nobody clears *)
LEMMA TriggerServes ==
  ASSUME BaseInv, Serve("event", Reached), UNCHANGED <<sysflagcount, blockVars>>
  PROVE  /\ BaseInv'
         /\ Takers = {} \/ receivers = <<>> => receivers' = <<>>
<1>1. /\ "event" \in ObjQueues /\ receivers = wait_queue["event"]
      /\ receivers \in Seq(Thread) /\ receivers' = wait_queue'["event"]
      /\ sysflagcount' \in [Thread -> Nat]
  BY EventAssumption DEF receivers, BaseInv, WaitTypes
<1>2. Reached \in 0 .. Len(wait_queue["event"])
  BY <1>1, TriggerReaches
<1>3. BaseInv'
  BY <1>1, <1>2, BaseServe
<1>4. receivers = <<>> => Reached = Len(receivers)
  BY <1>1, <1>2
<1>. QED BY <1>1, <1>3, <1>4, TriggerReaches, ServedEmpty

LEMMA EventInit1 == EventInit => EventInv
  BY DEF EventInit, EventInv, EventTypes, NobodyWaitsOnTrigger, SlotTriggerLasts

LEMMA EventStays ==
  ASSUME EventInv, UNCHANGED <<eventVars, object>>, object # "event" \/ wait_queue' = wait_queue
  PROVE  EventInv'
  BY DEF EventInv, EventTypes, NobodyWaitsOnTrigger, SlotTriggerLasts, eventVars, receivers

(* The steps of the event that move no receiver *)
LEMMA TakeTriggerKeeps ==
  ASSUME BaseInv, EventInv, object' = object, NEW t \in Thread, NEW clear \in BOOLEAN,
         TakeTrigger(t, clear), object = "event"
  PROVE  BaseInv' /\ EventInv'
<1>1. BaseInv' /\ wait_queue' = wait_queue
  <2>1. Answer(t, 1)
    BY DEF TakeTrigger
  <2>. QED BY <2>1, BaseAnswer DEF Answer, queueVars
<1>. QED BY <1>1 DEF TakeTrigger, EventInv, EventTypes, NobodyWaitsOnTrigger, SlotTriggerLasts,
                     receivers

LEMMA SyncKeeps ==
  ASSUME BaseInv, EventInv, object = "event", object' = object, NEW t \in Thread,
         NEW clear \in BOOLEAN, Sync(t, clear) \/ CheckTrigger(t, clear)
  PROVE  BaseInv' /\ EventInv'
<1>1. CASE TakeTrigger(t, clear)
  BY <1>1, TakeTriggerKeeps
<1>2. CASE /\ trigger_status = "OFF" /\ Runs(t) /\ UNCHANGED eventVars
           /\ WaitIn("event", t, event_timeout, IF clear THEN 1 ELSE 0)
  <2>1. BaseInv'
    <3>1. (IF clear THEN 1 ELSE 0) \in Nat /\ event_timeout \in Nat
      BY DEF EventInv, EventTypes
    <3>. QED BY <1>2, <3>1, BaseWait, EventAssumption
  <2>. QED BY <1>2, <2>1 DEF EventInv, EventTypes, NobodyWaitsOnTrigger, SlotTriggerLasts, eventVars
<1>3. CASE Answer(t, 0) /\ UNCHANGED eventVars
  <2>1. BaseInv' /\ wait_queue' = wait_queue
    BY <1>3, BaseAnswer DEF Answer, queueVars
  <2>. QED BY <1>3, <2>1, EventStays
<1>. QED BY <1>1, <1>2, <1>3 DEF Sync, CheckTrigger

LEMMA TriggerKeeps ==
  ASSUME BaseInv, EventInv, object = "event", object' = object, NEW t \in Thread,
         NEW status \in {"PULSE", "ON"}, Trigger(t, status)
  PROVE  BaseInv' /\ EventInv'
<1>1. BaseInv' /\ (Takers = {} \/ receivers = <<>> => receivers' = <<>>)
  BY TriggerServes DEF Trigger
<1>2. CASE Takers = {}
  <2>1. trigger_status' = status /\ promised' = (IF promised = "ON" THEN "ON" ELSE status)
        /\ event_timeout' = event_timeout
    BY <1>2 DEF Trigger, StatusAfter
  <2>2. receivers' = <<>>
    BY <1>1, <1>2
  <2>. QED BY <1>1, <2>1, <2>2 DEF EventInv, EventTypes, NobodyWaitsOnTrigger, SlotTriggerLasts
<1>3. CASE Takers # {}
  <2>1. trigger_status' = "OFF" /\ promised' = "none" /\ event_timeout' = event_timeout
    BY <1>3 DEF Trigger, StatusAfter
  <2>. QED BY <1>1, <2>1 DEF EventInv, EventTypes, NobodyWaitsOnTrigger, SlotTriggerLasts
<1>. QED BY <1>2, <1>3

LEMMA EventKeeps ==
  ASSUME BaseInv, EventInv, object = "event", object' = object, EventNext
  PROVE  BaseInv' /\ EventInv'
<1>1. CASE KernelStep /\ FollowKernel /\ Flush
  <2>1. BaseInv' /\ StaysInKernel
    BY <1>1, BaseKernel
  <2>2. receivers = <<>> => receivers' = <<>>
    BY <2>1, EmptyStays, EventAssumption DEF receivers
  <2>. QED BY <1>1, <2>1, <2>2
       DEF Flush, EventInv, EventTypes, NobodyWaitsOnTrigger, SlotTriggerLasts
<1>2. ASSUME NEW t \in Thread, NEW status \in {"PULSE", "ON"}, Trigger(t, status)
      PROVE  BaseInv' /\ EventInv'
  BY <1>2, TriggerKeeps
<1>3. ASSUME NEW t \in Thread, TriggerPulse(t) PROVE BaseInv' /\ EventInv'
  <2>1. BaseInv' /\ (receivers = <<>> => receivers' = <<>>)
    BY <1>3, TriggerServes DEF TriggerPulse
  <2>. QED BY <1>3, <2>1
       DEF TriggerPulse, EventInv, EventTypes, NobodyWaitsOnTrigger, SlotTriggerLasts
<1>4. ASSUME NEW t \in Thread, TriggerOff(t) PROVE BaseInv' /\ EventInv'
  <2>1. BaseInv' /\ wait_queue' = wait_queue
    BY <1>4, BaseSame DEF TriggerOff, queueVars
  <2>. QED BY <1>4, <2>1
       DEF TriggerOff, EventInv, EventTypes, NobodyWaitsOnTrigger, SlotTriggerLasts
<1>5. ASSUME NEW t \in Thread, NEW clear \in BOOLEAN, Sync(t, clear) \/ CheckTrigger(t, clear)
      PROVE  BaseInv' /\ EventInv'
  BY <1>5, SyncKeeps
<1>6. ASSUME NEW t \in Thread, NEW limit \in SyncLimits, EventTimeout(t, limit)
      PROVE  BaseInv' /\ EventInv'
  <2>1. BaseInv' /\ wait_queue' = wait_queue
    BY <1>6, BaseSame DEF EventTimeout, queueVars
  <2>. QED BY <1>6, <2>1, SyncLimitAssumption
       DEF EventTimeout, EventInv, EventTypes, NobodyWaitsOnTrigger, SlotTriggerLasts, receivers
<1>7. ASSUME NEW t \in Thread, GoOn("event", t, WaitAnswer(t)), UNCHANGED eventVars
      PROVE  BaseInv' /\ EventInv'
  <2>1. WaitAnswer(t) \in {0, 1}
    BY DEF WaitAnswer
  <2>2. BaseInv' /\ wait_queue' = wait_queue
    BY <1>7, <2>1, BaseGoOn, EventAssumption DEF GoOn, queueVars
  <2>. QED BY <1>7, <2>2, EventStays
<1>. QED BY <1>1, <1>2, <1>3, <1>4, <1>5, <1>6, <1>7 DEF EventNext, EventStep
-----------------------------------------------------------------------------
(* The semaphore *)

LEMMA SemInit1 == SemInit => SemTypes /\ UnitsAccounted /\ arrived = waiters /\ waiters = <<>>
<1> SUFFICES ASSUME SemInit
             PROVE  SemTypes /\ UnitsAccounted /\ arrived = waiters /\ waiters = <<>>
  OBVIOUS
<1>1. SemTypes
  BY UnitAssumption DEF SemInit, SemTypes
<1>2. arrived = waiters /\ waiters = <<>>
  BY SemaphoreAssumption DEF SemInit, QueuesInit, waiters
<1>3. taken = [t \in Thread |-> 0] /\ unit = InitUnit
  BY DEF SemInit
<1>4. SumFunction(taken) = 0
  BY <1>3, ThreadAssumption, SumOfZeros
<1>. QED BY <1>1, <1>2, <1>3, <1>4, UnitAssumption DEF UnitsAccounted

(* The units the first waiters want *)
LEMMA WantedType ==
  ASSUME BaseInv, NEW n \in 0 .. Len(waiters)
  PROVE  /\ Wanted(n) \in Int /\ (n = 0 => Wanted(n) = 0)
         /\ Range(FirstOf("semaphore", n)) \in SUBSET Thread
         /\ Range(FirstOf("semaphore", n)) = {waiters[i] : i \in 1 .. n}
<1>1. waiters \in Seq(Thread) /\ FirstOf("semaphore", n) = SubSeq(waiters, 1, n)
  BY SemaphoreAssumption DEF waiters, BaseInv, WaitTypes, FirstOf
<1>2. Range(FirstOf("semaphore", n)) = {waiters[i] : i \in 1 .. n}
  BY <1>1, FrontPart
<1>3. Range(FirstOf("semaphore", n)) \in SUBSET Thread
  BY <1>1, <1>2
<1>4. sysflagcount \in [Thread -> Int]
  BY DEF BaseInv, WaitTypes
<1>5. Wanted(n) \in Int
  BY <1>3, <1>4, ThreadAssumption, SumType DEF Wanted
<1>6. ASSUME n = 0 PROVE Wanted(n) = 0
  <2>1. Range(FirstOf("semaphore", n)) = {}
    BY <1>2, <1>6
  <2>. QED BY <1>4, <2>1, ThreadAssumption, SumEmpty DEF Wanted
<1>. QED BY <1>2, <1>3, <1>5, <1>6

(* A put() serves some number of the first waiters, for whom the units do *)
LEMMA ServedType ==
  ASSUME BaseInv, NEW units \in Nat
  PROVE  Served(units) \in 0 .. Len(waiters) /\ Wanted(Served(units)) <= units
<1>1. waiters \in Seq(Thread) /\ Len(waiters) \in Nat
  BY SemaphoreAssumption DEF waiters, BaseInv, WaitTypes
<1> DEFINE Enough(n) == Wanted(n) <= units
           Stop == {n \in Nat : n = Len(waiters) \/ (n < Len(waiters) /\ ~Enough(n + 1))}
<1>2. PICK n \in Stop : \A m \in Stop : n <= m
  <2>1. Stop \in SUBSET Nat /\ Stop # {}
    BY <1>1
  <2> HIDE DEF Stop
  <2>. QED BY <2>1, LeastNumber
<1>3. n \in 0 .. Len(waiters) /\ (n = Len(waiters) \/ ~Enough(n + 1))
  BY <1>1, <1>2
<1>4. Enough(n)
  <2>1. CASE n = 0
    BY <2>1, <1>3, WantedType
  <2>2. CASE n # 0
    <3>1. n - 1 \in Nat /\ n - 1 < Len(waiters) /\ n - 1 + 1 = n /\ ~(n <= n - 1)
      BY <1>1, <1>3, <2>2
    <3>2. n - 1 \notin Stop
      <4> HIDE DEF Stop
      <4>. QED BY <1>2, <3>1
    <3>3. Enough(n - 1 + 1)
      BY <1>1, <3>1, <3>2
    <3>. QED BY <3>1, <3>3
  <2>. QED BY <2>1, <2>2
<1>5. n = Len(waiters) \/ Wanted(n + 1) > units
  <2>1. n # Len(waiters) => n + 1 \in 0 .. Len(waiters)
    BY <1>1, <1>3
  <2>. QED BY <1>3, <2>1, WantedType
<1>6. \E k \in 0 .. Len(waiters) : Wanted(k) <= units /\ (k = Len(waiters) \/ Wanted(k + 1) > units)
  BY <1>3, <1>4, <1>5
<1>. QED BY <1>6 DEF Served

(* Units that a thread takes or puts change the sum by as many *)
LEMMA SumTaken ==
  ASSUME NEW f \in [Thread -> Int], NEW t \in Thread, NEW n \in Int
  PROVE  SumFunction([f EXCEPT ![t] = @ + n]) = SumFunction(f) + n
<1> DEFINE g == [x \in Thread |-> n]
           h == [f EXCEPT ![t] = @ + n]
<1>1. /\ h \in [Thread -> Int] /\ h[t] = f[t] + n /\ \A x \in Thread \ {t} : h[x] = f[x]
      /\ DOMAIN h = Thread /\ DOMAIN f = Thread
  OBVIOUS
<1>2. g \in [Thread -> Int] /\ g[t] = n
  OBVIOUS
<1>3. SumFunctionOnSet(h, Thread) = SumFunctionOnSet(f, Thread) + SumFunctionOnSet(g, Thread \cap {t})
  <2> HIDE DEF g, h
  <2>1. {t} \in SUBSET Thread /\ AddsOn(h, f, g, {t}, Thread)
    BY <1>1, <1>2 DEF AddsOn
  <2>. QED BY <1>1, <1>2, <2>1, ThreadAssumption, SumMoved
<1>4. SumFunctionOnSet(g, {t}) = n
  <2> HIDE DEF g
  <2>1. SumFunctionOnSet(g, {t}) = g[t] + SumFunctionOnSet(g, {t} \ {t})
    BY <1>2, ThreadAssumption, SumTakeOut
  <2>2. {t} \ {t} = {}
    OBVIOUS
  <2>3. SumFunctionOnSet(g, {}) = 0
    BY <1>2, ThreadAssumption, SumEmpty
  <2>4. SumFunctionOnSet(g, {t}) = n + 0
    BY <1>2, <2>1, <2>2, <2>3, Zenon
  <2>. QED BY <2>4
<1>5. Thread \cap {t} = {t}
  OBVIOUS
<1> HIDE DEF g, h
<1>. QED BY <1>1, <1>3, <1>4, <1>5 DEF SumFunction

(* Units given to the threads of a set *)
LEMMA SumGiven ==
  ASSUME NEW f \in [Thread -> Int], NEW g \in [Thread -> Int], NEW M \in SUBSET Thread,
         NEW h \in [Thread -> Int], AddsOn(h, f, g, M, Thread)
  PROVE  SumFunction(h) = SumFunction(f) + SumFunctionOnSet(g, M)
<1>1. SumFunctionOnSet(h, Thread) = SumFunctionOnSet(f, Thread) + SumFunctionOnSet(g, Thread \cap M)
  BY ThreadAssumption, SumMoved
<1>2. Thread \cap M = M /\ DOMAIN h = Thread /\ DOMAIN f = Thread
  OBVIOUS
<1>. QED BY <1>1, <1>2 DEF SumFunction

LEMMA SumIsInt == ASSUME NEW f \in [Thread -> Int] PROVE SumFunction(f) \in Int
<1>1. SumFunctionOnSet(f, Thread) \in Int
  BY ThreadAssumption, SumType
<1>. QED BY <1>1 DEF SumFunction

(* A put() gives the units of the queue's first threads to those, and       *)
(* leaves the rest waiting as it came                                       *)
LEMMA PutKeeps ==
  ASSUME BaseInv, SemInv, object = "semaphore", NEW t \in Thread, NEW n \in Nat, Put(t, n)
  PROVE  /\ BaseInv' /\ SemTypes' /\ UnitsAccounted'
         /\ arrived' = waiters' /\ \A x \in Range(waiters') : sysflagcount'[x] >= 1
<1> DEFINE k == Served(unit + n)
           woken == Range(FirstOf("semaphore", k))
           given == [x \in Thread |-> taken[x] + (IF x \in woken THEN sysflagcount[x] ELSE 0)]
<1>1. /\ unit \in Nat /\ sem_timeout \in Nat /\ taken \in [Thread -> Int]
      /\ InitUnit \in Nat /\ unit + n \in Nat
      /\ unit + SumFunction(taken) = InitUnit
      /\ arrived = waiters /\ \A x \in Range(waiters) : sysflagcount[x] >= 1
  BY UnitAssumption DEF SemInv, SemTypes, UnitsAccounted, ArrivedAgrees
<1>2. /\ "semaphore" \in ObjQueues /\ waiters = wait_queue["semaphore"]
      /\ waiters \in Seq(Thread) /\ IsInjective(waiters) /\ Len(waiters) \in Nat
      /\ waiters' = wait_queue'["semaphore"]
      /\ sysflagcount \in [Thread -> Nat]
  BY SemaphoreAssumption DEF waiters, BaseInv, WaitTypes, WaitersListed
<1>3. k \in 0 .. Len(waiters) /\ Wanted(k) <= unit + n
  BY <1>1, ServedType
<1>4. Wanted(k) \in Int /\ woken \in SUBSET Thread /\ woken = {waiters[i] : i \in 1 .. k}
  BY <1>3, WantedType
<1>5. /\ thread = t
      /\ Serve("semaphore", k) /\ UNCHANGED <<blockVars, sem_timeout>>
      /\ unit' = unit + n - Wanted(k)
      /\ sysflagcount' = [x \in Thread |-> IF x \in woken THEN 0 ELSE sysflagcount[x]]
      /\ taken' = [x \in Thread |-> taken[x] + (IF x \in woken THEN sysflagcount[x] ELSE 0)
                                             - (IF x = t THEN n ELSE 0)]
      /\ StillWaiting
  BY DEF Put, Runs, Executes
<1>6. given \in [Thread -> Int] /\ AddsOn(given, taken, sysflagcount, woken, Thread)
  BY <1>1, <1>2 DEF AddsOn
<1>7. taken' = [given EXCEPT ![t] = @ + (-n)] /\ -n \in Int
  <2> DEFINE extra(x) == IF x \in woken THEN sysflagcount[x] ELSE 0
             less == [given EXCEPT ![t] = @ + (-n)]
  <2>1. ASSUME NEW x \in Thread PROVE extra(x) \in Int /\ taken[x] \in Int
    BY <1>1, <1>2
  <2>2. \A x \in Thread : given[x] = taken[x] + extra(x)
    OBVIOUS
  <2>3. \A x \in Thread : taken'[x] = taken[x] + (extra(x) - (IF x = t THEN n ELSE 0))
    BY <1>5
  <2> HIDE DEF extra, given
  <2>4. DOMAIN less = Thread /\ less[t] = given[t] + (-n) /\ \A x \in Thread \ {t} : less[x] = given[x]
    BY <1>6
  <2> HIDE DEF less
  <2>5. ASSUME NEW x \in Thread PROVE taken'[x] = less[x]
    <3>1. /\ given[x] = taken[x] + extra(x) /\ extra(x) \in Int /\ taken[x] \in Int
          /\ taken'[x] = taken[x] + (extra(x) - (IF x = t THEN n ELSE 0))
      BY <2>1, <2>2, <2>3
    <3>2. CASE x = t
      BY <2>4, <3>1, <3>2
    <3>3. CASE x # t
      BY <2>4, <3>1, <3>3
    <3>. QED BY <3>2, <3>3
  <2>6. taken' = [x \in Thread |-> taken'[x]]
    BY <1>5
  <2>7. less = [x \in Thread |-> less[x]]
    BY <1>6 DEF less
  <2>8. taken' = less
    BY <2>5, <2>6, <2>7
  <2>. QED BY <2>8 DEF less
<1> HIDE DEF k, woken, given
<1>8. SumFunction(given) = SumFunction(taken) + SumFunctionOnSet(sysflagcount, woken)
  <2>1. sysflagcount \in [Thread -> Int]
    BY <1>2
  <2>. QED BY <1>1, <1>4, <1>6, <2>1, SumGiven
<1>9. SumFunctionOnSet(sysflagcount, woken) = Wanted(k)
  BY DEF Wanted, woken
<1>10. SumFunction(taken') = SumFunction(given) + (-n)
  BY <1>6, <1>7, SumTaken
<1>11. SumFunction(taken) \in Int
  BY <1>1, SumIsInt
<1>12. UnitsAccounted' /\ unit' \in Nat
  <2>1. unit' \in Nat /\ unit' + SumFunction(taken') = InitUnit
    BY <1>1, <1>3, <1>4, <1>5, <1>8, <1>9, <1>10, <1>11, SMTT(30)
  <2>. QED BY <2>1 DEF UnitsAccounted
<1>13. SemTypes'
  <2>1. taken' \in [Thread -> Int]
    BY <1>6, <1>7
  <2>. QED BY <1>1, <1>5, <1>12, <2>1 DEF SemTypes
<1>14. /\ BaseInv'
       /\ \A x \in Thread : queue'[x] = "semaphore" <=> x \in Range(waiters) \ woken
  <2>1. sysflagcount' \in [Thread -> Nat]
    BY <1>2, <1>5
  <2>. QED BY <1>2, <1>3, <1>5, <2>1, BaseServe DEF woken
<1>15. arrived' = waiters'
  <2> DEFINE S == {x \in Thread : queue'[x] = "semaphore"}
  <2>1. waiters' = SubSeq(waiters, k + 1, Len(waiters))
    BY <1>2, <1>5 DEF Serve, BaseInv, WaitTypes
  <2>2. arrived' = Those(waiters, S)
    BY <1>1, <1>5 DEF StillWaiting
  <2>3. \A i \in 1 .. Len(waiters) : waiters[i] \in Thread /\ waiters[i] \in Range(waiters)
    BY <1>2 DEF Range
  <2>4. \A i \in 1 .. k : waiters[i] \notin S
    BY <1>3, <1>4, <1>14
  <2>5. \A i \in k + 1 .. Len(waiters) : waiters[i] \in S
    <3>1. ASSUME NEW i \in k + 1 .. Len(waiters) PROVE waiters[i] \notin woken
      <4>1. DOMAIN waiters = 1 .. Len(waiters)
        BY <1>2
      <4>2. \A m \in 1 .. k : m \in DOMAIN waiters /\ i \in DOMAIN waiters /\ m # i
        BY <1>2, <1>3, <4>1
      <4>. QED BY <1>2, <1>4, <4>2 DEF IsInjective
    <3>2. \A i \in k + 1 .. Len(waiters) : i \in 1 .. Len(waiters)
      BY <1>3
    <3>. QED BY <1>14, <2>3, <3>1, <3>2
  <2> HIDE DEF S
  <2>. QED BY <1>2, <1>3, <2>1, <2>2, <2>4, <2>5, ThoseRest
<1>16. \A x \in Range(waiters') : sysflagcount'[x] >= 1
  <2>1. Range(waiters') = {x \in Thread : queue'[x] = "semaphore"}
    BY <1>2, <1>14 DEF BaseInv, WaitersListed
  <2>. QED BY <1>1, <1>5, <1>14, <2>1
<1>. QED BY <1>12, <1>13, <1>14, <1>15, <1>16

(* Only threads that wait are served, and each with those before it *)
LEMMA PutInOrder ==
  ASSUME BaseInv, SemInv, object = "semaphore", NEW t \in Thread, NEW n \in Nat, Put(t, n),
         NEW i \in 1 .. Len(arrived), NEW j \in 1 .. Len(arrived),
         i < j, taken'[arrived[j]] > taken[arrived[j]]
  PROVE  taken'[arrived[i]] > taken[arrived[i]]
<1> DEFINE k == Served(unit + n)
           woken == Range(FirstOf("semaphore", k))
<1>1. /\ unit + n \in Nat /\ taken \in [Thread -> Int]
      /\ arrived = waiters /\ \A x \in Range(waiters) : sysflagcount[x] >= 1
  BY DEF SemInv, SemTypes, ArrivedAgrees
<1>2. /\ waiters \in Seq(Thread) /\ IsInjective(waiters) /\ Len(waiters) \in Nat
      /\ sysflagcount \in [Thread -> Nat]
  BY SemaphoreAssumption DEF waiters, BaseInv, WaitTypes, WaitersListed
<1>3. k \in 0 .. Len(waiters)
  BY <1>1, ServedType
<1>4. woken = {waiters[m] : m \in 1 .. k}
  BY <1>3, WantedType
<1>5. \A x \in Thread : taken'[x] = taken[x] + (IF x \in woken THEN sysflagcount[x] ELSE 0)
                                             - (IF x = t THEN n ELSE 0)
  BY DEF Put
<1>6. /\ waiters[i] \in Thread /\ waiters[j] \in Thread
      /\ waiters[i] \in Range(waiters) /\ waiters[j] \in Range(waiters)
  BY <1>1, <1>2 DEF Range
<1>7. waiters[i] # t /\ waiters[j] # t
  <2>1. t \notin Range(wait_queue["semaphore"])
    BY RunnerWaitsNowhere, SemaphoreAssumption DEF Put, Runs, Executes
  <2>. QED BY <1>6, <2>1 DEF waiters
<1> HIDE DEF k, woken
<1>8. waiters[j] \in woken
  BY <1>1, <1>5, <1>6, <1>7
<1>9. waiters[i] \in woken
  <2>1. PICK m \in 1 .. k : waiters[j] = waiters[m]
    BY <1>4, <1>8
  <2>2. m = j
    <3>1. DOMAIN waiters = 1 .. Len(waiters)
      BY <1>2
    <3>2. m \in DOMAIN waiters /\ j \in DOMAIN waiters
      BY <1>1, <1>2, <1>3, <3>1
    <3>. QED BY <1>2, <2>1, <3>2 DEF IsInjective
  <2>3. i \in 1 .. k
    BY <1>1, <1>2, <1>3, <2>2
  <2>. QED BY <1>4, <2>3
<1>. QED BY <1>1, <1>2, <1>5, <1>6, <1>7, <1>9, SMTT(30)

LEMMA TakeUnitsKeeps ==
  ASSUME BaseInv, SemInv, object = "semaphore", object' = object, NEW t \in Thread, NEW n \in Nat,
         TakeUnits(t, n)
  PROVE  BaseInv' /\ SemInv'
<1>1. /\ unit \in Nat /\ taken \in [Thread -> Int] /\ unit + SumFunction(taken) = InitUnit
      /\ SumFunction(taken) \in Int
  BY SumIsInt DEF SemInv, SemTypes, UnitsAccounted
<1>2. unit' \in Nat /\ unit' = unit - n /\ taken' = [taken EXCEPT ![t] = @ + n]
  BY <1>1 DEF TakeUnits
<1>3. SumFunction(taken') = SumFunction(taken) + n /\ taken' \in [Thread -> Int]
  <2>1. n \in Int /\ [taken EXCEPT ![t] = @ + n] \in [Thread -> Int]
    BY <1>1
  <2>2. SumFunction([taken EXCEPT ![t] = @ + n]) = SumFunction(taken) + n
    BY <1>1, <2>1, SumTaken
  <2>. QED BY <1>2, <2>1, <2>2
<1>4. UnitsAccounted'
  BY <1>1, <1>2, <1>3 DEF UnitsAccounted
<1>5. BaseInv' /\ UNCHANGED <<wait_queue, sysflagcount, arrived, sem_timeout>>
  BY BaseAnswer DEF TakeUnits, Answer, queueVars
<1>. QED BY <1>2, <1>3, <1>4, <1>5 DEF SemInv, SemTypes, ArrivedAgrees, waiters

LEMMA SemStays ==
  ASSUME SemInv, UNCHANGED <<semVars, object>>,
         object # "semaphore" \/ UNCHANGED <<wait_queue, sysflagcount>>
  PROVE  SemInv'
  BY DEF SemInv, SemTypes, UnitsAccounted, ArrivedAgrees, semVars, waiters

LEMMA GetWaitKeeps ==
  ASSUME BaseInv, SemInv, object = "semaphore", object' = object, NEW t \in Thread, NEW n \in Nat,
         Runs(t), unit < n, WaitIn("semaphore", t, sem_timeout, n), arrived' = Append(arrived, t),
         UNCHANGED <<unit, sem_timeout, taken>>
  PROVE  BaseInv' /\ SemInv'
<1>1. /\ "semaphore" \in ObjQueues /\ sem_timeout \in Nat /\ unit \in Nat
      /\ waiters \in Seq(Thread) /\ sysflagcount \in [Thread -> Nat]
      /\ waiters = wait_queue["semaphore"] /\ waiters' = wait_queue'["semaphore"]
  BY SemaphoreAssumption DEF waiters, BaseInv, WaitTypes, SemInv, SemTypes
<1>2. BaseInv'
  BY <1>1, BaseWait
<1>3. waiters' = Append(waiters, t) /\ sysflagcount' = [sysflagcount EXCEPT ![t] = n]
  BY <1>1 DEF WaitIn, BaseInv, WaitTypes
<1>4. arrived' = waiters'
  BY <1>3 DEF SemInv, ArrivedAgrees
<1>5. Range(waiters') = Range(waiters) \cup {t}
  BY <1>1, <1>3, AppendRange
<1>6. \A x \in Range(waiters') : sysflagcount'[x] >= 1
  <2>1. n >= 1 /\ \A x \in Range(waiters) : sysflagcount[x] >= 1 /\ x \in Thread
    BY <1>1 DEF SemInv, ArrivedAgrees, Range
  <2>. QED BY <1>1, <1>3, <1>5, <2>1
<1>. QED BY <1>2, <1>4, <1>6 DEF SemInv, SemTypes, UnitsAccounted, ArrivedAgrees

LEMMA SemKernelKeeps ==
  ASSUME BaseInv, SemInv, object = "semaphore", object' = object,
         KernelStep, FollowKernel, StillWaiting, UNCHANGED <<unit, sem_timeout, taken>>
  PROVE  BaseInv' /\ SemInv'
<1>1. BaseInv' /\ StaysInKernel
  BY BaseKernel
<1>2. arrived' = waiters'
  BY SemaphoreAssumption DEF StillWaiting, FollowKernel, SemInv, ArrivedAgrees, waiters
<1>3. \A x \in Range(waiters') : x \in Range(waiters) /\ sysflagcount'[x] = sysflagcount[x]
  <2>1. Range(waiters') \subseteq Range(waiters)
    <3>1. waiters' = Those(waiters, {t \in Thread : queue'[t] = "semaphore"})
      BY SemaphoreAssumption DEF FollowKernel, waiters
    <3>2. waiters \in Seq(Thread)
      BY SemaphoreAssumption DEF waiters, BaseInv, WaitTypes
    <3>3. Range(waiters') = Range(waiters) \cap {t \in Thread : queue'[t] = "semaphore"}
      BY <3>1, <3>2, ThoseRange
    <3>. QED BY <3>3
  <2>. QED BY <2>1 DEF FollowKernel
<1>. QED BY <1>1, <1>2, <1>3 DEF SemInv, SemTypes, UnitsAccounted, ArrivedAgrees

LEMMA SemKeeps ==
  ASSUME BaseInv, SemInv, object = "semaphore", object' = object, SemNext
  PROVE  BaseInv' /\ SemInv'
<1>1. CASE KernelStep /\ FollowKernel /\ StillWaiting /\ UNCHANGED <<unit, sem_timeout, taken>>
  BY <1>1, SemKernelKeeps
<1>2. ASSUME NEW t \in Thread, NEW n \in Amounts, Put(t, n) PROVE BaseInv' /\ SemInv'
  <2>1. n \in Nat
    BY UnitAssumption
  <2>. QED BY <1>2, <2>1, PutKeeps DEF SemInv, ArrivedAgrees
<1>3. ASSUME NEW t \in Thread, NEW n \in Amounts, Get(t, n) PROVE BaseInv' /\ SemInv'
  <2>1. n \in Nat
    BY UnitAssumption
  <2>. QED BY <1>3, <2>1, TakeUnitsKeeps, GetWaitKeeps DEF Get
<1>4. ASSUME NEW t \in Thread, NEW n \in Amounts, CheckUnits(t, n) PROVE BaseInv' /\ SemInv'
  <2>1. n \in Nat
    BY UnitAssumption
  <2>2. CASE Answer(t, 0) /\ UNCHANGED semVars
    <3>1. BaseInv' /\ UNCHANGED <<wait_queue, sysflagcount>>
      BY <2>2, BaseAnswer DEF Answer, queueVars
    <3>. QED BY <2>2, <3>1, SemStays
  <2>. QED BY <1>4, <2>1, <2>2, TakeUnitsKeeps DEF CheckUnits
<1>5. ASSUME NEW t \in Thread, NEW limit \in GetLimits, SemTimeout(t, limit)
      PROVE  BaseInv' /\ SemInv'
  <2>1. BaseInv' /\ UNCHANGED <<wait_queue, sysflagcount>>
    BY <1>5, BaseSame DEF SemTimeout, queueVars
  <2>. QED BY <1>5, <2>1, GetLimitAssumption
       DEF SemTimeout, SemInv, SemTypes, UnitsAccounted, ArrivedAgrees, waiters
<1>6. ASSUME NEW t \in Thread, GotUnits(t) PROVE BaseInv' /\ SemInv'
  <2>1. WaitAnswer(t) \in {0, 1} /\ GoOn("semaphore", t, WaitAnswer(t))
    BY <1>6 DEF WaitAnswer, GotUnits
  <2>2. BaseInv' /\ UNCHANGED <<wait_queue, sysflagcount>>
    BY <2>1, BaseGoOn, SemaphoreAssumption DEF GoOn, queueVars
  <2>. QED BY <1>6, <2>2, SemStays DEF GotUnits
<1>. QED BY <1>1, <1>2, <1>3, <1>4, <1>5, <1>6 DEF SemNext, SemStep

(* Every step of a program with a semaphore serves in order *)
ServesInOrder ==
  \A i, j \in 1 .. Len(arrived) :
    i < j /\ taken'[arrived[j]] > taken[arrived[j]] => taken'[arrived[i]] > taken[arrived[i]]

LEMMA SemInOrder ==
  ASSUME BaseInv, SemInv, arrived \in Seq(Thread),
         (object = "semaphore" /\ SemNext) \/ taken' = taken
  PROVE  ServesInOrder
<1>1. taken \in [Thread -> Int] /\ \A i \in 1 .. Len(arrived) : arrived[i] \in Thread
  BY DEF SemInv, SemTypes
<1>2. CASE taken' = taken
  BY <1>1, <1>2 DEF ServesInOrder
<1>3. CASE object = "semaphore" /\ \E t \in Thread : \E n \in Amounts : Put(t, n)
  BY <1>3, PutInOrder, UnitAssumption DEF ServesInOrder
<1>4. ASSUME object = "semaphore", NEW t \in Thread, NEW n \in Amounts, Runs(t), TakeUnits(t, n)
      PROVE  ServesInOrder
  <2>1. \A x \in Thread \ {t} : taken'[x] = taken[x]
    BY <1>1, <1>4 DEF TakeUnits
  <2>2. \A i \in 1 .. Len(arrived) : arrived[i] # t
    <3>1. t \notin Range(wait_queue["semaphore"])
      BY <1>4, RunnerWaitsNowhere, SemaphoreAssumption DEF Runs, Executes
    <3>2. \A i \in 1 .. Len(arrived) : arrived[i] \in Range(arrived)
      BY DEF Range
    <3>. QED BY <1>4, <3>1, <3>2 DEF SemInv, ArrivedAgrees, waiters
  <2>. QED BY <1>1, <2>1, <2>2 DEF ServesInOrder
<1>. QED BY <1>2, <1>3, <1>4 DEF SemNext, SemStep, Get, CheckUnits, SemTimeout, GotUnits, semVars
-----------------------------------------------------------------------------
(* The region *)

LEMMA RemovedType ==
  ASSUME NEW S, NEW s \in Seq(S), NEW e \in Range(s)
  PROVE  RemoveFirst(s, e) \in Seq(S)
<1> DEFINE places == {n \in 1 .. Len(s) : s[n] = e}
           i == SelectInSeq(s, LAMBDA v : v = e)
<1>1. places # {} /\ places \in SUBSET Nat /\ \E n \in 1 .. Len(s) : s[n] = e
  BY DEF Range
<1>2. i \in 1 .. Len(s)
  <2>1. PICK n \in places : \A m \in places : n <= m
    BY <1>1, LeastNumber
  <2>2. i = Min(places)
    BY <1>1 DEF SelectInSeq
  <2>. QED BY <2>1, <2>2 DEF Min
<1>3. RemoveFirst(s, e) = SubSeq(s, 1, i - 1) \o SubSeq(s, i + 1, Len(s))
  BY <1>1 DEF RemoveFirst, RemoveAt
<1> HIDE DEF i
<1>4. SubSeq(s, 1, i - 1) \in Seq(S) /\ SubSeq(s, i + 1, Len(s)) \in Seq(S)
  BY <1>2
<1>. QED BY <1>3, <1>4, ConcatProperties

LEMMA RegionsApart ==
  \A r \in Regions : r \in ObjQueues /\ r \notin KernelQueues /\ r \notin KernelPoints /\ r # "code"
  BY QueuesApart, RegionAssumption DEF KernelPoints

LEMMA RegionInit1 == RegionInit => RegionInv
<1> SUFFICES ASSUME RegionInit PROVE RegionInv
  OBVIOUS
<1>1. /\ region = [r \in Regions |-> <<>>] /\ key = [t \in Thread |-> 0]
      /\ inside = [t \in Thread |-> {}]
  BY DEF RegionInit
<1>2. RegionTypes
  BY <1>1 DEF RegionTypes
<1>3. \A t \in Thread : at[t] \notin Regions /\ queue[t] \notin Regions
  BY RegionsApart DEF RegionInit, QueuesInit, Init, KernelPoints, KernelQueues
<1>4. KeysAsked /\ NobodyWaitsOnFreeKey
  BY <1>1, <1>3 DEF KeysAsked, NobodyWaitsOnFreeKey
<1>. QED BY <1>2, <1>4 DEF RegionInv

(* Nobody comes to wait at a region *)
NobodyComes ==
  \A t \in Thread, r \in Regions : /\ at'[t] = r => at[t] = r
                                   /\ queue'[t] = r => queue[t] = r

LEMMA NobodyComesFromKernel == StaysInKernel => NobodyComes
  BY RegionsApart DEF StaysInKernel, NobodyComes

LEMMA RegionStays ==
  ASSUME RegionInv, UNCHANGED <<regionVars, object>>, object # "region" \/ NobodyComes
  PROVE  RegionInv'
<1>1. UNCHANGED <<region, key, inside, object>>
  BY DEF regionVars
<1>2. RegionTypes' /\ KeysAsked'
  BY <1>1 DEF RegionInv, RegionTypes, KeysAsked, NobodyComes
<1>3. ASSUME NewElement \notin Keys PROVE NobodyWaitsOnFreeKey'
  <2>1. CASE object # "region"
    BY <1>1, <1>3, <2>1 DEF RegionInv, KeysAsked, NobodyWaitsOnFreeKey, NewElement
  <2>2. CASE NobodyComes
    BY <1>1, <1>3, <2>2 DEF RegionInv, NobodyComes, NobodyWaitsOnFreeKey
  <2>. QED BY <2>1, <2>2
<1>. QED BY <1>2, <1>3 DEF RegionInv

(* One more key in one of the lists sets nobody's free *)
LEMMA StoredKeeps ==
  ASSUME RegionTypes, NEW r \in Regions, NEW k \in Keys, region' = Stored(r, k)
  PROVE  /\ region' \in [Regions -> Seq(Keys)]
         /\ \A x \in Regions : Range(region[x]) \subseteq Range(region'[x])
<1>1. region \in [Regions -> Seq(Keys)] /\ region' = [region EXCEPT ![r] = Append(@, k)]
  BY DEF RegionTypes, Stored
<1>2. /\ Append(region[r], k) \in Seq(Keys)
      /\ Range(Append(region[r], k)) = Range(region[r]) \cup {k}
  BY <1>1, AppendRange
<1>. QED BY <1>1, <1>2

(* A step after which nobody waits that did not, and all that was locked is *)
LEMMA LockedKeeps ==
  ASSUME RegionInv, object = "region", object' = object, NobodyComes, RegionTypes',
         \A t \in Thread : at'[t] \in Regions => key'[t] = key[t],
         \A t \in Thread : queue'[t] \in Regions => key'[t] = key[t],
         \A x \in Regions : Range(region[x]) \subseteq Range(region'[x])
  PROVE  RegionInv'
<1>1. KeysAsked'
  <2> SUFFICES ASSUME NEW t \in Thread, at'[t] \in Regions PROVE key'[t] \in Keys
    BY DEF KeysAsked
  <2>. QED BY DEF RegionInv, KeysAsked, NobodyComes
<1>2. ASSUME NewElement \notin Keys PROVE NobodyWaitsOnFreeKey'
  <2> SUFFICES ASSUME NEW r \in Regions, NEW t \in Thread, NEW k \in Keys,
                      queue'[t] = r, key'[t] = k
               PROVE  k \in Range(region'[r])
    BY DEF NobodyWaitsOnFreeKey
  <2>1. queue[t] = r /\ key[t] = k
    BY DEF NobodyComes
  <2>. QED BY <1>2, <2>1 DEF RegionInv, NobodyWaitsOnFreeKey
<1>. QED BY <1>1, <1>2 DEF RegionInv

(* t goes in from its program *)
LEMMA AdmittedKeeps ==
  ASSUME BaseInv, RegionInv, object = "region", object' = object,
         NEW t \in Thread, NEW r \in Regions, NEW k \in Keys,
         region' = Stored(r, k), Enters(t, r, k), Answer(t, 1), UNCHANGED key
  PROVE  BaseInv' /\ RegionInv'
<1>1. BaseInv' /\ UNCHANGED <<at, queue>>
  BY BaseAnswer DEF Answer, runVars
<1>2. RegionTypes /\ inside' = [inside EXCEPT ![t] = @ \cup {<<r, k>>}]
  BY DEF RegionInv, Enters
<1>3. /\ region' \in [Regions -> Seq(Keys)]
      /\ \A x \in Regions : Range(region[x]) \subseteq Range(region'[x])
  BY <1>2, StoredKeeps
<1>4. RegionTypes'
  BY <1>2, <1>3 DEF RegionTypes
<1>5. NobodyComes
  BY <1>1 DEF NobodyComes
<1>. QED BY <1>1, <1>3, <1>4, <1>5, LockedKeeps

LEMMA RefusedKeeps ==
  ASSUME BaseInv, RegionInv, object = "region", object' = object,
         NEW t \in Thread, Runs(t), NEW r \in Regions, NEW k \in Keys, k \in Range(region[r]),
         WaitIn(r, t, 0, 1), key' = [key EXCEPT ![t] = k], UNCHANGED <<region, inside>>
  PROVE  BaseInv' /\ RegionInv'
<1>1. BaseInv'
  BY BaseWait, RegionAssumption
<1>2. /\ at' = [at EXCEPT ![t] = r] /\ queue' = [queue EXCEPT ![t] = r]
      /\ at \in [Thread -> Points] /\ queue \in [Thread -> QueueNames]
      /\ key \in [Thread -> Nat] /\ k \in Nat
  BY KeyAssumption DEF WaitIn, Suspend, BaseInv, TypeOK, RunTypes, RegionInv, RegionTypes
<1>3. KeysAsked'
  BY <1>2 DEF RegionInv, KeysAsked
<1>4. RegionTypes'
  BY <1>2 DEF RegionInv, RegionTypes
<1>5. ASSUME NewElement \notin Keys PROVE NobodyWaitsOnFreeKey'
  BY <1>2, <1>5 DEF RegionInv, NobodyWaitsOnFreeKey
<1>. QED BY <1>1, <1>3, <1>4, <1>5 DEF RegionInv

(* enter() after its wait, wherever ACC_DT takes its key *)
LEMMA GoesInKeeps ==
  ASSUME BaseInv, RegionInv, object = "region", object' = object,
         NEW t \in Thread, NEW r \in Regions, GoOn(r, t, WaitAnswer(t)),
         key' = [key EXCEPT ![t] = 0],
         \/ UNCHANGED <<region, inside>>
         \/ region' \in StoredSomewhere(key[t]) /\ Enters(t, r, key[t])
  PROVE  BaseInv' /\ RegionInv'
<1>1. WaitAnswer(t) \in {0, 1} /\ thread = t /\ at[t] = r /\ UNCHANGED wait_queue
      /\ r \in ObjQueues
  BY RegionsApart DEF WaitAnswer, GoOn, queueVars
<1>2. BaseInv' /\ \A x \in Thread : at'[x] = at[x] \/ (x = t /\ at'[x] \in KernelPoints)
  BY <1>1, BaseGoOn
<1>3. RegionTypes /\ key[t] \in Keys /\ at \in [Thread -> Points]
  BY <1>1 DEF RegionInv, KeysAsked, BaseInv, TypeOK, RunTypes
<1>4. \A x \in Thread, y \in Regions : queue'[x] = y <=> queue[x] = y
  BY <1>1, <1>2, RegionsApart DEF BaseInv, WaitersListed
<1>5. at'[t] = "code" \/ at'[t] = "exited"
  <2>1. CASE ExitTerminated(t)
    BY <1>1, <1>3, <2>1 DEF ExitTerminated, BecomeZombie
  <2>2. CASE at' = [at EXCEPT ![t] = "code"]
    BY <1>3, <2>2
  <2>. QED BY <2>1, <2>2 DEF GoOn
<1>6. at'[t] \notin Regions /\ queue'[t] \notin Regions
  <2>1. queue[t] = "none" /\ "none" \in KernelQueues
    BY <1>1 DEF BaseInv, Calm, KernelQueues
  <2>. QED BY <1>4, <1>5, <2>1, RegionsApart DEF KernelPoints
<1>7. NobodyComes
  BY <1>2, <1>4, RegionsApart DEF NobodyComes
<1>8. /\ region' \in [Regions -> Seq(Keys)] /\ inside' \in [Thread -> SUBSET (Regions \X Keys)]
      /\ \A x \in Regions : Range(region[x]) \subseteq Range(region'[x])
  <2>1. CASE UNCHANGED <<region, inside>>
    BY <1>3, <2>1 DEF RegionTypes
  <2>2. CASE region' \in StoredSomewhere(key[t]) /\ Enters(t, r, key[t])
    <3>1. inside' \in [Thread -> SUBSET (Regions \X Keys)]
      BY <1>3, <2>2 DEF Enters, RegionTypes
    <3>2. CASE region' = region
      BY <1>3, <3>1, <3>2 DEF RegionTypes
    <3>3. ASSUME NEW y \in Regions, region' = Stored(y, key[t])
          PROVE  /\ region' \in [Regions -> Seq(Keys)]
                 /\ \A x \in Regions : Range(region[x]) \subseteq Range(region'[x])
      BY <1>3, <3>3, StoredKeeps
    <3>. QED BY <2>2, <3>1, <3>2, <3>3 DEF StoredSomewhere
  <2>. QED BY <2>1, <2>2
<1>9. RegionTypes'
  BY <1>1, <1>3, <1>8 DEF RegionTypes
<1>10. \A x \in Thread : x # t => key'[x] = key[x]
  BY <1>1, <1>3 DEF RegionTypes
<1>. QED BY <1>2, <1>6, <1>7, <1>8, <1>9, <1>10, LockedKeeps

LEMMA FollowsNullKeeps ==
  ASSUME BaseInv, RegionInv, object = "region", object' = object,
         NEW t \in Thread, NEW r \in Regions, FollowsNull(t, r)
  PROVE  BaseInv' /\ RegionInv'
<1>1. /\ UNCHANGED <<runVars, in_loop, keep_looping, end_of_simulation, edge_req, blockVars,
                     termVars, timeVars, history, queueVars, regionVars>>
      /\ internal_error' = TRUE /\ thread = t /\ at[t] = r
  BY DEF FollowsNull
<1>2. TypeOK'
  <2>1. LoopTypes'
    BY <1>1 DEF BaseInv, TypeOK, LoopTypes
  <2>. QED BY <1>1, <2>1, RunTypesSame, BlockTypesSame, TermTypesSame, TimeTypesSame,
              HistoryTypesSame DEF BaseInv, TypeOK
<1>3. UNCHANGED <<thread, queue, at, in_loop, parent, child, forking, thread_join, wait_queue,
                  sysflagcount>>
  BY <1>1 DEF runVars, blockVars, termVars, queueVars
<1>4. BaseInv'
  BY <1>2, <1>3 DEF BaseInv, Calm, WaitTypes, WaitersListed
<1>5. NobodyComes
  BY <1>3 DEF NobodyComes
<1>. QED BY <1>1, <1>4, <1>5, RegionStays

LEMMA LeaveRegionKeeps ==
  ASSUME BaseInv, RegionInv, object = "region", object' = object,
         NEW t \in Thread, NEW r \in Regions, NEW k \in Keys, LeaveRegion(t, r, k)
  PROVE  BaseInv' /\ RegionInv'
<1>1. CASE /\ k \in Range(region[r]) /\ region' = Without(r, k)
           /\ inside' = [inside EXCEPT ![t] = @ \ {<<r, k>>}]
           /\ Serve(r, Admitted(r, region'[r]))
           /\ UNCHANGED <<blockVars, sysflagcount>>
  <2>1. r \in ObjQueues /\ wait_queue[r] \in Seq(Thread) /\ sysflagcount' \in [Thread -> Nat]
    BY <1>1, RegionAssumption DEF BaseInv, WaitTypes
  <2>2. Admitted(r, region'[r]) \in 0 .. Len(wait_queue[r])
    BY <2>1 DEF Admitted
  <2>3. BaseInv'
    BY <1>1, <2>1, <2>2, BaseServe
  <2>4. /\ UNCHANGED <<at, key>>
        /\ \A x \in Thread : queue'[x] = queue[x] \/ queue'[x] = "ready"
    BY <1>1 DEF Serve, LeaveRegion, BaseInv, TypeOK, RunTypes
  <2>5. NobodyComes
    BY <2>4, RegionsApart DEF NobodyComes, KernelQueues
  <2>6. /\ region' = [region EXCEPT ![r] = RemoveFirst(@, k)]
        /\ region' \in [Regions -> Seq(Keys)]
    BY <1>1, RemovedType DEF Without, RegionInv, RegionTypes
  <2>7. RegionTypes' /\ KeysAsked'
    BY <1>1, <2>4, <2>6 DEF RegionInv, RegionTypes, KeysAsked
  <2>8. ASSUME NewElement \notin Keys PROVE NobodyWaitsOnFreeKey'
    <3>1. Admitted(r, region'[r]) = Len(wait_queue[r])
      BY <2>6, <2>8 DEF Admitted, Range
    <3>2. wait_queue'[r] = <<>>
      BY <1>1, <2>1, <3>1, ServedEmpty
    <3>3. \A x \in Thread : queue'[x] # r
      BY <2>1, <2>3, <3>2, EmptyOnce DEF BaseInv, WaitersListed
    <3>4. \A y \in Regions : y # r => region'[y] = region[y]
      BY <2>6 DEF RegionInv, RegionTypes
    <3> SUFFICES ASSUME NEW y \in Regions, NEW x \in Thread, NEW l \in Keys,
                        queue'[x] = y, key'[x] = l
                 PROVE  l \in Range(region'[y])
      BY DEF NobodyWaitsOnFreeKey
    <3>5. y # r /\ queue[x] = y /\ key[x] = l
      BY <2>4, <2>5, <3>3 DEF NobodyComes
    <3>. QED BY <2>8, <3>4, <3>5 DEF RegionInv, NobodyWaitsOnFreeKey
  <2>. QED BY <2>3, <2>7, <2>8 DEF RegionInv
<1>2. CASE ExitSimulation(t) /\ UNCHANGED <<region, inside, queueVars>>
  <2>1. BaseInv' /\ StaysInKernel
    BY <1>2, BaseExitSimulation
  <2>. QED BY <1>2, <2>1, NobodyComesFromKernel, RegionStays DEF LeaveRegion, regionVars
<1>. QED BY <1>1, <1>2 DEF LeaveRegion

LEMMA RegionKeeps ==
  ASSUME BaseInv, RegionInv, object = "region", object' = object, RegionNext
  PROVE  BaseInv' /\ RegionInv'
<1>1. CASE KernelStep /\ FollowKernel /\ UNCHANGED regionVars
  <2>1. BaseInv' /\ StaysInKernel
    BY <1>1, BaseKernel
  <2>. QED BY <1>1, <2>1, NobodyComesFromKernel, RegionStays
<1>2. ASSUME NEW t \in Thread, NEW r \in Regions, NEW k \in Keys, EnterRegion(t, r, k)
      PROVE  BaseInv' /\ RegionInv'
  BY <1>2, AdmittedKeeps, RefusedKeeps DEF EnterRegion, MayEnter
<1>3. ASSUME NEW t \in Thread, NEW r \in Regions, NEW k \in Keys, CheckEnter(t, r, k)
      PROVE  BaseInv' /\ RegionInv'
  <2>1. CASE Answer(t, 0) /\ UNCHANGED <<region, inside, key>>
    <3>1. BaseInv' /\ UNCHANGED <<at, queue>>
      BY <2>1, BaseAnswer DEF Answer, runVars
    <3>. QED BY <2>1, <3>1, RegionStays DEF regionVars, NobodyComes
  <2>. QED BY <1>3, <2>1, AdmittedKeeps DEF CheckEnter
<1>4. ASSUME NEW t \in Thread, NEW r \in Regions, NEW k \in Keys, LeaveRegion(t, r, k)
      PROVE  BaseInv' /\ RegionInv'
  BY <1>4, LeaveRegionKeeps
<1>5. ASSUME NEW t \in Thread, NEW r \in Regions, GoesIn(t, r) PROVE BaseInv' /\ RegionInv'
  BY <1>5, GoesInKeeps, FollowsNullKeeps DEF GoesIn
<1>. QED BY <1>1, <1>2, <1>3, <1>4, <1>5 DEF RegionNext, RegionStep
-----------------------------------------------------------------------------
(* All four kinds together *)

LEMMA SyncInvInit == SyncInit => SyncInv
<1> SUFFICES ASSUME SyncInit PROVE SyncInv
  OBVIOUS
<1>1. BaseInv
  BY BaseInit DEF SyncInit, SemInit
<1>2. SemInv
  <2>1. SemTypes /\ UnitsAccounted /\ arrived = waiters /\ waiters = <<>>
    BY SemInit1 DEF SyncInit
  <2>2. Range(<<>>) = {}
    BY EmptyOnce
  <2>. QED BY <2>1, <2>2 DEF SemInv, ArrivedAgrees
<1>. QED BY <1>1, <1>2, EventInit1, MailInit1, RegionInit1
     DEF SyncInit, SyncInv, EventInit, EventInv, MailInit, MailInv

LEMMA SyncInvStep == SyncInv /\ [SyncNext]_syncVars => SyncInv' /\ object' = object
<1> SUFFICES ASSUME SyncInv, [SyncNext]_syncVars PROVE SyncInv' /\ object' = object
  OBVIOUS
<1> USE DEF SyncInv
<1>1. CASE UNCHANGED syncVars
  <2>1. /\ UNCHANGED <<vars, queueVars>> /\ UNCHANGED <<semVars, object>>
        /\ UNCHANGED <<eventVars, object>> /\ UNCHANGED <<mailVars, object>>
        /\ UNCHANGED <<regionVars, object>>
    BY <1>1 DEF syncVars
  <2>2. UNCHANGED <<wait_queue, sysflagcount, at, queue>> /\ NobodyComes
    BY <2>1 DEF queueVars, vars, runVars, NobodyComes
  <2>. QED BY <2>1, <2>2, BaseSame, SemStays, EventStays, MailStays, RegionStays
<1>2. CASE object = "semaphore" /\ SemNext /\ UNCHANGED <<eventVars, mailVars, regionVars, object>>
  <2>1. BaseInv' /\ SemInv' /\ object' = object
    BY <1>2, SemKeeps
  <2>. QED BY <1>2, <2>1, EventStays, MailStays, RegionStays
<1>3. CASE object = "event" /\ EventNext /\ UNCHANGED <<semVars, mailVars, regionVars, object>>
  <2>1. BaseInv' /\ EventInv' /\ object' = object
    BY <1>3, EventKeeps
  <2>. QED BY <1>3, <2>1, SemStays, MailStays, RegionStays
<1>4. CASE object = "mailbox" /\ MailNext /\ UNCHANGED <<semVars, eventVars, regionVars, object>>
  <2>1. BaseInv' /\ MailTypes' /\ MailNumbered' /\ NobodyWaitsOnMail' /\ object' = object
    BY <1>4, MailKeeps DEF MailInv
  <2>. QED BY <1>4, <2>1, SemStays, EventStays, RegionStays DEF MailInv
<1>5. CASE object = "region" /\ RegionNext /\ UNCHANGED <<semVars, eventVars, mailVars, object>>
  <2>1. BaseInv' /\ RegionInv' /\ object' = object
    BY <1>5, RegionKeeps
  <2>. QED BY <1>5, <2>1, SemStays, EventStays, MailStays
<1>. QED BY <1>1, <1>2, <1>3, <1>4, <1>5 DEF SyncNext

(* Every state of a program with a synchronisation object is typed, in the  *)
(* kernel and the object, and its threads and queues agree, whatever limits *)
(* its waits have.                                                          *)
THEOREM SyncCorrect == SyncSpec => []SyncInv
  BY SyncInvInit, SyncInvStep, PTL DEF SyncSpec

(* The queue of an object holds each thread that waits for it, once, and no *)
(* other: neither the thread that serves it, nor JD_count_timeq, nor its    *)
(* termination leaves it in the queue or takes it out twice.                *)
THEOREM WaitersAreListed == SyncSpec => []WaitersListed
<1>1. SyncInv => WaitersListed
  BY DEF SyncInv, BaseInv
<1>. QED BY <1>1, SyncCorrect, PTL

(* The units of a semaphore are never lost nor made: those there are and    *)
(* those taken and not put back are the units of new().                     *)
THEOREM NoUnitLost == SyncSpec => []UnitsAccounted
<1>1. SyncInv => UnitsAccounted
  BY DEF SyncInv, SemInv
<1>. QED BY <1>1, SyncCorrect, PTL

(* Nobody waits for an event whose trigger is active: sync() and the three  *)
(* triggers look at the status and at the queue in one step.                *)
THEOREM TriggersAreTaken == SyncSpec => []NobodyWaitsOnTrigger
<1>1. SyncInv => NobodyWaitsOnTrigger
  BY DEF SyncInv, EventInv
<1>. QED BY <1>1, SyncCorrect, PTL

(* What trigger() promises lasts to the end of the time slot, unless a      *)
(* receiver clears it or the event is switched on or off.                   *)
THEOREM TriggersLast == SyncSpec => []SlotTriggerLasts
<1>1. SyncInv => SlotTriggerLasts
  BY DEF SyncInv, EventInv
<1>. QED BY <1>1, SyncCorrect, PTL

(* The messages of a mailbox are handed out in the order in which they were *)
(* sent, each to one reader.                                                *)
THEOREM MailIsDelivered == SyncSpec => []MailInOrder
<1>1. SyncInv => MailInOrder
  BY NumberedInOrder DEF SyncInv, MailInv
<1>. QED BY <1>1, SyncCorrect, PTL

(* Nobody waits at a mailbox that holds a message.                          *)
THEOREM MailIsTaken == SyncSpec => []NobodyWaitsOnMail
<1>1. SyncInv => NobodyWaitsOnMail
  BY DEF SyncInv, MailInv
<1>. QED BY <1>1, SyncCorrect, PTL

(* With any regions and keys but 0, nobody waits for a key that is free,    *)
(* into whatever list ACC_DT has led the key of another. (exit( k ) lets    *)
(* nobody in if the list holds 0, the value of the new element that waits   *)
(* above the argument.)                                                     *)
THEOREM FreeKeysAreGiven ==
  ASSUME NewElement \notin Keys PROVE SyncSpec => []NobodyWaitsOnFreeKey
<1>1. SyncInv => NobodyWaitsOnFreeKey
  BY DEF SyncInv, RegionInv
<1>. QED BY <1>1, SyncCorrect, PTL

ArrivedTyped == arrived \in Seq(Thread)

LEMMA ArrivedType == SyncSpec => []ArrivedTyped
<1>1. SyncInit => ArrivedTyped
  BY DEF SyncInit, SemInit, ArrivedTyped
<1>2. SyncInv /\ SyncInv' /\ ArrivedTyped /\ [SyncNext]_syncVars => ArrivedTyped'
  <2> SUFFICES ASSUME SyncInv, SyncInv', ArrivedTyped, [SyncNext]_syncVars
               PROVE  arrived' \in Seq(Thread)
    BY DEF ArrivedTyped
  <2> USE DEF ArrivedTyped
  <2>1. CASE object = "semaphore"
    <3>1. object' = "semaphore"
      BY <2>1 DEF SyncNext, syncVars
    <3>2. arrived' = wait_queue'["semaphore"] /\ "semaphore" \in ObjQueues
      BY <3>1, SemaphoreAssumption DEF SyncInv, SemInv, ArrivedAgrees, waiters
    <3>. QED BY <3>2 DEF SyncInv, BaseInv, WaitTypes
  <2>2. CASE object # "semaphore"
    BY <2>2 DEF SyncNext, syncVars, semVars
  <2>. QED BY <2>1, <2>2
<1>. QED BY <1>1, <1>2, SyncCorrect, PTL DEF SyncSpec

(* A put() to a semaphore serves a thread only with all those who came      *)
(* before it and still wait.                                                *)
THEOREM ServedInOrder == SyncSpec => FirstComeFirstServed
<1>1. SyncInv /\ ArrivedTyped /\ [SyncNext]_syncVars => [ServesInOrder]_semAllVars
  <2> SUFFICES ASSUME SyncInv, ArrivedTyped, SyncNext \/ UNCHANGED syncVars
               PROVE  ServesInOrder
    OBVIOUS
  <2>1. (object = "semaphore" /\ SemNext) \/ taken' = taken
    BY DEF SyncNext, syncVars, semVars
  <2>. QED BY <2>1, SemInOrder DEF SyncInv, ArrivedTyped
<1>2. SyncSpec => [][ServesInOrder]_semAllVars
  BY <1>1, SyncCorrect, ArrivedType, PTL DEF SyncSpec
<1>. QED BY <1>2 DEF FirstComeFirstServed, ServesInOrder
=============================================================================
