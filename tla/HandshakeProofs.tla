--------------------------- MODULE HandshakeProofs ---------------------------
(***************************************************************************)
(* Proofs about Handshake, for any number of threads: the pthread build    *)
(* keeps one process at a time on the shared state, frees the structure of *)
(* a thread only when its pthread is done with it, and implements Switch.  *)
(***************************************************************************)
EXTENDS Handshake, TLAPS

LEMMA InitHInv == Init => HInv
<1> SUFFICES ASSUME Init PROVE HInv
    OBVIOUS
<1>1. TypeOK
  BY LoopAssumption DEF Init, TypeOK, Process, LoopPoints, ThreadPoints, Queues, lockVars
<1>2. MutexHeld /\ RunsIfGiven /\ BornIsAwaited /\ PlaceOfThread /\ Given /\ FreedIsLeft
  BY LoopAssumption DEF Init, MutexHeld, RunsIfGiven, BornIsAwaited, PlaceOfThread, Given,
     FreedIsLeft, Process, Making, Handing
<1>3. QED
  BY <1>1, <1>2 DEF HInv

(* HInv and all that one needs to look into it *)
USE DEF HInv, TypeOK, MutexHeld, RunsIfGiven, BornIsAwaited, PlaceOfThread, Given,
        FreedIsLeft, Process, LoopPoints, ThreadPoints, Queues, Making, Handing, lockVars,
        Go, GoAndSignal

(* v_top_loop *)
LEMMA LoopKeepsHInv == HInv /\ LoopStep => HInv'
<1> SUFFICES ASSUME HInv, LoopStep PROVE HInv'
    OBVIOUS
<1>1. CASE StartLoop   BY <1>1, LoopAssumption DEF StartLoop
<1>2. CASE Begin       BY <1>2, LoopAssumption DEF Begin
<1>3. CASE EndLoop     BY <1>3, LoopAssumption DEF EndLoop
<1>4. CASE FreeZombies BY <1>4, LoopAssumption DEF FreeZombies
<1>5. CASE SignalThread BY <1>5, LoopAssumption DEF SignalThread
<1>6. CASE TestLoop    BY <1>6, LoopAssumption DEF TestLoop
<1>7. ASSUME NEW t \in Thread, Pick(t) PROVE HInv'
  BY <1>7, LoopAssumption DEF Pick
<1>8. ASSUME NEW t \in Thread, CreateMain(t) PROVE HInv'
  BY <1>8, LoopAssumption DEF CreateMain, Create
<1>9. QED
  BY <1>1, <1>2, <1>3, <1>4, <1>5, <1>6, <1>7, <1>8 DEF LoopStep

(* The steps of m_mutex and of the creation of a thread *)
LEMMA StepKeepsHInv == ASSUME NEW p \in Process, HInv, Step(p) PROVE HInv'
<1>1. CASE Lock(p)     BY <1>1, LoopAssumption DEF Lock
<1>2. CASE Unlock(p)   BY <1>2, LoopAssumption DEF Unlock
<1>3. CASE MakeLock(p)
  <2>1. TypeOK' /\ MutexHeld' /\ PlaceOfThread' /\ Given' /\ FreedIsLeft'
    BY <1>3, LoopAssumption, ZenonT(30) DEF MakeLock
  <2>2. RunsIfGiven' /\ BornIsAwaited'
    BY <1>3, LoopAssumption DEF MakeLock
  <2>3. QED
    BY <2>1, <2>2
<1>4. CASE MakeTest(p) BY <1>4, LoopAssumption DEF MakeTest
<1>5. QED
  BY <1>1, <1>2, <1>3, <1>4, Step(p) DEF Step

LEMMA SpuriousWakeKeepsHInv == ASSUME NEW p \in Process, HInv, SpuriousWake(p) PROVE HInv'
BY LoopAssumption DEF SpuriousWake

LEMMA WakeKeepsHInv == ASSUME NEW p \in Process, NEW t \in Thread, HInv, Wake(p, t) PROVE HInv'
BY LoopAssumption DEF Wake

(* A thread suspends itself or exits *)
LEMMA GiveUpKeepsHInv ==
  ASSUME NEW t \in Thread, NEW q \in {"ready", "sleep", "zombie"}, HInv,
         GiveUp(t, q), keep_looping' \in BOOLEAN
  PROVE  HInv'
BY LoopAssumption DEF GiveUp

LEMMA ThreadKeepsHInv == ASSUME NEW t \in Thread, HInv, ThreadStep(t) PROVE HInv'
<1>1. CASE TestThread(t)  BY <1>1, LoopAssumption DEF TestThread
<1>2. CASE SignalMain(t)  BY <1>2, LoopAssumption DEF SignalMain
<1>3. CASE Born(t)        BY <1>3, LoopAssumption DEF Born
<1>4. CASE BornUnlock(t)  BY <1>4, LoopAssumption DEF BornUnlock
<1>5. CASE BornSignal(t)  BY <1>5, LoopAssumption DEF BornSignal
<1>6. CASE Exit(t)        BY <1>6, GiveUpKeepsHInv DEF Exit
<1>7. CASE StopLoop(t)    BY <1>7, GiveUpKeepsHInv DEF StopLoop
<1>8. ASSUME NEW q \in {"ready", "sleep"}, Suspend(t, q) PROVE HInv'
  BY <1>8, GiveUpKeepsHInv DEF Suspend
<1>9. CASE Fork(t)        BY <1>9, LoopAssumption DEF Fork
<1>10. CASE EndFork(t)    BY <1>10, LoopAssumption DEF EndFork
<1>11. ASSUME NEW c \in Thread, Exec(t, c) PROVE HInv'
  BY <1>11, LoopAssumption DEF Exec, Create
<1>12. QED
  BY <1>1, <1>2, <1>3, <1>4, <1>5, <1>6, <1>7, <1>8, <1>9, <1>10, <1>11, ThreadStep(t) DEF ThreadStep

LEMMA StutterKeepsHInv == HInv /\ UNCHANGED vars => HInv'
BY LoopAssumption DEF vars

LEMMA NextKeepsHInv == HInv /\ [Next]_vars => HInv'
BY LoopKeepsHInv, StepKeepsHInv, SpuriousWakeKeepsHInv, WakeKeepsHInv, ThreadKeepsHInv,
   StutterKeepsHInv DEF Next

(* The inductive invariant holds in every reachable state of the pthread    *)
(* build: m_mutex, main_flag and the wait of the creator (thread.c:818-856) *)
(* are used as MutexHeld, RunsIfGiven and BornIsAwaited say.                *)
THEOREM InvariantHolds == Spec => []HInv
<1>1. Init => HInv
  BY InitHInv
<1>2. HInv /\ [Next]_vars => HInv'
  BY NextKeepsHInv
<1>3. QED
  BY <1>1, <1>2, PTL DEF Spec

(* Only the one who was given control works on the shared state, whatever   *)
(* the pthreads' interleaving and however often a wait ends early           *)
(* (thread.c:583-670, top_loop.c:396-405).                                  *)
THEOREM ControlIsExclusive == Spec => []OneInControl
<1>1. HInv => OneInControl
  BY LoopAssumption DEF OneInControl, InControl, Who
<1>2. QED
  BY <1>1, InvariantHolds, PTL

(* The structure of a thread is freed (top_loop.c:443-452) only after its   *)
(* pthread has left m_mutex in JD_thread_exit (thread.c:533-557).           *)
THEOREM FreedAfterExit == Spec => []FreedIsLeft
<1>1. HInv => FreedIsLeft
  OBVIOUS
<1>2. QED
  BY <1>1, InvariantHolds, PTL
-----------------------------------------------------------------------------
(* Implementation of Switch *)

USE DEF Who

LEMMA LoopImplements == HInv /\ LoopStep => [S!Next]_S!vars
<1> SUFFICES ASSUME HInv, LoopStep PROVE [S!Next]_S!vars
    OBVIOUS
<1> USE DEF S!vars
<1>1. CASE StartLoop    BY <1>1, LoopAssumption DEF StartLoop
<1>2. CASE Begin        BY <1>2, LoopAssumption DEF Begin
<1>3. CASE EndLoop      BY <1>3, LoopAssumption DEF EndLoop
<1>4. CASE FreeZombies  BY <1>4, LoopAssumption DEF FreeZombies, S!Next, S!FreeZombies
<1>5. CASE SignalThread BY <1>5, LoopAssumption DEF SignalThread
<1>6. CASE TestLoop     BY <1>6, LoopAssumption DEF TestLoop
<1>7. ASSUME NEW t \in Thread, Pick(t) PROVE S!Dispatch(t)
  BY <1>7, LoopAssumption DEF Pick, S!Dispatch
<1>8. ASSUME NEW t \in Thread, CreateMain(t) PROVE S!Create(t)
  BY <1>8, LoopAssumption DEF CreateMain, Create, S!Create
<1>9. QED
  BY <1>1, <1>2, <1>3, <1>4, <1>5, <1>6, <1>7, <1>8 DEF LoopStep, S!Next

LEMMA StepImplements ==
  ASSUME NEW p \in Process, HInv, Step(p) \/ SpuriousWake(p) PROVE UNCHANGED S!vars
<1> USE DEF S!vars
<1>1. CASE Lock(p)     BY <1>1, LoopAssumption DEF Lock
<1>2. CASE Unlock(p)   BY <1>2, LoopAssumption DEF Unlock
<1>3. CASE MakeLock(p) BY <1>3, LoopAssumption DEF MakeLock
<1>4. CASE MakeTest(p) BY <1>4, LoopAssumption DEF MakeTest
<1>5. CASE SpuriousWake(p) BY <1>5, LoopAssumption DEF SpuriousWake
<1>6. QED
  BY <1>1, <1>2, <1>3, <1>4, <1>5 DEF Step

LEMMA GiveUpImplements ==
  ASSUME NEW t \in Thread, NEW q \in {"ready", "sleep", "zombie"}, HInv, GiveUp(t, q)
  PROVE  S!GiveUp(t, q)
BY LoopAssumption DEF GiveUp, S!GiveUp

LEMMA ThreadImplements == ASSUME NEW t \in Thread, HInv, ThreadStep(t) PROVE [S!Next]_S!vars
<1> USE DEF S!vars
<1>1. CASE TestThread(t)  BY <1>1, LoopAssumption DEF TestThread
<1>2. CASE SignalMain(t)  BY <1>2, LoopAssumption DEF SignalMain
<1>3. CASE Born(t)        BY <1>3, LoopAssumption DEF Born
<1>4. CASE BornUnlock(t)  BY <1>4, LoopAssumption DEF BornUnlock
<1>5. CASE BornSignal(t)  BY <1>5, LoopAssumption DEF BornSignal
<1>6. CASE \E q \in {"ready", "sleep", "zombie"} : GiveUp(t, q)
  BY <1>6, GiveUpImplements DEF S!Next
<1>7. CASE Fork(t)        BY <1>7, LoopAssumption DEF Fork
<1>8. CASE EndFork(t)     BY <1>8, LoopAssumption DEF EndFork
<1>9. ASSUME NEW c \in Thread, Exec(t, c) PROVE S!Create(c)
  BY <1>9, LoopAssumption DEF Exec, Create, S!Create
<1>10. QED
  BY <1>1, <1>2, <1>3, <1>4, <1>5, <1>6, <1>7, <1>8, <1>9, ThreadStep(t)
     DEF ThreadStep, Exit, StopLoop, Suspend, S!Next

LEMMA WakeImplements ==
  ASSUME NEW p \in Process, NEW t \in Thread, HInv, Wake(p, t) PROVE S!Wake(t)
BY LoopAssumption DEF Wake, S!Wake

LEMMA NextImplements == HInv /\ [Next]_vars => [S!Next]_S!vars
<1> SUFFICES ASSUME HInv, [Next]_vars PROVE [S!Next]_S!vars
    OBVIOUS
<1>1. CASE LoopStep BY <1>1, LoopImplements
<1>2. CASE \E t \in Thread : ThreadStep(t) BY <1>2, ThreadImplements
<1>3. CASE \E p \in Process : Step(p) \/ SpuriousWake(p) BY <1>3, StepImplements
<1>4. CASE \E p \in Process, t \in Thread : Wake(p, t) BY <1>4, WakeImplements DEF S!Next
<1>5. CASE UNCHANGED vars BY <1>5 DEF vars, S!vars
<1>6. QED
  BY <1>1, <1>2, <1>3, <1>4, <1>5 DEF Next

LEMMA InitImplements == Init => S!Init
BY LoopAssumption DEF Init, S!Init

(* The pthread build implements Switch: seen through the queues and who has *)
(* control, passing control between v_top_loop and a thread is one step,    *)
(* which is how Threads and SyncObjects take it.                            *)
THEOREM SwitchImplemented == Spec => ImplementsSwitch
<1>1. Init => S!Init
  BY InitImplements
<1>2. HInv /\ [Next]_vars => [S!Next]_S!vars
  BY NextImplements
<1>3. QED
  BY <1>1, <1>2, InvariantHolds, PTL DEF Spec, ImplementsSwitch, S!Spec
=============================================================================
