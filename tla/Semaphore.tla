----------------------------- MODULE Semaphore -----------------------------
(***************************************************************************)
(* The semaphore (runtime/core_sys_funcs.c, JD_sc_semaphore_mf_...): a     *)
(* number of units, a FIFO queue of threads each of which wants some, and  *)
(* a time limit for those that will wait.                                  *)
(***************************************************************************)
EXTENDS WaitQueues

CONSTANTS
  InitUnit,     \* the units given to new()
  Amounts,      \* the numbers of units threads get and put
  Spare,        \* the bound on the units a thread puts and never took: 0 in a
                \* program that uses the semaphore as a mutex
  GetLimits     \* the arguments of timeout()

ASSUME UnitAssumption == InitUnit \in Nat /\ Spare \in Nat /\ Amounts \subseteq Nat
ASSUME GetLimitAssumption == GetLimits \subseteq Nat
ASSUME SemaphoreAssumption == "semaphore" \in ObjQueues

VARIABLES
  unit,           \* sem->unit
  sem_timeout,    \* sem->timeout
  taken,          \* history: the units each thread got and has not put back
  arrived         \* history: the threads that wait, in the order they came

semVars == <<unit, sem_timeout, taken, arrived>>
semAllVars == <<vars, queueVars, semVars>>

SemInit == /\ QueuesInit
           /\ unit = InitUnit /\ sem_timeout = 0
           /\ taken = [t \in Thread |-> 0]
           /\ arrived = <<>>

waiters == wait_queue["semaphore"]

(* The units the first n waiters want: those are their sysflagcount *)
Wanted(n) == SumFunctionOnSet(sysflagcount, Range(FirstOf("semaphore", n)))

(* Mutant of Served: the units there are not compared *)
ServedAll(units) == Len(waiters)

(* The loop of put(): as many threads from the top of the queue as units     *)
(* are there for; a thread that waits wants at least one                     *)
Served(units) == CHOOSE n \in 0 .. Len(waiters) :
                   /\ Wanted(n) <= units
                   /\ n = Len(waiters) \/ Wanted(n + 1) > units

(* The threads that wait on *)
StillWaiting == arrived' = Those(arrived, {t \in Thread : queue'[t] = "semaphore"})

(* put( n ) *)
Put(t, n) ==
  LET k == Served(unit + n)
      woken == Range(FirstOf("semaphore", k))
  IN  /\ Runs(t) /\ n <= taken[t] + Spare
      /\ Serve("semaphore", k)
      /\ unit' = unit + n - Wanted(k)
      /\ sysflagcount' = [x \in Thread |-> IF x \in woken THEN 0 ELSE sysflagcount[x]]
      /\ taken' = [x \in Thread |-> taken[x] + (IF x \in woken THEN sysflagcount[x] ELSE 0)
                                             - (IF x = t THEN n ELSE 0)]
      /\ StillWaiting
      /\ UNCHANGED <<blockVars, sem_timeout>>

(* The units are there and t takes them *)
TakeUnits(t, n) ==
  /\ unit >= n
  /\ unit' = unit - n
  /\ taken' = [taken EXCEPT ![t] = @ + n]
  /\ Answer(t, 1)
  /\ UNCHANGED <<sem_timeout, arrived>>

(* get( n ) *)
Get(t, n) ==
  /\ Runs(t)
  /\ \/ TakeUnits(t, n)
     \/ /\ unit < n
        /\ WaitIn("semaphore", t, sem_timeout, n)
        /\ arrived' = Append(arrived, t)
        /\ UNCHANGED <<unit, sem_timeout, taken>>

(* check( n ): get without waiting *)
CheckUnits(t, n) ==
  /\ Runs(t)
  /\ TakeUnits(t, n) \/ (unit < n /\ Answer(t, 0) /\ UNCHANGED semVars)

(* timeout( limit ) *)
SemTimeout(t, limit) ==
  /\ Runs(t) /\ sem_timeout' = limit
  /\ UNCHANGED <<vars, queueVars, unit, taken, arrived>>

(* The rest of get() after the wait *)
GotUnits(t) == GoOn("semaphore", t, WaitAnswer(t)) /\ UNCHANGED semVars

SemStep(t) == \/ \E n \in Amounts : Get(t, n) \/ CheckUnits(t, n) \/ Put(t, n)
              \/ \E limit \in GetLimits : SemTimeout(t, limit)
              \/ GotUnits(t)

SemNext == \/ /\ KernelStep /\ FollowKernel /\ StillWaiting
              /\ UNCHANGED <<unit, sem_timeout, taken>>
           \/ \E t \in Thread : SemStep(t)
-----------------------------------------------------------------------------
(* No unit is lost or given twice, whoever gets, puts, is served by a put,  *)
(* is terminated in the queue or leaves it by a time limit: the units there *)
(* and the units taken, less those put back, are the units of new().        *)
UnitsAccounted ==
  unit >= 0 /\ unit + SumFunction(taken) = InitUnit

(* A thread at the top of the queue wants more than there is: no thread is  *)
(* left waiting for what is available.  (The manual: it is suspended until  *)
(* the required unit is available.)                                         *)
TopLacksUnits == waiters # <<>> => sysflagcount[Head(waiters)] > unit

(* First come, first served: a put() serves a thread only with all those    *)
(* who came before it and wait still.                                       *)
FirstComeFirstServed ==
  [][\A i, j \in 1 .. Len(arrived) :
       i < j /\ taken'[arrived[j]] > taken[arrived[j]]
         => taken'[arrived[i]] > taken[arrived[i]]]_semAllVars
=============================================================================
