# Verification of the Jeda runtime

Jeda is a hardware verification language: programs of many threads that run
inside a Verilog simulator. A compiler (`src/src/compiler`) produces a byte
code, a linker (`src/src/linker`) turns it into C, and the C code runs on the
runtime (`src/src/runtime`), which is what is verified here. This directory holds
TLA+ modules of the runtime, the TLC configurations that check them on small
instances, and proofs for the TLA+ proof system.

## 1. Inventory

| component | code | state | operations | what makes it hard | what makes it correct |
|---|---|---|---|---|---|
| thread kernel | `runtime/thread.c` | per thread: the queue it is in, `parent`/`child` and sibling links, `wait_child`, `term_parent`/`term_child` links, `thread_join`, `terminated`, `timeout` | the instructions fork, exec, join, spoon, knife, exit (3 forms), terminate; `thread_pause()`, `thread_join()`; sleep, pause and start of a thread | the threads of two overlapping trees exit, are terminated and time out in any order; two builds (coroutines, pthreads) | a thread is in one place; a block ends once and when it should; terminate and `thread_join()` see exactly the descendants; no pointer to a freed thread is followed |
| time-out queue | `runtime/thread.c` 210-307 | delta list: head, two links and a count per thread | enter, remove, count one CLOCK cycle | the counts depend on each other; equality test with 0 | every limit runs out after its own number of cycles |
| pthread handshake | `runtime/thread.c`, `top_loop.c`, `pli.c` | `m_mutex`, `d_mutex`, a mutex and two condition variables and the flag `main_flag` per thread | hand control to a thread and back, create a thread | signals that nobody waits for, waits that end without one | one process at a time works on the shared state; no signal is lost |
| scheduler loop | `runtime/top_loop.c` | ready queue, zombie queue, `keep_looping`, `end_of_simulation` | `v_top_loop`, stop, exit, error | non-preemptive; frees the zombies others may point to | no starvation; freed threads are not used |
| simulator interface | `runtime/pli.c`, `vpi.c`, `exec_pli.c` | request lists per port, edge information, changed and clocked port lists, callbacks, the queue of delays | wait for edges, call a Verilog task, delay, drive a clock, sample, drive, the end of a time slot | callbacks in any order; requests processed while threads come; calls that do not say for what they are | each edge serves each request once, in order; no thread lost; delays end at their time |
| synchronisation objects | `runtime/core_sys_funcs.c` | queues and status of events, semaphores, mailboxes, regions | trigger/sync/clear, get/put, send/receive, enter/exit, with time limits | wakes with conditions, barging, time limits, termination of waiters | no lost wake-up, no unit lost, mutual exclusion, FIFO |
| data, garbage collector | `runtime/data.c` | free list, two generations, marks and ages | allocate, mark, scan, promote, extend | the scan relinks the list it walks; marks stay in generation1 | no live value is freed, no cell is lost |
| random | `runtime/random.c` | the shift register, its copies, ranges and limit of a call of CYC(); a Mersenne twister | RND, CYC, randcase | the end of a cycle, the injected zero and the end of a call's loop, told from copies of one register | a cycle visits each value once; a call that can be answered is |
| executor, arithmetic, strings, printf, regexp, sockets, debugger | `runtime/*.c` | | | sequential | |
| coroutine switch | `runtime/sysdep` | | assembly, setjmp | | |
| compiler, linker, preprocessor, launcher | `compiler`, `linker`, `vpp`, `jedapp` | | batch programs | sequential | |

The components meet in the thread: the executor calls the kernel at fork .. join
and at system functions; the objects put threads in queues of their own and move
them to the ready queue; the simulator interface does so at ports and calls
`JD_count_timeq` and `v_top_loop` at the end of a time slot. Only one thread
executes at any time (in the pthread build too: `m_mutex`, `main_flag`), and it
goes on until it suspends itself.

## 2. Modules

| module | models | |
|---|---|---|
| `Threads` | the thread kernel, the scheduler loop and what the simulator does to threads | a switch between threads is one step |
| `TimeQueue` | the pointer structure of the time-out queue and its three operations, as operators | used by `TimerList` and `Threads` |
| `TimerList` | the time-out queue in proper use | refines `Timers`, where every waiter has an alarm of its own |
| `Handshake` | the mutexes, flags and condition variables of the pthread build | refines `Switch`, where a switch is one step |
| `WaitQueues` | the queue of a synchronisation object, on top of `Threads` | used by the four objects |
| `Semaphore`, `Event`, `Mailbox`, `Region` | the objects | composed by `SyncObjects`: a program with one of them |
| `TimeSlots` | the turns of the simulator and the program, and the lists served at the end of a slot | used by the next three |
| `Ports`, `VeriTask`, `Delays` | waits for edges; calls of a Verilog task; the queue of delays | composed by `Interface`; `Interface` implements `DelaysSpec`, what `Delays` asks of the rest |
| `Collector` | allocation and garbage collection | |
| `CyclicRandom` | the generator CYC() | refines `Cycle`: values drawn without replacement |
| `ThreadsInvariant` | the invariant of `Threads`, in named parts | |
| `Lists` | what a loop leaves of a linked list when it unlinks some elements | used by `Timers` and `Ports` |
| `Recursion` | lemmas about the recursive functions of the models and about sequences | used by all proofs but those of the handshake |
| `ThreadsProofs`, `ThreadsFamily`, `TimerProofs`, `HandshakeProofs`, `InterfaceProofs`, `SyncProofs`, `CollectorProofs` | the proofs | section 4 |
| `MC...` | instances for TLC | |

### How Threads corresponds to the code

An action is what one thread does between two points at which another can
observe it. `thread` is the register `THREAD` (None while `v_top_loop` runs);
`queue[t]` is `thrd->queue` ("none" after `JD_dequeue_top`, "freed" after
`DEALLOC_THREAD`); `at[t]` names the C function a suspended thread will return
into: "start" in `JD_sync_exec`, "join", "spoon" and "thread_join" in
`JD_thread_sleep`, "pause" and "port" in `JD_thread_pause`, "code" in the program.
Only the ready queue is kept as a sequence, because only its order matters; the
sleep queue is a set (`queue[t] = "sleep"`). The sibling and termination links are
sets of children plus a parent pointer. The child lists stay what they are when a
thread exits, as in the code, so a stale link would be seen.

Where the C code would follow a NULL pointer, or where `JD_dequeue` reports
"thread queue inconsistent", the model sets `internal_error` and stops. It does so too where a
loop over the time-out queue has no end (`SearchEnds`, `CountEnds`): the loop takes the whole
program with it.

* `Fork`, `Exec`, `Join`, `Spoon`, `Knife` are the instructions; the compiler emits
  fork, one exec per statement, and one of the other three, with no suspension in
  between, so `forking` is a single variable and other instructions wait for
  `forking = "no"`. p_and and p_or are the same instructions with `form` telling
  which exit instruction their children end with.
* `Exit`, `ExitWithValue` contain the whole exit: the sibling list, the wake-up of
  the parent, `exit_term_link` with the wake-up of a thread in `thread_join()`, and
  `JD_thread_exit`.
* `Begin` is `JD_sync_exec`, whose coroutine and pthread builds differ
  (`SelfThreadControl`); `Resume` is what follows the suspension in
  `JD_thread_sleep`/`JD_thread_pause` and the rest of the caller.
* `Dispatch`, `EndTimeSlot` are `v_top_loop`; `StartTimeSlot` is the end of
  `JD_misctf_reason_sync`; `WakeFromEdge` is `process_req_sync`.
* `forked`, `creator`, `value`, `expired` are history variables for the properties.

Abstractions: stacks and values (but for the truth values of p_and and p_or), the
number of edges of a sync (any later edge may serve it), several clocks (CLOCK
and the rest of the simulator are the choice `posedge`), the C stack switch (one
step). A thread is never created again after it is freed: the threads of
`Thread` are all that a run creates. Values of a p_and/p_or operand are 0 and 1.

### How TimerList corresponds to the code

The fields `fw`, `bw`, `count` are `time_thrd_fw`, `time_thrd_bw`, `time_count`.
The loops of the code are recursive functions over the number of iterations, and are followed
to their ends also in a queue that a left-behind limit has damaged. `Scan` keeps what is left of the limit where
the code does, in the count of the thread that is entered, and so meets it when that thread is still linked
(`CountSeen`). A search of `JD_enqueue_timeq` that has not ended after `SearchBound` steps, or a
loop of `JD_count_timeq` that has not after one round per thread, goes round for ever (theorems `EndlessSearch` and
`EndlessCount`); `SearchEnds` and `CountEnds` tell which it is.
`CountTimeq` leaves the backward links of expired threads alone: the statement
that should clear them (thread.c:296) compares. `KeepsAlarms` shows this does no
harm in proper use.

### How the synchronisation objects correspond to the code

`wait_queue[o]` is the `queue` of the object, in order (the `queue[t]` of
`Threads` is then the name of the object), and `sysflagcount` is the field of the
thread: the units it wants of a semaphore, or 1 if it is in `sync_clear()`.
`WaitIn` is the branch of get(), sync(), sync_clear(), receive() and enter() that
waits, `GoOn` what follows `JD_thread_pause` there. `Serve` is the body of the loops of put() and of
the triggers, for as many threads as the loop takes (`Served`, `Reached`): the top
of the queue is taken out, its time limit is removed if it has one, and it is put at
the end of the ready queue. `FollowKernel` takes a thread that the kernel made ready
(only `JD_count_timeq` does that to a waiter) out of the queue as well.

In `Mailbox` messages are numbers, `Send` is push() with `wakeup_thread_in_mbox`, and
`Receive` both branches of receive(). In `Region` each list of `Regions` is a sequence of keys;
`EnterRegion`, `CheckEnter` and `LeaveRegion` are enter(), check_enter() and exit(),
`Admitted` is `list_re_enter`, and `GoesIn` is the rest of enter() after the wait. There
two things of the code matter: `list_re_enter` compares the top of the stack of the
waiting thread, which is the new element that `v_top_loop` pushed above the argument
(`NewElement`, so that an exit lets in all who wait, or nobody if the list holds the key 0), and the rest of
enter() appends the key to the list in the register `ACC_DT`, which other threads have used since. `StoredSomewhere`
is every choice: the list of this region, that of any other, something that is no region; and
`FollowsNull` is the case that the register is NULL.

`Put`, `Get`, `CheckUnits`, `SemTimeout` are the members of the semaphore, `Trigger`
(trigger and trigger_on), `TriggerPulse`, `TriggerOff`, `Sync`, `CheckTrigger` (each
with and without clear) and `EventTimeout` those of the event; `Flush` is
`JD_event_flush` at the end of `v_top_loop`. A waiting thread can be terminated, and
then stays in the queue until it is served, as in the code.

`taken`, `arrived`, `promised`, `sent`, `delivered` and `inside` are history
variables. Left out: null objects (every call returns at once), negative arguments
(reported, and the call changes nothing), copies and deallocation, the other
operations on lists, enter() and exit() with several keys or a time limit, and a thread that enters a region in
which it is with the same key (it would wait for itself). The threads of `KernelStep` use
the part of the kernel that matters to an object: they fork (without waiting for
the children), pause, exit and are terminated, over several time slots. A thread
puts at most `Spare` units more than it took (0: a mutex).

### How Handshake corresponds to the code

One process per thread and one, `Loop`, for `v_top_loop` and the simulator's own
thread, which creates it and joins it. `pc` names the next operation on a mutex or a
condition variable; what lies between two of them is one action. `Pick`, `Unlock`,
`SignalThread`, `Lock`, `TestLoop` are one turn of the loop (top_loop.c:368-406),
`GiveUp` to `TestThread` the switch in `JD_thread_sleep` and `JD_thread_pause`,
`Create`, `MakeLock`, `MakeTest` and `Born` to `BornSignal` the creation of a thread in
`JD_exec_exec`, `JD_gen_main` and `JD_sync_exec`. The creator keeps `l_mutex` after its
wait, as in the code (nobody takes it again). Unlocking a mutex that another holds, or
nobody, is undefined: it stays or is freed. A wait may end without a signal
(`SpuriousWake`). What a thread does while it runs is any of forking, waking,
suspending itself, stopping the loop or exiting.

`CallFromVerilog` is `jeda_func_call_action`, only in `CallSpec`.

### How the simulator interface corresponds to the code

`turn` says whether the simulator or the program runs: the program does from
`JD_misctf_reason_sync` to the end of `JD_v_top_loop` there. `ready` is the ready queue
with the running thread at its head; a thread goes on until it waits (`Sleeps`), and the
order of the queue is that of the code. `SlotEnds` is the first half of
`JD_misctf_reason_sync` (serve the two lists), `BackToVerilog` the second (clear them).

`Ports`: `requests[p]` are the four lists of a port; `Woken` and `Remaining` are what
`process_pli_req_on_edge` does with them, for the lists an edge serves (`ServedLists`:
the list for both edges is in none of them, as in the code). `ValueChanges` is a change
of a signal with the callbacks it calls. A port is reduced to its lowest bit, from which
the code tells edges, with "x" for x and z. `settled` and `wish` are history variables: the
value at the end of the last slot, and what each thread waits for.

`VeriTask`: `call` and `done` are the two signals, `TaskEnds` the always block that
`linker/vcodegen.c` writes and the callback of `done`. `args` remembers whose arguments
were given, and if they were read where they lie.

`Delays`: an entry is the thread or the port it is for, `dly` what is left of its delay;
`Reactivate` is the call of the simulator when one of them is over, which takes the head
of the queue and ends the program if its time is not now (`broken`). Several entries of
one time are called for in any order of the calls, always the head.

In `Interface` a program uses one of the sets `Uses` of these facilities.
`vpi.c` is the same code over VPI (the functions on requests and lists are equal line by
line); there the simulator's call names the entry of the queue of delays.

### How Collector corresponds to the code

A heap is a record of the links, flags and contents of the cells. `Scan` is
`scan_generation0`, one cell after the other with the pointer `pdata` to the link to be
set next; `MoveToGeneration1` is `JD_move_data_to_gen1`. `Prepared` is the beginning of
`JD_alloc_data_entry`: with no cell free it collects, and extends the pool if the
collection brought less than `EXTEND_THRESHOLD`. `VSTACK` stands for the cells the
virtual stack always keeps. The variables of the program hold single data, lists, which
grow and shrink, and arrays, which are allocated element by element under `TMP_DT`.

### How CyclicRandom corresponds to the code

A register (`data`, `sdata`, `zdata`, `pdata`) is the set of the positions of its ones, three
words of `WordBits` bits, so that masks are intersections and the exclusive or is a
symmetric difference. `Successor` is the first half of `gen_cycle_random`, `Rotated` the
second, with the sign that the shifts of `int t[3]` carry along. `GenRandom` is the head of
`gen_random`, `TryElement` and `TryNumber` one turn of its two loops, `Conclude` what ends a
turn; the conditions of a call are the set of values they leave, `genrand()` is any number.
`SetSingle` is `set_range_s`, which expects three arguments where the compiler
(codegen.c:701) passes one: every single value in the range of a CYC() ends the simulation.
`tried` and `trials` are history variables, the values of this cycle and their number.

## 3. What the runs check

| run | instance | shows |
|---|---|---|
| `threads` | 4 threads, coroutine build, no limits, stop on first error | all invariants of the kernel: `OnePlace` and `NoInternalError` (queues), `BlockCounts`, `BlockEnds`, `ParallelResult` (blocks), `TermTreeIsFamily`, `TerminateIsExact`, `ThreadJoinComplete` (termination), `NoDanglingThread` (memory) |
| `threads_timed` | 3 threads, pthread build, limits 1 and 2, with fairness | `ThreadJoinHasCause`: a `thread_join()` always has someone to wait for; `ReadyRuns`: no starvation in the ready queue, until the simulation ends, an internal error stops it or a loop over the damaged time-out queue has no end (see `TimeLoopsEnd` below) |
| `timer_list` | 3 threads, limits 1..3 | the delta list implements independent alarms, and forgets none; its links and counts agree, and its loops end |
| `sync_objects` | 3 threads, and one of: a semaphore of 2 units of which 1 or 2 are taken, an event, a mailbox with 3 messages and readers with and without limit 1, two regions with 1 key, of which a thread is in one at a time | `UnitsAccounted`, `FirstComeFirstServed` (semaphore), `NobodyWaitsOnTrigger`, `SlotTriggerLasts` (event), `MailInOrder`, `NobodyWaitsOnMail` (mailbox), `NobodyWaitsOnFreeKey` (regions, with the keys put in any list), `WaitersListed` (queues, and the race of a message with a time limit) |
| `handshake` | 2 threads and the loop, with fairness | `OneInControl`, `FreedIsLeft`; the refinement `ImplementsSwitch`; `ControlArrives`, `ControlReturns`, `MakerGoesOn`: no signal is lost |
| `interface` | 2 threads, a clock and another port with values 0 and 1, one task, delays 0 to 2, two facilities at a time | `NobodyLost` (a thread waits in one place, through all lists), `ClockEdgesCounted`, `MonitoredIfNeeded`, `ListsAgree` (ports), `OneCallActive` (calls), `DelaysInOrder`, `OneDriver`, `DelaysSpec` (delays) |
| `collector` | 2 variables, 5 cells in two blocks, arrays of 2, promotion after 1 collection | `NoLiveFreed`, `OneList` |
| `cyclic` | registers of 1 to 3 bits in words of 3, or up to 5 elements in two ranges, conditions that leave all, one or no value, limit 1, with fairness | `EachOnce`: the refinement of `Cycle`; `CallAnswered` |

Four threads are the smallest number with which a parent, a child and two
grandchildren, or a block of three, occur; every property of the kernel that is violated
by a mutant is violated with three. Two limits make two threads expire together and
apart; limit 3 lets a third enter between. `CountBound` stops the counting of a
queue whose top was damaged below zero at -2 (`threads_timed` only; `ReadyRuns` is
checked on the behaviours within it). Three threads are
the smallest number with which two wait for an object in an order while a third serves
them; two units make a thread that wants two wait behind or before one that wants one.
A thread puts at most `Spare` = 0 units more than it took (a mutex); `MaxSent` = 3 messages
are two for two readers and one that stays. Two regions are what a key in the wrong
list takes; a thread enters `MaxHeld` = 1 of them before it exits, and all three threads can be in or wait. Two threads and the loop are what the
handshake is about: the one that gives up control, the one that gets it, and the
creator with its thread. In `interface` two threads wait at one port, behind each other in
a list, call the task one while the other is active, or have two delays and a clock in
the queue; waits for 0 and 2 edges cover the early return, the wait and the count. In
`collector` the numbers are the smallest with which a cell ages past promotion, the pool is
extended behind free cells, and an array is promoted with its elements; `Lives` is the
range of the age (JD_LIFE_MASK), large enough that it does not wrap, as in the code. In
`cyclic` the numbers of elements (2, 3, 4, 5) are below, at and above the number of states
of a register.

`CHECK_DEADLOCK FALSE` is set in the runs with time limits, where the model stops after an
internal error; in the runs with objects, where all threads may wait; and in those of the
collector, where the pool may be used up, and of the generator, where an error ends the
simulation. `Cycles`, `Delay`, `Period`, `MaxSent`, `MaxHeld` and `Blocks`, `Spans`,
`MaxRanges`, `Limits` and `Conditions` are the bounds of the inputs; nothing else is bounded.

Runs that show a disagreement (each is a finding in PROJECT.json):

| run | violated | because |
|---|---|---|
| `threads_timed_queues` | `NoInternalError` | `exit_term_link` (thread.c:891) tests and removes the limit of the thread that exits, not of the one it wakes; the limit left behind runs out while that thread is in no queue (or in a later join, out of which it would wake) |
| `handshake_call` | `OneInControl` | the pthread of a function called from Verilog does not wait for control (pli.c:1131) |
| `port_edges` | `PortEdgeSeen` | the value a port's edge is told from is that of the last time somebody waited for it (pli.c:2297) |
| `collector_array` | `AllocatingStays` | the test for "is not being allocated" lacks its `!` (data.c:1309); the move of the elements then sends the scan into generation1, where it frees the array itself |

Divergences that the modules state and no run checks; adding the definition to the
configuration named shows each:

| definition | configuration | because |
|---|---|---|
| `Threads.ThreadJoinReports` | `ThreadsTimed.cfg` (PROPERTY, in the place of its invariant) | `v_top_loop` clears `timeout` (top_loop.c:386) before `JD_sf_thread_join` and the waits of the objects read it, so they answer 1 after a time out; the manual says 0 |
| `Threads.ThreadJoinHasCause` | `Threads.cfg` (INVARIANT) | the coroutine build drops a thread that was terminated before it began without unlinking it (thread.c:791), and a `thread_join()` waits for it for ever |
| `Semaphore.TopLacksUnits` | `SyncObjects.cfg` with `GetLimits = {0, 1}` and `Objects = {"semaphore"}` (INVARIANT; it holds with `{0}`) | a time limit takes the first waiter out of the queue and nobody looks at the next one |
| `Event.OnStaysOn` | `SyncObjects.cfg` (INVARIANT) | trigger() makes a trigger that is ON a PULSE (core_sys_funcs.c:407) |
| `Threads.TimeLoopsEnd` | `ThreadsTimed.cfg` with four threads, `JoinLimits = {1}` and `SPECIFICATION Spec` (INVARIANT, in the place of its properties; 4 minutes) | the limit that thread.c:891 leaves behind lets a thread be entered twice, until its link leads to itself with a count of 0: `JD_count_timeq` (thread.c:291-303) never ends. With three threads it holds, which is why `threads_timed` does not meet it |
| `Region.RegionExclusive` | `SyncObjects.cfg` (INVARIANT) | exit() makes the waiters ready without adding their keys, so the next enter() does not see them (src/doc/html/jeda_concurrent.html:663: a region is "a multivalue mutex") |
| `Region.NoKeyLeftBehind` | `SyncObjects.cfg` (INVARIANT; it needs the two regions) | after its wait enter() appends its key to the list in `ACC_DT` (core_sys_funcs.c:1718-1731), which may be that of another region by then: there it stays locked with nobody in, and the exit() that misses it ends the simulation |
| `Ports.SyncRule` | `Interface.cfg` (PROPERTY) | the comment pli.c:2761-2771 says that a wait for N > 0 edges that begins in a slot off the edge takes N + 1 edges ("sync at next edge, then returns at Nth edge (total N+1th edge)"), and the text of the manual (doc/spec/language_spec.prep:787-788) agrees; the code lowers the number at once in every slot (pli.c:1800) and returns at the Nth, as the example of the manual does (795: "wait for 5 posedge of sigs.clk"). `ClockEdgesCounted` follows the example |
| `CyclicRandom.EachOnce` | `CyclicRandom.cfg` with `WordBits = 2`, `Widths = {4}` and a polynomial {1} for 4 bits | `int t[3]` is signed: a one shifted out of a word fills the word above (random.c:1885), so values of more than 33 bits repeat within a cycle (src/RND.txt:34-35: "The same value will not repeat in a cycle") |
| `CyclicRandom.CallAnswered`, without the exception of zero | `CyclicRandom.cfg` | if the zero is to follow the seed, the loop ends before it is tried; so `CYC(!= 1)` of one bit always fails with a limit overflow (random.c:2023) |
| `VeriTask.TaskGetsArguments` | `Interface.cfg` (INVARIANT) | the arguments of a queued call are read one place off the stack (pli.c:965) |

Two more were seen while modelling: requests for both edges of a port are never served
(pli.c:2506), and the `startdly` of drive_clock() is read uninitialised when it is omitted
(core_sys_funcs.c:168).

Fairness. `Threads`: the loop and the running thread are one process, so each
continues; the running thread eventually suspends itself, because `WF` of "some step of
a thread" with finitely many threads and blocks leads to a suspension (a thread that
computes for ever stops the whole simulator, in the code as well); the simulator's
clock goes on. No fairness is assumed for `WakeFromEdge` or for a particular
instruction. `Handshake`: a pthread that can take its next step in the handshake does
(the scheduler of the machine), except that nobody is forced to give up control; waits
end without a signal only finitely often, or a thread could test its flag for ever.
`TimerList`: the clock goes on. `CyclicRandom`: a call executes to its end, and `genrand()`
does not give zero as the seed for ever.

## 4. Proofs

All theorems hold for any finite set of threads (`ThreadAssumption`) and for every
value of the other constants that the assumptions of the modules admit, except where a
hypothesis is named here.

**Recursive functions** (`Recursion`). The loops of the code over linked lists are
recursive functions in the models, and a recursive function is a chosen solution of its
equation. `Solution` shows that there is exactly one when each value follows from that of
one argument that is smaller by some measure; the lemmas about `Those` (what is left of a
list), `SumFunction`, iterations and sequences without repetition follow by a least
counterexample (`LeastNumber`), because the library's induction theorems cannot be used
with this prover.

**Thread kernel.** `TypeCorrect` (`ThreadsProofs`): `Spec => []TypeOK`, with all time limits
and both builds. Time limits can damage the links and counts of the time-out queue, so it says something of
the whole loops of `JD_enqueue_timeq` and `JD_count_timeq` on any of them: they go to threads only, and leave whole numbers,
which may be negative. The number of steps that `Scan` and `Expiry` follow a loop is no assumption:
`EndlessSearch` shows that a search that has not ended within `SearchBound` steps never ends (a search that comes to a thread again with no less left than the time before goes
round for ever; otherwise what is left falls from visit to visit, and it never falls below 0), and
`EndlessCount` that a loop over due threads that is longer than there are threads is in a ring. There the code
hangs, and the model sets `internal_error`.

`Inductive` (`ThreadsProofs`): `Spec => []IInv` assuming `JoinLimits = {}`; with time limits it is
false (section 3). `IInv` adds to `OnePlace` and to `internal_error` never happening that the
three structures a thread is in tell the same story:

* `BlockInv`: a thread that will report to a parent is in the sibling list of that
  parent, which forks or sleeps for it; the list of a sleeper in join or spoon is
  counted by `wait_child`, or its threads were all cut off and terminated;
* `TreeInv`: the lists of the termination tree agree with `term_parent`, which leads
  to an ancestor (by `creator`) only, so the tree has no cycle; a thread that reports
  to a parent is below that parent in it too;
* `JoinInv`: the flag `thread_join` is set exactly for the sleepers of
  `thread_join()`.

`NoInternalError` is not inductive without them: whether an exiting child finds its
parent asleep depends on the blocks, and terminate would leave a parent without
children to wake it if the two trees disagreed. There is one lemma per action; the
hardest is `TerminateReaches`: the walk of terminate down the termination tree takes,
with a child, its parent, unless the parent is the caller. `NeverInternalError`,
`AlwaysOnePlace`, `TerminatedStaysStopped` and `BlocksAlwaysCount` follow.

The other properties of the kernel need more than `IInv`, and get it in two parts, each
preserved by every step given `IInv`; `FullInvariant` puts the three together.

`FamiliesAgree` (`ThreadsFamily`): `FamilyInv` says that a living thread, unless it is main
or was cut off, is on the list of a termination parent that is alive or is main
(`LinkInv`); that between the two are only threads that are gone (`NearInv`); and that who
was woken in `thread_join()` has no descendant left that could run (`JoinedInv`). From
`LinkInv` follows that terminate reaches every descendant (`DescendantsReached`): among the
descendants of the caller that would be missed take the eldest (ancestry is a
well-founded order on a finite set); its termination parent is a descendant too, and
elder, so it is reached, and with it its child. That step is what makes `JoinedInv` hold
when the last entry leaves the list of the joiner. `TreeIsFamily`, `NeverDangling`,
`TerminateExactly` and `ThreadJoinIsComplete` follow.

`ResultsAgree` (`ThreadsFamily`): `ResultInv` follows the children of a block from fork to
the resumption of the parent: no value has decided a block that is forked or waits, and
who left the list of the sleeper has exited (`ForkedInv`, `PendingInv`); once it is woken,
the value register holds the decisive value exactly if a child returned it, and
otherwise all have exited (`WokenInv`). The hard case is the exit of a child whose
parent ended that block long ago: `IInv` says that it reports to nobody. `BlocksEnd` and
`ParallelIsExact` follow, as a thread goes on from its wait only when it is `Woken`. They use that
`None` is not a truth value (`ValueAssumption`).

`ThreadJoinCaused` (`ThreadsProofs`): `ThreadJoinHasCause` with any time limits, for the pthread
build (hypothesis `~SelfThreadControl`; with coroutines it is false, section 3). A sleeper in
`thread_join()` has its flag set and a termination list that is not empty (`JoinerInv`), and
whoever is in that list has not been dropped (`NoneLost`): that is where the coroutine build
differs. The invariant makes no use of `IInv`, which time limits break.

**Time-out queue** (`TimerProofs`). `Represents(q, a)`: the links and counts of the queue `q` are
those of the list of alarms `a`, by due time, the count of each being its distance to the one
before. `EnqueueRepresents`, `DequeueRepresents` and `CountRepresents` show what the three
operations do to that list, the scan for the place and the loop over those that run out
included, and `SetInserts`, `CancelRemoves` and `TickCounts` that this is what `Timers` does.
The invariant is that the queue represents some list of alarms; that list is the refinement mapping's
`alarms`. `LinksAlwaysAgree` and `AlarmsKept` (`Spec => KeepsAlarms`) follow.

**Handshake.** `InvariantHolds` (`HandshakeProofs`): `Spec => []HInv`, for any number of threads. `HInv`
adds to `FreedIsLeft` how the exclusion comes about: `MutexHeld` (who is where holds
`m_mutex`), `RunsIfGiven` (a flag is set for the thread that was given control, or the one
being created), `BornIsAwaited` (whose creator, in control, waits for it) and
`PlaceOfThread`. `OneInControl` follows, and `SwitchImplemented`: every step of the
handshake is a step of `Switch` or a stutter, by cases over the actions.

**Simulator interface.** `DelaysAreInOrder`, `PortsHaveOneDriver` (`InterfaceProofs`) are about
`DelaysSpec`, a program that delays itself and drives clocks while whatever else it does keeps
threads in one place (`OthersMove`). `DelaysImplemented` shows that `Interface` is
such a program, so both hold of it as well (`DelaysEndInOrder`, `OneDriverPerPort`).

`CallsAreSerial`, `ListsAlwaysAgree`: `TaskInv` says where a call stands (called for, done and listed,
or served); `ListInv` adds that a list that is not empty has asked for the call at the end of
the slot, and that the flag of a port is its place in a list.

`NobodyEverLost`: the invariant is that there is a map from threads to places with which all the
lists agree (`PlaceInv`); each action moves the threads it takes out of one list to another. What the
service of an edge takes from the requests and what it makes ready are complements (`WokenFacts`), without
repetitions because no thread is in two lists.

`PortsMonitored`: `sync_count` is the number of threads that wait for a port, and the callback is
there exactly while it is not 0 (`MonInv`). `EdgesCounted` adds to these what each request
still waits for: `num_cycle` and the edges that passed since the thread asked add up to what it
asked for, less one (`AsWished`), and the value from which the next edge is told is that of the last
service (`Settled`).

**Synchronisation objects** (`SyncProofs`). The programs of `SyncObjects` use the part of the kernel in
which an exit wakes nobody (`Calm`): blocks end with knife and nobody is in `thread_join()`, as in the run. So a
kernel step moves threads only to queues of the kernel (`KernelStepCalm`), and those it takes from an object's
queue are those `FollowKernel` takes from the sequence. `BaseInv` (types, `Calm`, `WaitersListed`) is kept by each
way into and out of a queue; each object adds its part, of which the others are left alone: `SemInv` (the sum over
`taken`), `EventInv`, `MailInv` (the numbers of the messages), `RegionInv` (a thread that waits has asked for a key, and that key
is in the list of the region). `FreeKeysAreGiven` assumes that 0 is no key (`NewElement \notin Keys`): with
0 in the list an exit lets nobody in. `SyncCorrect` is the invariant; the seven theorems about properties of states follow, and `ServedInOrder` from the shape
of put(): it serves a front part of the queue.

**Garbage collector** (`CollectorProofs`). First the loops: `ChainIsList` (a chain of links is followed to its end
within the number of cells), `ReachedClosed` and `ReachedWithin` (marking ends in the least set that
holds the roots and is closed under references), `ScanEnds` (the scan visits each cell of generation0
once and is over within its bound). The invariant `CollectorInv(m)` says that there are three sequences `f`, `y`, `o`
without common cells, the lists of the free cells, generation0 and generation1, which together are the
cells of the blocks in use (`HeapLists`); that what is in generation1 is single data, without references, marked or
not, and that variables hold and cells in use refer to cells in use only (`HeapData`, `Rooted`). Within a scan, `InScan` splits
generation0 into what is kept and what is still to be visited; the marked cells are closed under references, so that
what is kept never refers to what is freed. That a variable whose cell is marked is passed over does no harm because only a cell of generation1 can be
marked between two collections, and it refers to nothing. The cell of `VSTACK` always survives: `pdata`
sets the head of generation0 in every scan.

The three theorems assume `SmallArrays(m)`: a collection or a new block makes room for at least `m` cells
(`MakesRoom`; in the code `m` is 4096, `EXTEND_THRESHOLD`), and an array has no more than `GO_GEN1 * m` elements (50 *
4096). Under it an array that is allocated is never old enough to be moved: each collection it lives through is paid
for with `m` cells that its elements took or that are free now (`Aging`). Without the hypothesis the properties are
false: `collector_array` is the run that shows it, and with `m = 2` and `GO_GEN1 = 1` TLC finds a violation for an array of 3 elements
already, so the bound is exact there. Then `CellsInOneList`, `LiveCellsKept` and `ArrayStaysYoung`.

Only model-checked: liveness (`ReadyRuns`, `NoneForgotten`, `ControlArrives`, `ControlReturns`, `MakerGoesOn`,
`CallAnswered`), which this prover does not do; `EachOnce` of the cyclic generator, as the period of a shift register is a fact about its
polynomial, which TLC checks for small degrees. What the runs with an expected violation and the table of
divergences state is false.

## 5. Plan

Done: `TimeQueue`, `Timers`, `TimerList`; `Threads`, its runs; `WaitQueues` and the four objects; `Switch` and
`Handshake`; `TimeSlots`, `Ports`, `VeriTask`, `Delays`, `Interface`; `Collector`; `CyclicRandom`; the proofs of section 4.

Next, in this order:

1. Sampling and driving in `Ports`: `sample_port_on_ref_edge`, the pipes, `drive_back`, sync on
   a port at a clock's edge.
2. Calls from Verilog in the coroutine build, with threads that exit in `Interface`.
3. Regions with several keys; an abstract waiting queue with time limits that `WaitQueues`
   implements.
4. Objects and pointers in `Collector`; RND() with weights.

## 6. Not modelled

The compiler, the linker and the tools are batch programs; arithmetic, strings,
printing, regular expressions and sockets do not touch threads; the debugger is
interactive; the coroutine switch is assembly.

A thread that is terminated while it sleeps in a join or `thread_join()` whose threads were
terminated too stays asleep for ever; the documentation promises nothing else and no
property speaks of it.

Of the simulator interface: sampling and driving of values, skews, several bits,
`drive_back`, value changes that are taken back within a slot (a callback that finds no
edge), periods of 0 (which toggle for ever in one time unit), and threads that exit or are
terminated while they wait for the simulator. Of the collector: objects, hashes, pointers
and strings (like lists, they are never promoted), the global variables (roots in every
collection), the registers `ACC_DT` and `work_data` (roots like `TMP_DT`), the replacement of
cells of the virtual stack, the data cache (never compiled in) and the mark stack of product
builds. Of the random generators: RND(), whose draws are
independent, randcase, and CYC() as an integer without ranges (its width -1 reads the table of
polynomials before its beginning, random.c:1832). No crash or restart is modelled: the runtime persists nothing.
