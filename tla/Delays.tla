------------------------------- MODULE Delays --------------------------------
(***************************************************************************)
(* The queue of delays: unit_delay() of threads and the clocks the program *)
(* drives (runtime/pli.c).  Each entry asks the simulator for a call after *)
(* its delay (tf_isetdelay); the call does not say for which entry it is,  *)
(* so JD_misctf_reason_reactivate takes the head of the queue and ends the *)
(* simulation if its time is not now.  A thread has at most one entry, and *)
(* so has a port.                                                          *)
(***************************************************************************)
EXTENDS TimeSlots

CONSTANTS
  Delay,      \* the delays a program asks for
  Period,     \* the periods and start delays of the clocks it drives
  Driven      \* the ports a program drives a clock on

ASSUME DelaysAssumption == Delay \subseteq Nat /\ Period \subseteq Nat \ {0} /\ Driven \subseteq Port

VARIABLES
  delay_queue,     \* tf_isetdelay_queue
  dly,             \* of an entry: what is left of its delay
  drive_clock,     \* status of the clock driver of a port
  periods,         \* its two periods
  output,          \* what the program drives on the port
  broken           \* "broken JD_misctf_reason_reactivate sequence"

delayVars == <<delay_queue, dly, drive_clock, periods, output, broken>>

DelaysInit ==
  /\ delay_queue = <<>>
  /\ dly = [r \in Thread \cup Driven |-> 0]
  /\ drive_clock = [p \in Driven |-> "none"]
  /\ periods = [p \in Driven |-> <<0, 0>>]
  /\ output = [p \in Driven |-> "x"]
  /\ broken = FALSE

(* The first place behind the head of q whose entry is not earlier than d *)
PlaceBehindHead(q, d) ==
  CHOOSE k \in 2 .. Len(q) + 1 : /\ \A i \in 2 .. k - 1 : dly[q[i]] < d
                                 /\ k <= Len(q) => dly[q[k]] >= d

(* Mutant of EnterDelayQueue: the head is not compared *)
EnterBehindHead(q, r, d) ==
  IF q = <<>> THEN <<r>> ELSE InsertAt(q, PlaceBehindHead(q, d), r)

(* enter_delay_queue *)
EnterDelayQueue(q, r, d) ==
  IF q = <<>> \/ dly[Head(q)] > d THEN <<r>> \o q
                                  ELSE InsertAt(q, PlaceBehindHead(q, d), r)

Enter(q, r, d) == /\ delay_queue' = EnterDelayQueue(q, r, d)
                  /\ dly' = [dly EXCEPT ![r] = d]

(* JD_unit_delay *)
UnitDelay(t, d) ==
  /\ Sleeps(t)
  /\ Enter(delay_queue, t, d)
  /\ UNCHANGED <<drive_clock, periods, output, broken>>

(* JD_drive_clock, first with value v for the start delay if there is one;  *)
(* on a port that is driven already it reports an error                     *)
DriveClock(t, p, v, start, period1, period2) ==
  /\ Runs(t) /\ drive_clock[p] = "none"
  /\ drive_clock' = [drive_clock EXCEPT ![p] = IF start # 0 THEN "start" ELSE "period1"]
  /\ periods' = [periods EXCEPT ![p] = <<period1, period2>>]
  /\ output' = [output EXCEPT ![p] = IF (start # 0) = (v = "1") THEN "1" ELSE "0"]
  /\ Enter(delay_queue, p, IF start # 0 THEN start ELSE period1)
  /\ UNCHANGED <<slotVars, broken>>

(* Mutant of StopClock: the port is free at once *)
StopClockAtOnce(t, p) ==
  /\ Runs(t) /\ drive_clock[p] # "none"
  /\ drive_clock' = [drive_clock EXCEPT ![p] = "none"]
  /\ UNCHANGED <<slotVars, delay_queue, dly, periods, output, broken>>

(* JD_stop_clock: the entry stays until its delay is over *)
StopClock(t, p) ==
  /\ Runs(t) /\ drive_clock[p] # "none"
  /\ drive_clock' = [drive_clock EXCEPT ![p] = "stopped"]
  /\ UNCHANGED <<slotVars, delay_queue, dly, periods, output, broken>>

(* unit_delay_end *)
UnitDelayEnd(t) ==
  /\ delay_queue' = Tail(delay_queue)
  /\ ready' = Append(ready, t)
  /\ tf_isynchronized' = TRUE
  /\ UNCHANGED <<turn, clocked_list, changed_list, dly, drive_clock, periods, output, broken>>

(* drive_clock_seq *)
DriveClockSeq(p) ==
  /\ IF drive_clock[p] = "stopped"
     THEN /\ drive_clock' = [drive_clock EXCEPT ![p] = "none"]
          /\ delay_queue' = Tail(delay_queue)
          /\ UNCHANGED <<dly, output>>
     ELSE LET next == IF drive_clock[p] = "period1" THEN 2 ELSE 1 IN
          /\ drive_clock' = [drive_clock EXCEPT ![p] = IF next = 1 THEN "period1" ELSE "period2"]
          /\ output' = [output EXCEPT ![p] = IF @ = "1" THEN "0" ELSE "1"]
          /\ Enter(Tail(delay_queue), p, periods[p][next])
  /\ UNCHANGED <<slotVars, periods, broken>>

(* JD_misctf_reason_reactivate, called when the delay of an entry is over *)
Reactivate ==
  /\ turn = "verilog" /\ ~broken
  /\ \E i \in DOMAIN delay_queue : dly[delay_queue[i]] = 0
  /\ LET r == Head(delay_queue) IN
     IF dly[r] # 0 THEN broken' = TRUE /\ UNCHANGED <<slotVars, delay_queue, dly, drive_clock, periods, output>>
     ELSE IF r \in Thread THEN UnitDelayEnd(r) ELSE DriveClockSeq(r)

(* The simulator goes on to the next time unit *)
TimePasses ==
  /\ turn = "verilog" /\ ~tf_isynchronized /\ delay_queue # <<>>
  /\ \A i \in DOMAIN delay_queue : dly[delay_queue[i]] > 0
  /\ dly' = [r \in DOMAIN dly |-> IF r \in Range(delay_queue) THEN dly[r] - 1 ELSE dly[r]]
  /\ UNCHANGED <<slotVars, delay_queue, drive_clock, periods, output, broken>>
-----------------------------------------------------------------------------
(* What the rest of the program does, as the queue sees it: it never makes  *)
(* a thread ready that is in the queue, or one twice                        *)
OthersMove ==
  /\ UNCHANGED delayVars
  /\ ready' \in Seq(Thread) /\ IsInjective(ready')
  /\ Range(ready') \cap Range(delay_queue) = {}

DelaysNext ==
  \/ \E t \in Thread :
       \/ \E d \in Delay : UnitDelay(t, d)
       \/ \E p \in Driven : \/ StopClock(t, p)
                            \/ \E v \in {"0", "1"}, start \in Period \cup {0}, d1, d2 \in Period :
                                 DriveClock(t, p, v, start, d1, d2)
  \/ Reactivate \/ TimePasses \/ OthersMove

(* The queue of delays in a program that behaves like this *)
DelaysSpec == /\ DelaysInit /\ ready \in Seq(Thread) /\ IsInjective(ready)
              /\ [][DelaysNext]_<<slotVars, delayVars>>
-----------------------------------------------------------------------------
(* The head of the queue is always the entry whose delay ends first,        *)
(* whatever delays enter in whatever order and end in the same time unit:   *)
(* no call finds another time than its own at the head.                     *)
DelaysInOrder ==
  /\ ~broken
  /\ \A i, j \in DOMAIN delay_queue : i < j => dly[delay_queue[i]] <= dly[delay_queue[j]]

(* A port that is driven has one entry, also from stop_clock() to the end   *)
(* of the delay that is under way: two drivers never toggle one port.       *)
OneDriver ==
  /\ IsInjective(delay_queue)
  /\ \A p \in Driven : drive_clock[p] # "none" <=> p \in Range(delay_queue)
=============================================================================
