---------------------------- MODULE MCTimerList ----------------------------
(* Three threads with limits 1 to 3: two threads can be due together while *)
(* a third is entered before, with and after them.                        *)
EXTENDS TimerList

MCLimits == 1..3
=============================================================================
