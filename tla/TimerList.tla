----------------------------- MODULE TimerList -----------------------------
(***************************************************************************)
(* The time-out queue in use: the threads that block with a limit, the     *)
(* ones woken before it runs out, and the CLOCK that counts the rest down. *)
(* The callers enter a thread when it blocks and remove it when it is      *)
(* woken, so a thread is in the list exactly while it waits.               *)
(***************************************************************************)
EXTENDS TimeQueue

CONSTANT Limits   \* the limits, in CLOCK cycles, the programs wait with

ASSUME LimitsAssumption == Limits \subseteq Nat \ {0}

VARIABLES timeq,    \* the pointer structure (see TimeQueue)
          waiting,  \* the threads blocked with a limit
          fired     \* history: what the last call of JD_count_timeq woke

vars == <<timeq, waiting, fired>>

Init == /\ timeq = EmptyTimeQueue
        /\ waiting = {}
        /\ fired = <<>>

(* A wait with a limit: "THREAD->time_limit = ..; JD_enqueue_timeq(..)" *)
Block(t, limit) == /\ t \notin waiting
                   /\ timeq' = EnqueueTimeq(timeq, t, limit)
                   /\ waiting' = waiting \cup {t}
                   /\ fired' = <<>>

(* A wake-up: "if( thrd->time_limit ) JD_dequeue_timeq(..)" *)
Wake(t) == /\ t \in waiting
           /\ timeq' = DequeueTimeq(timeq, t)
           /\ waiting' = waiting \ {t}
           /\ fired' = <<>>

(* JD_count_timeq, called on every posedge of CLOCK *)
Count == LET gone == Expiry(timeq).gone
         IN  /\ timeq' = CountTimeq(timeq)
             /\ waiting' = waiting \ Range(gone)
             /\ fired' = gone

Next == \/ \E t \in Thread : (\E l \in Limits : Block(t, l)) \/ Wake(t)
        \/ Count

(* The simulator's clock does not stop *)
Spec == Init /\ [][Next]_vars /\ WF_vars(Count)
-----------------------------------------------------------------------------
(* The links of the list agree: the list holds the waiting threads, each    *)
(* once, its forward links are the inverse of its backward links, and the   *)
(* thread at its top has cycles left, so that the next decrement cannot     *)
(* step over zero and leave the list stuck for ever (JD_count_timeq tests   *)
(* for equality with 0).  So the loops of the next calls come to their end. *)
LinksAgree ==
  LET a == Alarms(timeq)
  IN  /\ {a[i].thread : i \in DOMAIN a} = waiting
      /\ Len(a) = Cardinality(waiting)
      /\ \A i \in DOMAIN a :
           timeq.fw[a[i].thread] = IF i = 1 THEN None ELSE a[i - 1].thread
      /\ \A i \in DOMAIN a : a[i].left > 0
      /\ CountEnds(timeq)
      /\ \A t \in Thread \ waiting, l \in Limits : SearchEnds(timeq, t, l)

Promise == INSTANCE Timers WITH alarms <- Alarms(timeq)

(* The delta list keeps an alarm per thread: every call of the list is a    *)
(* step of Timers, so a limit runs out after exactly the cycles it was set  *)
(* to, whatever other threads enter and leave meanwhile.                    *)
KeepsAlarms == Promise!Spec

(* With the clock running no waiting thread is forgotten: it is woken or    *)
(* its limit runs out.                                                      *)
NoneForgotten == \A t \in Thread : t \in waiting ~> t \notin waiting
=============================================================================
