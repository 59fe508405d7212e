----------------------------- MODULE TimeQueue -----------------------------
(***************************************************************************)
(* The time-out queue of the Jeda runtime (runtime/thread.c): a doubly     *)
(* linked list of threads in which every thread carries only the number of *)
(* CLOCK cycles it waits beyond the thread in front of it.  The three      *)
(* operations are given here as operators on the pointer structure, link   *)
(* by link, because it is the links that a wrong call corrupts.            *)
(***************************************************************************)
EXTENDS Integers, Sequences, FiniteSets, FiniteSetsExt, Functions

CONSTANTS Thread,   \* the threads
          None      \* the NULL pointer

ASSUME NoneAssumption   == None \notin Thread
ASSUME ThreadAssumption == IsFiniteSet(Thread)

(***************************************************************************)
(* head is JD_current_toplevel->time_queue; fw, bw and count are the       *)
(* time_thrd_fw, time_thrd_bw and time_count fields of the threads.        *)
(***************************************************************************)
Link == Thread \cup {None}

TimeQueues == [head : Link, fw : [Thread -> Link], bw : [Thread -> Link],
               count : [Thread -> Int]]

EmptyTimeQueue == [head  |-> None,
                   fw    |-> [t \in Thread |-> None],
                   bw    |-> [t \in Thread |-> None],
                   count |-> [t \in Thread |-> 0]]

(* "if( p ) p->field = v" *)
Store(field, p, v) == IF p = None THEN field ELSE [field EXCEPT ![p] = v]

(***************************************************************************)
(* The search loop of JD_enqueue_timeq: step over the next thread if its   *)
(* count still fits into what is left of the limit.  What is left is kept  *)
(* in the count of thrd itself, so a search that comes to thrd, which is   *)
(* still linked after a call that lost it, finds just that there.          *)
(***************************************************************************)
CountSeen(q, thrd, s) == IF s.bw = thrd THEN s.left ELSE q.count[s.bw]

StepsOver(q, thrd, s) == s.bw # None /\ CountSeen(q, thrd, s) <= s.left

(* By how much a step over a count below zero could lengthen what is left *)
Deficit(q) == Max({0} \cup {0 - q.count[t] : t \in Thread})

(***************************************************************************)
(* Where the search stops, if it does.  Links that were damaged can form a *)
(* ring: a round of it lowers what is left, which does not go below zero,  *)
(* or it is made for ever.  SearchBound is more steps than a search has    *)
(* that ends (theorem EndlessSearch of ThreadsProofs).                     *)
(***************************************************************************)
SearchBound(q, limit) ==
  Cardinality(Thread) * (limit + Cardinality(Thread) * Deficit(q) + 2)

Scan(q, thrd, limit) ==
  LET step[n \in Nat] ==
        IF n = 0
        THEN [fw |-> None, bw |-> q.head, left |-> limit]
        ELSE LET s == step[n - 1] IN
             IF StepsOver(q, thrd, s)
             THEN [fw |-> s.bw, bw |-> q.bw[s.bw], left |-> s.left - CountSeen(q, thrd, s)]
             ELSE s
  IN  step[SearchBound(q, limit)]

SearchEnds(q, thrd, limit) == ~StepsOver(q, thrd, Scan(q, thrd, limit))

(* JD_enqueue_timeq: link thrd between the two threads the search stopped at *)
EnqueueTimeq(q, thrd, limit) ==
  LET s == Scan(q, thrd, limit)
  IN  [head  |-> IF s.fw = None THEN thrd ELSE q.head,
       fw    |-> [Store(q.fw, s.bw, thrd) EXCEPT ![thrd] = s.fw],
       bw    |-> [Store(q.bw, s.fw, thrd) EXCEPT ![thrd] = s.bw],
       count |-> IF s.bw = None
                 THEN [q.count EXCEPT ![thrd] = s.left]
                 ELSE [q.count EXCEPT ![thrd] = s.left, ![s.bw] = @ - s.left]]

(* Mutant of DequeueTimeq: the next thread keeps its own count *)
DequeueDropsCount(q, thrd) ==
  LET f == q.fw[thrd]
      b == q.bw[thrd]
  IN  [head  |-> IF f = None THEN b ELSE q.head,
       fw    |-> [Store(q.fw, b, f) EXCEPT ![thrd] = None],
       bw    |-> [Store(q.bw, f, b) EXCEPT ![thrd] = None],
       count |-> q.count]

(* JD_dequeue_timeq: unlink thrd, its remaining count goes to the next one *)
DequeueTimeq(q, thrd) ==
  LET f == q.fw[thrd]
      b == q.bw[thrd]
  IN  [head  |-> IF f = None THEN b ELSE q.head,
       fw    |-> [Store(q.fw, b, f) EXCEPT ![thrd] = None],
       bw    |-> [Store(q.bw, f, b) EXCEPT ![thrd] = None],
       count |-> IF b = None THEN q.count
                 ELSE [q.count EXCEPT ![b] = @ + q.count[thrd]]]

(* The decrement at the top of JD_count_timeq *)
Decrement(q) == IF q.head = None THEN q ELSE [q EXCEPT !.count[q.head] = @ - 1]

(***************************************************************************)
(* The loop of JD_count_timeq: from the top of the decremented queue, the  *)
(* threads with count 0, in order, and the thread at which the loop stops. *)
(***************************************************************************)
Expiry(q) ==
  LET d == Decrement(q)
      pop[n \in Nat] ==
        IF n = 0
        THEN [gone |-> <<>>, next |-> d.head]
        ELSE LET p == pop[n - 1] IN
             IF p.next # None /\ d.count[p.next] = 0
             THEN [gone |-> Append(p.gone, p.next), next |-> d.bw[p.next]]
             ELSE p
  IN  pop[Cardinality(Thread)]

(* The loop comes to its end, and does not go for ever round a ring of      *)
(* threads that are due (theorem EndlessCount of ThreadsProofs)             *)
CountEnds(q) == LET e == Expiry(q) IN e.next = None \/ Decrement(q).count[e.next] # 0

(* Mutants of CountTimeq: the new top keeps its forward link; the threads    *)
(* behind the expired ones are dropped                                      *)
CountKeepsFw(q) == [Decrement(q) EXCEPT !.head = Expiry(q).next]

CountDropsRest(q) ==
  [Decrement(q) EXCEPT !.head = IF Expiry(q).gone = <<>> THEN @ ELSE None]

(***************************************************************************)
(* The queue JD_count_timeq leaves.  The loop clears time_thrd_fw of every *)
(* thread that becomes the top, and leaves time_thrd_bw of the threads it  *)
(* removes as it is: the statement meant to clear it is a comparison.      *)
(***************************************************************************)
CountTimeq(q) ==
  LET d == Decrement(q)
      e == Expiry(q)
      tops == IF e.gone = <<>> THEN {} ELSE Range(Tail(e.gone)) \cup {e.next}
  IN  [d EXCEPT !.head = e.next,
                !.fw = [t \in Thread |-> IF t \in tops THEN None ELSE d.fw[t]]]

(* The threads from the top of the queue, by time_thrd_bw, and the cycles   *)
(* each has left: the sum of the counts up to its own                      *)
Alarms(q) ==
  LET walk[n \in Nat] ==
        IF n = 0
        THEN [seen |-> <<>>, next |-> q.head, sum |-> 0]
        ELSE LET w == walk[n - 1] IN
             IF w.next = None THEN w
             ELSE LET left == w.sum + q.count[w.next]
                  IN  [seen |-> Append(w.seen, [thread |-> w.next, left |-> left]),
                       next |-> q.bw[w.next], sum |-> left]
  IN  walk[Cardinality(Thread)].seen
=============================================================================
