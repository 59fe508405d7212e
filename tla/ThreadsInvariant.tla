-------------------------- MODULE ThreadsInvariant --------------------------
(***************************************************************************)
(* The inductive invariant of the thread kernel when thread_join() is not  *)
(* given time limits.  The properties of Threads are not inductive: that   *)
(* an exit finds its parent asleep, for instance, rests on which threads   *)
(* can still report to whom, and that a terminate spares no child of a     *)
(* parent it stops rests on the shape of the termination tree.             *)
(***************************************************************************)
EXTENDS Threads

(* The time-out queue is not in use *)
NoTimers == timeq.head = None /\ \A t \in Thread : time_limit[t] = 0

(* Only the thread that executes is in its program, and only there does it  *)
(* go through a fork .. join sequence                                       *)
OneProgram ==
  /\ \A t \in Thread : at[t] = "code" => thread = t
  /\ forking # "no" => \E t \in Thread : thread = t /\ at[t] = "code"

Forking(t) == thread = t /\ forking # "no"

(* A thread that does not exist yet has no relations *)
Unrelated(t) ==
  /\ at[t] = "start" /\ ~terminated[t] /\ ~thread_join[t]
  /\ parent[t] = None /\ child[t] = {}
  /\ term_parent[t] = None /\ term_child[t] = {}
  /\ creator[t] = None
  /\ \A x \in Thread : creator[x] # t

FreshUnrelated == \A t \in Thread : queue[t] = "unallocated" => Unrelated(t)

(* t will report its exit to its parent *)
Reports(t) == Alive(t) /\ ~terminated[t] /\ parent[t] # None

(* The parent counts its children, all of whom will report *)
Counted(p) ==
  /\ child[p] # {}
  /\ \A c \in child[p] : parent[c] = p /\ Reports(c)
  /\ wait_child[p] = IF at[p] = "spoon" THEN 1 ELSE Cardinality(child[p])

(* A terminated thread none of whose children will report *)
Abandoned(p) == terminated[p] /\ \A c \in Thread : Reports(c) => parent[c] # p

(* The blocks: who reports is on the list of a parent that sleeps for it,   *)
(* or that has not come to the end of its fork yet; who sleeps is reported  *)
(* to; nobody else has children; and a child that was terminated, but not   *)
(* cut off, was terminated with its parent                                  *)
BlockInv ==
  /\ \A c \in Thread : Reports(c) =>
       c \in child[parent[c]] /\ (InBlock(parent[c]) \/ Forking(parent[c]))
  /\ \A p \in Thread : InBlock(p) => Counted(p) \/ Abandoned(p)
  /\ \A p \in Thread : Forking(p) =>
       /\ forked[p] = child[p]
       /\ \A c \in child[p] : parent[c] = p /\ Reports(c)
  /\ \A p \in Thread : ~InBlock(p) /\ ~Forking(p) => child[p] = {}
  /\ \A c \in Thread : Alive(c) /\ terminated[c] /\ parent[c] # None => terminated[parent[c]]

(* The termination tree: its lists agree with term_parent, it leads from a  *)
(* thread to one of its ancestors only, and a thread that reports to a      *)
(* parent is below that parent; main has no parent                          *)
TreeInv ==
  /\ \A p \in Thread : ~Gone(p) => \A c \in term_child[p] : Alive(c) /\ term_parent[c] = p
  /\ \A c \in Thread : term_parent[c] # None => term_parent[c] \in Ancestors(c)
  /\ \A c \in Thread : Reports(c) =>
       term_parent[c] = parent[c] /\ c \in term_child[parent[c]]
  /\ \A t \in Thread : t \notin Ancestors(t)
  /\ parent[Main] = None /\ term_parent[Main] = None /\ queue[Main] # "unallocated"

(* thread_join is set exactly for the sleepers in thread_join() *)
JoinInv == \A t \in Thread : thread_join[t] <=> queue[t] = "sleep" /\ at[t] = "thread_join"

KinInv == /\ OneProgram /\ FreshUnrelated
          /\ BlockInv /\ TreeInv /\ JoinInv
          /\ TerminatedIsStopped

(* The inductive invariant: at every point at which another thread can run, *)
(* the blocks, the termination tree, the queues and the point at which each *)
(* thread is suspended tell the same story of who waits for whom.           *)
IInv == TypeOK /\ NoTimers /\ NoInternalError /\ OnePlace /\ KinInv
-----------------------------------------------------------------------------
(* What else holds of the family of a thread, given IInv *)

(* Nobody terminates main, and its return ends the simulation *)
MainStays == /\ ~terminated[Main] /\ creator[Main] = None
             /\ Gone(Main) => end_of_simulation

(* c is on the list of a parent that is alive, or is main *)
InTree(c) == /\ term_parent[c] # None
             /\ c \in term_child[term_parent[c]]
             /\ Alive(term_parent[c]) \/ term_parent[c] = Main

(* terminate cut c off, with all that was below it *)
IsCutOff(c) == terminated[c] /\ term_parent[c] = None /\ term_child[c] = {}

LinkInv == \A c \in Thread : Alive(c) => c = Main \/ IsCutOff(c) \/ InTree(c)

(* Between a thread and its termination parent are only threads that are gone *)
NearInv == \A c \in Thread : Alive(c) /\ term_parent[c] # None =>
             \A b \in Ancestors(c) :
               Gone(b) \/ b = term_parent[c] \/ b \in Ancestors(term_parent[c])

(* p has been woken in thread_join(), and has not gone on yet *)
Joined(p) == /\ Alive(p) /\ queue[p] # "sleep" /\ at[p] = "thread_join"
             /\ ~terminated[p]

(* Who was woken in thread_join() has no descendant left that runs *)
JoinedInv == \A p \in Thread : Joined(p) =>
               \A c \in Thread : p \in Ancestors(c) => Gone(c) \/ terminated[c]

FamilyInv == MainStays /\ LinkInv /\ NearInv /\ JoinedInv
-----------------------------------------------------------------------------
(* What else holds of the results of a block, given IInv *)

(* All children of the last block of p have the form f *)
AllOf(p, f) == \A c \in forked[p] : form[c] = f

(* p has been woken in its block, and has not gone on yet *)
Woken(p) == /\ Alive(p) /\ queue[p] # "sleep" /\ at[p] \in {"join", "spoon"}
            /\ ~terminated[p]

(* As long as a block is forked or waits, no value has decided it *)
Undecided(p, f) == acc[p] # Decisive(f) /\ \A c \in forked[p] : value[c] # Decisive(f)

(* The value the block of p returns, and what became of its children *)
Decided(p, f) ==
  /\ acc[p] = Decisive(f) <=> \E c \in forked[p] : value[c] = Decisive(f)
  /\ acc[p] # Decisive(f) => \A c \in forked[p] : Gone(c)
  /\ \A c \in forked[p] : Gone(c) \/ terminated[c]

ForkedInv  == /\ \A c \in Thread : ~Gone(c) => value[c] = None
              /\ \A p \in Thread : \A c \in forked[p] : queue[c] # "unallocated"
              /\ \A p \in Thread : Forking(p) =>
                   /\ AllOf(p, forking)
                   /\ forking # "fork" => acc[p] # Decisive(forking)

PendingInv == \A p \in Thread : InBlock(p) /\ ~terminated[p] =>
                /\ child[p] \subseteq forked[p]
                /\ at[p] = "join" =>
                     /\ \A c \in forked[p] \ child[p] : Gone(c)
                     /\ \A f \in {"p_and", "p_or"} : AllOf(p, f) => Undecided(p, f)

WokenInv   == \A p \in Thread : Woken(p) =>
                /\ \E c \in forked[p] : Gone(c)
                /\ at[p] = "join" =>
                     /\ AllOf(p, "fork") => \A c \in forked[p] : Gone(c)
                     /\ \A f \in {"p_and", "p_or"} : AllOf(p, f) => Decided(p, f)

ResultInv == ForkedInv /\ PendingInv /\ WokenInv

(* The invariant of the proofs, with what follows from IInv step by step:   *)
(* who is whose family, and what the children of a block have returned.     *)
FullInv == IInv /\ FamilyInv /\ ResultInv
=============================================================================
