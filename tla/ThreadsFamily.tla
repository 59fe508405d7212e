---------------------------- MODULE ThreadsFamily ----------------------------
(***************************************************************************)
(* The termination tree holds the families: FamilyInv is an invariant of   *)
(* the thread kernel; and so is ResultInv, on which it rests what a block  *)
(* returns and when it ends: for every set of threads and either build.    *)
(***************************************************************************)
EXTENDS ThreadsProofs, WellFoundedInduction

(* The steps that leave the tree as it is, and wake nobody in thread_join() *)
FamilyStays ==
  /\ UNCHANGED <<term_parent, term_child, terminated, creator>>
  /\ end_of_simulation => end_of_simulation'
  /\ \A t \in Thread : /\ Alive(t)' <=> Alive(t)
                       /\ Gone(t)' <=> Gone(t)
                       /\ Joined(t)' => Joined(t)

LEMMA FamilyFrame ==
  ASSUME TermTypes, FamilyInv, FamilyStays PROVE FamilyInv'
<1>1. \A t \in Thread : Ancestors(t)' = Ancestors(t)
  BY DEF FamilyStays, Ancestors, Creators
<1>2. MainStays'
  BY MainAssumption DEF FamilyStays, FamilyInv, MainStays
<1>3. LinkInv'
  <2> SUFFICES ASSUME NEW c \in Thread, Alive(c)' PROVE (c = Main \/ IsCutOff(c) \/ InTree(c))'
    BY DEF LinkInv
  <2>1. c = Main \/ IsCutOff(c) \/ InTree(c)
    BY DEF FamilyInv, LinkInv, FamilyStays
  <2>2. InTree(c) => InTree(c)'
    BY DEF InTree, FamilyStays, TermTypes, Link
  <2>. QED BY <2>1, <2>2 DEF IsCutOff, FamilyStays
<1>4. NearInv'
  <2> SUFFICES ASSUME NEW c \in Thread, Alive(c)', term_parent'[c] # None,
                      NEW b \in Ancestors(c)'
               PROVE  Gone(b)' \/ b = term_parent'[c] \/ b \in Ancestors(term_parent[c])'
    BY DEF NearInv
  <2>1. Alive(c) /\ term_parent'[c] = term_parent[c] /\ b \in Ancestors(c)
        /\ term_parent[c] \in Thread /\ b \in Thread
    BY <1>1, AncestorsType DEF FamilyStays, TermTypes, Link
  <2>. QED BY <1>1, <2>1 DEF FamilyInv, NearInv, FamilyStays
<1>5. JoinedInv'
  BY <1>1 DEF FamilyInv, JoinedInv, FamilyStays
<1>. QED BY <1>2, <1>3, <1>4, <1>5 DEF FamilyInv

LEMMA SchedulerStays == ASSUME IInv, Scheduler PROVE FamilyStays
<1>1. RunTypes /\ OnePlace /\ NoTimers
  BY DEF IInv, TypeOK
<1>2. CASE Dispatch
  <2> DEFINE t == Head(ready_queue)
  <2>1. /\ t \in Thread /\ queue[t] = "ready"
        /\ queue' = [queue EXCEPT ![t] = "none"]
    BY <1>1, <1>2 DEF Dispatch, RunTypes, OnePlace, Range
  <2> HIDE DEF t
  <2>. QED BY <1>1, <1>2, <2>1 DEF Dispatch, FamilyStays, Alive, Gone, Joined, RunTypes, loopVars,
              termVars, history
<1>3. CASE EndTimeSlot
  BY <1>1, <1>3 DEF EndTimeSlot, FamilyStays, Alive, Gone, Joined, RunTypes, termVars, history
<1>4. ASSUME NEW posedge \in BOOLEAN, StartTimeSlot(posedge) PROVE FamilyStays
  <2>1. UNCHANGED <<queue, at, terminated>>
    BY <1>1, <1>4 DEF StartTimeSlot, NoTimers
  <2>. QED BY <1>4, <2>1 DEF StartTimeSlot, FamilyStays, Alive, Gone, Joined
<1>5. ASSUME NEW t \in Thread, WakeFromEdge(t) PROVE FamilyStays
  <2>1. queue[t] = "port" /\ at[t] = "port"
    BY <1>1, <1>5 DEF WakeFromEdge, OnePlace
  <2>2. Range(<<t>>) = {t}
    BY SingleOnce
  <2>3. queue' = [x \in Thread |-> IF x = t THEN "ready" ELSE queue[x]]
    BY <1>5, <2>2 DEF WakeFromEdge, Release
  <2>. QED BY <1>1, <1>5, <2>1, <2>3 DEF WakeFromEdge, FamilyStays, Alive, Gone, Joined, termVars,
              history
<1>. QED BY <1>2, <1>3, <1>4, <1>5 DEF Scheduler

(* t, in its program, suspends itself or goes on *)
LEMMA ThreadStays ==
  ASSUME IInv, NEW t \in Thread, thread = t, at[t] # "exited",
         \/ /\ at' = at /\ queue' = queue
         \/ /\ at' = [at EXCEPT ![t] = "code"] /\ queue' = queue
         \/ \E q \in {"ready", "port", "sleep"}, p \in {"pause", "port", "join", "spoon"} :
              Suspend(t, q, p)
         \/ Suspend(t, "sleep", "thread_join"),
         UNCHANGED <<term_parent, term_child, terminated, creator>>,
         end_of_simulation => end_of_simulation'
  PROVE  FamilyStays
<1>1. queue[t] = "none" /\ RunTypes
  BY DEF IInv, OnePlace, TypeOK
<1>. QED BY <1>1 DEF FamilyStays, Alive, Gone, Joined, Suspend, RunTypes

LEMMA ProgramStays ==
  ASSUME IInv, NEW t \in Thread,
         \/ \E f \in Forms : Fork(t, f)
         \/ Join(t) \/ Spoon(t) \/ Knife(t)
         \/ ThreadPause(t) \/ SyncOnEdge(t) \/ ExitSimulation(t) \/ VerifError(t)
         \/ \E limit \in JoinLimits \cup {0} : ThreadJoin(t, limit)
         \/ Begin(t) /\ ~terminated[t]
         \/ Begin(t) /\ SelfThreadControl
         \/ Resume(t) /\ ~terminated[t]
  PROVE  FamilyStays
<1>1. CASE (\E f \in Forms : Fork(t, f)) \/ Knife(t)
  BY <1>1, ThreadStays DEF Fork, Knife, EndsBlock, Runs, Executes, runVars, loopVars, termVars,
     history
<1>2. CASE Join(t) \/ Spoon(t)
  BY <1>2, ThreadStays DEF Join, Spoon, EndsBlock, WaitForChildren, Executes, loopVars, termVars
<1>3. CASE ThreadPause(t) \/ SyncOnEdge(t) \/ ExitSimulation(t) \/ VerifError(t)
  BY <1>3, ThreadStays DEF ThreadPause, SyncOnEdge, ExitSimulation, VerifError, StopLoop, Runs,
     Executes, loopVars, termVars, history
<1>4. CASE \E limit \in JoinLimits \cup {0} : ThreadJoin(t, limit)
  BY <1>4, ThreadStays DEF ThreadJoin, SetTimeLimit, Runs, Executes
<1>5. CASE Begin(t) /\ (~terminated[t] \/ SelfThreadControl)
  BY <1>5, ThreadStays DEF Begin, Stopped, loopVars, termVars, history
<1>6. CASE Resume(t) /\ ~terminated[t]
  BY <1>6, ThreadStays DEF Resume, ResumePoints, Stopped, loopVars, termVars, history
<1>. QED BY <1>1, <1>2, <1>3, <1>4, <1>5, <1>6
-----------------------------------------------------------------------------
(* Who can be reached down the termination tree *)

(* Among threads there is one of whose ancestors no other has but a part *)
LEMMA Eldest ==
  ASSUME NEW B \in SUBSET Thread, B # {}
  PROVE  \E c \in B : \A x \in B : Ancestors(x) \subseteq Ancestors(c) =>
                                   Ancestors(x) = Ancestors(c)
<1> DEFINE T == {Ancestors(c) : c \in B}
<1>1. T # {} /\ T \subseteq SUBSET Thread
  BY AncestorsType
<1>2. FiniteSubsetsOf(Thread) = SUBSET Thread
  BY ThreadAssumption, FS_FiniteSubsetsOfFinite
<1>3. IsWellFoundedOn(StrictSubsetOrdering(Thread), SUBSET Thread)
  BY <1>2, FS_StrictSubsetOrderingWellFounded
<1> HIDE DEF T
<1>4. PICK A \in T : \A X \in T : <<X, A>> \notin StrictSubsetOrdering(Thread)
  BY <1>1, <1>3, WFMin, Zenon
<1>5. \A X \in T : X \subseteq A => X = A
  BY <1>1, <1>4 DEF StrictSubsetOrdering
<1>. QED BY <1>4, <1>5 DEF T

LEMMA NoCreatorNoAncestor ==
  ASSUME NEW c \in Thread, creator[c] = None PROVE Ancestors(c) = {}
<1>1. Creators[c] = {}
  BY DEF Creators
<1>2. Reach({}, Creators) \subseteq {}
  BY ReachLeast
<1>. QED BY <1>1, <1>2 DEF Ancestors

LEMMA MainHasNoAncestor == ASSUME MainStays PROVE Ancestors(Main) = {}
  BY MainAssumption, NoCreatorNoAncestor DEF MainStays

(* From a thread that has not exited, a walk down the lists reaches every   *)
(* descendant that is alive and was not cut off                             *)
LEMMA DescendantsReached ==
  IInv /\ MainStays /\ LinkInv /\ NearInv =>
    \A p, c \in Thread : ~Gone(p) /\ Alive(c) /\ ~IsCutOff(c) /\ p \in Ancestors(c) =>
      c \in TermSubtree(p)
<1> SUFFICES ASSUME IInv, MainStays, LinkInv, NearInv, NEW p \in Thread, ~Gone(p)
             PROVE  \A c \in Thread : Alive(c) /\ ~IsCutOff(c) /\ p \in Ancestors(c) =>
                      c \in TermSubtree(p)
  OBVIOUS
<1>1. TreeInv /\ TermTypes /\ HistoryTypes
  BY DEF IInv, KinInv, TypeOK
<1> DEFINE Out(c) == Alive(c) /\ ~IsCutOff(c) /\ p \in Ancestors(c) /\ c \notin TermSubtree(p)
           B == {c \in Thread : Out(c)}
<1> SUFFICES ASSUME B # {} PROVE FALSE
  OBVIOUS
<1>2. PICK c \in B : \A x \in B : Ancestors(x) \subseteq Ancestors(c) =>
                                 Ancestors(x) = Ancestors(c)
  BY Eldest
<1> DEFINE q == term_parent[c]
<1>3. c # Main
  BY <1>1, <1>2, MainHasNoAncestor
<1>4. InTree(c) /\ q \in Thread /\ q \in Ancestors(c)
  <2>1. InTree(c)
    BY <1>2, <1>3 DEF LinkInv
  <2>2. q # None
    BY <2>1 DEF InTree
  <2>. QED BY <1>1, <2>1, <2>2 DEF TermTypes, Link, TreeInv
<1>5. q # p
  <2>1. term_child[p] \subseteq TermSubtree(p)
    BY <1>1, ReachFirst DEF TermSubtree, TermTypes
  <2>. QED BY <1>2, <1>4, <2>1 DEF InTree
<1>6. p \in Ancestors(q)
  <2>1. Gone(p) \/ p = q \/ p \in Ancestors(q)
    BY <1>2, <1>4 DEF NearInv, InTree
  <2>. QED BY <1>5, <2>1
<1>7. Alive(q) /\ ~IsCutOff(q)
  BY <1>1, <1>4, <1>6, MainHasNoAncestor DEF InTree, IsCutOff
<1>8. q \notin TermSubtree(p)
  <2>1. q \in TermSubtree(p) => term_child[q] \subseteq TermSubtree(p)
    BY <1>1, ReachClosed DEF TermSubtree, TermTypes
  <2>. QED BY <1>2, <1>4, <2>1 DEF InTree
<1>9. Ancestors(q) \subseteq Ancestors(c)
  BY <1>1, <1>2, <1>4, AncestorsTrans
<1>10. Ancestors(q) = Ancestors(c)
  BY <1>2, <1>4, <1>6, <1>7, <1>8, <1>9
<1>11. q \in Ancestors(q)
  BY <1>4, <1>10
<1>. QED BY <1>1, <1>4, <1>11 DEF TreeInv

LEMMA DescendantsReachedNext ==
  (IInv /\ MainStays /\ LinkInv /\ NearInv =>
     \A p, c \in Thread : ~Gone(p) /\ Alive(c) /\ ~IsCutOff(c) /\ p \in Ancestors(c) =>
       c \in TermSubtree(p))'
  BY DescendantsReached, PTL
-----------------------------------------------------------------------------
(* The steps that change the tree *)

LEMMA ExecFamily ==
  ASSUME IInv, FamilyInv, NEW t \in Thread, NEW c \in Thread, Exec(t, c)
  PROVE  FamilyInv'
<1>1. /\ queue[t] = "none" /\ at[t] = "code" /\ ~terminated[t] /\ t # c
      /\ queue[c] = "unallocated" /\ Unrelated(c)
      /\ queue' = [queue EXCEPT ![c] = "ready"]
      /\ term_parent' = [term_parent EXCEPT ![c] = t]
      /\ term_child' = [term_child EXCEPT ![t] = @ \cup {c}]
      /\ creator' = [creator EXCEPT ![c] = t]
      /\ UNCHANGED <<at, terminated, end_of_simulation>>
  BY DEF Exec, Executes, IInv, KinInv, OnePlace, FreshUnrelated, TerminatedIsStopped, loopVars
<1>2. /\ RunTypes /\ TermTypes /\ HistoryTypes /\ TreeInv
      /\ MainStays /\ LinkInv /\ NearInv /\ JoinedInv
  BY DEF IInv, KinInv, TypeOK, FamilyInv
<1>3. /\ \A x \in Thread \ {c} : Ancestors(x)' = Ancestors(x)
      /\ Ancestors(c)' = Ancestors(t) \cup {t}
  BY <1>1, <1>2, AncestorsExec DEF Unrelated
<1>4. /\ c # Main /\ Alive(t) /\ ~Gone(c) /\ Alive(c)'
      /\ \A x \in Thread : /\ Gone(x)' <=> Gone(x)
                           /\ x # c => (Alive(x)' <=> Alive(x)) /\ (Joined(x)' <=> Joined(x))
  BY <1>1, <1>2 DEF Alive, Gone, Joined, RunTypes, TreeInv
<1>5. MainStays'
  BY <1>1, <1>2, <1>4, MainAssumption DEF MainStays, HistoryTypes
<1>6. LinkInv'
  <2> SUFFICES ASSUME NEW x \in Thread, Alive(x)', x # Main
               PROVE  (IsCutOff(x) \/ InTree(x))'
    BY DEF LinkInv
  <2>1. CASE x = c
    BY <1>1, <1>2, <1>4, <2>1, NoneAssumption DEF InTree, TermTypes
  <2>2. CASE x # c /\ IsCutOff(x)
    BY <1>1, <1>2, <2>2 DEF IsCutOff, TermTypes
  <2>3. CASE x # c /\ InTree(x)
    <3>1. term_parent[x] \in Thread /\ term_parent'[x] = term_parent[x]
      BY <1>1, <1>2, <2>3 DEF InTree, TermTypes, Link
    <3>2. x \in term_child'[term_parent[x]]
      BY <1>1, <1>2, <2>3, <3>1 DEF InTree, TermTypes
    <3>. QED BY <1>1, <1>4, <2>3, <3>1, <3>2 DEF InTree
  <2>. QED BY <1>2, <1>4, <2>1, <2>2, <2>3 DEF LinkInv
<1>7. NearInv'
  <2> SUFFICES ASSUME NEW x \in Thread, Alive(x)', term_parent'[x] # None, NEW b \in Ancestors(x)'
               PROVE  Gone(b)' \/ b = term_parent'[x] \/ b \in Ancestors(term_parent[x])'
    BY DEF NearInv
  <2>1. CASE x = c
    BY <1>1, <1>2, <1>3, <2>1 DEF TermTypes
  <2>2. CASE x # c
    <3>1. term_parent'[x] = term_parent[x] /\ term_parent[x] \in Ancestors(x) /\ Alive(x)
          /\ b \in Ancestors(x)
      BY <1>1, <1>2, <1>3, <1>4, <2>2 DEF TermTypes, TreeInv
    <3>2. term_parent[x] # c /\ term_parent[x] \in Thread /\ b \in Thread
      BY <1>1, <1>2, <3>1, AncestorsType, AncestorsBarren DEF Unrelated
    <3>. QED BY <1>2, <1>3, <1>4, <3>1, <3>2 DEF NearInv
  <2>. QED BY <2>1, <2>2
<1>8. JoinedInv'
  <2> SUFFICES ASSUME NEW p \in Thread, Joined(p)', NEW x \in Thread, p \in Ancestors(x)'
               PROVE  (Gone(x) \/ terminated[x])'
    BY DEF JoinedInv
  <2>1. Joined(p) /\ p # t
    BY <1>1, <1>4 DEF Joined, Unrelated
  <2>2. CASE x # c
    BY <1>1, <1>2, <1>3, <1>4, <2>1, <2>2 DEF JoinedInv
  <2>3. CASE x = c
    BY <1>1, <1>2, <1>3, <2>1, <2>3 DEF JoinedInv, Gone
  <2>. QED BY <2>2, <2>3
<1>. QED BY <1>5, <1>6, <1>7, <1>8 DEF FamilyInv

(* A thread other than main leaves the tree; its children are handed up *)
LEMMA LeavesFamily ==
  ASSUME IInv, IInv', FamilyInv, NEW t \in Thread, t # Main, thread = t, forking = "no",
         NEW woken \in Seq(Thread),
         \A x \in Range(woken) : InBlock(x), IsInjective(woken), Leaves(t, woken),
         ~terminated'[Main]
  PROVE  FamilyInv'
<1> DEFINE q == term_parent[t]
<1>1. /\ RunTypes /\ TermTypes /\ HistoryTypes /\ TreeInv
      /\ MainStays /\ LinkInv /\ NearInv /\ JoinedInv
  BY DEF IInv, KinInv, TypeOK, FamilyInv
<1>2. \A x \in Thread : /\ Gone(x)' <=> Gone(x) \/ x = t
                        /\ Alive(x)' <=> Alive(x) /\ x # t
                        /\ x # t => at'[x] = at[x]
                        /\ terminated[x] => terminated'[x]
  BY LeavesSafe DEF Leaves
<1>3. \A x \in Thread : Ancestors(x)' = Ancestors(x)
  BY DEF Leaves, Ancestors, Creators
<1>4. Alive(t) /\ ~Gone(t)
  BY DEF IInv, OnePlace, Alive, Gone
<1>5. \A x \in term_child[t] : term_parent[x] = t
  BY <1>1, <1>4 DEF TreeInv
<1>6. \/ /\ q = None /\ term_child[t] = {}
         /\ UNCHANGED <<term_parent, term_child>>
      \/ /\ q \in Thread /\ q # t /\ InTree(t)
         /\ term_child' = [term_child EXCEPT ![q] = TermHeirs(t)]
         /\ term_parent' = [c \in Thread |-> IF c \in term_child[t] THEN q ELSE term_parent[c]]
  <2>1. IsCutOff(t) \/ InTree(t)
    BY <1>1, <1>4 DEF LinkInv
  <2>2. q # None => q \in Thread /\ q # t
    BY <1>1 DEF TermTypes, Link, TreeInv
  <2>. QED BY <2>1, <2>2 DEF Leaves, ExitTermLink, IsCutOff, InTree
<1>7. MainStays'
  <2>1. creator' = creator /\ end_of_simulation' = end_of_simulation
    BY DEF Leaves, BecomeZombie
  <2>. QED BY <1>1, <1>2, <2>1, MainAssumption DEF MainStays
<1>8. LinkInv'
  <2> SUFFICES ASSUME NEW c \in Thread, Alive(c)', c # Main
               PROVE  (IsCutOff(c) \/ InTree(c))'
    BY DEF LinkInv
  <2>1. Alive(c) /\ c # t
    BY <1>2
  <2>2. CASE IsCutOff(c)
    <3>1. c \notin term_child[t] /\ c # q
      BY <1>5, <1>6, <2>2, NoneAssumption DEF IsCutOff, InTree
    <3>. QED BY <1>1, <1>2, <1>6, <2>2, <3>1 DEF IsCutOff, TermTypes
  <2>3. CASE InTree(c) /\ c \in term_child[t]
    <3>1. PICK r \in Thread : r = q
      BY <1>6, <2>3
    <3>2. term_parent'[c] = r /\ c \in term_child'[r]
      BY <1>1, <1>6, <2>3, <3>1 DEF TermHeirs, TermTypes
    <3>3. Alive(r)' \/ r = Main
      BY <1>2, <1>6, <2>3, <3>1 DEF InTree
    <3>. QED BY <3>2, <3>3, NoneAssumption DEF InTree
  <2>4. CASE InTree(c) /\ c \notin term_child[t]
    <3>1. term_parent[c] \in Thread /\ term_parent[c] # t /\ term_parent'[c] = term_parent[c]
      BY <1>1, <1>6, <2>4 DEF InTree, TermTypes, Link
    <3>2. c \in term_child'[term_parent[c]]
      BY <1>1, <1>6, <2>1, <2>4, <3>1 DEF InTree, TermTypes, TermHeirs
    <3>. QED BY <1>2, <2>4, <3>1, <3>2, NoneAssumption DEF InTree
  <2>. QED BY <1>1, <2>1, <2>2, <2>3, <2>4 DEF LinkInv
<1>9. NearInv'
  <2> SUFFICES ASSUME NEW c \in Thread, Alive(c)', term_parent'[c] # None, NEW b \in Ancestors(c)
               PROVE  Gone(b)' \/ b = term_parent'[c] \/ b \in Ancestors(term_parent[c])'
    BY <1>3 DEF NearInv
  <2>1. b \in Thread
    BY AncestorsType
  <2>2. CASE c \in term_child[t]
    <3>1. /\ term_parent[c] = t /\ term_parent'[c] = q /\ q \in Thread
          /\ Alive(c)
      BY <1>2, <1>5, <1>6, <2>2
    <3>2. Gone(b) \/ b = t \/ b \in Ancestors(t)
      BY <1>1, <3>1, NoneAssumption DEF NearInv
    <3>3. b \in Ancestors(t) => Gone(b) \/ b = q \/ b \in Ancestors(q)
      BY <1>1, <1>4, <3>1, NoneAssumption DEF NearInv
    <3>. QED BY <1>2, <1>3, <2>1, <3>1, <3>2, <3>3
  <2>3. CASE c \notin term_child[t]
    <3>1. /\ term_parent'[c] = term_parent[c] /\ Alive(c)
          /\ term_parent[c] \in Thread
      BY <1>1, <1>2, <1>6, <2>3 DEF TermTypes, Link
    <3>. QED BY <1>1, <1>2, <1>3, <2>1, <3>1 DEF NearInv
  <2>. QED BY <2>2, <2>3
<1>10. JoinedInv'
  <2> SUFFICES ASSUME NEW p \in Thread, Joined(p)', NEW c \in Thread, p \in Ancestors(c)
               PROVE  (Gone(c) \/ terminated[c])'
    BY <1>3 DEF JoinedInv
  <2>1. p # t /\ Alive(p) /\ at[p] = "thread_join" /\ ~terminated[p]
    BY <1>2 DEF Joined
  <2>2. CASE queue[p] # "sleep"
    BY <1>1, <1>2, <2>1, <2>2 DEF Joined, JoinedInv
  <2>3. CASE queue[p] = "sleep"
    <3>1. p \in Range(WokenJoiner(t))
      <4>1. p \notin Range(woken)
        BY <2>1 DEF InBlock
      <4>. QED BY <2>1, <2>3, <4>1, LeavesQueues DEF Joined
    <3>2. JoinerDone(t) /\ p = q
      BY <3>1, <1>6, SingleOnce, EmptyOnce DEF WokenJoiner, JoinerDone
    <3>3. term_child'[p] = {}
      BY <1>1, <1>6, <3>2 DEF JoinerDone, TermTypes
    <3>4. TermSubtree(p)' = {}
      <4>1. Reach({}, term_child') \subseteq {}
        BY ReachLeast
      <4>. QED BY <3>3, <4>1 DEF TermSubtree
    <3>5. ~Gone(p)'
      BY DEF Joined, Alive, Gone
    <3>6. Alive(c)' => IsCutOff(c)'
      BY <1>3, <1>7, <1>8, <1>9, <3>4, <3>5, DescendantsReachedNext
    <3>7. queue'[c] # "unallocated"
      <4>1. queue'[c] = "unallocated" => creator'[c] = None
        BY DEF IInv, KinInv, FreshUnrelated, Unrelated
      <4>2. creator[c] # None
        BY NoCreatorNoAncestor
      <4>. QED BY <4>1, <4>2 DEF Leaves
    <3>. QED BY <3>6, <3>7 DEF Alive, Gone, IsCutOff
  <2>. QED BY <2>2, <2>3
<1>. QED BY <1>7, <1>8, <1>9, <1>10 DEF FamilyInv

LEMMA ExitTerminatedFamily ==
  ASSUME IInv, IInv', FamilyInv, NEW t \in Thread, thread = t, at[t] # "code",
         terminated[t], ExitTerminated(t)
  PROVE  FamilyInv'
<1>1. forking = "no" /\ Leaves(t, <<>>)
  BY ExitTerminatedLeaves
<1>2. t # Main /\ ~terminated'[Main]
  BY DEF FamilyInv, MainStays, ExitTerminated
<1>. QED BY <1>1, <1>2, EmptyOnce, LeavesFamily

LEMMA ExitInstructionFamily ==
  ASSUME IInv, IInv', FamilyInv, NEW t \in Thread, Runs(t), t # Main,
         NEW decided \in BOOLEAN, ExitInstruction(t, decided),
         NEW cut \in SUBSET CutOff(t, decided),
         \A c \in Thread : terminated'[c] <=> terminated[c] \/ c \in cut
  PROVE  FamilyInv'
<1>1. /\ WokenParent(t, decided) \in Seq(Thread) /\ IsInjective(WokenParent(t, decided))
      /\ \A x \in Range(WokenParent(t, decided)) : InBlock(x)
      /\ Leaves(t, WokenParent(t, decided))
  BY ExitInstructionLeaves
<1>2. Main \notin CutOff(t, decided)
  BY ParentWaits, NoneAssumption DEF CutOff, LastOut, Counted, IInv, KinInv, TreeInv
<1>3. ~terminated'[Main]
  BY <1>2, MainAssumption DEF FamilyInv, MainStays
<1>4. thread = t /\ forking = "no"
  BY DEF Runs, Executes
<1>. QED BY <1>1, <1>3, <1>4, LeavesFamily

LEMMA TerminateFamily ==
  ASSUME IInv, FamilyInv, NEW t \in Thread, Terminate(t)
  PROVE  FamilyInv'
<1> DEFINE below == TermSubtree(t)
<1>1. /\ Runs(t)
      /\ terminated' = [c \in Thread |-> terminated[c] \/ c \in below]
      /\ term_parent' = [c \in Thread |-> IF c \in below THEN None ELSE term_parent[c]]
      /\ term_child' = [c \in Thread |-> IF c \in below \cup {t} THEN {} ELSE term_child[c]]
      /\ UNCHANGED <<queue, at, creator, end_of_simulation>>
  BY DEF Terminate, runVars, loopVars, history
<1>2. /\ TermTypes /\ TreeInv /\ MainStays /\ LinkInv /\ NearInv /\ JoinedInv
  BY DEF IInv, KinInv, TypeOK, FamilyInv
<1>3. /\ term_child[t] \subseteq below
      /\ \A x \in below : term_child[x] \subseteq below
      /\ \A x \in below : t \in Ancestors(x)
  BY <1>1, <1>2, ReachFirst, ReachClosed, TerminateReaches DEF TermSubtree, TermTypes
<1>4. Main \notin below
  BY <1>2, <1>3, MainHasNoAncestor
<1> HIDE DEF below
<1>5. \A x \in Thread : /\ Ancestors(x)' = Ancestors(x)
                        /\ Alive(x)' <=> Alive(x)
                        /\ Gone(x)' <=> Gone(x)
                        /\ Joined(x)' => Joined(x)
  BY <1>1 DEF Ancestors, Creators, Alive, Gone, Joined
<1>6. MainStays'
  BY <1>1, <1>2, <1>4, MainAssumption DEF MainStays, Gone
<1>7. LinkInv'
  <2> SUFFICES ASSUME NEW c \in Thread, Alive(c), c # Main PROVE (IsCutOff(c) \/ InTree(c))'
    BY <1>5 DEF LinkInv
  <2>1. CASE c \in below
    BY <1>1, <2>1 DEF IsCutOff
  <2>2. CASE c \notin below /\ IsCutOff(c)
    BY <1>1, <2>2 DEF IsCutOff
  <2>3. CASE c \notin below /\ InTree(c)
    <3>1. term_parent'[c] = term_parent[c] /\ term_parent[c] \in Thread
      BY <1>1, <1>2, <2>3 DEF InTree, TermTypes, Link
    <3>2. term_parent[c] \notin below \cup {t}
      BY <1>3, <2>3 DEF InTree
    <3>. QED BY <1>1, <1>5, <2>3, <3>1, <3>2 DEF InTree
  <2>. QED BY <1>2, <2>1, <2>2, <2>3 DEF LinkInv
<1>8. NearInv'
  <2> SUFFICES ASSUME NEW c \in Thread, Alive(c), term_parent'[c] # None, NEW b \in Ancestors(c)
               PROVE  Gone(b)' \/ b = term_parent'[c] \/ b \in Ancestors(term_parent[c])'
    BY <1>5 DEF NearInv
  <2>1. /\ term_parent'[c] = term_parent[c] /\ term_parent[c] # None
        /\ term_parent[c] \in Thread /\ b \in Thread
    BY <1>1, <1>2, AncestorsType DEF TermTypes, Link
  <2>. QED BY <1>2, <1>5, <2>1 DEF NearInv
<1>9. JoinedInv'
  BY <1>1, <1>2, <1>5 DEF JoinedInv
<1>. QED BY <1>6, <1>7, <1>8, <1>9 DEF FamilyInv

LEMMA MainReturnsFamily ==
  ASSUME IInv, FamilyInv, MainReturns PROVE FamilyInv'
<1>1. /\ queue[Main] = "none" /\ at[Main] = "code" /\ end_of_simulation'
      /\ queue' = [queue EXCEPT ![Main] = "zombie"]
      /\ at' = [at EXCEPT ![Main] = "exited"]
      /\ UNCHANGED <<terminated, creator, term_parent, term_child>>
  BY MainAssumption DEF MainReturns, Runs, Executes, termVars, history, IInv, OnePlace
<1>2. RunTypes /\ TermTypes /\ MainStays /\ LinkInv /\ NearInv /\ JoinedInv
  BY DEF IInv, TypeOK, FamilyInv
<1>3. \A x \in Thread : /\ Ancestors(x)' = Ancestors(x)
                        /\ Alive(x)' <=> Alive(x) /\ x # Main
                        /\ Gone(x)' <=> Gone(x) \/ x = Main
                        /\ Joined(x)' => Joined(x)
  BY <1>1, <1>2, MainAssumption DEF Ancestors, Creators, Alive, Gone, Joined, RunTypes
<1>4. MainStays'
  BY <1>1, <1>2 DEF MainStays
<1>5. LinkInv'
  <2> SUFFICES ASSUME NEW c \in Thread, Alive(c)', c # Main PROVE (IsCutOff(c) \/ InTree(c))'
    BY DEF LinkInv
  <2>1. IsCutOff(c) \/ InTree(c)
    BY <1>2, <1>3 DEF LinkInv
  <2>2. InTree(c) => InTree(c)'
    BY <1>1, <1>2, <1>3 DEF InTree, TermTypes, Link
  <2>. QED BY <1>1, <2>1, <2>2 DEF IsCutOff
<1>6. NearInv'
  <2> SUFFICES ASSUME NEW c \in Thread, Alive(c)', term_parent[c] # None, NEW b \in Ancestors(c)
               PROVE  Gone(b)' \/ b = term_parent'[c] \/ b \in Ancestors(term_parent[c])'
    BY <1>1, <1>3 DEF NearInv
  <2>1. term_parent[c] \in Thread /\ b \in Thread /\ term_parent'[c] = term_parent[c]
    BY <1>1, <1>2, AncestorsType DEF TermTypes, Link
  <2>. QED BY <1>2, <1>3, <2>1 DEF NearInv
<1>7. JoinedInv'
  BY <1>1, <1>2, <1>3 DEF JoinedInv
<1>. QED BY <1>4, <1>5, <1>6, <1>7 DEF FamilyInv
-----------------------------------------------------------------------------
LEMMA FamilyInit == Init => FamilyInv
<1> SUFFICES ASSUME Init PROVE FamilyInv
  OBVIOUS
<1>1. \A t \in Thread : /\ Alive(t) => t = Main
                        /\ ~Gone(t) /\ ~Joined(t)
                        /\ term_parent[t] = None
  BY DEF Init, Alive, Gone, Joined
<1>. QED BY <1>1, MainAssumption DEF Init, FamilyInv, MainStays, LinkInv, NearInv, JoinedInv

LEMMA FamilyStep == IInv /\ IInv' /\ FamilyInv /\ [Next]_vars => FamilyInv'
<1> SUFFICES ASSUME IInv, IInv', FamilyInv, [Next]_vars PROVE FamilyInv'
  OBVIOUS
<1>1. FamilyStays => FamilyInv'
  BY FamilyFrame DEF IInv, TypeOK
<1>2. CASE UNCHANGED vars
  BY <1>1, <1>2 DEF vars, runVars, loopVars, termVars, history, FamilyStays, Alive, Gone, Joined
<1>3. CASE Scheduler
  BY <1>1, <1>3, SchedulerStays
<1>4. CASE MainReturns
  BY <1>4, MainReturnsFamily
<1>5. ASSUME NEW t \in Thread, Step(t) PROVE FamilyInv'
  <2>1. CASE Begin(t)
    <3>1. CASE ~terminated[t] \/ SelfThreadControl
      BY <1>1, <2>1, <3>1, ProgramStays
    <3>2. CASE terminated[t] /\ ~SelfThreadControl
      BY <2>1, <3>2, ExitTerminatedFamily DEF Begin, Stopped
    <3>. QED BY <3>1, <3>2
  <2>2. CASE Resume(t)
    <3>1. CASE ~terminated[t]
      BY <1>1, <2>2, <3>1, ProgramStays
    <3>2. CASE terminated[t]
      BY <2>2, <3>2, ExitTerminatedFamily DEF Resume, Stopped, ResumePoints
    <3>. QED BY <3>1, <3>2
  <2>3. ASSUME NEW c \in Thread, Exec(t, c) PROVE FamilyInv'
    BY <2>3, ExecFamily
  <2>4. CASE Exit(t)
    <3>1. /\ Runs(t) /\ t # Main /\ ExitInstruction(t, FALSE)
          /\ {} \in SUBSET CutOff(t, FALSE)
          /\ \A c \in Thread : terminated'[c] <=> terminated[c] \/ c \in {}
      BY <2>4 DEF Exit
    <3>. QED BY <3>1, ExitInstructionFamily
  <2>5. ASSUME NEW v \in {0, 1}, ExitWithValue(t, v) PROVE FamilyInv'
    <3> DEFINE decided == parent[t] # None /\ Combined(t, v) = Decisive(form[t])
    <3>1. /\ Runs(t) /\ t # Main /\ ExitInstruction(t, decided) /\ decided \in BOOLEAN
          /\ CutOff(t, decided) \in SUBSET CutOff(t, decided)
          /\ \A c \in Thread : terminated'[c] <=> terminated[c] \/ c \in CutOff(t, decided)
      BY <2>5 DEF ExitWithValue
    <3> HIDE DEF decided
    <3>. QED BY <3>1, ExitInstructionFamily
  <2>6. CASE Terminate(t)
    BY <2>6, TerminateFamily
  <2>7. CASE \/ \E f \in Forms : Fork(t, f)
             \/ Join(t) \/ Spoon(t) \/ Knife(t)
             \/ ThreadPause(t) \/ SyncOnEdge(t) \/ ExitSimulation(t) \/ VerifError(t)
             \/ \E limit \in JoinLimits \cup {0} : ThreadJoin(t, limit)
    BY <1>1, <2>7, ProgramStays
  <2>. QED BY <1>5, <2>1, <2>2, <2>3, <2>4, <2>5, <2>6, <2>7 DEF Step, Blocks
<1>. QED BY <1>2, <1>3, <1>4, <1>5 DEF Next, SimulationOver

(* The termination tree holds the families at all times *)
THEOREM FamiliesAgree == ASSUME JoinLimits = {} PROVE Spec => [](IInv /\ FamilyInv)
<1>1. Spec => []IInv
  BY Inductive
<1>. QED BY <1>1, FamilyInit, FamilyStep, PTL DEF Spec

(* The termination parent of a thread that runs is its nearest ancestor     *)
(* that has not exited: exit_term_link, exec and terminate agree.           *)
THEOREM TreeIsFamily == ASSUME JoinLimits = {} PROVE Spec => []TermTreeIsFamily
<1>1. IInv /\ FamilyInv => TermTreeIsFamily
  <2> SUFFICES ASSUME IInv, FamilyInv PROVE TermTreeIsFamily
    OBVIOUS
  <2>1. TreeInv /\ TermTypes /\ HistoryTypes /\ MainStays /\ LinkInv /\ NearInv
    BY DEF IInv, KinInv, TypeOK, FamilyInv
  <2>2. ASSUME NEW t \in Thread, Alive(t), ~terminated[t], NEW a \in Thread, IsNearest(a, t)
        PROVE  term_parent[t] = a /\ t \in term_child[a]
    <3> DEFINE q == term_parent[t]
    <3>1. a \in Ancestors(t) /\ ~Gone(a)
          /\ \A b \in Ancestors(t) : Gone(b) \/ b = a \/ b \in Ancestors(a)
      BY <2>2 DEF IsNearest
    <3>2. t # Main
      BY <2>1, <3>1, MainHasNoAncestor
    <3>3. InTree(t)
      BY <2>1, <2>2, <3>2 DEF LinkInv, IsCutOff
    <3>4. q \in Thread /\ q \in Ancestors(t)
      BY <2>1, <3>3 DEF InTree, TermTypes, Link, TreeInv
    <3>5. a = q \/ a \in Ancestors(q)
      BY <2>1, <2>2, <3>1, <3>3 DEF InTree, NearInv
    <3>6. CASE a \in Ancestors(q)
      <4>1. q # Main /\ ~Gone(q)
        BY <2>1, <3>3, <3>6, MainHasNoAncestor DEF InTree, Alive, Gone
      <4>2. q = a \/ q \in Ancestors(a)
        BY <3>1, <3>4, <4>1
      <4>3. q \in Ancestors(q)
        BY <2>1, <3>4, <3>6, <4>2, AncestorsTrans
      <4>. QED BY <2>1, <3>4, <4>3 DEF TreeInv
    <3>. QED BY <3>3, <3>5, <3>6 DEF InTree
  <2>. QED BY <2>1, <2>2 DEF TermTreeIsFamily, TreeInv
<1>. QED BY <1>1, FamiliesAgree, PTL

(* Nothing that can still run points to a thread that v_top_loop has freed. *)
THEOREM NeverDangling == ASSUME JoinLimits = {} PROVE Spec => []NoDanglingThread
<1>1. IInv /\ FamilyInv => NoDanglingThread
  <2> SUFFICES ASSUME IInv, FamilyInv, ~end_of_simulation, NEW t \in Thread, Alive(t)
               PROVE  /\ term_parent[t] # None => queue[term_parent[t]] # "freed"
                      /\ \A c \in term_child[t] : queue[c] # "freed"
                      /\ ~terminated[t] /\ parent[t] # None => queue[parent[t]] # "freed"
    BY DEF NoDanglingThread
  <2>1. TreeInv /\ BlockInv /\ MainStays /\ LinkInv /\ OnePlace /\ BlockTypes
    BY DEF IInv, KinInv, TypeOK, FamilyInv
  <2>2. term_parent[t] # None => queue[term_parent[t]] # "freed"
    <3> SUFFICES ASSUME term_parent[t] # None PROVE queue[term_parent[t]] # "freed"
      OBVIOUS
    <3>1. InTree(t)
      BY <2>1 DEF LinkInv, IsCutOff, TreeInv
    <3>. QED BY <2>1, <3>1 DEF InTree, Alive, MainStays, Gone
  <2>3. \A c \in term_child[t] : queue[c] # "freed"
    BY <2>1 DEF TreeInv, Alive, Gone
  <2>4. ~terminated[t] /\ parent[t] # None => queue[parent[t]] # "freed"
    <3> SUFFICES ASSUME Reports(t) PROVE queue[parent[t]] # "freed"
      BY DEF Reports
    <3>1. parent[t] \in Thread /\ (InBlock(parent[t]) \/ Forking(parent[t]))
      BY <2>1 DEF BlockInv, Reports, BlockTypes, Link
    <3>. QED BY <2>1, <3>1 DEF InBlock, Forking, OnePlace
  <2>. QED BY <2>2, <2>3, <2>4
<1>. QED BY <1>1, FamiliesAgree, PTL

(* terminate takes all descendants of the thread that are alive, and nobody *)
(* else.                                                                    *)
THEOREM TerminateExactly == ASSUME JoinLimits = {} PROVE Spec => TerminateIsExact
<1> DEFINE Exact == \A t \in Thread : Terminate(t) =>
                      \A c \in Thread : Alive(c) =>
                        (terminated'[c] <=> terminated[c] \/ t \in Ancestors(c))
<1>1. IInv /\ FamilyInv => Exact
  <2> SUFFICES ASSUME IInv, FamilyInv, NEW t \in Thread, Terminate(t),
                      NEW c \in Thread, Alive(c)
               PROVE  terminated'[c] <=> terminated[c] \/ t \in Ancestors(c)
    OBVIOUS
  <2>1. Runs(t) /\ (terminated'[c] <=> terminated[c] \/ c \in TermSubtree(t))
    BY DEF Terminate
  <2>2. c \in TermSubtree(t) => t \in Ancestors(c)
    BY <2>1, TerminateReaches
  <2>3. ~Gone(t)
    BY <2>1 DEF Runs, Executes, IInv, OnePlace, Gone
  <2>4. t \in Ancestors(c) => terminated[c] \/ c \in TermSubtree(t)
    BY <2>3, DescendantsReached DEF FamilyInv, IsCutOff
  <2>. QED BY <2>1, <2>2, <2>4
<1>2. IInv /\ FamilyInv => [Exact]_vars
  BY <1>1
<1>. QED BY <1>2, FamiliesAgree, PTL DEF TerminateIsExact

(* Who comes out of thread_join() has no descendant left that could run.    *)
THEOREM ThreadJoinIsComplete == ASSUME JoinLimits = {} PROVE Spec => ThreadJoinComplete
<1> DEFINE Complete ==
      \A p \in Thread : at[p] = "thread_join" /\ at'[p] = "code" /\ ~expired[p] =>
        \A c \in Thread : p \in Ancestors(c) => Gone(c) \/ terminated[c]
<1>1. IInv /\ FamilyInv /\ [Next]_vars => Complete
  <2> SUFFICES ASSUME IInv, FamilyInv, [Next]_vars,
                      NEW p \in Thread, at[p] = "thread_join", at'[p] = "code"
               PROVE  \A c \in Thread : p \in Ancestors(c) => Gone(c) \/ terminated[c]
    OBVIOUS
  <2>1. Joined(p)
    BY GoesOnAlone DEF Joined
  <2>. QED BY <2>1 DEF FamilyInv, JoinedInv
<1>2. IInv /\ FamilyInv /\ [Next]_vars => [Complete]_vars
  BY <1>1
<1>. QED BY <1>2, FamiliesAgree, PTL DEF Spec, ThreadJoinComplete
-----------------------------------------------------------------------------
(***************************************************************************)
(* What a block returns, and when it ends                                  *)
(***************************************************************************)

(* The steps that leave forked, form and value alone, and wake nobody in a  *)
(* block; threads may exit, or be terminated                                *)
ResultStays ==
  /\ UNCHANGED <<forked, form, value>>
  /\ \A t \in Thread :
       /\ Gone(t) => Gone(t)'
       /\ terminated[t] => terminated'[t]
       /\ queue'[t] = "unallocated" => queue[t] = "unallocated"
       /\ InBlock(t)' => InBlock(t) /\ at'[t] = at[t] /\ child'[t] = child[t]
       /\ Woken(t)' => Woken(t) /\ at'[t] = at[t]
       /\ Forking(t)' => Forking(t) /\ forking' = forking
       /\ InBlock(t)' \/ Woken(t)' \/ Forking(t)' => acc'[t] = acc[t]

LEMMA ResultFrame ==
  ASSUME HistoryTypes, ResultInv, ResultStays PROVE ResultInv'
<1>1. \A p \in Thread : forked[p] \subseteq Thread
  BY DEF HistoryTypes
<1>2. ForkedInv'
  BY <1>1 DEF ResultInv, ForkedInv, ResultStays, AllOf
<1>3. PendingInv'
  <2> SUFFICES ASSUME NEW p \in Thread, InBlock(p)', ~terminated'[p]
               PROVE  (/\ child[p] \subseteq forked[p]
                       /\ at[p] = "join" =>
                            /\ \A c \in forked[p] \ child[p] : Gone(c)
                            /\ \A f \in {"p_and", "p_or"} : AllOf(p, f) => Undecided(p, f))'
    BY DEF PendingInv
  <2>1. /\ InBlock(p) /\ ~terminated[p]
        /\ UNCHANGED <<forked, form, value, at[p], child[p], acc[p]>>
    BY DEF ResultStays
  <2>2. /\ child[p] \subseteq forked[p]
        /\ at[p] = "join" =>
             /\ \A c \in forked[p] \ child[p] : Gone(c)
             /\ \A f \in {"p_and", "p_or"} : AllOf(p, f) => Undecided(p, f)
    BY <2>1 DEF ResultInv, PendingInv
  <2>3. \A c \in forked[p] : Gone(c) => Gone(c)'
    BY <1>1 DEF ResultStays
  <2>. QED BY <2>1, <2>2, <2>3 DEF AllOf, Undecided
<1>4. WokenInv'
  <2> SUFFICES ASSUME NEW p \in Thread, Woken(p)'
               PROVE  (/\ \E c \in forked[p] : Gone(c)
                       /\ at[p] = "join" =>
                            /\ AllOf(p, "fork") => \A c \in forked[p] : Gone(c)
                            /\ \A f \in {"p_and", "p_or"} : AllOf(p, f) => Decided(p, f))'
    BY DEF WokenInv
  <2>1. Woken(p) /\ UNCHANGED <<forked, form, value, at[p], acc[p]>>
    BY DEF ResultStays
  <2>2. /\ \E c \in forked[p] : Gone(c)
        /\ at[p] = "join" =>
             /\ AllOf(p, "fork") => \A c \in forked[p] : Gone(c)
             /\ \A f \in {"p_and", "p_or"} : AllOf(p, f) => Decided(p, f)
    BY <2>1 DEF ResultInv, WokenInv
  <2>3. \A c \in forked[p] : (Gone(c) => Gone(c)') /\ (terminated[c] => terminated'[c])
    BY <1>1 DEF ResultStays
  <2>. QED BY <2>1, <2>2, <2>3 DEF AllOf, Decided
<1>. QED BY <1>2, <1>3, <1>4 DEF ResultInv
-----------------------------------------------------------------------------
LEMMA SchedulerKeepsBlocks == ASSUME IInv, Scheduler PROVE ResultStays
<1>1. RunTypes /\ OnePlace /\ NoTimers /\ OneProgram
  BY DEF IInv, KinInv, TypeOK
<1>2. CASE Dispatch
  <2> DEFINE t == Head(ready_queue)
  <2>1. /\ t \in Thread /\ queue[t] = "ready" /\ forking' = "no"
        /\ queue' = [queue EXCEPT ![t] = "none"]
    BY <1>1, <1>2, NoneAssumption DEF Dispatch, RunTypes, OnePlace, OneProgram, Range, blockVars
  <2> HIDE DEF t
  <2>. QED BY <1>1, <1>2, <2>1 DEF Dispatch, ResultStays, Alive, Gone, Woken, InBlock, Forking,
              RunTypes, blockVars, termVars, history
<1>3. CASE EndTimeSlot
  BY <1>1, <1>3 DEF EndTimeSlot, ResultStays, Alive, Gone, Woken, InBlock, Forking, RunTypes,
     blockVars, termVars, history
<1>4. ASSUME NEW posedge \in BOOLEAN, StartTimeSlot(posedge) PROVE ResultStays
  <2>1. UNCHANGED <<queue, at, thread, terminated, blockVars, forked, value>>
    BY <1>1, <1>4 DEF StartTimeSlot, NoTimers
  <2>. QED BY <2>1 DEF ResultStays, Alive, Gone, Woken, InBlock, Forking, blockVars
<1>5. ASSUME NEW t \in Thread, WakeFromEdge(t) PROVE ResultStays
  <2>1. queue[t] = "port" /\ at[t] = "port"
    BY <1>1, <1>5 DEF WakeFromEdge, OnePlace
  <2>2. Range(<<t>>) = {t}
    BY SingleOnce
  <2>3. queue' = [x \in Thread |-> IF x = t THEN "ready" ELSE queue[x]]
    BY <1>5, <2>2 DEF WakeFromEdge, Release
  <2>. QED BY <1>1, <1>5, <2>1, <2>3 DEF WakeFromEdge, ResultStays, Alive, Gone, Woken, InBlock,
              Forking, blockVars, termVars, history
<1>. QED BY <1>2, <1>3, <1>4, <1>5 DEF Scheduler

(* t, in its program or resumed, does nothing to a block of another thread *)
LEMMA ThreadKeepsBlocks ==
  ASSUME IInv, NEW t \in Thread, thread = t,
         UNCHANGED <<forked, form, value>>, forking' = "no",
         \/ at' = at /\ queue' = queue
         \/ at' = [at EXCEPT ![t] = "code"] /\ queue' = queue
         \/ at' = [at EXCEPT ![t] = "exited"] /\ queue' = [queue EXCEPT ![t] = "zombie"]
         \/ \E q \in {"ready", "port", "sleep"}, p \in {"pause", "port", "thread_join"} :
              Suspend(t, q, p),
         \A x \in Thread : terminated[x] => terminated'[x],
         \A x \in Thread \ {t} : child'[x] = child[x] /\ acc'[x] = acc[x],
         at'[t] \in {"join", "spoon"} => acc'[t] = acc[t]
  PROVE  ResultStays
<1>1. queue[t] = "none" /\ RunTypes
  BY DEF IInv, OnePlace, TypeOK
<1>2. \A x \in Thread \ {t} : UNCHANGED <<queue[x], at[x]>>
  BY <1>1 DEF Suspend, RunTypes
<1>3. ASSUME NEW x \in Thread \ {t}
      PROVE  /\ Gone(x) => Gone(x)'
             /\ queue'[x] = "unallocated" => queue[x] = "unallocated"
             /\ InBlock(x)' => InBlock(x) /\ at'[x] = at[x] /\ child'[x] = child[x]
             /\ Woken(x)' => Woken(x) /\ at'[x] = at[x]
  BY <1>2 DEF Gone, Alive, InBlock, Woken
<1>4. /\ ~Gone(t) /\ queue'[t] # "unallocated" /\ ~InBlock(t)'
      /\ Woken(t)' => Woken(t) /\ at'[t] = at[t] /\ acc'[t] = acc[t]
  BY <1>1 DEF Suspend, RunTypes, Gone, Alive, InBlock, Woken
<1>. QED BY <1>3, <1>4 DEF ResultStays, Forking

LEMMA ProgramKeepsBlocks ==
  ASSUME IInv, NEW t \in Thread,
         \/ Knife(t) \/ Terminate(t)
         \/ ThreadPause(t) \/ SyncOnEdge(t) \/ ExitSimulation(t) \/ VerifError(t)
         \/ \E limit \in JoinLimits \cup {0} : ThreadJoin(t, limit)
         \/ Begin(t) /\ ~terminated[t]
         \/ Begin(t) /\ SelfThreadControl
         \/ Resume(t) /\ ~terminated[t]
  PROVE  ResultStays
<1>1. RunTypes /\ BlockTypes /\ OneProgram
  BY DEF IInv, KinInv, TypeOK
<1>2. CASE Knife(t)
  <2>1. \A x \in Thread \ {t} : child'[x] = child[x]
    BY <1>1, <1>2 DEF Knife, BlockTypes
  <2>. QED BY <1>1, <1>2, <2>1, ThreadKeepsBlocks
           DEF Knife, EndsBlock, Executes, RunTypes, runVars, termVars, history
<1>3. CASE Terminate(t)
  BY <1>1, <1>3, ThreadKeepsBlocks DEF Terminate, Runs, Executes, runVars, blockVars, history
<1>4. CASE ThreadPause(t) \/ SyncOnEdge(t) \/ ExitSimulation(t) \/ VerifError(t)
  BY <1>1, <1>4, ThreadKeepsBlocks
  DEF ThreadPause, SyncOnEdge, ExitSimulation, VerifError, StopLoop, Runs, Executes,
      blockVars, termVars, history
<1>5. CASE \E limit \in JoinLimits \cup {0} : ThreadJoin(t, limit)
  BY <1>1, <1>5, ThreadKeepsBlocks DEF ThreadJoin, Runs, Executes, blockVars
<1>6. CASE Begin(t) /\ (~terminated[t] \/ SelfThreadControl)
  <2>1. forking = "no"
    BY <1>1, <1>6 DEF OneProgram, Begin
  <2>. QED BY <1>1, <1>6, <2>1, ThreadKeepsBlocks DEF Begin, Stopped, blockVars, termVars, history
<1>7. CASE Resume(t) /\ ~terminated[t]
  <2>1. forking = "no" /\ at[t] # "code"
    BY <1>1, <1>7 DEF OneProgram, Resume, ResumePoints
  <2>2. at' = [at EXCEPT ![t] = "code"] /\ at'[t] = "code"
    BY <1>1, <1>7 DEF Resume, Stopped, RunTypes
  <2>3. \A x \in Thread \ {t} : acc'[x] = acc[x]
    BY <1>1, <1>7 DEF Resume, Stopped, BlockTypes
  <2>. QED BY <1>7, <2>1, <2>2, <2>3, ThreadKeepsBlocks DEF Resume, Stopped, termVars, history
<1>. QED BY <1>2, <1>3, <1>4, <1>5, <1>6, <1>7

LEMMA MainReturnsKeepsBlocks == ASSUME IInv, MainReturns PROVE ResultStays
  BY ThreadKeepsBlocks, MainAssumption
  DEF MainReturns, Runs, Executes, blockVars, termVars, history, IInv, TypeOK, RunTypes

(* The end of a thread, whoever is woken by it *)
LEMMA LeavesResults ==
  ASSUME IInv, NEW t \in Thread, thread = t, forking = "no", NEW woken \in Seq(Thread),
         \A x \in Range(woken) : InBlock(x), IsInjective(woken), Leaves(t, woken)
  PROVE  \A x \in Thread :
           /\ Gone(x)' <=> Gone(x) \/ x = t
           /\ queue'[x] = "unallocated" => queue[x] = "unallocated"
           /\ terminated[x] => terminated'[x]
           /\ ~Forking(x)'
           /\ InBlock(x)' <=> InBlock(x) /\ x \notin Range(woken)
           /\ InBlock(x)' \/ Woken(x)' => x # t /\ at'[x] = at[x]
           /\ Woken(x)' => Woken(x) \/ x \in Range(woken)
<1>1. /\ \A x \in Thread : /\ Gone(x)' <=> Gone(x) \/ x = t
                           /\ Alive(x)' <=> Alive(x) /\ x # t
                           /\ InBlock(x)' <=> InBlock(x) /\ x \notin Range(woken)
                           /\ ~Forking(x)'
                           /\ x # t => at'[x] = at[x]
      /\ TerminatedIsStopped'
  BY LeavesSafe
<1>2. /\ queue' = [x \in Thread |->
                     IF x = t THEN "zombie"
                     ELSE IF x \in Range(woken) \cup Range(WokenJoiner(t)) THEN "ready"
                     ELSE queue[x]]
      /\ \A x \in Thread : terminated[x] => terminated'[x]
  BY LeavesQueues DEF Leaves
<1>3. queue[t] = "none" /\ ~InBlock(t)
  BY DEF IInv, OnePlace, InBlock
<1>4. ASSUME NEW x \in Thread, Woken(x)' PROVE x # t /\ (Woken(x) \/ x \in Range(woken))
  <2>1. x # t /\ Alive(x) /\ at'[x] = at[x] /\ at[x] \in {"join", "spoon"} /\ ~terminated[x]
    BY <1>1, <1>2, <1>4 DEF Woken
  <2>2. x \notin Range(WokenJoiner(t))
    BY <2>1, JoinerSleeps
  <2>3. queue'[x] # "sleep"
    BY <1>4 DEF Woken
  <2>. QED BY <1>2, <2>1, <2>2, <2>3 DEF Woken
<1>5. \A x \in Thread : InBlock(x)' => x # t
  BY <1>1, <1>3
<1>. QED BY <1>1, <1>2, <1>4, <1>5

LEMMA ExitTerminatedKeepsBlocks ==
  ASSUME IInv, NEW t \in Thread, thread = t, at[t] # "code", terminated[t],
         ExitTerminated(t)
  PROVE  ResultStays
<1>1. forking = "no" /\ Leaves(t, <<>>)
  BY ExitTerminatedLeaves
<1>2. UNCHANGED <<forked, form, value, acc, child>>
  BY DEF ExitTerminated, blockVars, history
<1>3. \A x \in Thread :
        /\ Gone(x)' <=> Gone(x) \/ x = t
        /\ queue'[x] = "unallocated" => queue[x] = "unallocated"
        /\ terminated[x] => terminated'[x]
        /\ ~Forking(x)'
        /\ InBlock(x)' => InBlock(x)
        /\ InBlock(x)' \/ Woken(x)' => x # t /\ at'[x] = at[x]
        /\ Woken(x)' => Woken(x)
  BY <1>1, EmptyOnce, LeavesResults
<1>. QED BY <1>2, <1>3 DEF ResultStays
-----------------------------------------------------------------------------
(* The steps of a block *)

LEMMA ForkResult ==
  ASSUME IInv, ResultInv, NEW t \in Thread, NEW f \in Forms, Fork(t, f)
  PROVE  ResultInv'
<1>1. /\ queue[t] = "none" /\ at[t] = "code" /\ forking' = f
      /\ forked' = [forked EXCEPT ![t] = {}]
      /\ acc' = [acc EXCEPT ![t] = IF f = "fork" THEN acc[t] ELSE IF f = "p_and" THEN 1 ELSE 0]
      /\ UNCHANGED <<thread, queue, at, form, value, child, terminated>>
  BY DEF Fork, Runs, Executes, IInv, OnePlace, runVars, termVars
<1>2. BlockTypes /\ HistoryTypes /\ ForkedInv /\ PendingInv /\ WokenInv
  BY DEF IInv, TypeOK, ResultInv
<1>3. thread = t
  BY DEF Fork, Runs, Executes
<1>4. \A x \in Thread : /\ InBlock(x)' <=> InBlock(x)
                        /\ Woken(x)' <=> Woken(x)
                        /\ Forking(x)' <=> x = t
                        /\ Gone(x)' <=> Gone(x)
                        /\ InBlock(x) \/ Woken(x) => x # t
  BY <1>1, <1>3 DEF InBlock, Woken, Forking, Alive, Gone, Forms
<1>5. \A x \in Thread \ {t} : forked'[x] = forked[x] /\ acc'[x] = acc[x]
  BY <1>1, <1>2 DEF BlockTypes, HistoryTypes
<1>6. forked'[t] = {} /\ (f # "fork" => acc'[t] # Decisive(f))
  BY <1>1, <1>2 DEF BlockTypes, HistoryTypes, Decisive, Forms
<1>7. ForkedInv'
  BY <1>1, <1>2, <1>4, <1>5, <1>6 DEF ForkedInv, AllOf, Decisive
<1>8. PendingInv'
  BY <1>1, <1>2, <1>4, <1>5 DEF PendingInv, AllOf, Undecided, Decisive, Gone
<1>9. WokenInv'
  BY <1>1, <1>2, <1>4, <1>5 DEF WokenInv, AllOf, Decided, Decisive, Gone
<1>. QED BY <1>7, <1>8, <1>9 DEF ResultInv

LEMMA ExecResult ==
  ASSUME IInv, ResultInv, NEW t \in Thread, NEW c \in Thread, Exec(t, c)
  PROVE  ResultInv'
<1>1. /\ queue[t] = "none" /\ at[t] = "code" /\ thread = t /\ t # c
      /\ queue[c] = "unallocated" /\ at[c] = "start" /\ Forking(t)
      /\ queue' = [queue EXCEPT ![c] = "ready"]
      /\ form' = [form EXCEPT ![c] = forking]
      /\ forked' = [forked EXCEPT ![t] = @ \cup {c}]
      /\ child' = [child EXCEPT ![t] = @ \cup {c}]
      /\ UNCHANGED <<thread, at, forking, value, acc, terminated>>
  BY DEF Exec, Executes, Forms, Forking, IInv, KinInv, OnePlace, FreshUnrelated, Unrelated
<1>2. RunTypes /\ BlockTypes /\ HistoryTypes /\ ForkedInv /\ PendingInv /\ WokenInv
  BY DEF IInv, TypeOK, ResultInv
<1>3. \A x \in Thread : /\ InBlock(x)' <=> InBlock(x)
                        /\ Woken(x)' <=> Woken(x)
                        /\ Forking(x)' <=> Forking(x)
                        /\ Forking(x) => x = t
                        /\ Gone(x)' <=> Gone(x)
                        /\ InBlock(x) \/ Woken(x) => x # t
  BY <1>1, <1>2 DEF InBlock, Woken, Forking, Alive, Gone, RunTypes
<1>4. \A x \in Thread \ {t} : forked'[x] = forked[x] /\ child'[x] = child[x]
  BY <1>1, <1>2 DEF BlockTypes, HistoryTypes
<1>5. \A x \in Thread : \A y \in forked[x] : y # c /\ form'[y] = form[y]
  BY <1>1, <1>2 DEF ForkedInv, BlockTypes, HistoryTypes
<1>6. forked'[t] = forked[t] \cup {c} /\ form'[c] = forking
  BY <1>1, <1>2 DEF BlockTypes, HistoryTypes
<1>7. ForkedInv'
  <2>1. \A x \in Thread : ~Gone(x)' => value'[x] = None
    BY <1>1, <1>2, <1>3 DEF ForkedInv
  <2>2. \A x \in Thread : \A y \in forked'[x] : queue'[y] # "unallocated"
    BY <1>1, <1>2, <1>4, <1>6 DEF ForkedInv, RunTypes, HistoryTypes
  <2>3. AllOf(t, forking)'
    BY <1>1, <1>2, <1>5, <1>6 DEF ForkedInv, AllOf
  <2>. QED BY <1>1, <1>2, <1>3, <2>1, <2>2, <2>3 DEF ForkedInv, Decisive
<1>8. \A x \in Thread \ {t} : \A f : AllOf(x, f)' <=> AllOf(x, f)
  BY <1>4, <1>5 DEF AllOf
<1>9. \A x \in Thread : forked[x] \subseteq Thread
  BY <1>2 DEF HistoryTypes
<1>10. PendingInv'
  <2> SUFFICES ASSUME NEW p \in Thread, InBlock(p)', ~terminated'[p]
               PROVE  (/\ child[p] \subseteq forked[p]
                       /\ at[p] = "join" =>
                            /\ \A x \in forked[p] \ child[p] : Gone(x)
                            /\ \A f \in {"p_and", "p_or"} : AllOf(p, f) => Undecided(p, f))'
    BY DEF PendingInv
  <2>1. InBlock(p) /\ ~terminated[p] /\ p # t
    BY <1>1, <1>3
  <2>. QED BY <1>1, <1>2, <1>3, <1>4, <1>8, <1>9, <2>1 DEF PendingInv, Undecided, Decisive
<1>11. WokenInv'
  <2> SUFFICES ASSUME NEW p \in Thread, Woken(p)'
               PROVE  (/\ \E x \in forked[p] : Gone(x)
                       /\ at[p] = "join" =>
                            /\ AllOf(p, "fork") => \A x \in forked[p] : Gone(x)
                            /\ \A f \in {"p_and", "p_or"} : AllOf(p, f) => Decided(p, f))'
    BY DEF WokenInv
  <2>1. Woken(p) /\ p # t
    BY <1>3
  <2>. QED BY <1>1, <1>2, <1>3, <1>4, <1>8, <1>9, <2>1 DEF WokenInv, Decided, Decisive
<1>. QED BY <1>7, <1>10, <1>11 DEF ResultInv

LEMMA WaitResult ==
  ASSUME IInv, ResultInv, NEW t \in Thread, Join(t) \/ Spoon(t)
  PROVE  ResultInv'
<1>1. /\ queue[t] = "none" /\ at[t] = "code" /\ thread = t /\ Forking(t) /\ forked[t] # {}
      /\ queue' = [queue EXCEPT ![t] = "sleep"]
      /\ \E point \in {"join", "spoon"} : at' = [at EXCEPT ![t] = point]
      /\ thread' = None /\ forking' = "no"
      /\ UNCHANGED <<form, forked, child, value, acc, terminated>>
  BY DEF Join, Spoon, EndsBlock, WaitForChildren, Suspend, Executes, Forms, Forking, IInv,
     OnePlace, termVars
<1>2. /\ RunTypes /\ BlockTypes /\ HistoryTypes /\ BlockInv
      /\ ForkedInv /\ PendingInv /\ WokenInv
  BY DEF IInv, KinInv, TypeOK, ResultInv
<1>3. \A x \in Thread : /\ InBlock(x)' <=> InBlock(x) \/ x = t
                        /\ Woken(x)' <=> Woken(x)
                        /\ ~Forking(x)'
                        /\ Gone(x)' <=> Gone(x)
                        /\ x # t => at'[x] = at[x]
                        /\ Woken(x) => x # t
                        /\ queue'[x] = "unallocated" <=> queue[x] = "unallocated"
  BY <1>1, <1>2 DEF InBlock, Woken, Forking, Alive, Gone, RunTypes
<1>4. \A x \in Thread : forked[x] \subseteq Thread
  BY <1>2 DEF HistoryTypes
<1>5. ForkedInv'
  BY <1>1, <1>2, <1>3, <1>4 DEF ForkedInv
<1>6. forked[t] = child[t] /\ \A c \in forked[t] : value[c] = None
  <2>1. forked[t] = child[t] /\ \A c \in child[t] : Alive(c)
    BY <1>1, <1>2 DEF BlockInv, Reports
  <2>. QED BY <1>2, <1>4, <2>1 DEF ForkedInv, Alive, Gone
<1>7. \A f \in {"p_and", "p_or"} : AllOf(t, f) => Undecided(t, f)
  <2> SUFFICES ASSUME NEW f \in {"p_and", "p_or"}, AllOf(t, f) PROVE Undecided(t, f)
    OBVIOUS
  <2>1. forking = f
    BY <1>1, <1>2 DEF ForkedInv, AllOf
  <2>2. acc[t] # Decisive(f)
    BY <1>1, <1>2, <2>1 DEF ForkedInv
  <2>. QED BY <1>6, <2>2, ValueAssumption DEF Undecided, Decisive
<1>8. PendingInv'
  <2> SUFFICES ASSUME NEW p \in Thread, InBlock(p)', ~terminated'[p]
               PROVE  (/\ child[p] \subseteq forked[p]
                       /\ at[p] = "join" =>
                            /\ \A x \in forked[p] \ child[p] : Gone(x)
                            /\ \A f \in {"p_and", "p_or"} : AllOf(p, f) => Undecided(p, f))'
    BY DEF PendingInv
  <2>1. CASE p = t
    BY <1>1, <1>6, <1>7, <2>1 DEF AllOf, Undecided, Decisive
  <2>2. CASE p # t
    BY <1>1, <1>2, <1>3, <1>4, <2>2 DEF PendingInv, AllOf, Undecided, Decisive
  <2>. QED BY <2>1, <2>2
<1>9. WokenInv'
  BY <1>1, <1>2, <1>3, <1>4 DEF WokenInv, AllOf, Decided, Decisive
<1>. QED BY <1>5, <1>8, <1>9 DEF ResultInv

(* The exit instructions: w is the value t exits with, or None; a value     *)
(* decides a block exactly if it is the decisive one of its form            *)
LEMMA ExitInstructionResult ==
  ASSUME IInv, ResultInv, NEW t \in Thread, Runs(t), NEW decided \in BOOLEAN,
         ExitInstruction(t, decided),
         NEW cut \in SUBSET CutOff(t, decided), decided => cut = CutOff(t, decided),
         \A c \in Thread : terminated'[c] <=> terminated[c] \/ c \in cut,
         NEW w, value' = [value EXCEPT ![t] = w],
         \A x \in Thread : x # parent[t] => acc'[x] = acc[x],
         form[t] = "fork" => ~decided,
         \A f \in {"p_and", "p_or"} :
           parent[t] # None /\ form[t] = f /\ acc[parent[t]] # Decisive(f) =>
             /\ decided <=> w = Decisive(f)
             /\ acc'[parent[t]] = Decisive(f) <=> w = Decisive(f)
  PROVE  ResultInv'
<1> DEFINE p == parent[t]
           last == LastOut(t, decided)
           woken == WokenParent(t, decided)
<1>1. /\ BlockTypes /\ TermTypes /\ HistoryTypes /\ BlockInv
      /\ ForkedInv /\ PendingInv /\ WokenInv
      /\ thread = t /\ forking = "no" /\ ~Gone(t) /\ ~terminated[t]
  BY DEF IInv, KinInv, TypeOK, ResultInv, Runs, Executes, OnePlace, Gone, TerminatedIsStopped
<1>2. /\ woken \in Seq(Thread) /\ IsInjective(woken)
      /\ Range(woken) = IF last THEN {p} ELSE {}
      /\ \A x \in Range(woken) : InBlock(x)
      /\ Leaves(t, woken)
  BY ExitInstructionLeaves
<1>3. \A x \in Thread :
        /\ Gone(x)' <=> Gone(x) \/ x = t
        /\ queue'[x] = "unallocated" => queue[x] = "unallocated"
        /\ terminated[x] => terminated'[x]
        /\ ~Forking(x)'
        /\ InBlock(x)' <=> InBlock(x) /\ x \notin Range(woken)
        /\ InBlock(x)' \/ Woken(x)' => x # t /\ at'[x] = at[x]
        /\ Woken(x)' => Woken(x) \/ x \in Range(woken)
  BY <1>1, <1>2, LeavesResults
<1>4. p # None => /\ p \in Thread /\ p # t /\ InBlock(p) /\ Counted(p) /\ t \in child[p]
  BY ParentWaits
<1>5. p # None /\ ~last => at[p] = "join" /\ ~decided
  BY SiblingLeft
<1>6. /\ last => p # None /\ CutOff(t, decided) = child[p] \ {t}
      /\ child' = IF p = None THEN child
                  ELSE [child EXCEPT ![p] = IF last THEN {} ELSE @ \ {t}]
      /\ forked' = forked /\ form' = form
  BY DEF ExitInstruction, LeaveBlock, CutOff, LastOut
<1>7. last /\ ~decided /\ at[p] = "join" => child[p] = {t}
  <2> SUFFICES ASSUME last, ~decided, at[p] = "join" PROVE child[p] = {t}
    OBVIOUS
  <2>1. Cardinality(child[p]) = 1 /\ p \in Thread /\ t \in child[p]
    BY <1>4, <1>6 DEF LastOut, Counted
  <2>2. IsFiniteSet(child[p])
    BY <1>1, <2>1, ThreadAssumption, FS_Subset DEF BlockTypes
  <2>3. PICK x : child[p] = {x}
    BY <2>1, <2>2, FS_Singleton
  <2>. QED BY <2>1, <2>3
<1>8. \A x \in Thread : forked[x] \subseteq Thread /\ child[x] \subseteq Thread
  BY <1>1 DEF HistoryTypes, BlockTypes
<1>9. value'[t] = w /\ \A x \in Thread \ {t} : value'[x] = value[x]
  BY <1>1 DEF HistoryTypes
<1>10. last /\ decided => \A x \in child[p] : x = t \/ terminated'[x]
  BY <1>4, <1>6, <1>8
<1> HIDE DEF p, last, woken
<1>11. ForkedInv'
  BY <1>1, <1>3, <1>6, <1>8, <1>9 DEF ForkedInv
<1>12. ASSUME NEW r \in Thread, InBlock(r), ~terminated[r], r # p, at[r] = "join"
       PROVE  t \notin forked[r]
  <2>1. Counted(r)
    BY <1>1, <1>12 DEF BlockInv, Abandoned
  <2>2. t \notin child[r]
    BY <1>12, <2>1 DEF Counted, p
  <2>. QED BY <1>1, <1>12, <2>2 DEF PendingInv
<1>13. PendingInv'
  <2> SUFFICES ASSUME NEW r \in Thread, InBlock(r)', ~terminated'[r]
               PROVE  (/\ child[r] \subseteq forked[r]
                       /\ at[r] = "join" =>
                            /\ \A x \in forked[r] \ child[r] : Gone(x)
                            /\ \A f \in {"p_and", "p_or"} : AllOf(r, f) => Undecided(r, f))'
    BY DEF PendingInv
  <2>1. /\ InBlock(r) /\ ~terminated[r] /\ at'[r] = at[r] /\ r \notin Range(woken)
        /\ child[r] \subseteq forked[r]
        /\ at[r] = "join" =>
             /\ \A x \in forked[r] \ child[r] : Gone(x)
             /\ \A f \in {"p_and", "p_or"} : AllOf(r, f) => Undecided(r, f)
    BY <1>1, <1>3 DEF PendingInv
  <2>2. CASE r # p
    <3>1. child'[r] = child[r] /\ acc'[r] = acc[r]
      BY <1>1, <1>4, <1>6, <2>2 DEF BlockTypes, p
    <3>2. at[r] = "join" => t \notin forked[r]
      BY <1>12, <2>1, <2>2
    <3>. QED BY <1>3, <1>6, <1>8, <1>9, <2>1, <3>1, <3>2 DEF AllOf, Undecided, Decisive
  <2>3. CASE r = p
    <3>1. ~last /\ p # None /\ at[p] = "join" /\ ~decided /\ t \in child[p]
      BY <1>2, <1>4, <1>5, <2>1, <2>3, NoneAssumption
    <3>2. child'[p] = child[p] \ {t}
      BY <1>1, <1>6, <2>3, <3>1 DEF BlockTypes
    <3>3. \A x \in forked[p] \ child'[p] : Gone(x)'
      BY <1>3, <1>8, <2>1, <2>3, <3>1, <3>2
    <3>4. ASSUME NEW f \in {"p_and", "p_or"}, AllOf(p, f)
          PROVE  acc'[p] # Decisive(f) /\ \A x \in forked[p] : value'[x] # Decisive(f)
      <4>1. form[t] = f /\ Undecided(p, f)
        BY <2>1, <2>3, <3>1, <3>4 DEF AllOf
      <4>2. acc[p] # Decisive(f)
        BY <4>1 DEF Undecided
      <4>3. w # Decisive(f) /\ acc'[p] # Decisive(f)
        BY <3>1, <4>1, <4>2 DEF p
      <4>. QED BY <1>8, <1>9, <2>3, <4>1, <4>3 DEF Undecided
    <3>. QED BY <1>6, <2>1, <2>3, <3>2, <3>3, <3>4 DEF AllOf, Undecided, Decisive
  <2>. QED BY <2>2, <2>3
<1>14. WokenInv'
  <2> SUFFICES ASSUME NEW r \in Thread, Woken(r)'
               PROVE  (/\ \E x \in forked[r] : Gone(x)
                       /\ at[r] = "join" =>
                            /\ AllOf(r, "fork") => \A x \in forked[r] : Gone(x)
                            /\ \A f \in {"p_and", "p_or"} : AllOf(r, f) => Decided(r, f))'
    BY DEF WokenInv
  <2>1. at'[r] = at[r] /\ r # t /\ ~terminated[r]
    BY <1>3 DEF Woken
  <2>2. CASE Woken(r)
    <3>1. r # p
      BY <1>4, <2>2, NoneAssumption DEF Woken, InBlock
    <3>2. acc'[r] = acc[r]
      BY <3>1 DEF p
    <3>3. \A f \in {"p_and", "p_or"} : at[r] = "join" /\ AllOf(r, f) => t \notin forked[r]
      BY <1>1, <2>2 DEF WokenInv, Decided
    <3>. QED BY <1>1, <1>3, <1>6, <1>8, <1>9, <2>1, <2>2, <3>2, <3>3
             DEF WokenInv, AllOf, Decided, Decisive
  <2>3. CASE r \in Range(woken)
    <3>1. last /\ r = p /\ p # None /\ InBlock(p) /\ t \in child[p]
      BY <1>2, <1>4, <1>6, <2>3
    <3>2. /\ child[p] \subseteq forked[p]
          /\ at[p] = "join" =>
               /\ \A x \in forked[p] \ child[p] : Gone(x)
               /\ \A f \in {"p_and", "p_or"} : AllOf(p, f) => Undecided(p, f)
      BY <1>1, <2>1, <3>1 DEF PendingInv
    <3>3. t \in forked[p] /\ Gone(t)'
      BY <1>3, <3>1, <3>2
    <3>4. at[p] = "join" /\ ~decided => \A x \in forked[p] : Gone(x)'
      BY <1>3, <1>7, <1>8, <3>1, <3>2
    <3>5. AllOf(p, "fork") => ~decided
      BY <3>3 DEF AllOf
    <3>6. ASSUME NEW f \in {"p_and", "p_or"}, AllOf(p, f), at[p] = "join"
          PROVE  /\ acc'[p] = Decisive(f) <=> \E x \in forked[p] : value'[x] = Decisive(f)
                 /\ acc'[p] # Decisive(f) => \A x \in forked[p] : Gone(x)'
                 /\ \A x \in forked[p] : Gone(x)' \/ terminated'[x]
      <4>1. form[t] = f /\ Undecided(p, f)
        BY <3>2, <3>3, <3>6 DEF AllOf
      <4>2. acc[p] # Decisive(f) /\ \A x \in forked[p] : value[x] # Decisive(f)
        BY <4>1 DEF Undecided
      <4>3. /\ decided <=> w = Decisive(f)
            /\ acc'[p] = Decisive(f) <=> w = Decisive(f)
        BY <3>1, <4>1, <4>2 DEF p
      <4>4. (\E x \in forked[p] : value'[x] = Decisive(f)) <=> w = Decisive(f)
        BY <1>8, <1>9, <3>1, <3>3, <4>2
      <4>5. decided => \A x \in forked[p] : Gone(x)' \/ terminated'[x]
        BY <1>3, <1>8, <1>10, <3>1, <3>2, <3>6
      <4>. QED BY <3>4, <3>6, <4>3, <4>4, <4>5
    <3>7. at'[p] = at[p]
      BY <2>1, <3>1
    <3>. QED BY <1>6, <3>1, <3>3, <3>4, <3>5, <3>6, <3>7 DEF AllOf, Decided, Decisive
  <2>. QED BY <1>3, <2>2, <2>3
<1>. QED BY <1>11, <1>13, <1>14 DEF ResultInv

LEMMA ExitResult == ASSUME IInv, ResultInv, NEW t \in Thread, Exit(t) PROVE ResultInv'
<1>1. /\ Runs(t) /\ ExitInstruction(t, FALSE) /\ form[t] = "fork"
      /\ UNCHANGED <<terminated, acc, value>>
  BY DEF Exit
<1>2. value' = [value EXCEPT ![t] = value[t]]
  BY <1>1 DEF IInv, TypeOK, HistoryTypes
<1>3. {} \in SUBSET CutOff(t, FALSE)
  OBVIOUS
<1>4. \A c \in Thread : terminated'[c] <=> terminated[c] \/ c \in {}
  BY <1>1
<1>5. \A x \in Thread : x # parent[t] => acc'[x] = acc[x]
  BY <1>1
<1>6. \A f \in {"p_and", "p_or"} : form[t] # f
  BY <1>1
<1>. QED BY <1>1, <1>2, <1>3, <1>4, <1>5, <1>6, ExitInstructionResult

LEMMA ExitWithValueResult ==
  ASSUME IInv, ResultInv, NEW t \in Thread, NEW v \in {0, 1}, ExitWithValue(t, v)
  PROVE  ResultInv'
<1> DEFINE p == parent[t]
           decided == p # None /\ Combined(t, v) = Decisive(form[t])
<1>1. /\ Runs(t) /\ form[t] \in {"p_and", "p_or"}
      /\ acc' = IF p = None THEN acc ELSE [acc EXCEPT ![p] = Combined(t, v)]
      /\ \A c \in Thread : terminated'[c] <=> terminated[c] \/ c \in CutOff(t, decided)
      /\ value' = [value EXCEPT ![t] = v]
      /\ ExitInstruction(t, decided)
  BY DEF ExitWithValue
<1>2. BlockTypes
  BY DEF IInv, TypeOK
<1>3. \A x \in Thread : x # p => acc'[x] = acc[x]
  BY <1>1, <1>2 DEF BlockTypes
<1>4. ASSUME NEW f \in {"p_and", "p_or"}, p # None, form[t] = f, acc[p] # Decisive(f)
      PROVE  /\ decided <=> v = Decisive(f)
             /\ acc'[p] = Decisive(f) <=> v = Decisive(f)
  <2>1. p \in Thread /\ acc[p] \in {0, 1}
    BY <1>2, <1>4 DEF BlockTypes, Link
  <2>2. Combined(t, v) = v
    BY <1>4, <2>1 DEF Combined, Decisive
  <2>3. acc'[p] = v
    BY <1>1, <1>2, <1>4, <2>1, <2>2 DEF BlockTypes
  <2>. QED BY <1>4, <2>2, <2>3
<1>5. decided \in BOOLEAN /\ CutOff(t, decided) \in SUBSET CutOff(t, decided)
  OBVIOUS
<1>6. form[t] = "fork" => ~decided
  BY <1>1
<1> HIDE DEF decided
<1>. QED BY <1>1, <1>3, <1>4, <1>5, <1>6, ExitInstructionResult, ZenonT(30)
-----------------------------------------------------------------------------
LEMMA ResultInit == Init => ResultInv
<1> SUFFICES ASSUME Init PROVE ResultInv
  OBVIOUS
<1>1. \A t \in Thread : ~Forking(t) /\ ~InBlock(t) /\ ~Woken(t)
  BY DEF Init, Forking, InBlock, Woken
<1>. QED BY <1>1 DEF Init, ResultInv, ForkedInv, PendingInv, WokenInv

LEMMA ResultStep == IInv /\ ResultInv /\ [Next]_vars => ResultInv'
<1> SUFFICES ASSUME IInv, ResultInv, [Next]_vars PROVE ResultInv'
  OBVIOUS
<1>1. ResultStays => ResultInv'
  BY ResultFrame DEF IInv, TypeOK
<1>2. CASE UNCHANGED vars
  BY <1>1, <1>2 DEF vars, runVars, blockVars, termVars, history, ResultStays, Alive, Gone,
     InBlock, Woken, Forking
<1>3. CASE Scheduler
  BY <1>1, <1>3, SchedulerKeepsBlocks
<1>4. CASE MainReturns
  BY <1>1, <1>4, MainReturnsKeepsBlocks
<1>5. ASSUME NEW t \in Thread, Step(t) PROVE ResultInv'
  <2>1. CASE Begin(t)
    <3>1. CASE ~terminated[t] \/ SelfThreadControl
      BY <1>1, <2>1, <3>1, ProgramKeepsBlocks
    <3>2. CASE terminated[t] /\ ~SelfThreadControl
      BY <1>1, <2>1, <3>2, ExitTerminatedKeepsBlocks DEF Begin, Stopped
    <3>. QED BY <3>1, <3>2
  <2>2. CASE Resume(t)
    <3>1. CASE ~terminated[t]
      BY <1>1, <2>2, <3>1, ProgramKeepsBlocks
    <3>2. CASE terminated[t]
      BY <1>1, <2>2, <3>2, ExitTerminatedKeepsBlocks DEF Resume, Stopped, ResumePoints
    <3>. QED BY <3>1, <3>2
  <2>3. CASE Blocks(t)
    <3>1. ASSUME NEW f \in Forms, Fork(t, f) PROVE ResultInv'
      BY <3>1, ForkResult
    <3>2. ASSUME NEW c \in Thread, Exec(t, c) PROVE ResultInv'
      BY <3>2, ExecResult
    <3>3. CASE Join(t) \/ Spoon(t)
      BY <3>3, WaitResult
    <3>4. CASE Knife(t)
      BY <1>1, <3>4, ProgramKeepsBlocks
    <3>5. CASE Exit(t)
      BY <3>5, ExitResult
    <3>6. ASSUME NEW v \in {0, 1}, ExitWithValue(t, v) PROVE ResultInv'
      BY <3>6, ExitWithValueResult
    <3>. QED BY <2>3, <3>1, <3>2, <3>3, <3>4, <3>5, <3>6 DEF Blocks
  <2>4. CASE \/ Terminate(t)
             \/ ThreadPause(t) \/ SyncOnEdge(t) \/ ExitSimulation(t) \/ VerifError(t)
             \/ \E limit \in JoinLimits \cup {0} : ThreadJoin(t, limit)
    BY <1>1, <2>4, ProgramKeepsBlocks
  <2>. QED BY <1>5, <2>1, <2>2, <2>3, <2>4 DEF Step
<1>. QED BY <1>2, <1>3, <1>4, <1>5 DEF Next, SimulationOver

(* What the children of a block have returned, and which are left, is at    *)
(* all times what the value register and the sleep of the parent say.       *)
THEOREM ResultsAgree == ASSUME JoinLimits = {} PROVE Spec => [](IInv /\ ResultInv)
<1>1. Spec => []IInv
  BY Inductive
<1>. QED BY <1>1, ResultInit, ResultStep, PTL DEF Spec

(* A join goes on when every child of the block has exited, a spoon when    *)
(* one has: the exit instructions wake the parent neither early nor twice.  *)
THEOREM BlocksEnd == ASSUME JoinLimits = {} PROVE Spec => BlockEnds
<1> DEFINE Ends ==
      \A p \in Thread : at[p] \in {"join", "spoon"} /\ at'[p] = "code" =>
        /\ \E c \in forked[p] : Gone(c)
        /\ (at[p] = "join" /\ \A c \in forked[p] : form[c] = "fork") =>
             \A c \in forked[p] : Gone(c)
<1>1. IInv /\ ResultInv /\ [Next]_vars => Ends
  <2> SUFFICES ASSUME IInv, ResultInv, [Next]_vars,
                      NEW p \in Thread, at[p] \in {"join", "spoon"}, at'[p] = "code"
               PROVE  /\ \E c \in forked[p] : Gone(c)
                      /\ (at[p] = "join" /\ \A c \in forked[p] : form[c] = "fork") =>
                           \A c \in forked[p] : Gone(c)
    OBVIOUS
  <2>1. Woken(p)
    BY GoesOnAlone DEF Woken
  <2>. QED BY <2>1 DEF ResultInv, WokenInv, AllOf
<1>2. IInv /\ ResultInv /\ [Next]_vars => [Ends]_vars
  BY <1>1
<1>. QED BY <1>2, ResultsAgree, PTL DEF Spec, BlockEnds

(* p_and is the conjunction and p_or the disjunction of the operands, in    *)
(* whatever order they exit, and none of them is left running: the short    *)
(* cut of the exit instructions loses no operand and keeps none.            *)
THEOREM ParallelIsExact == ASSUME JoinLimits = {} PROVE Spec => ParallelResult
<1> DEFINE Exact ==
      \A p \in Thread : at[p] = "join" /\ at'[p] = "code" =>
        \A f \in {"p_and", "p_or"} : (\A c \in forked[p] : form[c] = f) =>
          /\ acc[p] = Decisive(f) <=> \E c \in forked[p] : value[c] = Decisive(f)
          /\ acc[p] # Decisive(f) => \A c \in forked[p] : Gone(c)
          /\ \A c \in forked[p] : Gone(c) \/ terminated[c]
<1>1. IInv /\ ResultInv /\ [Next]_vars => Exact
  <2> SUFFICES ASSUME IInv, ResultInv, [Next]_vars,
                      NEW p \in Thread, at[p] = "join", at'[p] = "code",
                      NEW f \in {"p_and", "p_or"}, \A c \in forked[p] : form[c] = f
               PROVE  Decided(p, f)
    BY DEF Decided
  <2>1. Woken(p)
    BY GoesOnAlone DEF Woken
  <2>. QED BY <2>1 DEF ResultInv, WokenInv, AllOf
<1>2. IInv /\ ResultInv /\ [Next]_vars => [Exact]_vars
  BY <1>1
<1>. QED BY <1>2, ResultsAgree, PTL DEF Spec, ParallelResult

(* Blocks, families and results: the invariant of all these proofs is one   *)
(* of the program, whatever its threads do in whatever order.               *)
THEOREM FullInvariant == ASSUME JoinLimits = {} PROVE Spec => []FullInv
<1>. QED BY FamiliesAgree, ResultsAgree, PTL DEF FullInv
=============================================================================
