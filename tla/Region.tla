------------------------------- MODULE Region -------------------------------
(***************************************************************************)
(* Lists as regions (runtime/core_sys_funcs.c, JD_sc_list_mf_enter and      *)
(* _exit): each is a mutex for many keys.  A thread enters with a key,      *)
(* which is put in the list, waits if it is there already, and takes it     *)
(* out again.  Calls with several keys at once are left out.                *)
(***************************************************************************)
EXTENDS WaitQueues

CONSTANTS Regions,   \* the queues of the lists the program uses as regions
          Keys,      \* the keys it uses
          MaxHeld    \* a bound: the keys a thread enters with before it exits

ASSUME KeyAssumption == Keys \subseteq Nat
ASSUME RegionAssumption == Regions \subseteq ObjQueues

VARIABLES
  region,      \* the elements of each list, top first
  key,         \* the argument on the stack of a waiting thread, otherwise 0
  inside       \* history: where each thread entered with which key and did not exit

regionVars == <<region, key, inside>>

RegionInit == /\ QueuesInit
              /\ region = [r \in Regions |-> <<>>]
              /\ key = [t \in Thread |-> 0]
              /\ inside = [t \in Thread |-> {}]

(* The new element that waits on the stack above the argument of enter() *)
NewElement == 0
-----------------------------------------------------------------------------
(* k at the end of the list of r *)
Stored(r, k) == [region EXCEPT ![r] = Append(@, k)]

(* t has entered r with k *)
Enters(t, r, k) == inside' = [inside EXCEPT ![t] = @ \cup {<<r, k>>}]

(* A thread does not enter where it is with the same key *)
MayEnter(t, r, k) ==
  /\ Runs(t) /\ <<r, k>> \notin inside[t]
  /\ Cardinality(inside[t]) < MaxHeld

(* r.enter( k ).  The timeout flag that it clears has been cleared by the   *)
(* loop.                                                                    *)
EnterRegion(t, r, k) ==
  /\ MayEnter(t, r, k)
  /\ \/ /\ k \notin Range(region[r])
        /\ region' = Stored(r, k) /\ Enters(t, r, k) /\ Answer(t, 1)
        /\ UNCHANGED key
     \/ /\ k \in Range(region[r])
        /\ WaitIn(r, t, 0, 1)
        /\ key' = [key EXCEPT ![t] = k]
        /\ UNCHANGED <<region, inside>>

(* r.check_enter( k ) *)
CheckEnter(t, r, k) ==
  /\ MayEnter(t, r, k)
  /\ \/ /\ k \notin Range(region[r])
        /\ region' = Stored(r, k) /\ Enters(t, r, k) /\ Answer(t, 1)
     \/ /\ k \in Range(region[r]) /\ Answer(t, 0)
        /\ UNCHANGED <<region, inside>>
  /\ UNCHANGED key

(* Where enter() puts its key after the wait: the list that the register    *)
(* ACC_DT names by then, which the other threads use too.  It may be any    *)
(* region, or something that is none.                                       *)
StoredSomewhere(k) == {region} \cup {Stored(x, k) : x \in Regions}

(* ACC_DT may also be NULL by then, and enter() follows it *)
FollowsNull(t, r) ==
  /\ thread = t /\ at[t] = r /\ ~internal_error /\ ~Stopped(t) /\ ~timeout[t]
  /\ internal_error' = TRUE
  /\ UNCHANGED <<runVars, in_loop, keep_looping, end_of_simulation, edge_req, blockVars,
                 termVars, timeVars, history, queueVars, regionVars>>

(* The rest of r.enter() after the wait *)
GoesIn(t, r) ==
  \/ /\ GoOn(r, t, WaitAnswer(t))
     /\ key' = [key EXCEPT ![t] = 0]
     /\ IF Stopped(t) \/ timeout[t] THEN UNCHANGED <<region, inside>>
        ELSE region' \in StoredSomewhere(key[t]) /\ Enters(t, r, key[t])
  \/ FollowsNull(t, r)

(* The list of r without the first k *)
Without(r, k) == [region EXCEPT ![r] = RemoveFirst(@, k)]

(* Mutant of Admitted: one that leaves lets only one in *)
OneAdmitted(r, list) ==
  IF NewElement \in Range(list) \/ wait_queue[r] = <<>> THEN 0 ELSE 1

(* list_re_enter: the threads whose key it finds free.  It looks for the    *)
(* key at the top of the stack, which is not the argument but the element   *)
(* that waits above it                                                      *)
Admitted(r, list) == IF NewElement \in Range(list) THEN 0 ELSE Len(wait_queue[r])

(* r.exit( k ); the error that k is not there ends the simulation *)
LeaveRegion(t, r, k) ==
  /\ Runs(t) /\ <<r, k>> \in inside[t]
  /\ \/ /\ k \in Range(region[r])
        /\ region' = Without(r, k)
        /\ inside' = [inside EXCEPT ![t] = @ \ {<<r, k>>}]
        /\ Serve(r, Admitted(r, region'[r]))
        /\ UNCHANGED <<blockVars, sysflagcount>>
     \/ /\ k \notin Range(region[r])
        /\ ExitSimulation(t)
        /\ UNCHANGED <<region, inside, queueVars>>
  /\ UNCHANGED key

RegionStep(t) ==
  \E r \in Regions : \/ \E k \in Keys : \/ EnterRegion(t, r, k) \/ CheckEnter(t, r, k)
                                        \/ LeaveRegion(t, r, k)
                     \/ GoesIn(t, r)

RegionNext == \/ KernelStep /\ FollowKernel /\ UNCHANGED regionVars
              \/ \E t \in Thread : RegionStep(t)
-----------------------------------------------------------------------------
(* Nobody is asleep at a region for a key that is free: the exit that frees *)
(* a key wakes those who wait for it, whoever entered with it, was let in   *)
(* by another exit meanwhile or asked with check_enter(), and whatever      *)
(* ACC_DT names.                                                            *)
NobodyWaitsOnFreeKey ==
  \A r \in Regions, t \in Thread, k \in Keys :
    queue[t] = r /\ key[t] = k => k \in Range(region[r])

(* A key is in the list of a region no more often than threads are in with  *)
(* it: nothing stays locked when its threads have left.                     *)
NoKeyLeftBehind ==
  \A r \in Regions, k \in Keys :
    Cardinality({n \in 1 .. Len(region[r]) : region[r][n] = k})
      <= Cardinality({t \in Thread : <<r, k>> \in inside[t]})

(* No two threads are in with the same key (the manual: "a multivalue       *)
(* mutex").                                                                 *)
RegionExclusive ==
  \A t, u \in Thread : t # u => inside[t] \cap inside[u] = {}
=============================================================================
