--------------------------- MODULE ThreadsProofs ---------------------------
(***************************************************************************)
(* Proofs about the thread kernel, for every set of threads and either     *)
(* build: its type correctness, with all time limits, and, in programs     *)
(* without time limits on their joins, its inductive invariant and the     *)
(* safety properties that follow.                                          *)
(*                                                                         *)
(* The loops over the time-out queue follow links, which a limit left in   *)
(* the queue (thread.c:891) can close to a ring. A loop is modelled by as  *)
(* many of its rounds as EndlessSearch and EndlessCount show to be enough: *)
(* one that goes on after them goes on for ever.                           *)
(***************************************************************************)
EXTENDS ThreadsInvariant, Recursion
-----------------------------------------------------------------------------
(* The time-out queue *)

LEMMA CountIsNat == Cardinality(Thread) \in Nat
  BY ThreadAssumption, FS_CardinalityType

LEMMA StoreType ==
  ASSUME NEW field \in [Thread -> Link], NEW p \in Link, NEW v \in Link
  PROVE  Store(field, p, v) \in [Thread -> Link]
  BY DEF Store, Link

(* What lengthens the search is bounded by the counts below zero *)
LEMMA DeficitBounds ==
  ASSUME NEW q \in TimeQueues
  PROVE  Deficit(q) \in Nat /\ \A t \in Thread : 0 - q.count[t] <= Deficit(q)
<1> DEFINE f == [t \in Thread |-> 0 - q.count[t]]
           T == {0 - q.count[t] : t \in Thread}
<1>1. f \in Surjection(Thread, T)
  BY DEF Surjection
<1>2. IsFiniteSet({0} \cup T)
  BY <1>1, ThreadAssumption, FS_Surjection, FS_AddElement
<1>3. {0} \cup T \in SUBSET Int
  BY DEF TimeQueues
<1>4. /\ Max({0} \cup T) \in Int /\ 0 <= Max({0} \cup T)
      /\ \A x \in T : x <= Max({0} \cup T)
  BY <1>2, <1>3, GreatestOne
<1>. QED BY <1>4 DEF Deficit

LEMMA Products ==
  ASSUME NEW a \in Nat, NEW b \in Nat, NEW c \in Nat, a <= b
  PROVE  a * c \in Nat /\ b * c \in Nat /\ a * c <= b * c /\ (a + 1) * c = a * c + c
  OBVIOUS

LEMMA SearchBoundType ==
  ASSUME NEW q \in TimeQueues, NEW limit \in Nat
  PROVE  /\ SearchBound(q, limit) \in Nat
         /\ Cardinality(Thread) <= SearchBound(q, limit)
<1> DEFINE n == Cardinality(Thread)
           e == Deficit(q)
<1>1. n \in Nat /\ e \in Nat
  BY CountIsNat, DeficitBounds
<1> HIDE DEF n, e
<1>2. n * e \in Nat
  BY <1>1, Products
<1> DEFINE k == limit + n * e + 2
<1>3. k \in Nat /\ 1 <= k
  BY <1>2
<1> HIDE DEF k
<1>4. 1 * n <= k * n /\ k * n \in Nat /\ 1 * n = n /\ k * n = n * k
  BY <1>1, <1>3, Products
<1>. QED BY <1>4 DEF SearchBound, n, e, k

(* The places of the search of JD_enqueue_timeq *)
Places == [fw : Link, bw : Link, left : Int]

ScanStep(q, t, s) ==
  IF StepsOver(q, t, s)
  THEN [fw |-> s.bw, bw |-> q.bw[s.bw], left |-> s.left - CountSeen(q, t, s)]
  ELSE s

(* f[n] is where the search has come to after n rounds of its loop *)
IsScan(f, q, t, limit) ==
  f = [n \in Nat |-> IF n = 0 THEN [fw |-> None, bw |-> q.head, left |-> limit]
                     ELSE ScanStep(q, t, f[n - 1])]

LEMMA ScanStepType ==
  ASSUME NEW q \in TimeQueues, NEW t \in Thread, NEW s \in Places
  PROVE  ScanStep(q, t, s) \in Places
  BY DEF ScanStep, StepsOver, CountSeen, Places, TimeQueues, Link

(* The search is a recursion, and it stays among the places *)
LEMMA ScanRuns ==
  ASSUME NEW q \in TimeQueues, NEW t \in Thread, NEW limit \in Nat
  PROVE  \E f \in [Nat -> Places] : IsScan(f, q, t, limit) /\ Scan(q, t, limit) = f[SearchBound(q, limit)]
<1> DEFINE f == CHOOSE f : IsScan(f, q, t, limit)
           b == [fw |-> None, bw |-> q.head, left |-> limit]
           step == [p \in Nat \X Places |-> ScanStep(q, t, p[2])]
           T == {n \in Nat : f[n] \in Places}
<1>1. Scan(q, t, limit) = f[SearchBound(q, limit)]
  BY DEF Scan, IsScan, ScanStep
<1>2. b \in Places
  BY DEF Places, TimeQueues, Link
<1>3. IsStep(step, Places)
  BY ScanStepType DEF IsStep
<1>4. PICK g \in [Nat -> Places] : SolvesNat(g, b, step)
  <2> HIDE DEF step, b
  <2>. QED BY <1>2, <1>3, NatRecursion
<1>5. ASSUME NEW n \in Nat PROVE g[n] = IF n = 0 THEN b ELSE ScanStep(q, t, g[n - 1])
  <2>1. n # 0 => n - 1 \in Nat /\ <<n, g[n - 1]>> \in Nat \X Places
    BY <1>4
  <2>. QED BY <1>4, <2>1 DEF SolvesNat
<1>6. IsScan(g, q, t, limit)
  BY <1>4, <1>5 DEF IsScan
<1>7. IsScan(f, q, t, limit)
  BY <1>6
<1> HIDE DEF f, b
<1>8. \A n \in Nat : f[n] = IF n = 0 THEN b ELSE ScanStep(q, t, f[n - 1])
  BY <1>7 DEF IsScan, b
<1>9. T = Nat
  <2>1. T \in SUBSET Nat
    OBVIOUS
  <2>2. 0 \in T
    BY <1>2, <1>8
  <2>3. ASSUME NEW n \in T PROVE n + 1 \in T
    <3>1. n \in Nat /\ f[n] \in Places /\ n + 1 \in Nat /\ n + 1 # 0 /\ (n + 1) - 1 = n
      OBVIOUS
    <3>2. f[n + 1] = ScanStep(q, t, f[n])
      BY <1>8, <3>1
    <3>. QED BY <3>1, <3>2, ScanStepType
  <2> HIDE DEF T
  <2>. QED BY <2>1, <2>2, <2>3, AllNumbers
<1>10. f \in [Nat -> Places]
  BY <1>7, <1>9 DEF IsScan
<1>. QED BY <1>1, <1>7, <1>10

LEMMA ScanType ==
  ASSUME NEW q \in TimeQueues, NEW t \in Thread, NEW limit \in Nat
  PROVE  Scan(q, t, limit) \in Places
  BY ScanRuns, SearchBoundType

LEMMA EnqueueType ==
  ASSUME NEW q \in TimeQueues, NEW t \in Thread, NEW limit \in Nat
  PROVE  EnqueueTimeq(q, t, limit) \in TimeQueues
<1> DEFINE s == Scan(q, t, limit)
<1>1. s.fw \in Link /\ s.bw \in Link /\ s.left \in Int
  BY ScanType DEF Places
<1> HIDE DEF s
<1>2. /\ q.head \in Link /\ q.fw \in [Thread -> Link] /\ q.bw \in [Thread -> Link]
      /\ q.count \in [Thread -> Int]
  BY DEF TimeQueues
<1>3. t \in Link
  BY DEF Link
<1>4. /\ Store(q.fw, s.bw, t) \in [Thread -> Link]
      /\ Store(q.bw, s.fw, t) \in [Thread -> Link]
  BY <1>1, <1>2, <1>3, StoreType
<1>5. ASSUME NEW field \in [Thread -> Link], NEW v \in Link
      PROVE  [field EXCEPT ![t] = v] \in [Thread -> Link]
  OBVIOUS
<1>6. (IF s.bw = None THEN [q.count EXCEPT ![t] = s.left]
       ELSE [q.count EXCEPT ![t] = s.left, ![s.bw] = @ - s.left]) \in [Thread -> Int]
  BY <1>1, <1>2 DEF Link
<1>7. (IF s.fw = None THEN t ELSE q.head) \in Link
  BY <1>2, <1>3
<1>. QED BY <1>1, <1>4, <1>5, <1>6, <1>7 DEF EnqueueTimeq, TimeQueues, s

(* What a round of the search does that steps on *)
LEMMA SearchRound ==
  ASSUME NEW q \in TimeQueues, NEW t \in Thread, NEW s \in Places, StepsOver(q, t, s)
  PROVE  /\ s.bw \in Thread /\ ScanStep(q, t, s).bw = q.bw[s.bw]
         /\ ScanStep(q, t, s).left = IF s.bw = t THEN 0 ELSE s.left - q.count[s.bw]
         /\ ScanStep(q, t, s).left \in Nat
         /\ s.left \in Nat => ScanStep(q, t, s).left <= s.left + Deficit(q)
<1>1. s.bw \in Thread /\ s.left \in Int /\ CountSeen(q, t, s) <= s.left
  BY DEF StepsOver, Places, Link
<1>2. CountSeen(q, t, s) = IF s.bw = t THEN s.left ELSE q.count[s.bw]
  BY DEF CountSeen
<1>3. q.count[s.bw] \in Int /\ Deficit(q) \in Nat /\ 0 - q.count[s.bw] <= Deficit(q)
  BY <1>1, DeficitBounds DEF TimeQueues
<1>4. ScanStep(q, t, s) = [fw |-> s.bw, bw |-> q.bw[s.bw], left |-> s.left - CountSeen(q, t, s)]
  BY DEF ScanStep
<1>. QED BY <1>1, <1>2, <1>3, <1>4

(* A search that meets a thread again with no less left goes round for ever *)
LEMMA SearchRing ==
  ASSUME NEW q \in TimeQueues, NEW t \in Thread,
         NEW f \in [Nat -> Places], \A n \in Nat : f[n + 1] = ScanStep(q, t, f[n]),
         NEW i \in Nat, NEW j \in Nat, i < j, \A n \in Nat : n <= j => StepsOver(q, t, f[n]),
         f[i].bw = f[j].bw, f[i].left <= f[j].left
  PROVE  \A n \in Nat : StepsOver(q, t, f[n])
<1> DEFINE T == {m \in Nat : /\ f[i + m].bw = f[j + m].bw /\ f[i + m].left <= f[j + m].left
                             /\ \A n \in Nat : n <= j + m => StepsOver(q, t, f[n])}
<1>1. T = Nat
  <2>1. 0 \in T
    OBVIOUS
  <2>2. ASSUME NEW m \in T PROVE m + 1 \in T
    <3> DEFINE x == f[i + m]
               y == f[j + m]
    <3>1. /\ i + m \in Nat /\ j + m \in Nat /\ i + m <= j + m /\ i + m + 1 <= j + m
          /\ i + (m + 1) = (i + m) + 1 /\ j + (m + 1) = (j + m) + 1 /\ m + 1 \in Nat
      OBVIOUS
    <3>2. /\ StepsOver(q, t, x) /\ StepsOver(q, t, y) /\ x \in Places /\ y \in Places
          /\ x.bw = y.bw /\ x.left <= y.left
      BY <3>1
    <3>3. /\ f[i + (m + 1)] = ScanStep(q, t, x) /\ f[j + (m + 1)] = ScanStep(q, t, y)
          /\ f[i + (m + 1)] \in Places /\ f[j + (m + 1)] \in Places
      BY <3>1
    <3>4. StepsOver(q, t, f[i + (m + 1)])
      BY <3>1
    <3> HIDE DEF x, y
    <3>5. /\ f[i + (m + 1)].bw = f[j + (m + 1)].bw
          /\ f[i + (m + 1)].left <= f[j + (m + 1)].left
      <4>1. x.left \in Int /\ y.left \in Int /\ x.bw \in Thread /\ q.count[x.bw] \in Int
        BY <3>2, SearchRound DEF Places, TimeQueues
      <4>. QED BY <3>2, <3>3, <4>1, SearchRound
    <3>6. StepsOver(q, t, f[j + (m + 1)])
      <4>1. f[i + (m + 1)].left \in Int /\ f[j + (m + 1)].left \in Int
        BY <3>3 DEF Places
      <4>2. \A r \in Link : r # None => q.count[r] \in Int
        BY DEF TimeQueues, Link
      <4>3. f[i + (m + 1)].bw \in Link
        BY <3>3 DEF Places
      <4>. QED BY <3>4, <3>5, <4>1, <4>2, <4>3 DEF StepsOver, CountSeen
    <3>7. \A n \in Nat : n <= j + (m + 1) => n <= j + m \/ n = j + (m + 1)
      BY <3>1
    <3>. QED BY <3>1, <3>5, <3>6, <3>7
  <2>3. T \in SUBSET Nat
    OBVIOUS
  <2> HIDE DEF T
  <2>. QED BY <2>1, <2>2, <2>3, AllNumbers
<1>2. ASSUME NEW n \in Nat PROVE StepsOver(q, t, f[n])
  <2>1. n \in T
    BY <1>1
  <2>2. n <= j + n
    OBVIOUS
  <2>. QED BY <2>1, <2>2
<1>. QED BY <1>2

(* A search that has made as many rounds as it is given, and steps on still, *)
(* never ends: the bound cuts no search short that does (thread.c:239-244).  *)
THEOREM EndlessSearch ==
  ASSUME NEW q \in TimeQueues, NEW t \in Thread, NEW limit \in Nat, ~SearchEnds(q, t, limit)
  PROVE  \E f : IsScan(f, q, t, limit) /\ \A n \in Nat : StepsOver(q, t, f[n])
<1> DEFINE size == Cardinality(Thread)
           deficit == Deficit(q)
           bound == SearchBound(q, limit)
<1>1. PICK f \in [Nat -> Places] : IsScan(f, q, t, limit) /\ Scan(q, t, limit) = f[bound]
  BY ScanRuns
<1> DEFINE Goes(n) == StepsOver(q, t, f[n])
<1>2. /\ size \in Nat /\ deficit \in Nat /\ bound \in Nat /\ size <= bound
      /\ bound = size * (limit + size * deficit + 2)
  BY CountIsNat, DeficitBounds, SearchBoundType DEF SearchBound
<1>3. Goes(bound)
  BY <1>1 DEF SearchEnds
<1> HIDE DEF size, deficit, bound
<1>4. f[0].left = limit /\ \A n \in Nat : f[n + 1] = ScanStep(q, t, f[n])
  <2>1. \A n \in Nat : n + 1 \in Nat /\ n + 1 # 0 /\ (n + 1) - 1 = n
    OBVIOUS
  <2>2. \A n \in Nat : f[n] = IF n = 0 THEN [fw |-> None, bw |-> q.head, left |-> limit]
                              ELSE ScanStep(q, t, f[n - 1])
    BY <1>1 DEF IsScan
  <2>. QED BY <2>1, <2>2
<1>5. \A n \in Nat : n <= bound => Goes(n)
  <2> DEFINE T == {k \in Nat : k <= bound => Goes(bound - k)}
  <2>1. ASSUME NEW k \in T PROVE k + 1 \in T
    <3> SUFFICES ASSUME k + 1 <= bound PROVE Goes(bound - (k + 1))
      OBVIOUS
    <3>1. /\ bound - (k + 1) \in Nat /\ (bound - (k + 1)) + 1 = bound - k /\ Goes(bound - k)
      BY <1>2
    <3>2. f[bound - k] = ScanStep(q, t, f[bound - (k + 1)])
      BY <1>4, <3>1
    <3>. QED BY <3>1, <3>2 DEF ScanStep
  <2>2. 0 \in T /\ T \in SUBSET Nat
    BY <1>2, <1>3
  <2>3. T = Nat
    <3> HIDE DEF T
    <3>. QED BY <2>1, <2>2, AllNumbers
  <2>4. ASSUME NEW n \in Nat, n <= bound PROVE Goes(n)
    <3>1. bound - n \in Nat /\ bound - (bound - n) = n /\ bound - n <= bound
      BY <1>2, <2>4
    <3>2. bound - n \in T
      BY <2>3, <3>1
    <3>. QED BY <3>1, <3>2
  <2>. QED BY <2>4
<1>6. ASSUME NEW n \in Nat, n <= bound PROVE f[n].left \in Nat /\ f[n].left <= limit + n * deficit
  <2> DEFINE T == {k \in Nat : k <= bound => f[k].left \in Nat /\ f[k].left <= limit + k * deficit}
  <2>1. 0 \in T
    BY <1>2, <1>4
  <2>2. ASSUME NEW k \in T PROVE k + 1 \in T
    <3> SUFFICES ASSUME k + 1 <= bound
                 PROVE  f[k + 1].left \in Nat /\ f[k + 1].left <= limit + (k + 1) * deficit
      OBVIOUS
    <3>1. k \in Nat /\ k <= bound /\ f[k].left \in Nat /\ f[k].left <= limit + k * deficit
      BY <1>2
    <3>2. f[k + 1].left \in Nat /\ f[k + 1].left <= f[k].left + deficit
      BY <1>4, <1>5, <3>1, SearchRound DEF deficit
    <3>3. k * deficit \in Nat /\ (k + 1) * deficit = k * deficit + deficit
      BY <1>2, <3>1, Products
    <3> HIDE DEF T
    <3>. QED BY <1>2, <3>1, <3>2, <3>3
  <2>3. T = Nat
    <3>1. T \in SUBSET Nat
      OBVIOUS
    <3> HIDE DEF T
    <3>. QED BY <2>1, <2>2, <3>1, AllNumbers
  <2>. QED BY <1>6, <2>3
<1>7. PICK i \in 0 .. size, j \in 0 .. size : i < j /\ f[i].bw = f[j].bw
  <2> DEFINE g == [n \in 0 .. size |-> f[n].bw]
  <2>1. g \in [0 .. size -> Thread]
    BY <1>2, <1>5, SearchRound
  <2>2. IsFiniteSet(0 .. size) /\ Cardinality(0 .. size) = size + 1
    BY <1>2, FS_Interval
  <2>3. Cardinality(Thread) < Cardinality(0 .. size)
    BY <1>2, <2>2 DEF size
  <2> HIDE DEF g
  <2>4. PICK x \in 0 .. size, y \in 0 .. size : x # y /\ g[x] = g[y]
    BY <2>1, <2>2, <2>3, ThreadAssumption, FS_PigeonHole
  <2>. QED BY <1>2, <2>4 DEF g
<1> DEFINE c == j - i
<1>8. i \in Nat /\ c \in Nat /\ 1 <= c /\ c <= size /\ i <= size /\ i + c = j
  BY <1>2, <1>7
<1> HIDE DEF c
<1>9. ASSUME NEW n \in Nat, i <= n, n + c <= bound PROVE f[n].bw = f[n + c].bw
  <2> DEFINE T == {k \in Nat : i + k + c <= bound => f[i + k].bw = f[i + k + c].bw}
  <2>1. 0 \in T
    BY <1>7, <1>8
  <2>2. ASSUME NEW k \in T PROVE k + 1 \in T
    <3> SUFFICES ASSUME i + (k + 1) + c <= bound
                 PROVE  f[i + (k + 1)].bw = f[i + (k + 1) + c].bw
      OBVIOUS
    <3>1. /\ i + k \in Nat /\ i + k + c \in Nat /\ i + k + c <= bound /\ i + k <= bound
          /\ i + (k + 1) = (i + k) + 1 /\ i + (k + 1) + c = (i + k + c) + 1
      BY <1>2, <1>8
    <3>2. f[i + k].bw = f[i + k + c].bw
      BY <3>1
    <3>3. /\ f[(i + k) + 1].bw = q.bw[f[i + k].bw]
          /\ f[(i + k + c) + 1].bw = q.bw[f[i + k + c].bw]
      BY <1>4, <1>5, <3>1, SearchRound
    <3>. QED BY <3>1, <3>2, <3>3
  <2>3. T = Nat
    <3>1. T \in SUBSET Nat
      OBVIOUS
    <3> HIDE DEF T
    <3>. QED BY <2>1, <2>2, <3>1, AllNumbers
  <2>4. n - i \in Nat /\ i + (n - i) = n
    BY <1>8, <1>9
  <2>5. n - i \in T
    BY <2>3, <2>4
  <2>. QED BY <1>9, <2>4, <2>5
<1> DEFINE k == limit + size * deficit + 1
           at_round(m) == i + m * c
<1>10. /\ k \in Nat /\ size * deficit \in Nat /\ i * deficit <= size * deficit
       /\ i * deficit \in Nat /\ f[i].left \in Nat /\ f[i].left < k
  <2>1. size * deficit \in Nat /\ i * deficit \in Nat /\ i * deficit <= size * deficit
    BY <1>2, <1>8, Products
  <2>2. i <= bound /\ f[i].left \in Nat /\ f[i].left <= limit + i * deficit
    BY <1>2, <1>6, <1>8
  <2>. QED BY <2>1, <2>2
<1>11. ASSUME NEW m \in Nat, m <= k
       PROVE  /\ at_round(m) \in Nat /\ i <= at_round(m) /\ at_round(m) <= bound
              /\ at_round(m + 1) = at_round(m) + c
  <2>1. m * c \in Nat /\ m * c <= k * c /\ k * c \in Nat /\ (m + 1) * c = m * c + c
    BY <1>8, <1>10, <1>11, Products
  <2>2. c * k <= size * k /\ c * k \in Nat /\ size * k \in Nat /\ c * k = k * c
    BY <1>2, <1>8, <1>10, Products
  <2>3. bound = size * (k + 1) /\ k + 1 \in Nat
    BY <1>2, <1>10
  <2>4. (k + 1) * size = k * size + size /\ k * size = size * k /\ (k + 1) * size = size * (k + 1)
    BY <1>2, <1>10, Products
  <2> HIDE DEF k
  <2>. QED BY <1>2, <1>8, <2>1, <2>2, <2>3, <2>4
<1>12. \E m \in Nat : m + 1 <= k /\ f[at_round(m)].left <= f[at_round(m + 1)].left
  <2> SUFFICES ASSUME \A m \in Nat : m + 1 <= k => ~(f[at_round(m)].left <= f[at_round(m + 1)].left)
               PROVE  FALSE
    OBVIOUS
  <2> DEFINE T == {m \in Nat : m <= k => f[at_round(m)].left + m <= f[i].left}
  <2>1. 0 \in T
    <3>1. at_round(0) = i
      BY <1>8
    <3>. QED BY <1>10, <3>1
  <2>2. ASSUME NEW m \in T PROVE m + 1 \in T
    <3> SUFFICES ASSUME m + 1 <= k PROVE f[at_round(m + 1)].left + (m + 1) <= f[i].left
      OBVIOUS
    <3>1. m \in Nat /\ m <= k /\ m + 1 \in Nat
      BY <1>10
    <3>2. at_round(m) \in Nat /\ at_round(m) <= bound /\ at_round(m + 1) \in Nat /\ at_round(m + 1) <= bound
      BY <1>11, <3>1
    <3>3. f[at_round(m)].left \in Nat /\ f[at_round(m + 1)].left \in Nat
      BY <1>6, <3>2
    <3>4. f[at_round(m)].left + m <= f[i].left /\ ~(f[at_round(m)].left <= f[at_round(m + 1)].left)
      BY <3>1
    <3> HIDE DEF at_round, k, T
    <3>. QED BY <1>10, <3>1, <3>3, <3>4
  <2>3. T = Nat
    <3>1. T \in SUBSET Nat
      OBVIOUS
    <3> HIDE DEF T
    <3>. QED BY <2>1, <2>2, <3>1, AllNumbers
  <2>4. f[at_round(k)].left + k <= f[i].left /\ f[at_round(k)].left \in Nat
    <3>1. k \in T /\ at_round(k) \in Nat /\ at_round(k) <= bound
      BY <1>10, <1>11, <2>3
    <3>. QED BY <1>6, <1>10, <3>1
  <2> HIDE DEF k, at_round
  <2>. QED BY <1>10, <2>4
<1>13. PICK m \in Nat : m + 1 <= k /\ f[at_round(m)].left <= f[at_round(m + 1)].left
  BY <1>12
<1>14. /\ at_round(m) \in Nat /\ at_round(m + 1) \in Nat /\ at_round(m) < at_round(m + 1)
       /\ at_round(m + 1) <= bound /\ at_round(m + 1) = at_round(m) + c /\ i <= at_round(m)
  <2>1. m <= k /\ m + 1 \in Nat
    BY <1>10, <1>13
  <2> HIDE DEF at_round, k
  <2>. QED BY <1>2, <1>8, <1>11, <1>13, <2>1
<1>15. f[at_round(m)].bw = f[at_round(m + 1)].bw
  <2> HIDE DEF at_round, k
  <2>. QED BY <1>9, <1>14
<1>16. \A n \in Nat : n <= at_round(m + 1) => StepsOver(q, t, f[n])
  <2> HIDE DEF at_round, k
  <2>. QED BY <1>2, <1>5, <1>14
<1>17. \A n \in Nat : StepsOver(q, t, f[n])
  <2> HIDE DEF at_round, k
  <2>. QED BY <1>4, <1>13, <1>14, <1>15, <1>16, SearchRing
<1>. QED BY <1>1, <1>17

LEMMA DequeueType ==
  ASSUME NEW q \in TimeQueues, NEW t \in Thread
  PROVE  DequeueTimeq(q, t) \in TimeQueues
<1>1. /\ q.head \in Link /\ q.fw \in [Thread -> Link] /\ q.bw \in [Thread -> Link]
      /\ q.count \in [Thread -> Int] /\ None \in Link
  BY DEF TimeQueues, Link
<1>2. q.fw[t] \in Link /\ q.bw[t] \in Link
  BY <1>1
<1>3. /\ Store(q.fw, q.bw[t], q.fw[t]) \in [Thread -> Link]
      /\ Store(q.bw, q.fw[t], q.bw[t]) \in [Thread -> Link]
  BY <1>1, <1>2, StoreType
<1>4. ASSUME NEW field \in [Thread -> Link], NEW v \in Link
      PROVE  [field EXCEPT ![t] = v] \in [Thread -> Link]
  OBVIOUS
<1>5. (IF q.bw[t] = None THEN q.count
       ELSE [q.count EXCEPT ![q.bw[t]] = @ + q.count[t]]) \in [Thread -> Int]
  BY <1>1, <1>2 DEF Link
<1>. QED BY <1>1, <1>2, <1>3, <1>4, <1>5 DEF DequeueTimeq, TimeQueues

LEMMA DecrementType ==
  ASSUME NEW q \in TimeQueues
  PROVE  Decrement(q) \in TimeQueues
  BY DEF Decrement, TimeQueues, Link

(* The places of the loop of JD_count_timeq *)
Pops == [gone : Seq(Thread), next : Link]

PopStep(d, p) ==
  IF p.next # None /\ d.count[p.next] = 0
  THEN [gone |-> Append(p.gone, p.next), next |-> d.bw[p.next]]
  ELSE p

IsPop(f, d) ==
  f = [n \in Nat |-> IF n = 0 THEN [gone |-> <<>>, next |-> d.head]
                     ELSE PopStep(d, f[n - 1])]

LEMMA PopStepType ==
  ASSUME NEW d \in TimeQueues, NEW p \in Pops
  PROVE  PopStep(d, p) \in Pops
<1>1. p.gone \in Seq(Thread) /\ p.next \in Link
  BY DEF Pops
<1>2. CASE p.next # None
  <2>1. p.next \in Thread
    BY <1>1, <1>2 DEF Link
  <2>2. Append(p.gone, p.next) \in Seq(Thread) /\ d.bw[p.next] \in Link
    BY <1>1, <2>1, AppendRange DEF TimeQueues
  <2>. QED BY <2>2 DEF PopStep, Pops
<1>3. CASE p.next = None
  BY <1>3 DEF PopStep
<1>. QED BY <1>2, <1>3

LEMMA PopRuns ==
  ASSUME NEW q \in TimeQueues
  PROVE  \E f \in [Nat -> Pops] : IsPop(f, Decrement(q)) /\ Expiry(q) = f[Cardinality(Thread)]
<1> DEFINE d == Decrement(q)
           f == CHOOSE f : IsPop(f, d)
           b == [gone |-> <<>>, next |-> d.head]
           step == [p \in Nat \X Pops |-> PopStep(d, p[2])]
           T == {n \in Nat : f[n] \in Pops}
<1>1. Expiry(q) = f[Cardinality(Thread)]
  BY DEF Expiry, IsPop, PopStep
<1>0. d \in TimeQueues
  BY DecrementType
<1> HIDE DEF d
<1>2. b \in Pops
  BY <1>0 DEF Pops, TimeQueues
<1>3. IsStep(step, Pops)
  BY <1>0, PopStepType DEF IsStep
<1>4. PICK g \in [Nat -> Pops] : SolvesNat(g, b, step)
  <2> HIDE DEF step, b
  <2>. QED BY <1>2, <1>3, NatRecursion
<1>5. ASSUME NEW n \in Nat PROVE g[n] = IF n = 0 THEN b ELSE PopStep(d, g[n - 1])
  <2>1. n # 0 => n - 1 \in Nat /\ <<n, g[n - 1]>> \in Nat \X Pops
    BY <1>4
  <2>. QED BY <1>4, <2>1 DEF SolvesNat
<1>6. IsPop(g, d)
  BY <1>4, <1>5 DEF IsPop
<1>7. IsPop(f, d)
  BY <1>6
<1> HIDE DEF f, b
<1>8. \A n \in Nat : f[n] = IF n = 0 THEN b ELSE PopStep(d, f[n - 1])
  BY <1>7 DEF IsPop, b
<1>9. T = Nat
  <2>1. T \in SUBSET Nat
    OBVIOUS
  <2>2. 0 \in T
    BY <1>2, <1>8
  <2>3. ASSUME NEW n \in T PROVE n + 1 \in T
    <3>1. n \in Nat /\ f[n] \in Pops /\ n + 1 \in Nat /\ n + 1 # 0 /\ (n + 1) - 1 = n
      OBVIOUS
    <3>2. f[n + 1] = PopStep(d, f[n])
      BY <1>8, <3>1
    <3>. QED BY <1>0, <3>1, <3>2, PopStepType
  <2> HIDE DEF T
  <2>. QED BY <2>1, <2>2, <2>3, AllNumbers
<1>10. f \in [Nat -> Pops]
  BY <1>7, <1>9 DEF IsPop
<1>. QED BY <1>1, <1>7, <1>10 DEF d

LEMMA ExpiryType ==
  ASSUME NEW q \in TimeQueues
  PROVE  Expiry(q).gone \in Seq(Thread) /\ Expiry(q).next \in Link
  BY PopRuns, CountIsNat DEF Pops

(* A loop of JD_count_timeq that is not over after as many rounds as there  *)
(* are threads is in a ring of threads that are due, and never ends: the    *)
(* bound cuts no loop short that does (thread.c:291-303).                   *)
THEOREM EndlessCount ==
  ASSUME NEW q \in TimeQueues, ~CountEnds(q)
  PROVE  \E f : /\ IsPop(f, Decrement(q))
                /\ \A n \in Nat : f[n].next # None /\ Decrement(q).count[f[n].next] = 0
<1> DEFINE d == Decrement(q)
           size == Cardinality(Thread)
<1>1. PICK f \in [Nat -> Pops] : IsPop(f, d) /\ Expiry(q) = f[size]
  BY PopRuns
<1> DEFINE Goes(n) == f[n].next # None /\ d.count[f[n].next] = 0
<1>2. size \in Nat /\ Goes(size)
  BY <1>1, CountIsNat DEF CountEnds
<1> HIDE DEF size, d
<1>3. \A n \in Nat : f[n + 1] = PopStep(d, f[n])
  <2>1. \A n \in Nat : n + 1 \in Nat /\ n + 1 # 0 /\ (n + 1) - 1 = n
    OBVIOUS
  <2>2. \A n \in Nat : f[n] = IF n = 0 THEN [gone |-> <<>>, next |-> d.head] ELSE PopStep(d, f[n - 1])
    BY <1>1 DEF IsPop
  <2>. QED BY <2>1, <2>2
<1>4. ASSUME NEW n \in Nat, Goes(n)
      PROVE  f[n].next \in Thread /\ f[n + 1].next = d.bw[f[n].next]
  <2>1. f[n] \in Pops
    OBVIOUS
  <2>2. f[n + 1] = [gone |-> Append(f[n].gone, f[n].next), next |-> d.bw[f[n].next]]
    BY <1>3, <1>4 DEF PopStep
  <2>. QED BY <1>4, <2>1, <2>2 DEF Pops, Link
<1>5. \A n \in Nat : n <= size => Goes(n)
  <2> DEFINE T == {k \in Nat : k <= size => Goes(size - k)}
  <2>1. ASSUME NEW k \in T PROVE k + 1 \in T
    <3> SUFFICES ASSUME k + 1 <= size PROVE Goes(size - (k + 1))
      OBVIOUS
    <3>1. size - (k + 1) \in Nat /\ (size - (k + 1)) + 1 = size - k /\ Goes(size - k)
      BY <1>2
    <3>2. f[size - k] = PopStep(d, f[size - (k + 1)])
      BY <1>3, <3>1
    <3>. QED BY <3>1, <3>2 DEF PopStep
  <2>2. 0 \in T /\ T \in SUBSET Nat
    BY <1>2
  <2>3. T = Nat
    <3> HIDE DEF T
    <3>. QED BY <2>1, <2>2, AllNumbers
  <2>4. ASSUME NEW n \in Nat, n <= size PROVE Goes(n)
    <3>1. size - n \in Nat /\ size - (size - n) = n /\ size - n <= size
      BY <1>2, <2>4
    <3>2. size - n \in T
      BY <2>3, <3>1
    <3>. QED BY <3>1, <3>2
  <2>. QED BY <2>4
<1>6. PICK i \in 0 .. size, j \in 0 .. size : i < j /\ f[i].next = f[j].next
  <2> DEFINE g == [n \in 0 .. size |-> f[n].next]
  <2>1. g \in [0 .. size -> Thread]
    BY <1>2, <1>4, <1>5
  <2>2. IsFiniteSet(0 .. size) /\ Cardinality(0 .. size) = size + 1
    BY <1>2, FS_Interval
  <2>3. Cardinality(Thread) < Cardinality(0 .. size)
    BY <1>2, <2>2 DEF size
  <2> HIDE DEF g
  <2>4. PICK x \in 0 .. size, y \in 0 .. size : x # y /\ g[x] = g[y]
    BY <2>1, <2>2, <2>3, ThreadAssumption, FS_PigeonHole
  <2>. QED BY <1>2, <2>4 DEF g
<1> DEFINE T == {m \in Nat : f[i + m].next = f[j + m].next /\ \A n \in Nat : n <= j + m => Goes(n)}
<1>7. T = Nat
  <2>1. 0 \in T
    BY <1>2, <1>5, <1>6
  <2>2. ASSUME NEW m \in T PROVE m + 1 \in T
    <3>1. /\ i + m \in Nat /\ j + m \in Nat /\ i + m <= j + m /\ (i + m) + 1 <= j + m
          /\ i + (m + 1) = (i + m) + 1 /\ j + (m + 1) = (j + m) + 1 /\ m + 1 \in Nat
      BY <1>2, <1>6
    <3>2. Goes(i + m) /\ Goes(j + m) /\ Goes((i + m) + 1) /\ f[i + m].next = f[j + m].next
      BY <3>1
    <3>3. f[(i + m) + 1].next = f[(j + m) + 1].next
      BY <1>4, <3>1, <3>2
    <3>4. \A n \in Nat : n <= j + (m + 1) => n <= j + m \/ n = (j + m) + 1
      BY <3>1
    <3>. QED BY <3>1, <3>2, <3>3, <3>4
  <2>3. T \in SUBSET Nat
    OBVIOUS
  <2> HIDE DEF T
  <2>. QED BY <2>1, <2>2, <2>3, AllNumbers
<1>8. ASSUME NEW n \in Nat PROVE Goes(n)
  <2>1. n \in T
    BY <1>7
  <2>2. n <= j + n
    BY <1>2, <1>6
  <2>. QED BY <2>1, <2>2
<1>. QED BY <1>1, <1>8 DEF d

LEMMA CountType ==
  ASSUME NEW q \in TimeQueues
  PROVE  CountTimeq(q) \in TimeQueues
<1> DEFINE d == Decrement(q)
           e == Expiry(q)
<1>1. d \in TimeQueues /\ e.next \in Link /\ None \in Link
  BY DecrementType, ExpiryType DEF Link
<1> DEFINE tops == IF e.gone = <<>> THEN {} ELSE Range(Tail(e.gone)) \cup {e.next}
           fw == [t \in Thread |-> IF t \in tops THEN None ELSE d.fw[t]]
<1>2. CountTimeq(q) = [d EXCEPT !.head = e.next, !.fw = fw]
  BY DEF CountTimeq
<1> HIDE DEF d, e, tops
<1>3. fw \in [Thread -> Link]
  BY <1>1 DEF TimeQueues
<1> HIDE DEF fw
<1>. QED BY <1>1, <1>2, <1>3 DEF TimeQueues
-----------------------------------------------------------------------------
(* Sequences without repetitions *)

LEMMA EmptyOnce == IsInjective(<<>>) /\ Range(<<>>) = {} /\ <<>> \in Seq(Thread)
  BY DEF IsInjective, Range

LEMMA SingleOnce ==
  ASSUME NEW t \in Thread
  PROVE  <<t>> \in Seq(Thread) /\ IsInjective(<<t>>) /\ Range(<<t>>) = {t}
  BY DEF IsInjective, Range

LEMMA ConcatRange ==
  ASSUME NEW r \in Seq(Thread), NEW s \in Seq(Thread)
  PROVE  r \o s \in Seq(Thread) /\ Range(r \o s) = Range(r) \cup Range(s)
  BY JoinedRange

LEMMA ConcatOnce ==
  ASSUME NEW r \in Seq(Thread), NEW s \in Seq(Thread),
         IsInjective(r), IsInjective(s), Range(r) \cap Range(s) = {}
  PROVE  IsInjective(r \o s)
  BY JoinedOnce

LEMMA TailOnce ==
  ASSUME NEW s \in Seq(Thread), s # <<>>, IsInjective(s)
  PROVE  /\ Head(s) \in Thread /\ Head(s) \in Range(s)
         /\ Tail(s) \in Seq(Thread) /\ IsInjective(Tail(s))
         /\ Range(Tail(s)) = Range(s) \ {Head(s)}
<1>1. Len(s) \in Nat /\ Len(s) >= 1 /\ DOMAIN s = 1 .. Len(s) /\ Head(s) = s[1]
  OBVIOUS
<1>2. /\ Tail(s) \in Seq(Thread) /\ DOMAIN Tail(s) = 1 .. Len(s) - 1
      /\ \A i \in 1 .. Len(s) - 1 : Tail(s)[i] = s[i + 1]
  BY <1>1
<1>3. Head(s) \in Thread /\ Head(s) \in Range(s)
  BY <1>1 DEF Range
<1>4. IsInjective(Tail(s))
  <2> SUFFICES ASSUME NEW i \in 1 .. Len(s) - 1, NEW j \in 1 .. Len(s) - 1,
                      Tail(s)[i] = Tail(s)[j]
               PROVE  i = j
    BY <1>2 DEF IsInjective
  <2>1. i + 1 \in DOMAIN s /\ j + 1 \in DOMAIN s /\ s[i + 1] = s[j + 1]
    BY <1>1, <1>2
  <2>. QED BY <2>1 DEF IsInjective
<1>5. Range(Tail(s)) \subseteq Range(s) \ {Head(s)}
  <2> SUFFICES ASSUME NEW i \in 1 .. Len(s) - 1
               PROVE  Tail(s)[i] \in Range(s) /\ Tail(s)[i] # Head(s)
    BY <1>2 DEF Range
  <2>1. i + 1 \in DOMAIN s /\ 1 \in DOMAIN s /\ i + 1 # 1 /\ Tail(s)[i] = s[i + 1]
    BY <1>1, <1>2
  <2>. QED BY <2>1, <1>1 DEF Range, IsInjective
<1>6. Range(s) \ {Head(s)} \subseteq Range(Tail(s))
  <2> SUFFICES ASSUME NEW i \in DOMAIN s, s[i] # Head(s)
               PROVE  s[i] \in Range(Tail(s))
    BY DEF Range
  <2>1. i - 1 \in 1 .. Len(s) - 1 /\ s[i] = Tail(s)[i - 1]
    BY <1>1, <1>2
  <2>. QED BY <2>1, <1>2 DEF Range
<1>. QED BY <1>2, <1>3, <1>4, <1>5, <1>6

LEMMA AppendOnce ==
  ASSUME NEW s \in Seq(Thread), IsInjective(s), NEW t \in Thread, t \notin Range(s)
  PROVE  /\ Append(s, t) \in Seq(Thread) /\ IsInjective(Append(s, t))
         /\ Range(Append(s, t)) = Range(s) \cup {t}
<1>1. Append(s, t) = s \o <<t>>
  OBVIOUS
<1>2. ASSUME NEW r \in Seq(Thread), IsInjective(r), Range(r) = {t}
      PROVE  /\ s \o r \in Seq(Thread) /\ IsInjective(s \o r)
             /\ Range(s \o r) = Range(s) \cup {t}
  BY <1>2, ConcatRange, ConcatOnce
<1>. QED BY <1>1, <1>2, SingleOnce, Zenon

LEMMA TopOnce ==
  ASSUME NEW s \in Seq(Thread), IsInjective(s), NEW t \in Thread, t \notin Range(s)
  PROVE  /\ <<t>> \o s \in Seq(Thread) /\ IsInjective(<<t>> \o s)
         /\ Range(<<t>> \o s) = Range(s) \cup {t}
<1>1. ASSUME NEW r \in Seq(Thread), IsInjective(r), Range(r) = {t}
      PROVE  /\ r \o s \in Seq(Thread) /\ IsInjective(r \o s)
             /\ Range(r \o s) = Range(s) \cup {t}
  BY <1>1, ConcatRange, ConcatOnce
<1>. QED BY <1>1, SingleOnce, Zenon
-----------------------------------------------------------------------------
(* Types *)

LEMMA TypeInit == Init => TypeOK /\ NoTimers
<1> SUFFICES ASSUME Init PROVE TypeOK /\ NoTimers
  OBVIOUS
<1> USE MainAssumption, NoneAssumption DEF Init, Link
<1>1. RunTypes
  <2>1. <<Main>> \in Seq(Thread)
    OBVIOUS
  <2>. QED BY <2>1 DEF RunTypes, QueueNames, KernelQueues, Points, KernelPoints
<1>2. LoopTypes
  BY DEF LoopTypes
<1>3. BlockTypes
  BY DEF BlockTypes, Forms
<1>4. TermTypes
  BY DEF TermTypes
<1>5. TimeTypes
  BY DEF TimeTypes, TimeQueues, EmptyTimeQueue
<1>6. HistoryTypes
  BY DEF HistoryTypes
<1>7. NoTimers
  BY DEF NoTimers, EmptyTimeQueue
<1>. QED BY <1>1, <1>2, <1>3, <1>4, <1>5, <1>6, <1>7 DEF TypeOK

LEMMA BlockTypesSame == BlockTypes /\ UNCHANGED blockVars => BlockTypes'
  BY DEF BlockTypes, blockVars

LEMMA LoopTypesSame == LoopTypes /\ UNCHANGED loopVars => LoopTypes'
  BY DEF LoopTypes, loopVars

LEMMA TermTypesSame == TermTypes /\ UNCHANGED termVars => TermTypes'
  BY DEF TermTypes, termVars

LEMMA TimeTypesSame == TimeTypes /\ UNCHANGED timeVars => TimeTypes'
  BY DEF TimeTypes, timeVars

LEMMA HistoryTypesSame == HistoryTypes /\ UNCHANGED history => HistoryTypes'
  BY DEF HistoryTypes, history

LEMMA RunTypesSame == RunTypes /\ UNCHANGED runVars => RunTypes'
  BY DEF RunTypes, runVars

(* exit_term_link keeps the types *)
LEMMA ExitTermLinkTypes ==
  ASSUME NEW t \in Thread, TermTypes, TimeTypes, ExitTermLink(t),
         terminated' \in [Thread -> BOOLEAN]
  PROVE  TermTypes' /\ TimeTypes'
<1>1. TermTypes'
  <2>1. CASE term_parent[t] = None
    <3>1. ~JoinerDone(t)
      BY <2>1 DEF JoinerDone
    <3>. QED BY <2>1, <3>1 DEF ExitTermLink, TermTypes
  <2>2. CASE term_parent[t] # None
    <3>1. term_parent[t] \in Thread /\ TermHeirs(t) \subseteq Thread
      BY <2>2 DEF TermTypes, TermHeirs, Link
    <3>. QED BY <2>2, <3>1, ZenonT(30) DEF ExitTermLink, TermTypes, Link
  <2>. QED BY <2>1, <2>2
<1>2. TimeTypes'
  <2>1. DequeueTimeq(timeq, t) \in TimeQueues
    BY DequeueType DEF TimeTypes
  <2>2. timeq' \in TimeQueues
    BY <2>1 DEF ExitTermLink, TimeTypes
  <2>3. time_limit' \in [Thread -> Nat] /\ timeout' \in [Thread -> BOOLEAN]
    BY DEF ExitTermLink, TimeTypes
  <2>. QED BY <2>2, <2>3 DEF TimeTypes
<1>. QED BY <1>1, <1>2

LEMMA SetTimeLimitTypes ==
  ASSUME NEW t \in Thread, NEW limit \in Nat, TimeTypes, LoopTypes, SetTimeLimit(t, limit),
         UNCHANGED timeout
  PROVE  TimeTypes' /\ LoopTypes'
<1>1. TimeTypes'
  BY EnqueueType DEF SetTimeLimit, TimeTypes
<1>2. LoopTypes'
  BY DEF SetTimeLimit, LoopTypes
<1>. QED BY <1>1, <1>2

LEMMA SuspendTypes ==
  ASSUME RunTypes, NEW t \in Thread, NEW q \in QueueNames, NEW p \in Points,
         Suspend(t, q, p), ready_queue' \in Seq(Thread)
  PROVE  RunTypes'
  BY DEF RunTypes, Suspend, Link

LEMMA ReleaseTypes ==
  ASSUME RunTypes, NEW woken \in Seq(Thread), Release(woken)
  PROVE  ready_queue' \in Seq(Thread) /\ queue' \in [Thread -> QueueNames]
<1>1. Those(ready_queue, Thread \ Range(woken)) \in Seq(Thread)
  BY ThoseRange DEF RunTypes
<1>2. ready_queue' \in Seq(Thread)
  BY <1>1, ConcatRange DEF Release, RunTypes
<1>3. queue' \in [Thread -> QueueNames]
  BY DEF Release, RunTypes, QueueNames, KernelQueues
<1>. QED BY <1>2, <1>3

LEMMA BecomeZombieTypes ==
  ASSUME RunTypes, LoopTypes, NEW t \in Thread, NEW woken \in Seq(Thread),
         NEW error \in BOOLEAN, BecomeZombie(t, woken, error)
  PROVE  RunTypes' /\ LoopTypes'
<1>1. ready_queue' \in Seq(Thread)
  BY ConcatRange DEF BecomeZombie, RunTypes
<1>2. RunTypes'
  BY <1>1 DEF BecomeZombie, RunTypes, Link, QueueNames, KernelQueues, Points, KernelPoints
<1>3. LoopTypes'
  BY DEF BecomeZombie, LoopTypes
<1>. QED BY <1>2, <1>3

LEMMA WokenJoinerType ==
  ASSUME NEW t \in Thread, TermTypes
  PROVE  WokenJoiner(t) \in Seq(Thread)
  BY SingleOnce, EmptyOnce DEF WokenJoiner, JoinerDone, TermTypes, Link

LEMMA DispatchTypes == ASSUME TypeOK, Dispatch PROVE TypeOK'
<1>1. /\ Head(ready_queue) \in Thread /\ Tail(ready_queue) \in Seq(Thread)
  BY DEF TypeOK, RunTypes, Dispatch
<1>2. RunTypes'
  BY <1>1 DEF Dispatch, TypeOK, RunTypes, QueueNames, KernelQueues, Link
<1>3. TimeTypes'
  BY DEF Dispatch, TypeOK, TimeTypes
<1>. QED BY <1>2, <1>3, BlockTypesSame, LoopTypesSame, TermTypesSame, HistoryTypesSame
     DEF Dispatch, TypeOK

LEMMA EndTimeSlotTypes == ASSUME TypeOK, EndTimeSlot PROVE TypeOK'
<1>1. RunTypes'
  BY DEF EndTimeSlot, TypeOK, RunTypes, QueueNames, KernelQueues
<1>2. LoopTypes'
  BY DEF EndTimeSlot, TypeOK, LoopTypes
<1>. QED BY <1>1, <1>2, BlockTypesSame, TermTypesSame, TimeTypesSame, HistoryTypesSame
     DEF EndTimeSlot, TypeOK

LEMMA WakeFromEdgeTypes ==
  ASSUME TypeOK, NEW t \in Thread, WakeFromEdge(t) PROVE TypeOK'
<1>1. <<t>> \in Seq(Thread) /\ Release(<<t>>) /\ RunTypes
  BY DEF WakeFromEdge, TypeOK
<1>2. ready_queue' \in Seq(Thread) /\ queue' \in [Thread -> QueueNames]
  BY <1>1, ReleaseTypes
<1>3. RunTypes' /\ LoopTypes'
  BY <1>2 DEF WakeFromEdge, InNoQueue, TypeOK, RunTypes, LoopTypes
<1>. QED BY <1>3, BlockTypesSame, TermTypesSame, TimeTypesSame, HistoryTypesSame
     DEF WakeFromEdge, TypeOK

LEMMA StartTimeSlotTypes ==
  ASSUME TypeOK, NEW posedge \in BOOLEAN, StartTimeSlot(posedge) PROVE TypeOK'
<1>1. /\ UNCHANGED <<thread, at, edge_req, end_of_simulation, blockVars, term_parent,
                     term_child, terminated, time_limit, forked, creator, value>>
      /\ in_loop' \in BOOLEAN /\ keep_looping' \in BOOLEAN
  BY DEF StartTimeSlot
<1>2. BlockTypes'
  BY <1>1, BlockTypesSame DEF TypeOK
<1>3. CASE UNCHANGED <<queue, ready_queue, internal_error, timeq, timeout, thread_join, expired>>
  BY <1>1, <1>2, <1>3 DEF TypeOK, RunTypes, LoopTypes, TermTypes, TimeTypes, HistoryTypes
<1>4. CASE CountTimeLimits
  <2>1. Expiry(timeq).gone \in Seq(Thread) /\ CountTimeq(timeq) \in TimeQueues
    BY ExpiryType, CountType DEF TypeOK, TimeTypes
  <2>2. ready_queue' \in Seq(Thread) /\ queue' \in [Thread -> QueueNames]
    BY <1>4, <2>1, ReleaseTypes DEF CountTimeLimits, TypeOK
  <2>3. internal_error' \in BOOLEAN
    BY <1>4 DEF CountTimeLimits
  <2>5. RunTypes' /\ LoopTypes'
    BY <1>1, <2>2, <2>3 DEF TypeOK, RunTypes, LoopTypes
  <2>4. TermTypes' /\ TimeTypes' /\ HistoryTypes'
    BY <1>1, <1>4, <2>1 DEF CountTimeLimits, TypeOK, TermTypes, TimeTypes, HistoryTypes
  <2>. QED BY <1>2, <2>4, <2>5 DEF TypeOK
<1>. QED BY <1>3, <1>4 DEF StartTimeSlot

LEMMA ExitTerminatedTypes ==
  ASSUME TypeOK, NEW t \in Thread, ExitTerminated(t) PROVE TypeOK'
<1>1. TermTypes' /\ TimeTypes'
  BY ExitTermLinkTypes DEF ExitTerminated, TypeOK, TermTypes
<1>2. RunTypes' /\ LoopTypes'
  BY BecomeZombieTypes, WokenJoinerType DEF ExitTerminated, TypeOK
<1>. QED BY <1>1, <1>2, BlockTypesSame, HistoryTypesSame DEF ExitTerminated, TypeOK

LEMMA BeginTypes == ASSUME TypeOK, NEW t \in Thread, Begin(t) PROVE TypeOK'
<1>1. CASE ExitTerminated(t)
  BY <1>1, ExitTerminatedTypes
<1>2. CASE ~ExitTerminated(t)
  <2>1. /\ at' = [at EXCEPT ![t] = "code"] \/ at' = at
        /\ thread' = thread \/ thread' = None
        /\ UNCHANGED <<ready_queue, queue, loopVars, blockVars, termVars, timeVars, history>>
    BY <1>2 DEF Begin
  <2>2. RunTypes'
    BY <2>1 DEF TypeOK, RunTypes, Link, Points, KernelPoints
  <2>. QED BY <2>1, <2>2, BlockTypesSame, LoopTypesSame, TermTypesSame, TimeTypesSame,
              HistoryTypesSame DEF TypeOK
<1>. QED BY <1>1, <1>2

LEMMA ResumeTypes == ASSUME TypeOK, NEW t \in Thread, Resume(t) PROVE TypeOK'
<1>1. CASE ExitTerminated(t)
  BY <1>1, ExitTerminatedTypes
<1>2. CASE ~ExitTerminated(t)
  <2>1. /\ at' = [at EXCEPT ![t] = "code"]
        /\ acc' = IF at[t] = "thread_join"
                  THEN [acc EXCEPT ![t] = IF timeout[t] THEN 0 ELSE 1] ELSE acc
        /\ UNCHANGED <<thread, ready_queue, queue, loopVars, parent, child, wait_child,
                       forking, form, termVars, timeVars, history>>
    BY <1>2 DEF Resume
  <2>2. RunTypes' /\ BlockTypes'
    BY <2>1 DEF TypeOK, RunTypes, BlockTypes, Points, KernelPoints
  <2>. QED BY <2>1, <2>2, LoopTypesSame, TermTypesSame, TimeTypesSame, HistoryTypesSame
       DEF TypeOK
<1>. QED BY <1>1, <1>2

LEMMA ForkTypes ==
  ASSUME TypeOK, NEW t \in Thread, NEW f \in Forms, Fork(t, f) PROVE TypeOK'
<1>1. BlockTypes' /\ HistoryTypes'
  BY DEF Fork, TypeOK, BlockTypes, HistoryTypes
<1>. QED BY <1>1, RunTypesSame, LoopTypesSame, TermTypesSame, TimeTypesSame
     DEF Fork, TypeOK

LEMMA ExecTypes ==
  ASSUME TypeOK, NEW t \in Thread, NEW c \in Thread, Exec(t, c) PROVE TypeOK'
<1>1. ready_queue' \in Seq(Thread)
  BY AppendRange DEF Exec, TypeOK, RunTypes
<1>2. RunTypes'
  BY <1>1 DEF Exec, TypeOK, RunTypes, QueueNames, KernelQueues
<1>3. BlockTypes' /\ TermTypes' /\ HistoryTypes'
  BY DEF Exec, TypeOK, BlockTypes, TermTypes, HistoryTypes, Link
<1>. QED BY <1>2, <1>3, LoopTypesSame, TimeTypesSame DEF Exec, TypeOK

LEMMA WaitForChildrenTypes ==
  ASSUME TypeOK, NEW t \in Thread, NEW n \in Int, NEW p \in {"join", "spoon"},
         WaitForChildren(t, n, p)
  PROVE  TypeOK'
<1>1. "sleep" \in QueueNames /\ p \in Points
  BY DEF QueueNames, KernelQueues, Points, KernelPoints, ResumePoints
<1>2. RunTypes'
  BY <1>1, SuspendTypes DEF WaitForChildren, TypeOK, RunTypes
<1>3. BlockTypes' /\ HistoryTypes'
  BY DEF WaitForChildren, TypeOK, BlockTypes, HistoryTypes
<1>. QED BY <1>2, <1>3, LoopTypesSame, TermTypesSame, TimeTypesSame
     DEF WaitForChildren, TypeOK

LEMMA JoinTypes == ASSUME TypeOK, NEW t \in Thread, Join(t) \/ Spoon(t) PROVE TypeOK'
<1>1. Cardinality(forked[t]) \in Int
  BY ThreadAssumption, FS_Subset, FS_CardinalityType DEF TypeOK, HistoryTypes
<1>. QED BY <1>1, WaitForChildrenTypes DEF Join, Spoon

LEMMA KnifeTypes == ASSUME TypeOK, NEW t \in Thread, Knife(t) PROVE TypeOK'
<1>1. BlockTypes'
  BY DEF Knife, TypeOK, BlockTypes, Link
<1>. QED BY <1>1, RunTypesSame, LoopTypesSame, TermTypesSame, TimeTypesSame,
            HistoryTypesSame DEF Knife, TypeOK

(* What the exit instructions have in common; terminated, acc and value are *)
(* theirs to set                                                            *)
LEMMA ExitInstructionTypes ==
  ASSUME TypeOK, NEW t \in Thread, NEW decided \in BOOLEAN, ExitInstruction(t, decided),
         acc' \in [Thread -> {0, 1}], value' \in [Thread -> {0, 1, None}],
         terminated' \in [Thread -> BOOLEAN]
  PROVE  TypeOK'
<1>1. TermTypes' /\ TimeTypes'
  BY ExitTermLinkTypes DEF ExitInstruction, TypeOK
<1>2. WokenParent(t, decided) \in Seq(Thread)
  BY SingleOnce, EmptyOnce DEF WokenParent, LastOut, TypeOK, BlockTypes, Link
<1>3. WokenParent(t, decided) \o WokenJoiner(t) \in Seq(Thread)
  BY <1>2, WokenJoinerType, ConcatRange DEF TypeOK
<1>4. NoSibling(t, decided) \in BOOLEAN
  BY DEF NoSibling
<1>5. RunTypes' /\ LoopTypes'
  BY <1>3, <1>4, BecomeZombieTypes DEF ExitInstruction, TypeOK
<1>6. BlockTypes'
  <2>1. parent' \in [Thread -> Link]
    BY DEF ExitInstruction, LeaveBlock, TypeOK, BlockTypes, Link
  <2>2. child' \in [Thread -> SUBSET Thread]
    BY DEF ExitInstruction, LeaveBlock, TypeOK, BlockTypes, Link
  <2>3. wait_child' \in [Thread -> Int]
    BY DEF ExitInstruction, LeaveBlock, TypeOK, BlockTypes, Link
  <2>. QED BY <2>1, <2>2, <2>3 DEF ExitInstruction, TypeOK, BlockTypes
<1>7. HistoryTypes'
  BY DEF ExitInstruction, TypeOK, HistoryTypes
<1>. QED BY <1>1, <1>5, <1>6, <1>7 DEF TypeOK

LEMMA ExitTypes == ASSUME TypeOK, NEW t \in Thread, Exit(t) PROVE TypeOK'
  BY ExitInstructionTypes DEF Exit, TypeOK, BlockTypes, TermTypes, HistoryTypes

(* What exit sets in a block of p_and or p_or *)
LEMMA ExitValues ==
  ASSUME TypeOK, NEW t \in Thread, NEW v \in {0, 1}, ExitWithValue(t, v)
  PROVE  \E decided \in BOOLEAN :
           /\ ExitInstruction(t, decided)
           /\ acc' \in [Thread -> {0, 1}]
           /\ value' \in [Thread -> {0, 1, None}]
           /\ terminated' \in [Thread -> BOOLEAN]
           /\ \A x \in Thread : terminated[x] => terminated'[x]
<1> DEFINE decided == parent[t] # None /\ Combined(t, v) = Decisive(form[t])
<1>1. /\ ExitInstruction(t, decided)
      /\ acc' = IF parent[t] = None THEN acc
                ELSE [acc EXCEPT ![parent[t]] = Combined(t, v)]
      /\ terminated' = [c \in Thread |-> terminated[c] \/ c \in CutOff(t, decided)]
      /\ value' = [value EXCEPT ![t] = v]
  BY DEF ExitWithValue
<1>2. decided \in BOOLEAN
  OBVIOUS
<1>3. Combined(t, v) \in {0, 1}
  BY DEF Combined
<1> HIDE DEF decided
<1>4. acc' \in [Thread -> {0, 1}]
  BY <1>1, <1>3 DEF TypeOK, BlockTypes
<1>5. /\ value' \in [Thread -> {0, 1, None}]
      /\ terminated' \in [Thread -> BOOLEAN]
      /\ \A x \in Thread : terminated[x] => terminated'[x]
  BY <1>1 DEF TypeOK, HistoryTypes, TermTypes
<1>. QED BY <1>1, <1>2, <1>4, <1>5

LEMMA ExitWithValueTypes ==
  ASSUME TypeOK, NEW t \in Thread, NEW v \in {0, 1}, ExitWithValue(t, v) PROVE TypeOK'
  BY ExitValues, ExitInstructionTypes

LEMMA TerminateTypes == ASSUME TypeOK, NEW t \in Thread, Terminate(t) PROVE TypeOK'
<1>1. TermTypes'
  BY DEF Terminate, TypeOK, TermTypes, Link
<1>. QED BY <1>1, RunTypesSame, LoopTypesSame, BlockTypesSame, TimeTypesSame,
            HistoryTypesSame DEF Terminate, TypeOK

(* A thread that puts itself into the ready queue, at its end or its top *)
LEMMA RequeueTypes ==
  ASSUME RunTypes, NEW t \in Thread, Suspend(t, "ready", "pause"),
         ready_queue' = Append(ready_queue, t) \/ ready_queue' = <<t>> \o ready_queue
  PROVE  RunTypes'
<1>1. ready_queue' \in Seq(Thread)
  <2>1. ready_queue \in Seq(Thread) /\ <<t>> \in Seq(Thread)
    BY DEF RunTypes
  <2>2. CASE ready_queue' = Append(ready_queue, t)
    BY <2>1, <2>2, AppendRange
  <2>3. CASE ready_queue' = <<t>> \o ready_queue
    BY <2>1, <2>3, ConcatRange, Zenon
  <2>. QED BY <2>2, <2>3
<1>2. "ready" \in QueueNames /\ "pause" \in Points
  BY DEF QueueNames, KernelQueues, Points, KernelPoints, ResumePoints
<1>. QED BY <1>1, <1>2, SuspendTypes

LEMMA ThreadPauseTypes == ASSUME TypeOK, NEW t \in Thread, ThreadPause(t) PROVE TypeOK'
<1>1. RunTypes'
  BY RequeueTypes DEF ThreadPause, TypeOK
<1>. QED BY <1>1, LoopTypesSame, BlockTypesSame, TermTypesSame, TimeTypesSame,
            HistoryTypesSame DEF ThreadPause, TypeOK

LEMMA ThreadJoinTypes ==
  ASSUME TypeOK, NEW t \in Thread, NEW limit \in JoinLimits \cup {0}, ThreadJoin(t, limit)
  PROVE  TypeOK'
<1>1. limit \in Nat
  BY LimitAssumption
<1>2. "sleep" \in QueueNames /\ "thread_join" \in Points
  BY DEF QueueNames, KernelQueues, Points, KernelPoints, ResumePoints
<1>3. RunTypes'
  BY <1>2, SuspendTypes DEF ThreadJoin, TypeOK, RunTypes
<1>4. TimeTypes' /\ LoopTypes'
  BY <1>1, SetTimeLimitTypes DEF ThreadJoin, TypeOK
<1>5. TermTypes' /\ HistoryTypes'
  BY DEF ThreadJoin, SetTimeLimit, TypeOK, TermTypes, HistoryTypes
<1>. QED BY <1>3, <1>4, <1>5, BlockTypesSame DEF ThreadJoin, TypeOK

LEMMA SyncOnEdgeTypes == ASSUME TypeOK, NEW t \in Thread, SyncOnEdge(t) PROVE TypeOK'
<1>1. "port" \in QueueNames /\ "port" \in Points
  BY DEF QueueNames, KernelQueues, Points, KernelPoints, ResumePoints
<1>2. RunTypes'
  BY <1>1, SuspendTypes DEF SyncOnEdge, TypeOK, RunTypes
<1>3. LoopTypes' /\ HistoryTypes'
  BY DEF SyncOnEdge, TypeOK, LoopTypes, HistoryTypes
<1>. QED BY <1>2, <1>3, BlockTypesSame, TermTypesSame, TimeTypesSame DEF SyncOnEdge, TypeOK

LEMMA StopLoopTypes ==
  ASSUME TypeOK, NEW t \in Thread, NEW end \in BOOLEAN, StopLoop(t, end)
  PROVE  TypeOK'
<1>1. RunTypes'
  BY RequeueTypes DEF StopLoop, TypeOK
<1>2. LoopTypes'
  BY DEF StopLoop, TypeOK, LoopTypes
<1>. QED BY <1>1, <1>2, BlockTypesSame, TermTypesSame, TimeTypesSame, HistoryTypesSame
     DEF StopLoop, TypeOK

LEMMA MainReturnsTypes == ASSUME TypeOK, MainReturns PROVE TypeOK'
<1>1. RunTypes'
  BY MainAssumption
  DEF MainReturns, TypeOK, RunTypes, Link, QueueNames, KernelQueues, Points, KernelPoints
<1>2. LoopTypes'
  BY DEF MainReturns, TypeOK, LoopTypes
<1>. QED BY <1>1, <1>2, BlockTypesSame, TermTypesSame, TimeTypesSame, HistoryTypesSame
     DEF MainReturns, TypeOK

LEMMA TypesSame == TypeOK /\ UNCHANGED vars => TypeOK'
  BY RunTypesSame, LoopTypesSame, BlockTypesSame, TermTypesSame, TimeTypesSame,
     HistoryTypesSame DEF vars, TypeOK

LEMMA TypeStep == TypeOK /\ [Next]_vars => TypeOK'
<1> SUFFICES ASSUME TypeOK, [Next]_vars PROVE TypeOK'
  OBVIOUS
<1>1. CASE UNCHANGED vars
  BY <1>1, TypesSame
<1>2. CASE Scheduler
  BY <1>2, DispatchTypes, EndTimeSlotTypes, StartTimeSlotTypes, WakeFromEdgeTypes
  DEF Scheduler
<1>3. CASE MainReturns
  BY <1>3, MainReturnsTypes
<1>4. ASSUME NEW t \in Thread, Step(t) PROVE TypeOK'
  <2>1. CASE Begin(t) \/ Resume(t)
    BY <2>1, BeginTypes, ResumeTypes
  <2>2. CASE Blocks(t)
    BY <2>2, ForkTypes, ExecTypes, JoinTypes, KnifeTypes, ExitTypes, ExitWithValueTypes
    DEF Blocks
  <2>3. CASE Terminate(t) \/ ThreadPause(t) \/ SyncOnEdge(t)
    BY <2>3, TerminateTypes, ThreadPauseTypes, SyncOnEdgeTypes
  <2>4. CASE \E limit \in JoinLimits \cup {0} : ThreadJoin(t, limit)
    BY <2>4, ThreadJoinTypes
  <2>5. CASE ExitSimulation(t) \/ VerifError(t)
    BY <2>5, StopLoopTypes DEF ExitSimulation, VerifError, TypeOK, LoopTypes
  <2>. QED BY <1>4, <2>1, <2>2, <2>3, <2>4, <2>5 DEF Step
<1>. QED BY <1>1, <1>2, <1>3, <1>4 DEF Next, SimulationOver

(* Type correctness of the thread kernel, for any threads, either build and *)
(* any time limits. It covers the steps on a queue with a thread that was   *)
(* entered twice: the search and the count of JD_enqueue_timeq and          *)
(* JD_count_timeq, to their end, leave only threads in the links and whole  *)
(* numbers, which may be negative, in the counts, and a loop without an end *)
(* (EndlessSearch, EndlessCount) stops the program in internal_error.       *)
THEOREM TypeCorrect == Spec => []TypeOK
<1>1. Init => TypeOK
  BY TypeInit
<1>. QED BY <1>1, TypeStep, PTL DEF Spec
-----------------------------------------------------------------------------
(* Every thread is in one place, unless the kernel has found an error.      *)
(* Without time limits nothing enters the time-out queue.                   *)
PlaceInv == internal_error \/ OnePlace

LEMMA NoTimersSame == NoTimers /\ UNCHANGED timeVars => NoTimers'
  BY DEF NoTimers, timeVars

LEMMA PlaceInit == Init => PlaceInv
<1> SUFFICES ASSUME Init PROVE OnePlace
  BY DEF PlaceInv
<1> USE MainAssumption DEF Init
<1>1. IsInjective(ready_queue) /\ Range(ready_queue) = {Main}
  BY SingleOnce
<1>. QED BY <1>1, NoneAssumption, QueueAssumption
     DEF OnePlace, Lost, KernelQueues

(* A thread that suspends itself in queue q to go on at point p *)
LEMMA SuspendPlace ==
  ASSUME OnePlace, RunTypes, NEW t \in Thread, thread = t,
         NEW q \in QueueNames \ {"none", "ready"}, NEW p \in Points,
         Suspend(t, q, p), UNCHANGED <<ready_queue, terminated>>,
         edge_req' = IF q = "port" THEN edge_req \cup {t} ELSE edge_req,
         q \in {"port"} \cup ObjQueues => p = q,
         q = "sleep" => p \in {"join", "spoon", "thread_join"}
  PROVE  OnePlace'
  BY NoneAssumption, QueueAssumption DEF OnePlace, Lost, RunTypes, Suspend, Link, KernelQueues

LEMMA DispatchPlace ==
  ASSUME TypeOK, NoTimers, PlaceInv, Dispatch
  PROVE  NoTimers' /\ PlaceInv'
<1>1. OnePlace /\ ~internal_error
  BY DEF Dispatch, PlaceInv
<1>2. RunTypes
  BY DEF TypeOK
<1> DEFINE t == Head(ready_queue)
<1>3. /\ t \in Thread /\ t \in Range(ready_queue)
      /\ IsInjective(Tail(ready_queue))
      /\ Range(Tail(ready_queue)) = Range(ready_queue) \ {t}
  BY <1>1, <1>2, TailOnce DEF Dispatch, RunTypes, OnePlace
<1>4. /\ thread' = t /\ queue' = [queue EXCEPT ![t] = "none"]
      /\ ready_queue' = Tail(ready_queue) /\ thread = None
      /\ UNCHANGED <<at, terminated, edge_req>>
  BY DEF Dispatch, termVars, loopVars
<1> HIDE DEF t
<1>5. OnePlace'
  BY <1>1, <1>2, <1>3, <1>4, NoneAssumption, QueueAssumption
     DEF OnePlace, Lost, RunTypes, KernelQueues
<1>6. NoTimers'
  BY DEF Dispatch, NoTimers
<1>. QED BY <1>5, <1>6 DEF PlaceInv

LEMMA EndTimeSlotPlace ==
  ASSUME TypeOK, NoTimers, PlaceInv, EndTimeSlot
  PROVE  NoTimers' /\ PlaceInv'
<1>1. OnePlace'
  BY QueueAssumption
  DEF EndTimeSlot, TypeOK, RunTypes, PlaceInv, OnePlace, Lost, termVars, KernelQueues
<1>. QED BY <1>1, NoTimersSame DEF EndTimeSlot, PlaceInv

LEMMA WakeFromEdgePlace ==
  ASSUME TypeOK, NoTimers, PlaceInv, NEW t \in Thread, WakeFromEdge(t)
  PROVE  NoTimers' /\ PlaceInv'
<1>1. OnePlace /\ RunTypes /\ queue[t] = "port" /\ t \notin Range(ready_queue)
  BY DEF WakeFromEdge, PlaceInv, OnePlace, TypeOK
<1>2. /\ queue' = [x \in Thread |-> IF x = t THEN "ready" ELSE queue[x]]
      /\ ready_queue' = ready_queue \o <<t>>
  BY <1>1, SingleOnce DEF WakeFromEdge, Release
<1>3. /\ IsInjective(ready_queue')
      /\ Range(ready_queue') = Range(ready_queue) \cup {t}
  <2>1. ready_queue' = Append(ready_queue, t)
    BY <1>1, <1>2 DEF RunTypes
  <2>. QED BY <1>1, <2>1, AppendOnce DEF RunTypes, OnePlace
<1>4. edge_req' = edge_req \ {t} /\ UNCHANGED <<thread, at, terminated>>
  BY DEF WakeFromEdge, termVars
<1>5. OnePlace'
  BY <1>1, <1>2, <1>3, <1>4, QueueAssumption DEF OnePlace, Lost, RunTypes, KernelQueues
<1>. QED BY <1>5, NoTimersSame DEF WakeFromEdge, PlaceInv

LEMMA StartTimeSlotPlace ==
  ASSUME TypeOK, NoTimers, PlaceInv, NEW posedge \in BOOLEAN, StartTimeSlot(posedge)
  PROVE  NoTimers' /\ PlaceInv'
<1>1. UNCHANGED <<queue, ready_queue, internal_error, timeq>>
  BY DEF StartTimeSlot, NoTimers
<1>. QED BY <1>1 DEF StartTimeSlot, NoTimers, PlaceInv, OnePlace, Lost

(* What JD_thread_exit does to the run queues *)
LEMMA BecomeZombiePlace ==
  ASSUME OnePlace, RunTypes, NEW t \in Thread, thread = t,
         NEW woken \in Seq(Thread), NEW error \in BOOLEAN,
         BecomeZombie(t, woken, error),
         \A x \in Thread : terminated[x] => terminated'[x]
  PROVE  PlaceInv'
<1> SUFFICES ASSUME ~internal_error' PROVE OnePlace'
  BY DEF PlaceInv
<1>1. /\ \A x \in Range(woken) : queue[x] = "sleep"
      /\ IsInjective(woken)
  BY DEF BecomeZombie, QueueInconsistent
<1>2. /\ IsInjective(ready_queue')
      /\ Range(ready_queue') = Range(ready_queue) \cup Range(woken)
  <2>1. Range(woken) \subseteq Thread
    BY DEF Range
  <2>2. Range(ready_queue) \cap Range(woken) = {}
    BY <1>1, <2>1 DEF OnePlace
  <2>. QED BY <1>1, <2>2, ConcatRange, ConcatOnce DEF BecomeZombie, RunTypes, OnePlace
<1>3. queue[t] = "none" /\ t \notin Range(woken)
  BY <1>1 DEF OnePlace
<1>4. /\ thread' = None /\ UNCHANGED edge_req
      /\ queue' = [x \in Thread |-> IF x = t THEN "zombie"
                              ELSE IF x \in Range(woken) THEN "ready" ELSE queue[x]]
      /\ at' = [at EXCEPT ![t] = "exited"]
  BY DEF BecomeZombie
<1>. QED BY <1>1, <1>2, <1>3, <1>4, NoneAssumption, QueueAssumption
         DEF OnePlace, Lost, RunTypes, KernelQueues

LEMMA ExitTermLinkTimers ==
  ASSUME NEW t \in Thread, TimeTypes, NoTimers, ExitTermLink(t) PROVE NoTimers'
  BY DEF ExitTermLink, TimeTypes, NoTimers

LEMMA ExitTerminatedPlace ==
  ASSUME TypeOK, NoTimers, OnePlace, NEW t \in Thread, thread = t, ExitTerminated(t)
  PROVE  NoTimers' /\ PlaceInv'
<1>1. NoTimers'
  BY ExitTermLinkTimers DEF ExitTerminated, TypeOK
<1>2. PlaceInv'
  BY BecomeZombiePlace, WokenJoinerType DEF ExitTerminated, TypeOK
<1>. QED BY <1>1, <1>2

LEMMA BeginPlace ==
  ASSUME TypeOK, NoTimers, PlaceInv, NEW t \in Thread, Begin(t)
  PROVE  NoTimers' /\ PlaceInv'
<1>1. OnePlace /\ RunTypes /\ thread = t /\ at[t] = "start" /\ queue[t] = "none"
  BY DEF Begin, PlaceInv, TypeOK, OnePlace
<1>2. CASE at' = [at EXCEPT ![t] = "code"] /\ UNCHANGED <<thread, ready_queue, queue,
              loopVars, blockVars, termVars, timeVars, history>>
  <2>1. OnePlace'
    BY <1>1, <1>2, QueueAssumption
    DEF OnePlace, Lost, RunTypes, termVars, loopVars, KernelQueues
  <2>. QED BY <1>2, <2>1, NoTimersSame DEF PlaceInv
<1>3. CASE ExitTerminated(t)
  BY <1>1, <1>3, ExitTerminatedPlace
<1>4. CASE /\ terminated[t] /\ thread' = None
           /\ UNCHANGED <<ready_queue, queue, at, loopVars, blockVars, termVars,
                          timeVars, history>>
  <2>1. OnePlace'
    BY <1>1, <1>4, NoneAssumption DEF OnePlace, Lost, RunTypes, termVars, loopVars
  <2>. QED BY <1>4, <2>1, NoTimersSame DEF PlaceInv
<1>. QED BY <1>2, <1>3, <1>4 DEF Begin, Stopped

LEMMA ResumePlace ==
  ASSUME TypeOK, NoTimers, PlaceInv, NEW t \in Thread, Resume(t)
  PROVE  NoTimers' /\ PlaceInv'
<1>1. OnePlace /\ RunTypes /\ thread = t /\ queue[t] = "none"
  BY DEF Resume, PlaceInv, TypeOK, OnePlace
<1>2. CASE ExitTerminated(t)
  BY <1>1, <1>2, ExitTerminatedPlace
<1>3. CASE ~ExitTerminated(t)
  <2>1. /\ at' = [at EXCEPT ![t] = "code"]
        /\ UNCHANGED <<thread, ready_queue, queue, loopVars, termVars, timeVars>>
    BY <1>3 DEF Resume
  <2>2. OnePlace'
    BY <1>1, <2>1, QueueAssumption
    DEF Resume, OnePlace, Lost, RunTypes, termVars, loopVars, KernelQueues, ResumePoints
  <2>. QED BY <2>1, <2>2, NoTimersSame DEF PlaceInv
<1>. QED BY <1>2, <1>3

LEMMA ForkPlace ==
  ASSUME TypeOK, NoTimers, PlaceInv, NEW t \in Thread, NEW f \in Forms, Fork(t, f)
  PROVE  NoTimers' /\ PlaceInv'
<1>1. PlaceInv'
  BY DEF Fork, PlaceInv, OnePlace, Lost, runVars, loopVars, termVars
<1>. QED BY <1>1, NoTimersSame DEF Fork

LEMMA ExecPlace ==
  ASSUME TypeOK, NoTimers, PlaceInv, NEW t \in Thread, NEW c \in Thread, Exec(t, c)
  PROVE  NoTimers' /\ PlaceInv'
<1>1. /\ OnePlace /\ RunTypes /\ thread = t /\ queue[c] = "unallocated"
      /\ c \notin Range(ready_queue)
  BY DEF Exec, Executes, PlaceInv, TypeOK, OnePlace
<1>2. /\ IsInjective(ready_queue')
      /\ Range(ready_queue') = Range(ready_queue) \cup {c}
  BY <1>1, AppendOnce DEF Exec, RunTypes, OnePlace
<1>3. OnePlace'
  BY <1>1, <1>2, QueueAssumption
  DEF Exec, OnePlace, Lost, RunTypes, loopVars, KernelQueues
<1>. QED BY <1>3, NoTimersSame DEF Exec, PlaceInv

LEMMA WaitForChildrenPlace ==
  ASSUME TypeOK, NoTimers, PlaceInv, NEW t \in Thread, Executes(t), NEW n \in Int,
         NEW p \in {"join", "spoon"}, WaitForChildren(t, n, p)
  PROVE  NoTimers' /\ PlaceInv'
<1>1. OnePlace /\ RunTypes /\ thread = t
  BY DEF Executes, PlaceInv, TypeOK
<1>2. OnePlace'
  <2>1. /\ Suspend(t, "sleep", p) /\ UNCHANGED <<ready_queue, terminated, edge_req>>
    BY DEF WaitForChildren, termVars, loopVars
  <2>2. "sleep" \in QueueNames \ {"none", "ready"} /\ p \in Points
    BY DEF QueueNames, KernelQueues, Points, KernelPoints, ResumePoints
  <2>. QED BY <1>1, <2>1, <2>2, QueueAssumption, SuspendPlace DEF KernelQueues
<1>. QED BY <1>2, NoTimersSame DEF WaitForChildren, PlaceInv

LEMMA JoinPlace ==
  ASSUME TypeOK, NoTimers, PlaceInv, NEW t \in Thread, Join(t) \/ Spoon(t)
  PROVE  NoTimers' /\ PlaceInv'
<1>1. Cardinality(forked[t]) \in Int
  BY ThreadAssumption, FS_Subset, FS_CardinalityType DEF TypeOK, HistoryTypes
<1>. QED BY <1>1, WaitForChildrenPlace DEF Join, Spoon, EndsBlock

LEMMA KnifePlace ==
  ASSUME TypeOK, NoTimers, PlaceInv, NEW t \in Thread, Knife(t)
  PROVE  NoTimers' /\ PlaceInv'
<1>1. PlaceInv'
  BY DEF Knife, PlaceInv, OnePlace, Lost, runVars, loopVars, termVars
<1>. QED BY <1>1, NoTimersSame DEF Knife

LEMMA ExitInstructionPlace ==
  ASSUME TypeOK, NoTimers, OnePlace, NEW t \in Thread, thread = t,
         NEW decided \in BOOLEAN, ExitInstruction(t, decided),
         \A x \in Thread : terminated[x] => terminated'[x]
  PROVE  NoTimers' /\ PlaceInv'
<1>1. NoTimers'
  BY ExitTermLinkTimers DEF ExitInstruction, TypeOK
<1>2. WokenParent(t, decided) \in Seq(Thread)
  BY SingleOnce, EmptyOnce DEF WokenParent, LastOut, TypeOK, BlockTypes, Link
<1>3. WokenParent(t, decided) \o WokenJoiner(t) \in Seq(Thread)
  BY <1>2, WokenJoinerType, ConcatRange DEF TypeOK
<1>4. NoSibling(t, decided) \in BOOLEAN
  BY DEF NoSibling
<1>5. PlaceInv'
  BY <1>3, <1>4, BecomeZombiePlace DEF ExitInstruction, TypeOK
<1>. QED BY <1>1, <1>5

LEMMA ExitPlace ==
  ASSUME TypeOK, NoTimers, PlaceInv, NEW t \in Thread,
         Exit(t) \/ \E v \in {0, 1} : ExitWithValue(t, v)
  PROVE  NoTimers' /\ PlaceInv'
<1>1. OnePlace /\ thread = t
  BY DEF Exit, ExitWithValue, Runs, Executes, PlaceInv
<1>2. \E decided \in BOOLEAN : /\ ExitInstruction(t, decided)
                               /\ \A x \in Thread : terminated[x] => terminated'[x]
  BY ExitValues DEF Exit
<1>. QED BY <1>1, <1>2, ExitInstructionPlace

LEMMA TerminatePlace ==
  ASSUME TypeOK, NoTimers, PlaceInv, NEW t \in Thread, Terminate(t)
  PROVE  NoTimers' /\ PlaceInv'
<1>1. PlaceInv'
  BY DEF Terminate, TypeOK, TermTypes, PlaceInv, OnePlace, Lost, runVars, loopVars
<1>. QED BY <1>1, NoTimersSame DEF Terminate

(* A thread that puts itself into the ready queue, at its end or its top *)
LEMMA RequeuePlace ==
  ASSUME OnePlace, RunTypes, NEW t \in Thread, thread = t, Suspend(t, "ready", "pause"),
         ready_queue' = Append(ready_queue, t) \/ ready_queue' = <<t>> \o ready_queue,
         UNCHANGED <<terminated, edge_req>>
  PROVE  OnePlace'
<1>1. t \notin Range(ready_queue) /\ queue[t] = "none"
  BY DEF OnePlace
<1>2. /\ IsInjective(ready_queue')
      /\ Range(ready_queue') = Range(ready_queue) \cup {t}
  <2>1. ready_queue \in Seq(Thread) /\ IsInjective(ready_queue)
    BY DEF RunTypes, OnePlace
  <2>2. CASE ready_queue' = Append(ready_queue, t)
    BY <1>1, <2>1, <2>2, AppendOnce
  <2>3. CASE ready_queue' = <<t>> \o ready_queue
    BY <1>1, <2>1, <2>3, TopOnce, Zenon
  <2>. QED BY <2>2, <2>3
<1>. QED BY <1>1, <1>2, NoneAssumption, QueueAssumption
     DEF Suspend, OnePlace, Lost, RunTypes, KernelQueues

LEMMA ThreadPausePlace ==
  ASSUME TypeOK, NoTimers, PlaceInv, NEW t \in Thread, ThreadPause(t)
  PROVE  NoTimers' /\ PlaceInv'
<1>1. OnePlace'
  BY RequeuePlace
  DEF ThreadPause, Runs, Executes, PlaceInv, TypeOK, termVars, loopVars
<1>. QED BY <1>1, NoTimersSame DEF ThreadPause, PlaceInv

LEMMA ThreadJoinPlace ==
  ASSUME TypeOK, NoTimers, PlaceInv, NEW t \in Thread, ThreadJoin(t, 0)
  PROVE  NoTimers' /\ PlaceInv'
<1>1. OnePlace /\ RunTypes /\ thread = t
  BY DEF ThreadJoin, Runs, Executes, PlaceInv, TypeOK
<1>2. OnePlace'
  <2>1. /\ Suspend(t, "sleep", "thread_join")
        /\ UNCHANGED <<ready_queue, terminated, edge_req>>
    BY DEF ThreadJoin, SetTimeLimit
  <2>2. "sleep" \in QueueNames \ {"none", "ready"} /\ "thread_join" \in Points
    BY DEF QueueNames, KernelQueues, Points, KernelPoints, ResumePoints
  <2>. QED BY <1>1, <2>1, <2>2, QueueAssumption, SuspendPlace DEF KernelQueues
<1>3. NoTimers'
  BY DEF ThreadJoin, SetTimeLimit, TypeOK, TimeTypes, NoTimers
<1>. QED BY <1>2, <1>3 DEF PlaceInv

LEMMA SyncOnEdgePlace ==
  ASSUME TypeOK, NoTimers, PlaceInv, NEW t \in Thread, SyncOnEdge(t)
  PROVE  NoTimers' /\ PlaceInv'
<1>1. OnePlace /\ RunTypes /\ thread = t
  BY DEF SyncOnEdge, Runs, Executes, PlaceInv, TypeOK
<1>2. OnePlace'
  <2>1. /\ Suspend(t, "port", "port") /\ edge_req' = edge_req \cup {t}
        /\ UNCHANGED <<ready_queue, terminated>>
    BY DEF SyncOnEdge, termVars
  <2>2. "port" \in QueueNames \ {"none", "ready"} /\ "port" \in Points
    BY DEF QueueNames, KernelQueues, Points, KernelPoints, ResumePoints
  <2>. QED BY <1>1, <2>1, <2>2, SuspendPlace
<1>. QED BY <1>2, NoTimersSame DEF SyncOnEdge, PlaceInv

LEMMA StopLoopPlace ==
  ASSUME TypeOK, NoTimers, PlaceInv, NEW t \in Thread, NEW end \in BOOLEAN,
         StopLoop(t, end)
  PROVE  NoTimers' /\ PlaceInv'
<1>1. OnePlace'
  BY RequeuePlace DEF StopLoop, Runs, Executes, PlaceInv, TypeOK, termVars
<1>. QED BY <1>1, NoTimersSame DEF StopLoop, PlaceInv

LEMMA MainReturnsPlace ==
  ASSUME TypeOK, NoTimers, PlaceInv, MainReturns
  PROVE  NoTimers' /\ PlaceInv'
<1>1. OnePlace /\ RunTypes /\ thread = Main /\ queue[Main] = "none"
  BY MainAssumption DEF MainReturns, Runs, Executes, PlaceInv, TypeOK, OnePlace
<1>2. OnePlace'
  BY <1>1, MainAssumption, NoneAssumption, QueueAssumption
  DEF MainReturns, OnePlace, Lost, RunTypes, termVars, KernelQueues
<1>. QED BY <1>2, NoTimersSame DEF MainReturns, PlaceInv

LEMMA PlaceStep ==
  ASSUME JoinLimits = {}, TypeOK, NoTimers, PlaceInv, [Next]_vars
  PROVE  TypeOK' /\ NoTimers' /\ PlaceInv'
<1> SUFFICES NoTimers' /\ PlaceInv'
  BY TypeStep
<1>1. CASE UNCHANGED vars
  <2>1. PlaceInv'
    BY <1>1 DEF vars, runVars, loopVars, termVars, PlaceInv, OnePlace, Lost
  <2>. QED BY <1>1, <2>1, NoTimersSame DEF vars
<1>2. CASE Scheduler
  BY <1>2, DispatchPlace, EndTimeSlotPlace, StartTimeSlotPlace, WakeFromEdgePlace
  DEF Scheduler
<1>3. CASE MainReturns
  BY <1>3, MainReturnsPlace
<1>4. ASSUME NEW t \in Thread, Step(t)
      PROVE  NoTimers' /\ PlaceInv'
  <2>1. CASE Begin(t) \/ Resume(t)
    BY <2>1, BeginPlace, ResumePlace
  <2>2. CASE Blocks(t)
    BY <2>2, ForkPlace, ExecPlace, JoinPlace, KnifePlace, ExitPlace DEF Blocks
  <2>3. CASE Terminate(t) \/ ThreadPause(t) \/ SyncOnEdge(t)
    BY <2>3, TerminatePlace, ThreadPausePlace, SyncOnEdgePlace
  <2>4. CASE \E limit \in JoinLimits \cup {0} : ThreadJoin(t, limit)
    BY <2>4, ThreadJoinPlace
  <2>5. CASE ExitSimulation(t) \/ VerifError(t)
    BY <2>5, StopLoopPlace DEF ExitSimulation, VerifError, TypeOK, LoopTypes
  <2>. QED BY <1>4, <2>1, <2>2, <2>3, <2>4, <2>5 DEF Step
<1>. QED BY <1>1, <1>2, <1>3, <1>4 DEF Next, SimulationOver
-----------------------------------------------------------------------------
(***************************************************************************)
(* Safety: IInv is an inductive invariant.  There is one lemma per action. *)
(* The steps that change neither the blocks nor the termination tree are   *)
(* Steady; the steps of a block change the sibling list of the thread that *)
(* executes; the steps that end a thread share Leaves; terminate cuts a    *)
(* whole subtree off, and rests on the fact that the walk down the         *)
(* termination tree takes a child together with the parent that sleeps for *)
(* it (TerminateReaches).                                                  *)
(***************************************************************************)

(* Steps that leave the blocks alone *)
LEMMA BlockFrame ==
  ASSUME BlockInv, UNCHANGED <<parent, child, wait_child, terminated, forked>>,
         \A t \in Thread : Alive(t)' <=> Alive(t),
         \A t \in Thread : InBlock(t)' <=> InBlock(t),
         \A t \in Thread : InBlock(t) => at'[t] = at[t],
         \A t \in Thread : Forking(t)' <=> Forking(t),
         BlockTypes
  PROVE  BlockInv'
<1>1. ASSUME NEW t \in Thread PROVE Reports(t)' <=> Reports(t)
  BY DEF Reports
<1>2. ASSUME NEW p \in Thread, InBlock(p), Counted(p) PROVE Counted(p)'
  BY <1>1, <1>2 DEF Counted, BlockTypes
<1>3. ASSUME NEW p \in Thread, Abandoned(p) PROVE Abandoned(p)'
  BY <1>1, <1>3 DEF Abandoned
<1>4. (\A c \in Thread : Reports(c) =>
        c \in child[parent[c]] /\ (InBlock(parent[c]) \/ Forking(parent[c])))'
  BY <1>1 DEF BlockInv, Reports, BlockTypes, Link
<1>5. (\A p \in Thread : InBlock(p) => Counted(p) \/ Abandoned(p))'
  BY <1>2, <1>3 DEF BlockInv
<1>6. (\A p \in Thread : Forking(p) =>
         /\ forked[p] = child[p]
         /\ \A c \in child[p] : parent[c] = p /\ Reports(c))'
  BY <1>1 DEF BlockInv, BlockTypes
<1>7. (\A p \in Thread : ~InBlock(p) /\ ~Forking(p) => child[p] = {})'
  BY DEF BlockInv
<1>8. (\A c \in Thread : Alive(c) /\ terminated[c] /\ parent[c] # None =>
         terminated[parent[c]])'
  BY DEF BlockInv
<1>. QED BY <1>4, <1>5, <1>6, <1>7, <1>8 DEF BlockInv
-----------------------------------------------------------------------------
(* Walks: Reach yields the least set that contains the start and is closed *)

LEMMA ReachLeast ==
  ASSUME NEW first, NEW next, NEW S \in SUBSET Thread,
         first \subseteq S, \A x \in S : next[x] \subseteq S
  PROVE  Reach(first, next) \subseteq S
  BY DEF Reach

LEMMA ReachFirst ==
  ASSUME NEW first \in SUBSET Thread, NEW next
  PROVE  first \subseteq Reach(first, next)
  BY DEF Reach

LEMMA ReachClosed ==
  ASSUME NEW first, NEW next \in [Thread -> SUBSET Thread], NEW x \in Reach(first, next)
  PROVE  next[x] \subseteq Reach(first, next)
  BY DEF Reach

LEMMA ReachStep ==
  ASSUME NEW first \in SUBSET Thread, NEW next \in [Thread -> SUBSET Thread],
         NEW y \in Reach(first, next)
  PROVE  y \in first \/ \E x \in Reach(first, next) : y \in next[x]
<1> DEFINE R == Reach(first, next)
           S == first \cup UNION {next[x] : x \in R}
<1>1. R \subseteq Thread
  BY DEF Reach
<1>2. S \subseteq R
  BY ReachFirst, ReachClosed
<1>3. \A x \in S : next[x] \subseteq S
  BY <1>2
<1>4. S \in SUBSET Thread
  BY <1>1, <1>2
<1>5. R \subseteq S
  BY <1>3, <1>4, ReachLeast, ZenonT(30)
<1>. QED BY <1>5

LEMMA CreatorsType ==
  ASSUME HistoryTypes
  PROVE  Creators \in [Thread -> SUBSET Thread]
  BY DEF HistoryTypes, Creators, Link

LEMMA AncestorsType == \A t \in Thread : Ancestors(t) \subseteq Thread
  BY DEF Ancestors, Reach

LEMMA AncestorsFirst ==
  ASSUME HistoryTypes, NEW t \in Thread, creator[t] # None
  PROVE  creator[t] \in Ancestors(t)
  BY CreatorsType, ReachFirst DEF Ancestors, Creators, HistoryTypes, Link

LEMMA AncestorsTrans ==
  ASSUME HistoryTypes, NEW t \in Thread, NEW a \in Ancestors(t)
  PROVE  Ancestors(a) \subseteq Ancestors(t)
<1>1. Ancestors(t) \in SUBSET Thread /\ a \in Thread
  BY AncestorsType
<1>2. \A x \in Ancestors(t) : Creators[x] \subseteq Ancestors(t)
  BY CreatorsType, ReachClosed DEF Ancestors
<1>. QED BY <1>1, <1>2, ReachLeast DEF Ancestors

(* A new thread adds itself below its creator and changes nothing else *)
LEMMA AncestorsExec ==
  ASSUME HistoryTypes, NEW t \in Thread, NEW c \in Thread, t # c,
         creator[c] = None, \A x \in Thread : creator[x] # c,
         creator' = [creator EXCEPT ![c] = t]
  PROVE  /\ \A x \in Thread \ {c} : Ancestors(x)' = Ancestors(x)
         /\ Ancestors(c)' = Ancestors(t) \cup {t}
         /\ \A x \in Thread : c \notin Ancestors(x)
<1>1. /\ Creators \in [Thread -> SUBSET Thread] /\ Creators' \in [Thread -> SUBSET Thread]
      /\ \A x \in Thread \ {c} : Creators'[x] = Creators[x]
      /\ Creators[c] = {} /\ Creators'[c] = {t}
      /\ \A x \in Thread : c \notin Creators[x]
  BY NoneAssumption DEF HistoryTypes, Creators, Link
<1>2. \A x \in Thread : c \notin Ancestors(x)
  <2> SUFFICES ASSUME NEW x \in Thread PROVE Ancestors(x) \subseteq Thread \ {c}
    OBVIOUS
  <2> DEFINE S == Thread \ {c}
  <2>1. S \in SUBSET Thread /\ Creators[x] \subseteq S /\ \A y \in S : Creators[y] \subseteq S
    BY <1>1
  <2> HIDE DEF S
  <2>2. Ancestors(x) \subseteq S
    BY <2>1, ReachLeast DEF Ancestors
  <2>. QED BY <2>2 DEF S
<1>3. \A x \in Thread : Ancestors(x)' = Reach(Creators'[x], Creators')
  BY DEF Ancestors
<1>4. ASSUME NEW x \in Thread \ {c} PROVE Ancestors(x)' = Ancestors(x)
  <2>1. Reach(Creators'[x], Creators') \subseteq Ancestors(x)
    <3>1. Creators'[x] \subseteq Ancestors(x)
      BY <1>1, ReachFirst DEF Ancestors
    <3>2. \A y \in Ancestors(x) : Creators'[y] \subseteq Ancestors(x)
      BY <1>1, <1>2, AncestorsType, ReachClosed DEF Ancestors
    <3>. QED BY <3>1, <3>2, AncestorsType, ReachLeast
  <2>2. Ancestors(x) \subseteq Reach(Creators'[x], Creators')
    <3> DEFINE S == Reach(Creators'[x], Creators')
    <3>1. S \in SUBSET Thread
      BY DEF Reach
    <3>2. Creators[x] \subseteq S
      BY <1>1, ReachFirst
    <3>3. \A y \in S : Creators[y] \subseteq S
      BY <1>1, <3>1, ReachClosed
    <3> HIDE DEF S
    <3>4. Ancestors(x) \subseteq S
      BY <3>1, <3>2, <3>3, ReachLeast DEF Ancestors
    <3>. QED BY <3>4 DEF S
  <2>. QED BY <1>3, <2>1, <2>2
<1>5. Reach(Creators'[c], Creators') \subseteq Ancestors(t) \cup {t}
  <2> DEFINE S == Ancestors(t) \cup {t}
  <2>1. S \in SUBSET Thread /\ c \notin S
    BY <1>2, AncestorsType
  <2>2. \A y \in S : Creators'[y] \subseteq S
    BY <1>1, <2>1, ReachFirst, ReachClosed DEF Ancestors
  <2>3. Creators'[c] \subseteq S
    BY <1>1
  <2> HIDE DEF S
  <2>4. Reach(Creators'[c], Creators') \subseteq S
    BY <2>1, <2>2, <2>3, ReachLeast
  <2>. QED BY <2>4 DEF S
<1>6. Ancestors(t) \cup {t} \subseteq Reach(Creators'[c], Creators')
  <2> DEFINE S == Reach(Creators'[c], Creators')
  <2>1. S \in SUBSET Thread
    BY DEF Reach
  <2>2. t \in S
    BY <1>1, ReachFirst
  <2>3. \A y \in S : Creators[y] \subseteq S
    BY <1>1, <2>1, ReachClosed
  <2> HIDE DEF S
  <2>4. Ancestors(t) \subseteq S
    BY <2>1, <2>2, <2>3, ReachLeast DEF Ancestors
  <2>. QED BY <2>2, <2>4 DEF S
<1>. QED BY <1>2, <1>3, <1>4, <1>5, <1>6

(* Nobody descends from a thread that has created none *)
LEMMA AncestorsBarren ==
  ASSUME HistoryTypes, NEW c \in Thread, \A x \in Thread : creator[x] # c
  PROVE  \A x \in Thread : c \notin Ancestors(x)
<1> SUFFICES ASSUME NEW x \in Thread PROVE Ancestors(x) \subseteq Thread \ {c}
  OBVIOUS
<1> DEFINE S == Thread \ {c}
<1>1. S \in SUBSET Thread /\ Creators[x] \subseteq S /\ \A y \in S : Creators[y] \subseteq S
  BY CreatorsType DEF Creators, HistoryTypes, Link
<1> HIDE DEF S
<1>2. Ancestors(x) \subseteq S
  BY <1>1, ReachLeast DEF Ancestors
<1>. QED BY <1>2 DEF S

LEMMA TreeFrame ==
  ASSUME TreeInv, TypeOK,
         UNCHANGED <<term_parent, term_child, creator, parent, terminated>>,
         \A t \in Thread : Alive(t)' <=> Alive(t),
         \A t \in Thread : Gone(t)' <=> Gone(t)
  PROVE  TreeInv'
<1>1. ASSUME NEW t \in Thread PROVE Reports(t)' <=> Reports(t)
  BY DEF Reports
<1>2. ASSUME NEW t \in Thread PROVE Ancestors(t)' = Ancestors(t)
  BY DEF Ancestors, Creators
<1>3. (\A p \in Thread : ~Gone(p) =>
         \A c \in term_child[p] : Alive(c) /\ term_parent[c] = p)'
  BY DEF TreeInv, TypeOK, TermTypes
<1>4. (\A c \in Thread : term_parent[c] # None => term_parent[c] \in Ancestors(c))'
  BY <1>2 DEF TreeInv
<1>5. (\A c \in Thread : Reports(c) =>
         term_parent[c] = parent[c] /\ c \in term_child[parent[c]])'
  BY <1>1 DEF TreeInv
<1>6. (\A t \in Thread : t \notin Ancestors(t))'
  BY <1>2 DEF TreeInv
<1>7. queue'[Main] # "unallocated"
  BY MainAssumption DEF TreeInv, Alive, Gone
<1>. QED BY <1>3, <1>4, <1>5, <1>6, <1>7 DEF TreeInv
-----------------------------------------------------------------------------
(* The steps that change no relation between threads *)

(* Nobody comes to life, exits, enters or leaves a block *)
Steady ==
  /\ UNCHANGED <<parent, child, wait_child, forked, term_parent, term_child, terminated,
                 creator>>
  /\ \A t \in Thread :
       /\ Alive(t)' <=> Alive(t)
       /\ Gone(t)' <=> Gone(t)
       /\ InBlock(t)' <=> InBlock(t)
       /\ Forking(t)' <=> Forking(t)
       /\ InBlock(t) \/ queue[t] = "unallocated" => at'[t] = at[t]
       /\ queue[t] = "unallocated" => ~thread_join'[t]

LEMMA SteadyStep ==
  ASSUME IInv, Steady
  PROVE  FreshUnrelated' /\ BlockInv' /\ TreeInv'
<1>1. BlockInv'
  BY BlockFrame DEF IInv, KinInv, TypeOK, Steady
<1>2. TreeInv'
  BY TreeFrame DEF IInv, KinInv, Steady
<1>3. ASSUME NEW t \in Thread, queue'[t] = "unallocated" PROVE Unrelated(t)'
  <2>1. queue[t] = "unallocated"
    BY <1>3 DEF Steady, Alive, Gone
  <2>. QED BY <2>1 DEF IInv, KinInv, FreshUnrelated, Unrelated, Steady
<1>. QED BY <1>1, <1>2, <1>3 DEF FreshUnrelated

LEMMA DispatchSafe == IInv /\ Dispatch => KinInv' /\ NoInternalError'
<1> SUFFICES ASSUME IInv, Dispatch PROVE KinInv' /\ NoInternalError'
  OBVIOUS
<1> DEFINE t == Head(ready_queue)
<1>1. t \in Thread /\ queue[t] = "ready" /\ queue' = [queue EXCEPT ![t] = "none"]
      /\ forking = "no" /\ forking' = "no" /\ at' = at /\ thread_join' = thread_join
      /\ queue \in [Thread -> QueueNames]
  BY NoneAssumption DEF Dispatch, IInv, KinInv, TypeOK, RunTypes, OnePlace, OneProgram,
     blockVars, termVars, Range
<1> HIDE DEF t
<1>2. Steady
  BY <1>1 DEF Steady, Dispatch, blockVars, termVars, history, Alive, Gone, InBlock, Forking,
     IInv, KinInv, FreshUnrelated, Unrelated
<1>3. FreshUnrelated' /\ BlockInv' /\ TreeInv'
  BY <1>2, SteadyStep
<1>4. OneProgram'
  BY <1>1, NoneAssumption DEF Dispatch, IInv, KinInv, OneProgram
<1>5. JoinInv'
  BY <1>1 DEF IInv, KinInv, JoinInv
<1>6. TerminatedIsStopped' /\ NoInternalError'
  BY <1>1 DEF Dispatch, IInv, KinInv, TerminatedIsStopped, termVars, loopVars, NoInternalError
<1>. QED BY <1>3, <1>4, <1>5, <1>6 DEF KinInv

LEMMA EndTimeSlotSafe == IInv /\ EndTimeSlot => KinInv' /\ NoInternalError'
<1> SUFFICES ASSUME IInv, EndTimeSlot PROVE KinInv' /\ NoInternalError'
  OBVIOUS
<1>1. Steady
  BY DEF Steady, EndTimeSlot, blockVars, termVars, history, Alive, Gone, InBlock, Forking,
     IInv, KinInv, FreshUnrelated, Unrelated
<1>2. FreshUnrelated' /\ BlockInv' /\ TreeInv'
  BY <1>1, SteadyStep
<1>3. OneProgram' /\ TerminatedIsStopped' /\ NoInternalError'
  BY DEF EndTimeSlot, IInv, KinInv, OneProgram, TerminatedIsStopped, blockVars, termVars,
     NoInternalError
<1>4. JoinInv'
  BY DEF EndTimeSlot, IInv, KinInv, JoinInv, termVars
<1>. QED BY <1>2, <1>3, <1>4 DEF KinInv

LEMMA WakeFromEdgeSafe ==
  ASSUME NEW t \in Thread, IInv, WakeFromEdge(t) PROVE KinInv' /\ NoInternalError'
<1>1. queue[t] = "port" /\ queue \in [Thread -> QueueNames]
  BY DEF WakeFromEdge, IInv, OnePlace, TypeOK, RunTypes
<1>2. Range(<<t>>) = {t}
  BY SingleOnce
<1>3. queue' = [x \in Thread |-> IF x = t THEN "ready" ELSE queue[x]] /\ ~internal_error'
  BY <1>1, <1>2 DEF WakeFromEdge, Release, InNoQueue
<1>4. Steady
  BY <1>1, <1>3 DEF Steady, WakeFromEdge, blockVars, termVars, history, Alive, Gone, InBlock,
     Forking, IInv, KinInv, FreshUnrelated, Unrelated
<1>5. FreshUnrelated' /\ BlockInv' /\ TreeInv'
  BY <1>4, SteadyStep
<1>6. OneProgram' /\ TerminatedIsStopped'
  BY DEF WakeFromEdge, IInv, KinInv, OneProgram, TerminatedIsStopped, blockVars, termVars
<1>7. JoinInv'
  BY <1>1, <1>3 DEF WakeFromEdge, IInv, KinInv, JoinInv, termVars
<1>. QED BY <1>3, <1>5, <1>6, <1>7 DEF KinInv, NoInternalError

LEMMA StartTimeSlotSafe ==
  ASSUME NEW posedge \in BOOLEAN, IInv, StartTimeSlot(posedge)
  PROVE  KinInv' /\ NoInternalError'
<1>1. UNCHANGED <<queue, at, thread, forking, thread_join, terminated, internal_error>>
  BY DEF StartTimeSlot, IInv, NoTimers, blockVars
<1>2. Steady
  BY <1>1 DEF Steady, StartTimeSlot, blockVars, Alive, Gone, InBlock, Forking,
     IInv, KinInv, FreshUnrelated, Unrelated
<1>3. FreshUnrelated' /\ BlockInv' /\ TreeInv'
  BY <1>2, SteadyStep
<1>. QED BY <1>1, <1>3 DEF KinInv, IInv, OneProgram, TerminatedIsStopped, JoinInv,
            NoInternalError

(* A step in which t, in its program, suspends itself outside of a block *)
LEMMA SuspendSafe ==
  ASSUME IInv, NEW t \in Thread, Runs(t), NEW q \in QueueNames, NEW p \in Points,
         Suspend(t, q, p), forking' = "no",
         q \notin {"unallocated", "zombie", "freed"}, p \notin {"code", "join", "spoon"},
         UNCHANGED <<parent, child, wait_child, forked, term_parent, term_child,
                     terminated, creator, internal_error>>,
         thread_join' = [thread_join EXCEPT ![t] = (q = "sleep" /\ p = "thread_join")]
  PROVE  KinInv' /\ NoInternalError'
<1>1. /\ queue[t] = "none" /\ at[t] = "code" /\ thread = t /\ forking = "no"
      /\ queue \in [Thread -> QueueNames] /\ at \in [Thread -> Points]
      /\ thread_join \in [Thread -> BOOLEAN]
      /\ queue' = [queue EXCEPT ![t] = q] /\ at' = [at EXCEPT ![t] = p] /\ thread' = None
  BY DEF Runs, Executes, IInv, OnePlace, TypeOK, RunTypes, TermTypes, Suspend
<1>2. \A x \in Thread : Alive(x)' <=> Alive(x)
  BY <1>1 DEF Alive
<1>3. \A x \in Thread : Gone(x)' <=> Gone(x)
  BY <1>1 DEF Gone
<1>4. \A x \in Thread : InBlock(x)' <=> InBlock(x)
  BY <1>1 DEF InBlock
<1>5. \A x \in Thread : queue[x] = "unallocated" => ~thread_join'[x]
  BY <1>1 DEF IInv, KinInv, FreshUnrelated, Unrelated
<1>6. Steady
  BY <1>1, <1>2, <1>3, <1>4, <1>5 DEF Steady, Forking, InBlock
<1>7. FreshUnrelated' /\ BlockInv' /\ TreeInv'
  BY <1>6, SteadyStep
<1>8. OneProgram' /\ TerminatedIsStopped' /\ NoInternalError'
  BY <1>1 DEF IInv, KinInv, OneProgram, TerminatedIsStopped, NoInternalError
<1>9. JoinInv'
  BY <1>1 DEF IInv, KinInv, JoinInv
<1>. QED BY <1>7, <1>8, <1>9 DEF KinInv

LEMMA PauseSafe ==
  ASSUME IInv, NEW t \in Thread, ThreadPause(t) \/ SyncOnEdge(t) \/ ExitSimulation(t) \/ VerifError(t)
  PROVE  KinInv' /\ NoInternalError'
<1>1. /\ Runs(t)
      /\ Suspend(t, "ready", "pause") \/ Suspend(t, "port", "port")
      /\ forking' = "no"
      /\ UNCHANGED <<parent, child, wait_child, forked, term_parent, term_child,
                     terminated, creator, internal_error, thread_join>>
  BY DEF ThreadPause, SyncOnEdge, ExitSimulation, VerifError, StopLoop, Runs, blockVars,
     termVars, history, loopVars
<1>2. at[t] = "code" /\ ~thread_join[t] /\ thread_join \in [Thread -> BOOLEAN]
  BY <1>1 DEF Runs, Executes, IInv, KinInv, JoinInv, TypeOK, TermTypes
<1>3. thread_join' = [thread_join EXCEPT ![t] = FALSE]
  BY <1>1, <1>2
<1>4. /\ {"ready", "port"} \subseteq QueueNames \ {"unallocated", "zombie", "freed"}
      /\ {"pause", "port"} \subseteq Points \ {"code", "join", "spoon"}
  BY DEF QueueNames, KernelQueues, Points, KernelPoints, ResumePoints
<1>5. CASE Suspend(t, "ready", "pause")
  BY <1>1, <1>3, <1>4, <1>5, SuspendSafe
<1>6. CASE Suspend(t, "port", "port")
  BY <1>1, <1>3, <1>4, <1>6, SuspendSafe
<1>. QED BY <1>1, <1>5, <1>6

LEMMA ThreadJoinSafe ==
  ASSUME IInv, NEW t \in Thread, ThreadJoin(t, 0)
  PROVE  KinInv' /\ NoInternalError'
<1>1. /\ Runs(t) /\ Suspend(t, "sleep", "thread_join") /\ forking' = "no"
      /\ UNCHANGED <<parent, child, wait_child, forked, term_parent, term_child,
                     terminated, creator>>
      /\ thread_join' = [thread_join EXCEPT ![t] = TRUE]
  BY DEF ThreadJoin, Runs, blockVars
<1>2. UNCHANGED internal_error
  <2>1. internal_error = FALSE
    BY DEF ThreadJoin, Runs, Executes, IInv, TypeOK, LoopTypes
  <2>2. internal_error' = FALSE
    BY DEF ThreadJoin, SetTimeLimit
  <2>. QED BY <2>1, <2>2
<1>. QED BY <1>1, <1>2, SuspendSafe DEF QueueNames, KernelQueues, Points, KernelPoints,
            ResumePoints

(* A thread starts or goes on with its program *)
LEMMA GoesOnSafe ==
  ASSUME IInv, NEW t \in Thread, thread = t, at[t] # "code", ~terminated[t],
         at' = [at EXCEPT ![t] = "code"],
         UNCHANGED <<thread, queue, parent, child, wait_child, forking, forked, term_parent,
                     term_child, terminated, creator, internal_error, thread_join>>
  PROVE  KinInv' /\ NoInternalError'
<1>1. queue[t] = "none" /\ at \in [Thread -> Points] /\ forking = "no"
  BY DEF IInv, KinInv, OneProgram, OnePlace, TypeOK, RunTypes
<1>2. Steady
  BY <1>1 DEF Steady, Alive, Gone, InBlock, Forking, IInv, KinInv, FreshUnrelated, Unrelated
<1>3. FreshUnrelated' /\ BlockInv' /\ TreeInv'
  BY <1>2, SteadyStep
<1>4. OneProgram' /\ TerminatedIsStopped' /\ NoInternalError'
  BY <1>1 DEF IInv, KinInv, OneProgram, TerminatedIsStopped, NoInternalError
<1>5. JoinInv'
  BY <1>1 DEF IInv, KinInv, JoinInv
<1>. QED BY <1>3, <1>4, <1>5 DEF KinInv
-----------------------------------------------------------------------------
(* The steps of a block *)

LEMMA ForkSafe ==
  ASSUME IInv, NEW t \in Thread, NEW f \in Forms, Fork(t, f)
  PROVE  KinInv' /\ NoInternalError'
<1>1. /\ queue[t] = "none" /\ at[t] = "code" /\ thread = t /\ forking = "no"
      /\ forking' = f /\ f # "no" /\ forked' = [forked EXCEPT ![t] = {}]
      /\ forked \in [Thread -> SUBSET Thread]
      /\ UNCHANGED <<thread, queue, at, internal_error, parent, child, wait_child,
                     term_parent, term_child, thread_join, terminated, creator>>
  BY DEF Fork, Runs, Executes, Forms, IInv, OnePlace, TypeOK, HistoryTypes, runVars,
     loopVars, termVars
<1>2. \A x \in Thread : /\ InBlock(x)' <=> InBlock(x)
                        /\ Reports(x)' <=> Reports(x)
                        /\ Unrelated(x)' <=> Unrelated(x)
                        /\ Forking(x)' <=> x = t
                        /\ ~Forking(x)
  BY <1>1 DEF InBlock, Reports, Alive, Unrelated, Forking
<1>3. TreeInv'
  BY <1>1, TreeFrame DEF IInv, KinInv, Alive, Gone
<1>4. BlockInv'
  <2>1. child[t] = {}
    BY <1>1, <1>2 DEF InBlock, IInv, KinInv, BlockInv
  <2>3. BlockInv /\ BlockTypes
    BY DEF IInv, KinInv, TypeOK
  <2>2. \A p \in Thread : (Counted(p)' <=> Counted(p)) /\ (Abandoned(p)' <=> Abandoned(p))
    BY <1>1, <1>2, <2>3 DEF Counted, Abandoned, BlockTypes
  <2>4. \A p \in Thread : Forking(p)' => p = t /\ forked'[p] = {} /\ child'[p] = {}
    BY <1>1, <1>2, <2>1
  <2>5. \A x \in Thread : (Reports(x) =>
          x \in child[parent[x]] /\ (InBlock(parent[x]) \/ Forking(parent[x])))'
    <3> SUFFICES ASSUME NEW x \in Thread, Reports(x)'
                 PROVE  (x \in child[parent[x]] /\ InBlock(parent[x]))'
      OBVIOUS
    <3>1. Reports(x) /\ parent[x] \in Thread
      BY <1>2, <2>3 DEF Reports, BlockTypes, Link
    <3>2. x \in child[parent[x]] /\ InBlock(parent[x])
      BY <1>2, <2>3, <3>1 DEF BlockInv
    <3>. QED BY <1>1, <1>2, <3>1, <3>2
  <2>6. \A p \in Thread : InBlock(p)' => Counted(p)' \/ Abandoned(p)'
    BY <1>2, <2>2, <2>3 DEF BlockInv
  <2>7. \A p \in Thread : ~InBlock(p)' /\ ~Forking(p)' => child'[p] = {}
    BY <1>1, <1>2, <2>3 DEF BlockInv
  <2>8. \A x \in Thread : Alive(x)' /\ terminated'[x] /\ parent'[x] # None =>
          terminated'[parent'[x]]
    BY <1>1, <2>3 DEF BlockInv, Alive
  <2>. QED BY <2>4, <2>5, <2>6, <2>7, <2>8 DEF BlockInv
<1>5. FreshUnrelated'
  BY <1>1, <1>2 DEF IInv, KinInv, FreshUnrelated
<1>6. OneProgram' /\ TerminatedIsStopped' /\ JoinInv' /\ NoInternalError'
  BY <1>1 DEF IInv, KinInv, OneProgram, TerminatedIsStopped, JoinInv, NoInternalError
<1>. QED BY <1>3, <1>4, <1>5, <1>6 DEF KinInv

LEMMA ExecSafe ==
  ASSUME IInv, NEW t \in Thread, NEW c \in Thread, Exec(t, c)
  PROVE  KinInv' /\ NoInternalError'
<1>1. /\ queue[t] = "none" /\ at[t] = "code" /\ thread = t /\ Forking(t) /\ t # c
      /\ queue[c] = "unallocated" /\ Unrelated(c) /\ ~terminated[t]
      /\ queue' = [queue EXCEPT ![c] = "ready"]
      /\ parent' = [parent EXCEPT ![c] = t]
      /\ child' = [child EXCEPT ![t] = @ \cup {c}]
      /\ term_parent' = [term_parent EXCEPT ![c] = t]
      /\ term_child' = [term_child EXCEPT ![t] = @ \cup {c}]
      /\ forked' = [forked EXCEPT ![t] = @ \cup {c}]
      /\ creator' = [creator EXCEPT ![c] = t]
      /\ UNCHANGED <<thread, at, forking, wait_child, thread_join, terminated,
                     internal_error>>
  BY DEF Exec, Executes, Forms, Forking, IInv, KinInv, OnePlace, FreshUnrelated,
     TerminatedIsStopped, loopVars
<1>2. RunTypes /\ BlockTypes /\ TermTypes /\ HistoryTypes
  BY DEF IInv, TypeOK
<1>3. \A x \in Thread : /\ InBlock(x)' <=> InBlock(x)
                        /\ Forking(x)' <=> Forking(x)
                        /\ Forking(x) => x = t
                        /\ Gone(x)' <=> Gone(x)
                        /\ Alive(x)' <=> Alive(x) \/ x = c
                        /\ Reports(x)' <=> Reports(x) \/ x = c
  BY <1>1, <1>2, NoneAssumption
  DEF InBlock, Forking, Gone, Alive, Reports, Unrelated, RunTypes, BlockTypes
<1>4. ~Alive(c) /\ ~Reports(c) /\ ~InBlock(t) /\ ~InBlock(c) /\ ~Gone(c)
  BY <1>1 DEF Alive, Reports, InBlock, Gone
<1>5. BlockInv /\ TreeInv /\ JoinInv /\ FreshUnrelated /\ OneProgram /\ TerminatedIsStopped
  BY DEF IInv, KinInv
<1>6. BlockInv'
  <2>1. \A x \in Thread : (Reports(x) =>
          x \in child[parent[x]] /\ (InBlock(parent[x]) \/ Forking(parent[x])))'
    <3> SUFFICES ASSUME NEW x \in Thread, Reports(x)'
                 PROVE  (x \in child[parent[x]]
                         /\ (InBlock(parent[x]) \/ Forking(parent[x])))'
      OBVIOUS
    <3>1. CASE x = c
      BY <1>1, <1>2, <1>3, <3>1 DEF BlockTypes
    <3>2. CASE x # c
      <4>1. Reports(x) /\ parent'[x] = parent[x] /\ parent[x] \in Thread
        BY <1>1, <1>2, <1>3, <3>2 DEF Reports, BlockTypes, Link
      <4>2. child[parent[x]] \subseteq child'[parent[x]]
        BY <1>1, <1>2, <4>1 DEF BlockTypes
      <4>. QED BY <1>3, <1>5, <4>1, <4>2 DEF BlockInv
    <3>. QED BY <3>1, <3>2
  <2>2. ASSUME NEW p \in Thread, InBlock(p) PROVE Counted(p)' \/ Abandoned(p)'
    <3>1. p # t /\ p # c
      BY <1>4, <2>2
    <3>2. CASE Counted(p)
      BY <1>1, <1>2, <1>3, <1>4, <3>1, <3>2 DEF Counted, BlockTypes
    <3>3. CASE Abandoned(p)
      BY <1>1, <1>2, <1>3, <3>1, <3>3 DEF Abandoned, BlockTypes
    <3>. QED BY <1>5, <2>2, <3>2, <3>3 DEF BlockInv
  <2>3. \A p \in Thread : Forking(p) =>
          /\ forked'[p] = child'[p]
          /\ \A x \in child'[p] : parent'[x] = p /\ Reports(x)'
    <3>1. forked[t] = child[t] /\ \A x \in child[t] : parent[x] = t /\ Reports(x)
      BY <1>1, <1>5 DEF BlockInv
    <3>2. forked'[t] = forked[t] \cup {c} /\ child'[t] = child[t] \cup {c}
      BY <1>1, <1>2 DEF BlockTypes, HistoryTypes
    <3>3. \A x \in child[t] \cup {c} : parent'[x] = t /\ Reports(x)'
      BY <1>1, <1>2, <1>3, <3>1 DEF BlockTypes
    <3>. QED BY <1>3, <3>1, <3>2, <3>3
  <2>4. \A p \in Thread : ~InBlock(p) /\ ~Forking(p) => child'[p] = {}
    BY <1>1, <1>2, <1>5 DEF BlockInv, BlockTypes
  <2>5. \A x \in Thread : Alive(x)' /\ terminated[x] /\ parent'[x] # None =>
          terminated[parent'[x]]
    BY <1>1, <1>2, <1>3, <1>5 DEF BlockInv, BlockTypes, Unrelated
  <2>. QED BY <1>1, <1>3, <2>1, <2>2, <2>3, <2>4, <2>5 DEF BlockInv
<1>7. TreeInv'
  <2>1. /\ \A x \in Thread \ {c} : Ancestors(x)' = Ancestors(x)
        /\ Ancestors(c)' = Ancestors(t) \cup {t}
        /\ \A x \in Thread : c \notin Ancestors(x)
    BY <1>1, <1>2, AncestorsExec DEF Unrelated
  <2>2. \A p \in Thread : ~Gone(p) => \A x \in term_child'[p] : Alive(x)' /\ term_parent'[x] = p
    BY <1>1, <1>2, <1>3, <1>4, <1>5 DEF TreeInv, TermTypes
  <2>3. \A x \in Thread : term_parent'[x] # None => term_parent'[x] \in Ancestors(x)'
    BY <1>1, <1>2, <1>5, <2>1 DEF TreeInv, TermTypes
  <2>4. \A x \in Thread : Reports(x)' =>
          term_parent'[x] = parent'[x] /\ x \in term_child'[parent'[x]]
    BY <1>1, <1>2, <1>3, <1>5 DEF TreeInv, TermTypes, BlockTypes, Reports, Link
  <2>5. \A x \in Thread : x \notin Ancestors(x)'
    BY <1>1, <1>5, <2>1 DEF TreeInv
  <2>6. c # Main
    BY <1>1, <1>5 DEF TreeInv
  <2>. QED BY <1>1, <1>2, <1>3, <1>5, <2>2, <2>3, <2>4, <2>5, <2>6 DEF TreeInv, TermTypes, BlockTypes
<1>8. FreshUnrelated'
  BY <1>1, <1>2, <1>5 DEF FreshUnrelated, Unrelated, RunTypes, BlockTypes, TermTypes,
     HistoryTypes
<1>9. OneProgram' /\ TerminatedIsStopped' /\ JoinInv' /\ NoInternalError'
  BY <1>1, <1>2, <1>5 DEF OneProgram, TerminatedIsStopped, JoinInv, RunTypes, IInv,
     NoInternalError, Unrelated
<1>. QED BY <1>6, <1>7, <1>8, <1>9 DEF KinInv

(* Join and spoon: the counted children are those of the fork *)
LEMMA WaitForChildrenSafe ==
  ASSUME IInv, NEW t \in Thread, Executes(t), forking \in Forms, forked[t] # {},
         NEW n, NEW point \in {"join", "spoon"}, WaitForChildren(t, n, point),
         n = IF point = "spoon" THEN 1 ELSE Cardinality(forked[t])
  PROVE  KinInv' /\ NoInternalError'
<1>1. /\ queue[t] = "none" /\ at[t] = "code" /\ thread = t /\ Forking(t)
      /\ queue' = [queue EXCEPT ![t] = "sleep"] /\ at' = [at EXCEPT ![t] = point]
      /\ thread' = None /\ forking' = "no" /\ wait_child' = [wait_child EXCEPT ![t] = n]
      /\ UNCHANGED <<parent, child, forked, term_parent, term_child, thread_join,
                     terminated, creator, internal_error>>
  BY DEF WaitForChildren, Suspend, Executes, Forms, Forking, IInv, OnePlace, loopVars,
     termVars
<1>2. RunTypes /\ BlockTypes /\ TermTypes
  BY DEF IInv, TypeOK
<1>3. BlockInv /\ TreeInv /\ JoinInv /\ FreshUnrelated /\ OneProgram /\ TerminatedIsStopped
  BY DEF IInv, KinInv
<1>4. \A x \in Thread : /\ InBlock(x)' <=> InBlock(x) \/ x = t
                        /\ ~Forking(x)'
                        /\ Forking(x) => x = t
                        /\ Gone(x)' <=> Gone(x)
                        /\ Alive(x)' <=> Alive(x)
                        /\ Reports(x)' <=> Reports(x)
  BY <1>1, <1>2 DEF InBlock, Forking, Gone, Alive, Reports, RunTypes
<1>5. BlockInv'
  <2>1. \A x \in Thread : (Reports(x) =>
          x \in child[parent[x]] /\ (InBlock(parent[x]) \/ Forking(parent[x])))'
    <3> SUFFICES ASSUME NEW x \in Thread, Reports(x)'
                 PROVE  (x \in child[parent[x]] /\ InBlock(parent[x]))'
      OBVIOUS
    <3>1. Reports(x) /\ parent[x] \in Thread
      BY <1>2, <1>4 DEF Reports, BlockTypes, Link
    <3>2. x \in child[parent[x]] /\ (InBlock(parent[x]) \/ Forking(parent[x]))
      BY <1>3, <3>1 DEF BlockInv
    <3>. QED BY <1>1, <1>4, <3>1, <3>2
  <2>2. ASSUME NEW p \in Thread, InBlock(p)' PROVE Counted(p)' \/ Abandoned(p)'
    <3>1. CASE p = t
      <4>1. child[t] # {} /\ forked[t] = child[t] /\ \A x \in child[t] : parent[x] = t /\ Reports(x)
        BY <1>1, <1>3 DEF BlockInv
      <4>2. wait_child'[t] = n /\ at'[t] = point
        BY <1>1, <1>2 DEF RunTypes, BlockTypes
      <4>. QED BY <1>1, <1>2, <1>4, <3>1, <4>1, <4>2 DEF Counted, BlockTypes
    <3>2. CASE p # t /\ Counted(p)
      BY <1>1, <1>2, <1>4, <3>2 DEF Counted, BlockTypes, RunTypes
    <3>3. CASE Abandoned(p)
      BY <1>1, <1>4, <3>3 DEF Abandoned
    <3>. QED BY <1>3, <1>4, <2>2, <3>1, <3>2, <3>3 DEF BlockInv
  <2>3. \A p \in Thread : ~InBlock(p)' /\ ~Forking(p)' => child'[p] = {}
    BY <1>1, <1>3, <1>4 DEF BlockInv
  <2>4. \A x \in Thread : Alive(x)' /\ terminated'[x] /\ parent'[x] # None =>
          terminated'[parent'[x]]
    BY <1>1, <1>3, <1>4 DEF BlockInv
  <2>. QED BY <1>4, <2>1, <2>2, <2>3, <2>4 DEF BlockInv
<1>6. TreeInv'
  BY <1>1, <1>3, <1>4, TreeFrame DEF IInv
<1>7. FreshUnrelated'
  BY <1>1, <1>2, <1>3 DEF FreshUnrelated, Unrelated, RunTypes
<1>8. OneProgram' /\ TerminatedIsStopped' /\ JoinInv' /\ NoInternalError'
  BY <1>1, <1>2, <1>3 DEF OneProgram, TerminatedIsStopped, JoinInv, RunTypes, IInv,
     NoInternalError
<1>. QED BY <1>5, <1>6, <1>7, <1>8 DEF KinInv

LEMMA JoinSafe ==
  ASSUME IInv, NEW t \in Thread, Join(t) \/ Spoon(t)
  PROVE  KinInv' /\ NoInternalError'
<1>1. Executes(t) /\ forking \in Forms /\ forked[t] # {}
  BY DEF Join, Spoon, EndsBlock, Forms
<1>2. \/ WaitForChildren(t, Cardinality(forked[t]), "join")
      \/ WaitForChildren(t, 1, "spoon")
  BY DEF Join, Spoon
<1>. QED BY <1>1, <1>2, WaitForChildrenSafe

(* Knife: the children of the fork report to nobody *)
LEMMA KnifeSafe ==
  ASSUME IInv, NEW t \in Thread, Knife(t)
  PROVE  KinInv' /\ NoInternalError'
<1>1. /\ queue[t] = "none" /\ at[t] = "code" /\ thread = t /\ Forking(t)
      /\ forking' = "no"
      /\ parent' = [c \in Thread |-> IF c \in child[t] THEN None ELSE parent[c]]
      /\ child' = [child EXCEPT ![t] = {}]
      /\ UNCHANGED <<thread, queue, at, wait_child, forked, term_parent, term_child,
                     thread_join, terminated, creator, internal_error>>
  BY DEF Knife, EndsBlock, Executes, Forms, Forking, IInv, OnePlace, loopVars,
     termVars, runVars, history
<1>2. RunTypes /\ BlockTypes /\ TermTypes
  BY DEF IInv, TypeOK
<1>3. BlockInv /\ TreeInv /\ JoinInv /\ FreshUnrelated /\ OneProgram /\ TerminatedIsStopped
  BY DEF IInv, KinInv
<1>4. \A x \in child[t] : parent[x] = t /\ Reports(x)
  BY <1>1, <1>3 DEF BlockInv
<1>5. \A x \in Thread : /\ InBlock(x)' <=> InBlock(x)
                        /\ ~Forking(x)'
                        /\ Forking(x) => x = t
                        /\ Gone(x)' <=> Gone(x)
                        /\ Alive(x)' <=> Alive(x)
                        /\ Reports(x)' <=> Reports(x) /\ x \notin child[t]
                        /\ Reports(x)' => parent'[x] = parent[x]
  BY <1>1, <1>2 DEF InBlock, Forking, Gone, Alive, Reports, RunTypes
<1>6. ~InBlock(t)
  BY <1>1 DEF InBlock
<1>7. BlockInv'
  <2>1. \A x \in Thread : (Reports(x) =>
          x \in child[parent[x]] /\ (InBlock(parent[x]) \/ Forking(parent[x])))'
    <3> SUFFICES ASSUME NEW x \in Thread, Reports(x)'
                 PROVE  (x \in child[parent[x]] /\ InBlock(parent[x]))'
      OBVIOUS
    <3>1. Reports(x) /\ parent[x] \in Thread /\ parent'[x] = parent[x] /\ parent[x] # t
      BY <1>2, <1>3, <1>5 DEF Reports, BlockTypes, Link, BlockInv
    <3>2. x \in child[parent[x]] /\ InBlock(parent[x])
      BY <1>3, <1>5, <3>1 DEF BlockInv
    <3>. QED BY <1>1, <1>2, <1>5, <3>1, <3>2 DEF BlockTypes
  <2>2. ASSUME NEW p \in Thread, InBlock(p)' PROVE Counted(p)' \/ Abandoned(p)'
    <3>1. p # t /\ InBlock(p) /\ child'[p] = child[p]
      BY <1>1, <1>2, <1>5, <1>6, <2>2 DEF BlockTypes
    <3>2. CASE Counted(p)
      <4>1. \A x \in child[p] : parent'[x] = p /\ Reports(x)'
        BY <1>1, <1>2, <1>4, <1>5, <3>1, <3>2 DEF Counted, BlockTypes
      <4>. QED BY <1>1, <3>1, <3>2, <4>1 DEF Counted
    <3>3. CASE Abandoned(p)
      BY <1>1, <1>5, <3>3 DEF Abandoned
    <3>. QED BY <1>3, <3>1, <3>2, <3>3 DEF BlockInv
  <2>3. \A p \in Thread : ~InBlock(p)' /\ ~Forking(p)' => child'[p] = {}
    BY <1>1, <1>2, <1>3, <1>5 DEF BlockInv, BlockTypes
  <2>4. \A x \in Thread : Alive(x)' /\ terminated'[x] /\ parent'[x] # None =>
          terminated'[parent'[x]]
    BY <1>1, <1>3, <1>5 DEF BlockInv
  <2>. QED BY <1>5, <2>1, <2>2, <2>3, <2>4 DEF BlockInv
<1>8. TreeInv'
  <2>1. \A x \in Thread : Ancestors(x)' = Ancestors(x)
    BY <1>1 DEF Ancestors, Creators
  <2>2. \A p \in Thread : ~Gone(p)' => \A x \in term_child'[p] : Alive(x)' /\ term_parent'[x] = p
    BY <1>1, <1>2, <1>3, <1>5 DEF TreeInv, TermTypes
  <2>3. \A x \in Thread : Reports(x)' =>
          term_parent'[x] = parent'[x] /\ x \in term_child'[parent'[x]]
    BY <1>1, <1>3, <1>5 DEF TreeInv
  <2>4. parent'[Main] = None
    BY <1>1, <1>3, MainAssumption DEF TreeInv
  <2>. QED BY <1>1, <1>3, <2>1, <2>2, <2>3, <2>4 DEF TreeInv
<1>9. FreshUnrelated' /\ OneProgram' /\ TerminatedIsStopped' /\ JoinInv' /\ NoInternalError'
  BY <1>1, <1>2, <1>3 DEF OneProgram, TerminatedIsStopped, JoinInv, FreshUnrelated, Unrelated,
     IInv, NoInternalError, BlockTypes
<1>. QED BY <1>7, <1>8, <1>9 DEF KinInv
-----------------------------------------------------------------------------
(* The end of a thread *)

(* t, which nobody is to hear of any more but who has been heard, becomes a *)
(* zombie; exit_term_link wakes at most one thread, out of thread_join()    *)
Leaves(t, woken) ==
  /\ ExitTermLink(t)
  /\ BecomeZombie(t, woken \o WokenJoiner(t), FALSE)
  /\ forking' = "no" /\ UNCHANGED <<forked, creator>>
  /\ \A x \in Thread : /\ Reports(x)' => Reports(x) /\ parent'[x] = parent[x]
                       /\ terminated[x] => terminated'[x]
                       /\ terminated'[x] => terminated[x] \/ Alive(x)
                       /\ parent'[x] \in {parent[x], None}
                       /\ ~InBlock(x) => child'[x] = child[x]

(* Whom t wakes sleeps in thread_join() *)
LEMMA JoinerSleeps ==
  ASSUME IInv, NEW t \in Thread, NEW x \in Range(WokenJoiner(t))
  PROVE  x \in Thread /\ queue[x] = "sleep" /\ at[x] = "thread_join"
<1>1. JoinerDone(t) /\ x = term_parent[t]
  BY SingleOnce, EmptyOnce DEF WokenJoiner, JoinerDone, IInv, TypeOK, TermTypes, Link
<1>2. x \in Thread /\ thread_join[x]
  BY <1>1 DEF JoinerDone, IInv, TypeOK, TermTypes, Link
<1>. QED BY <1>2 DEF IInv, KinInv, JoinInv

LEMMA LeavesQueues ==
  ASSUME IInv, NEW t \in Thread, thread = t, forking = "no", NEW woken \in Seq(Thread),
         \A x \in Range(woken) : InBlock(x), IsInjective(woken), Leaves(t, woken)
  PROVE  /\ ~internal_error'
         /\ queue' = [x \in Thread |->
                        IF x = t THEN "zombie"
                        ELSE IF x \in Range(woken) \cup Range(WokenJoiner(t)) THEN "ready"
                        ELSE queue[x]]
<1>1. WokenJoiner(t) \in Seq(Thread) /\ IsInjective(WokenJoiner(t))
  BY WokenJoinerType, SingleOnce, EmptyOnce
  DEF IInv, TypeOK, WokenJoiner, JoinerDone, TermTypes, Link
<1>2. Range(woken) \cap Range(WokenJoiner(t)) = {}
  BY JoinerSleeps DEF InBlock
<1>3. /\ Range(woken \o WokenJoiner(t)) = Range(woken) \cup Range(WokenJoiner(t))
      /\ IsInjective(woken \o WokenJoiner(t))
  BY <1>1, <1>2, ConcatRange, ConcatOnce
<1>4. \A x \in Range(woken) \cup Range(WokenJoiner(t)) : queue[x] = "sleep"
  BY JoinerSleeps DEF InBlock
<1>. QED BY <1>3, <1>4 DEF Leaves, BecomeZombie, QueueInconsistent

(* The termination tree after t has left: its children are handed up *)
LEMMA LeavesTree ==
  ASSUME IInv, NEW t \in Thread, thread = t, forking = "no", NEW woken \in Seq(Thread),
         Leaves(t, woken),
         \A x \in Thread : /\ Gone(x)' <=> Gone(x) \/ x = t
                           /\ Alive(x)' <=> Alive(x) /\ x # t
  PROVE  TreeInv'
<1> DEFINE q == term_parent[t]
<1>1. BlockInv /\ TreeInv /\ TermTypes /\ HistoryTypes /\ BlockTypes
  BY DEF IInv, KinInv, TypeOK
<1>2. \A x \in Thread : Ancestors(x)' = Ancestors(x)
  BY DEF Leaves, Ancestors, Creators
<1>3. queue[t] = "none" /\ Alive(t) /\ ~Gone(t)
  BY DEF IInv, OnePlace, Alive, Gone
<1>4. \A x \in Thread : Reports(x) => parent[x] # t
  BY <1>1, <1>3 DEF BlockInv, InBlock, Forking
<1>5. \A x \in Thread : Reports(x)' =>
        Reports(x) /\ parent'[x] = parent[x] /\ x # t /\ parent[x] \in Thread
  BY <1>1 DEF Leaves, Reports, BlockTypes, Link
<1>6. \A x \in term_child[t] : term_parent[x] = t /\ Alive(x) /\ x # t /\ x # Main
  BY <1>1, <1>3, NoneAssumption DEF TreeInv
<1>7. CASE q = None
  <2>1. UNCHANGED <<term_parent, term_child>>
    BY <1>7 DEF Leaves, ExitTermLink
  <2>2. \A p \in Thread : ~Gone(p) => t \notin term_child[p]
    BY <1>1, <1>7, NoneAssumption DEF TreeInv
  <2>3. \A p \in Thread : ~Gone(p)' => \A x \in term_child'[p] : Alive(x)' /\ term_parent'[x] = p
    BY <1>1, <2>1, <2>2 DEF TreeInv, TermTypes
  <2>4. \A x \in Thread : Reports(x)' =>
          term_parent'[x] = parent'[x] /\ x \in term_child'[parent'[x]]
    BY <1>1, <1>5, <2>1 DEF TreeInv
  <2>5. parent'[Main] = None /\ term_parent'[Main] = None
    BY <1>1, <2>1, MainAssumption DEF Leaves, TreeInv
  <2>6. queue'[Main] # "unallocated"
    BY <1>1, MainAssumption DEF TreeInv, Gone, Alive
  <2>. QED BY <1>1, <1>2, <2>1, <2>3, <2>4, <2>5, <2>6 DEF TreeInv
<1>8. CASE q # None
  <2>1. /\ q \in Thread /\ q # t
        /\ term_child' = [term_child EXCEPT ![q] = (term_child[q] \ {t}) \cup term_child[t]]
        /\ term_parent' = [c \in Thread |-> IF c \in term_child[t] THEN q ELSE term_parent[c]]
    <3>1. q \in Thread /\ q \in Ancestors(t)
      BY <1>1, <1>8 DEF TermTypes, Link, TreeInv
    <3>. QED BY <1>1, <1>8, <3>1 DEF Leaves, ExitTermLink, TermHeirs, TreeInv
  <2>2. ASSUME NEW p \in Thread, ~Gone(p)', NEW x \in term_child'[p]
        PROVE  Alive(x)' /\ term_parent'[x] = p
    <3>1. ~Gone(p) /\ p # t
      BY <2>2
    <3>2. CASE p = q
      <4>1. x \in term_child[q] \ {t} \/ x \in term_child[t]
        BY <1>1, <2>1, <2>2, <3>2 DEF TermTypes
      <4>. QED BY <1>1, <1>6, <2>1, <3>1, <3>2, <4>1 DEF TreeInv, TermTypes
    <3>3. CASE p # q
      <4>1. x \in term_child[p] /\ x \in Thread
        BY <1>1, <2>1, <2>2, <3>3 DEF TermTypes
      <4>2. Alive(x) /\ term_parent[x] = p
        BY <1>1, <3>1, <4>1 DEF TreeInv
      <4>. QED BY <1>6, <2>1, <3>1, <3>3, <4>1, <4>2
    <3>. QED BY <3>2, <3>3
  <2>3. ASSUME NEW x \in Thread, term_parent'[x] # None PROVE term_parent'[x] \in Ancestors(x)
    <3>1. CASE x \in term_child[t]
      <4>1. t \in Ancestors(x) /\ q \in Ancestors(t)
        BY <1>1, <1>6, <1>8, <3>1, NoneAssumption DEF TreeInv
      <4>. QED BY <1>1, <2>1, <3>1, <4>1, AncestorsTrans
    <3>2. CASE x \notin term_child[t]
      BY <1>1, <2>1, <2>3, <3>2 DEF TreeInv
    <3>. QED BY <3>1, <3>2
  <2>4. ASSUME NEW x \in Thread, Reports(x)'
        PROVE  term_parent'[x] = parent'[x] /\ x \in term_child'[parent'[x]]
    <3>1. Reports(x) /\ x # t /\ parent'[x] = parent[x] /\ parent[x] \in Thread
      BY <1>5, <2>4
    <3>2. term_parent[x] = parent[x] /\ x \in term_child[parent[x]] /\ parent[x] # t
      BY <1>1, <1>4, <3>1 DEF TreeInv
    <3>3. term_parent'[x] = parent[x]
      BY <1>6, <2>1, <3>2
    <3>4. x \in term_child'[parent[x]]
      BY <1>1, <2>1, <3>1, <3>2 DEF TermTypes
    <3>. QED BY <3>1, <3>3, <3>4
  <2>5. parent'[Main] = None /\ term_parent'[Main] = None /\ queue'[Main] # "unallocated"
    <3>1. parent'[Main] = None
      BY <1>1, MainAssumption DEF Leaves, TreeInv
    <3>2. term_parent'[Main] = None
      BY <1>1, <1>6, <2>1, MainAssumption DEF TreeInv
    <3>3. queue'[Main] # "unallocated"
      BY <1>1, MainAssumption DEF TreeInv, Gone, Alive
    <3>. QED BY <3>1, <3>2, <3>3
  <2>. QED BY <1>1, <1>2, <2>2, <2>3, <2>4, <2>5 DEF TreeInv
<1>. QED BY <1>7, <1>8

(* Everything but the blocks after t has left *)
LEMMA LeavesSafe ==
  ASSUME IInv, NEW t \in Thread, thread = t, forking = "no", NEW woken \in Seq(Thread),
         \A x \in Range(woken) : InBlock(x), IsInjective(woken), Leaves(t, woken)
  PROVE  /\ OneProgram' /\ FreshUnrelated' /\ TreeInv' /\ JoinInv'
         /\ TerminatedIsStopped' /\ NoInternalError'
         /\ \A x \in Thread : /\ Gone(x)' <=> Gone(x) \/ x = t
                              /\ Alive(x)' <=> Alive(x) /\ x # t
                              /\ InBlock(x)' <=> InBlock(x) /\ x \notin Range(woken)
                              /\ ~Forking(x)' /\ ~Forking(x)
                              /\ x # t => at'[x] = at[x]
                              /\ Reports(x)' => x # t
<1> DEFINE joiner == Range(WokenJoiner(t))
<1>1. /\ RunTypes /\ BlockTypes /\ TermTypes /\ HistoryTypes
      /\ BlockInv /\ TreeInv /\ JoinInv /\ FreshUnrelated /\ OneProgram /\ TerminatedIsStopped
  BY DEF IInv, KinInv, TypeOK
<1>2. /\ ~internal_error' /\ thread' = None /\ at' = [at EXCEPT ![t] = "exited"]
      /\ queue' = [x \in Thread |->
                     IF x = t THEN "zombie"
                     ELSE IF x \in Range(woken) \cup joiner THEN "ready" ELSE queue[x]]
  BY LeavesQueues DEF Leaves, BecomeZombie
<1>3. queue[t] = "none" /\ Alive(t) /\ ~InBlock(t)
  BY DEF IInv, OnePlace, Alive, InBlock
<1>4. /\ \A x \in joiner : queue[x] = "sleep" /\ at[x] = "thread_join"
      /\ \A x \in Range(woken) : queue[x] = "sleep" /\ at[x] \in {"join", "spoon"}
  BY JoinerSleeps DEF InBlock
<1> HIDE DEF joiner
<1>5. \A x \in Thread : Gone(x)' <=> Gone(x) \/ x = t
  BY <1>2, <1>3, <1>4 DEF Gone
<1>6. \A x \in Thread : Alive(x)' <=> Alive(x) /\ x # t
  BY <1>2, <1>3, <1>4 DEF Alive
<1>7. \A x \in Thread : x # t => at'[x] = at[x]
  BY <1>1, <1>2 DEF RunTypes
<1>8. \A x \in Thread : InBlock(x)' <=> InBlock(x) /\ x \notin Range(woken)
  BY <1>2, <1>3, <1>4, <1>7 DEF InBlock
<1>9. \A x \in Thread : ~Forking(x)' /\ ~Forking(x)
  BY DEF Leaves, Forking
<1>10. \A x \in Thread : Reports(x)' => x # t
  BY <1>6 DEF Reports
<1>11. TreeInv'
  BY <1>5, <1>6, LeavesTree
<1>12. at'[t] = "exited"
  BY <1>1, <1>2 DEF RunTypes
<1>13. OneProgram' /\ TerminatedIsStopped' /\ NoInternalError'
  BY <1>1, <1>2, <1>7, <1>12 DEF Leaves, OneProgram, TerminatedIsStopped, NoInternalError
<1>14. JoinInv'
  <2>1. \A x \in Thread : thread_join'[x] <=> thread_join[x] /\ x \notin joiner
    <3>1. CASE JoinerDone(t)
      <4>1. term_parent[t] \in Thread
        BY <1>1, <3>1 DEF JoinerDone, TermTypes, Link
      <4>2. joiner = {term_parent[t]}
        BY <3>1, <4>1, SingleOnce DEF joiner, WokenJoiner
      <4>3. thread_join' = [thread_join EXCEPT ![term_parent[t]] = FALSE]
        BY <3>1 DEF Leaves, ExitTermLink
      <4>. QED BY <1>1, <4>1, <4>2, <4>3 DEF TermTypes
    <3>2. CASE ~JoinerDone(t)
      <4>1. joiner = {}
        BY <3>2, EmptyOnce DEF joiner, WokenJoiner
      <4>. QED BY <3>2, <4>1 DEF Leaves, ExitTermLink
    <3>. QED BY <3>1, <3>2
  <2>2. \A x \in Thread : thread_join[x] <=> queue[x] = "sleep" /\ at[x] = "thread_join"
    BY <1>1 DEF JoinInv
  <2>3. ~thread_join[t]
    BY <1>3, <2>2
  <2>. QED BY <1>2, <1>4, <1>7, <1>12, <2>1, <2>2, <2>3 DEF JoinInv
<1>15. FreshUnrelated'
  <2> SUFFICES ASSUME NEW x \in Thread, queue'[x] = "unallocated" PROVE Unrelated(x)'
    BY DEF FreshUnrelated
  <2>1. queue[x] = "unallocated" /\ x # t /\ ~Alive(x) /\ Unrelated(x) /\ ~InBlock(x)
    BY <1>1, <1>2 DEF Alive, FreshUnrelated, InBlock
  <2>2. /\ at'[x] = "start" /\ ~terminated'[x] /\ parent'[x] = None /\ child'[x] = {}
        /\ creator'[x] = None /\ \A y \in Thread : creator'[y] # x
    BY <1>7, <2>1, NoneAssumption DEF Unrelated, Leaves
  <2>3. ~thread_join'[x]
    BY <1>1, <1>14, <2>1 DEF JoinInv
  <2>4. x \notin term_child[t] /\ x # term_parent[t]
    <3>1. ~Gone(t)
      BY <1>3 DEF Gone
    <3>2. x \notin term_child[t]
      BY <1>1, <2>1, <3>1 DEF TreeInv
    <3>3. x \notin Ancestors(t)
      BY <1>1, <2>1, AncestorsBarren DEF Unrelated
    <3>. QED BY <1>1, <3>2, <3>3, NoneAssumption DEF TreeInv
  <2>5. term_parent'[x] = None /\ term_child'[x] = {}
    BY <1>1, <2>1, <2>4 DEF Leaves, ExitTermLink, Unrelated, TermTypes
  <2>. QED BY <2>2, <2>3, <2>5 DEF Unrelated
<1>. QED BY <1>5, <1>6, <1>7, <1>8, <1>9, <1>10, <1>11, <1>13, <1>14, <1>15

(* A thread that was terminated leaves when it is resumed *)
LEMMA ExitTerminatedLeaves ==
  ASSUME IInv, NEW t \in Thread, thread = t, at[t] # "code", terminated[t],
         ExitTerminated(t)
  PROVE  forking = "no" /\ ~Reports(t) /\ Leaves(t, <<>>)
<1>1. RunTypes /\ BlockTypes /\ TermTypes /\ OneProgram /\ forking = "no"
  BY DEF IInv, KinInv, TypeOK, OneProgram
<1>2. UNCHANGED <<parent, child, wait_child, forking, forked, creator, terminated>>
  BY DEF ExitTerminated, blockVars, history
<1>3. WokenJoiner(t) \in Seq(Thread)
  BY <1>1, WokenJoinerType
<1>4. <<>> \o WokenJoiner(t) = WokenJoiner(t)
  BY <1>3
<1>5. BecomeZombie(t, <<>> \o WokenJoiner(t), FALSE)
  BY <1>4 DEF ExitTerminated
<1>6. ~Reports(t)
  BY DEF Reports
<1>7. \A x \in Thread : Reports(x)' => Reports(x)
  <2>1. queue' = [x \in Thread |-> IF x = t THEN "zombie"
                    ELSE IF x \in Range(WokenJoiner(t)) THEN "ready" ELSE queue[x]]
    BY DEF ExitTerminated, BecomeZombie
  <2>2. \A x \in Range(WokenJoiner(t)) : Alive(x)
    BY JoinerSleeps DEF Alive
  <2>. QED BY <1>2, <2>1, <2>2 DEF Reports, Alive
<1>8. Leaves(t, <<>>)
  BY <1>1, <1>2, <1>5, <1>7 DEF Leaves, ExitTerminated
<1>. QED BY <1>1, <1>6, <1>8

LEMMA ExitTerminatedSafe ==
  ASSUME IInv, NEW t \in Thread, thread = t, at[t] # "code", terminated[t],
         ExitTerminated(t)
  PROVE  KinInv' /\ NoInternalError'
<1>1. RunTypes /\ BlockTypes /\ TermTypes /\ BlockInv
  BY DEF IInv, KinInv, TypeOK
<1>2. UNCHANGED <<parent, child, wait_child, forking, forked, creator, terminated>>
  BY DEF ExitTerminated, blockVars, history
<1>3. Alive(t) /\ ~Reports(t)
  BY DEF IInv, OnePlace, Alive, Reports
<1>4. forking = "no" /\ Leaves(t, <<>>)
  BY ExitTerminatedLeaves
<1>5. /\ OneProgram' /\ FreshUnrelated' /\ TreeInv' /\ JoinInv'
      /\ TerminatedIsStopped' /\ NoInternalError'
      /\ \A x \in Thread : /\ Alive(x)' <=> Alive(x) /\ x # t
                           /\ InBlock(x)' <=> InBlock(x)
                           /\ ~Forking(x)' /\ ~Forking(x)
                           /\ x # t => at'[x] = at[x]
  BY <1>1, <1>4, EmptyOnce, LeavesSafe
<1>6. ~InBlock(t)
  BY DEF IInv, OnePlace, InBlock
<1>7. \A x \in Thread : Reports(x)' <=> Reports(x)
  BY <1>2, <1>3, <1>5 DEF Reports
<1>8. BlockInv'
  <2>1. \A x \in Thread : (Reports(x) =>
          x \in child[parent[x]] /\ (InBlock(parent[x]) \/ Forking(parent[x])))'
    <3> SUFFICES ASSUME NEW x \in Thread, Reports(x)'
                 PROVE  (x \in child[parent[x]] /\ InBlock(parent[x]))'
      OBVIOUS
    <3>1. Reports(x) /\ parent[x] \in Thread
      BY <1>1, <1>7 DEF Reports, BlockTypes, Link
    <3>2. x \in child[parent[x]] /\ InBlock(parent[x])
      BY <1>1, <1>5, <3>1 DEF BlockInv
    <3>. QED BY <1>2, <1>5, <3>1, <3>2
  <2>2. ASSUME NEW p \in Thread, InBlock(p)' PROVE Counted(p)' \/ Abandoned(p)'
    <3>1. InBlock(p) /\ at'[p] = at[p]
      BY <1>5, <1>6, <2>2
    <3>2. CASE Counted(p)
      BY <1>1, <1>2, <1>7, <3>1, <3>2 DEF Counted, BlockTypes
    <3>3. CASE Abandoned(p)
      BY <1>2, <1>7, <3>3 DEF Abandoned
    <3>. QED BY <1>1, <3>1, <3>2, <3>3 DEF BlockInv
  <2>3. \A p \in Thread : ~InBlock(p)' /\ ~Forking(p)' => child'[p] = {}
    BY <1>1, <1>2, <1>5 DEF BlockInv
  <2>4. \A x \in Thread : Alive(x)' /\ terminated'[x] /\ parent'[x] # None =>
          terminated'[parent'[x]]
    BY <1>1, <1>2, <1>5 DEF BlockInv
  <2>. QED BY <1>5, <2>1, <2>2, <2>3, <2>4 DEF BlockInv
<1>. QED BY <1>5, <1>8 DEF KinInv

LEMMA BeginSafe ==
  ASSUME IInv, NEW t \in Thread, Begin(t)
  PROVE  KinInv' /\ NoInternalError'
<1>1. thread = t /\ at[t] = "start" /\ at[t] # "code"
  BY DEF Begin
<1>2. CASE /\ ~terminated[t] /\ at' = [at EXCEPT ![t] = "code"]
           /\ UNCHANGED <<thread, ready_queue, queue, loopVars, blockVars, termVars,
                          timeVars, history>>
  BY <1>1, <1>2, GoesOnSafe DEF loopVars, blockVars, termVars, history
<1>3. CASE terminated[t] /\ ExitTerminated(t)
  BY <1>1, <1>3, ExitTerminatedSafe
<1>4. CASE /\ thread' = None
           /\ UNCHANGED <<ready_queue, queue, at, loopVars, blockVars, termVars,
                          timeVars, history>>
  <2>1. forking = "no" /\ \A x \in Thread : at[x] # "code"
    BY <1>1 DEF IInv, KinInv, OneProgram
  <2>2. Steady
    BY <1>4, <2>1 DEF Steady, Alive, Gone, InBlock, Forking, blockVars, termVars, history,
       IInv, KinInv, FreshUnrelated, Unrelated
  <2>3. FreshUnrelated' /\ BlockInv' /\ TreeInv'
    BY <2>2, SteadyStep
  <2>4. OneProgram' /\ TerminatedIsStopped' /\ JoinInv' /\ NoInternalError'
    BY <1>4, <2>1 DEF IInv, KinInv, OneProgram, TerminatedIsStopped, JoinInv, NoInternalError,
       loopVars, blockVars, termVars
  <2>. QED BY <2>3, <2>4 DEF KinInv
<1>. QED BY <1>2, <1>3, <1>4 DEF Begin, Stopped

LEMMA ResumeSafe ==
  ASSUME IInv, NEW t \in Thread, Resume(t)
  PROVE  KinInv' /\ NoInternalError'
<1>1. thread = t /\ at[t] # "code"
  BY DEF Resume, ResumePoints
<1>2. CASE terminated[t] /\ ExitTerminated(t)
  BY <1>1, <1>2, ExitTerminatedSafe
<1>3. CASE /\ ~terminated[t] /\ at' = [at EXCEPT ![t] = "code"]
           /\ UNCHANGED <<thread, ready_queue, queue, loopVars, parent, child, wait_child,
                          forking, form, termVars, timeVars, history>>
  BY <1>1, <1>3, GoesOnSafe DEF loopVars, termVars, history
<1>. QED BY <1>2, <1>3 DEF Resume, Stopped

(* The parent of a thread that exits sleeps for it, and has counted it *)
LEMMA ParentWaits ==
  ASSUME IInv, NEW t \in Thread, Runs(t), parent[t] # None
  PROVE  /\ parent[t] \in Thread /\ parent[t] # t
         /\ InBlock(parent[t]) /\ Counted(parent[t]) /\ t \in child[parent[t]]
<1>1. parent[t] \in Thread
  BY DEF IInv, TypeOK, BlockTypes, Link
<1>2. queue[t] = "none" /\ at[t] = "code" /\ ~terminated[t] /\ forking = "no"
  BY DEF Runs, Executes, IInv, OnePlace, KinInv, TerminatedIsStopped
<1>3. Reports(t)
  BY <1>2 DEF Reports, Alive
<1>4. t \in child[parent[t]] /\ InBlock(parent[t])
  BY <1>1, <1>2, <1>3 DEF IInv, KinInv, BlockInv, Forking
<1>5. ~Abandoned(parent[t])
  BY <1>3 DEF Abandoned
<1>. QED BY <1>1, <1>2, <1>4, <1>5 DEF IInv, KinInv, BlockInv, InBlock

(* The exit instruction finds a sibling left unless the wait is over *)
LEMMA SiblingLeft ==
  ASSUME IInv, NEW t \in Thread, Runs(t), NEW decided \in BOOLEAN
  PROVE  /\ ~NoSibling(t, decided)
         /\ parent[t] # None /\ ~LastOut(t, decided) =>
              /\ at[parent[t]] = "join" /\ ~decided
              /\ child[parent[t]] \ {t} # {}
              /\ wait_child[parent[t]] - 1 = Cardinality(child[parent[t]] \ {t})
<1> SUFFICES ASSUME parent[t] # None, ~LastOut(t, decided)
             PROVE  /\ at[parent[t]] = "join" /\ ~decided
                    /\ child[parent[t]] \ {t} # {}
                    /\ wait_child[parent[t]] - 1 = Cardinality(child[parent[t]] \ {t})
  BY DEF NoSibling
<1> DEFINE p == parent[t]
<1>1. p \in Thread /\ InBlock(p) /\ Counted(p) /\ t \in child[p]
  BY ParentWaits
<1>2. child[p] \subseteq Thread
  BY <1>1 DEF IInv, TypeOK, BlockTypes
<1>3. IsFiniteSet(child[p])
  BY <1>2, ThreadAssumption, FS_Subset
<1>4. ~decided /\ wait_child[p] # 1
  BY DEF LastOut
<1>5. at[p] = "join" /\ wait_child[p] = Cardinality(child[p])
  BY <1>1, <1>4 DEF Counted, InBlock
<1>6. Cardinality(child[p] \ {t}) = Cardinality(child[p]) - 1
  BY <1>1, <1>3, FS_RemoveElement
<1>7. child[p] \ {t} # {}
  <2> SUFFICES ASSUME child[p] = {t} PROVE FALSE
    BY <1>1
  <2>. QED BY <1>4, <1>5, FS_Singleton
<1>. QED BY <1>4, <1>5, <1>6, <1>7

(* The exit instructions; cut holds the siblings that are terminated *)
LEMMA ExitInstructionLeaves ==
  ASSUME IInv, NEW t \in Thread, Runs(t), NEW decided \in BOOLEAN,
         ExitInstruction(t, decided),
         NEW cut \in SUBSET CutOff(t, decided),
         \A c \in Thread : terminated'[c] <=> terminated[c] \/ c \in cut
  PROVE  /\ WokenParent(t, decided) \in Seq(Thread)
         /\ IsInjective(WokenParent(t, decided))
         /\ Range(WokenParent(t, decided)) = IF LastOut(t, decided) THEN {parent[t]} ELSE {}
         /\ \A x \in Range(WokenParent(t, decided)) : InBlock(x)
         /\ Leaves(t, WokenParent(t, decided))
<1> DEFINE woken == WokenParent(t, decided)
<1>1. RunTypes /\ BlockTypes /\ TermTypes /\ BlockInv
  BY DEF IInv, KinInv, TypeOK
<1>2. /\ woken \in Seq(Thread) /\ IsInjective(woken)
      /\ Range(woken) = IF LastOut(t, decided) THEN {parent[t]} ELSE {}
  BY ParentWaits, SingleOnce, EmptyOnce DEF WokenParent, LastOut
<1>3. \A x \in Range(woken) : InBlock(x)
  BY <1>2, ParentWaits DEF LastOut
<1> HIDE DEF woken
<1>4. WokenJoiner(t) \in Seq(Thread)
  BY <1>1, WokenJoinerType
<1>5. Range(woken \o WokenJoiner(t)) = Range(woken) \cup Range(WokenJoiner(t))
  BY <1>2, <1>4, ConcatRange
<1>6. \A x \in Range(woken \o WokenJoiner(t)) : Alive(x)
  BY <1>3, <1>5, JoinerSleeps DEF Alive, InBlock
<1>7. BecomeZombie(t, woken \o WokenJoiner(t), FALSE)
  <2>1. NoSibling(t, decided) = FALSE
    BY SiblingLeft DEF NoSibling
  <2>. QED BY <2>1 DEF ExitInstruction, woken
<1>8. \A x \in Thread : Alive(x)' => Alive(x)
  BY <1>6, <1>7 DEF BecomeZombie, Alive
<1>9. \A x \in CutOff(t, decided) : Alive(x) /\ x \in Thread
  BY <1>1, ParentWaits DEF CutOff, LastOut, Counted, Reports, BlockTypes
<1>10. parent' = [c \in Thread |-> IF c \in CutOff(t, decided) THEN None ELSE parent[c]]
  BY DEF ExitInstruction, LeaveBlock
<1>11. \A x \in Thread : ~InBlock(x) => child'[x] = child[x]
  BY <1>1, ParentWaits DEF ExitInstruction, LeaveBlock, BlockTypes
<1>12. \A x \in Thread : Reports(x)' => Reports(x) /\ parent'[x] = parent[x]
  BY <1>1, <1>8, <1>10 DEF Reports
<1>13. Leaves(t, woken)
  BY <1>7, <1>9, <1>10, <1>11, <1>12 DEF Leaves, ExitInstruction, Runs
<1>. QED BY <1>2, <1>3, <1>13 DEF woken

LEMMA ExitInstructionSafe ==
  ASSUME IInv, NEW t \in Thread, Runs(t), NEW decided \in BOOLEAN,
         ExitInstruction(t, decided),
         NEW cut \in SUBSET CutOff(t, decided),
         \A c \in Thread : terminated'[c] <=> terminated[c] \/ c \in cut
  PROVE  KinInv' /\ NoInternalError'
<1> DEFINE woken == WokenParent(t, decided)
           p == parent[t]
           last == LastOut(t, decided)
<1>1. RunTypes /\ BlockTypes /\ TermTypes /\ BlockInv /\ thread = t /\ forking = "no"
  BY DEF IInv, KinInv, TypeOK, Runs, Executes
<1>2. /\ woken \in Seq(Thread) /\ IsInjective(woken)
      /\ Range(woken) = IF last THEN {p} ELSE {}
      /\ \A x \in Range(woken) : InBlock(x)
      /\ Leaves(t, woken)
  BY ExitInstructionLeaves
<1>3. /\ OneProgram' /\ FreshUnrelated' /\ TreeInv' /\ JoinInv'
      /\ TerminatedIsStopped' /\ NoInternalError'
      /\ \A x \in Thread : /\ Alive(x)' <=> Alive(x) /\ x # t
                           /\ InBlock(x)' <=> InBlock(x) /\ x \notin Range(woken)
                           /\ ~Forking(x)' /\ ~Forking(x)
                           /\ x # t => at'[x] = at[x]
                           /\ Reports(x)' => x # t
  BY <1>1, <1>2, LeavesSafe
<1>4. \A x \in Thread : Reports(x)' => Reports(x) /\ parent'[x] = parent[x]
  BY <1>2 DEF Leaves
<1>5. /\ parent' = [c \in Thread |-> IF c \in CutOff(t, decided) THEN None ELSE parent[c]]
      /\ CutOff(t, decided) = IF last THEN child[p] \ {t} ELSE {}
      /\ child' = IF p = None THEN child
                  ELSE [child EXCEPT ![p] = IF last THEN {} ELSE @ \ {t}]
      /\ wait_child' = IF p = None \/ decided THEN wait_child
                       ELSE [wait_child EXCEPT ![p] = @ - 1]
      /\ last => p # None
  BY DEF ExitInstruction, LeaveBlock, CutOff, LastOut
<1>6. p # None => /\ p \in Thread /\ p # t /\ InBlock(p) /\ Counted(p) /\ t \in child[p]
  BY ParentWaits
<1>7. p # None /\ ~last => /\ at[p] = "join" /\ ~decided /\ child[p] \ {t} # {}
                           /\ wait_child[p] - 1 = Cardinality(child[p] \ {t})
  BY SiblingLeft
<1> HIDE DEF woken, p, last
<1>8. \A x \in Thread : x # p => child'[x] = child[x]
  BY <1>1, <1>5, <1>6 DEF BlockTypes
<1>9. p # None => child'[p] = IF last THEN {} ELSE child[p] \ {t}
  BY <1>1, <1>5, <1>6 DEF BlockTypes
<1>10. ASSUME NEW r \in Thread, r # p \/ ~last, NEW c \in child[r], c # t,
              parent[c] = r, Reports(c)
       PROVE  parent'[c] = r /\ Reports(c)'
  <2>1. c \in Thread /\ c \notin CutOff(t, decided)
    BY <1>1, <1>5, <1>6, <1>10, NoneAssumption DEF Counted, BlockTypes
  <2>2. parent'[c] = r /\ ~terminated'[c]
    BY <1>5, <1>10, <2>1 DEF Reports
  <2>. QED BY <1>3, <1>10, <2>1, <2>2 DEF Reports
<1>11. BlockInv'
  <2>1. \A x \in Thread : (Reports(x) =>
          x \in child[parent[x]] /\ (InBlock(parent[x]) \/ Forking(parent[x])))'
    <3> SUFFICES ASSUME NEW x \in Thread, Reports(x)'
                 PROVE  (x \in child[parent[x]] /\ InBlock(parent[x]))'
      OBVIOUS
    <3> DEFINE r == parent[x]
    <3>1. Reports(x) /\ parent'[x] = r /\ r \in Thread /\ x # t
      BY <1>1, <1>3, <1>4 DEF Reports, BlockTypes, Link
    <3>2. x \in child[r] /\ InBlock(r)
      BY <1>1, <1>3, <3>1 DEF BlockInv
    <3>3. ~(r = p /\ last)
      BY <1>5, <3>1, <3>2, NoneAssumption
    <3>4. x \in child'[r]
      BY <1>8, <1>9, <3>1, <3>2, <3>3, NoneAssumption
    <3>5. (InBlock(r))'
      BY <1>2, <1>3, <3>1, <3>2, <3>3
    <3>. QED BY <3>1, <3>4, <3>5
  <2>2. ASSUME NEW r \in Thread, InBlock(r)' PROVE Counted(r)' \/ Abandoned(r)'
    <3>1. InBlock(r) /\ (r # p \/ ~last) /\ r # t /\ at'[r] = at[r]
      <4>1. InBlock(r) /\ (r # p \/ ~last)
        BY <1>2, <1>3, <2>2
      <4>2. ~InBlock(t)
        BY <1>1 DEF IInv, OnePlace, InBlock
      <4>. QED BY <1>3, <4>1, <4>2
    <3>2. CASE Abandoned(r)
      <4>1. terminated'[r]
        BY <1>2, <3>2 DEF Leaves, Abandoned
      <4>. QED BY <1>4, <3>2, <4>1 DEF Abandoned
    <3>3. CASE r = p
      <4>1. /\ p # None /\ ~last /\ Counted(p)
            /\ child'[p] = child[p] \ {t}
        BY <1>6, <1>9, <3>1, <3>3, NoneAssumption
      <4>2. /\ at[p] = "join" /\ ~decided /\ child[p] \ {t} # {}
            /\ wait_child[p] - 1 = Cardinality(child[p] \ {t})
        BY <1>7, <4>1
      <4>3. wait_child'[p] = wait_child[p] - 1
        BY <1>1, <1>5, <1>6, <4>1, <4>2 DEF BlockTypes
      <4>4. \A c \in child'[p] : parent'[c] = p /\ Reports(c)'
        BY <1>10, <3>3, <4>1 DEF Counted
      <4>. QED BY <3>1, <3>3, <4>1, <4>2, <4>3, <4>4 DEF Counted
    <3>4. CASE r # p /\ Counted(r)
      <4>1. child'[r] = child[r] /\ wait_child'[r] = wait_child[r]
        BY <1>1, <1>5, <1>6, <1>8, <3>4 DEF BlockTypes
      <4>2. t \notin child[r]
        BY <3>4 DEF Counted, p
      <4>3. \A c \in child'[r] : parent'[c] = r /\ Reports(c)'
        BY <1>10, <3>4, <4>1, <4>2 DEF Counted
      <4>. QED BY <3>1, <3>4, <4>1, <4>3 DEF Counted
    <3>. QED BY <1>1, <3>1, <3>2, <3>3, <3>4 DEF BlockInv
  <2>3. ASSUME NEW r \in Thread, ~InBlock(r)' PROVE child'[r] = {}
    <3>1. CASE r = p
      BY <1>2, <1>3, <1>6, <1>9, <2>3, <3>1, NoneAssumption
    <3>2. CASE r # p
      BY <1>1, <1>2, <1>3, <1>8, <2>3, <3>2 DEF BlockInv
    <3>. QED BY <3>1, <3>2
  <2>4. ASSUME NEW x \in Thread, Alive(x)', terminated'[x], parent'[x] # None
        PROVE  terminated'[parent'[x]]
    <3>1. Alive(x) /\ x \notin CutOff(t, decided) /\ parent'[x] = parent[x]
      BY <1>3, <1>5, <2>4
    <3>2. terminated[x]
      BY <2>4, <3>1
    <3>3. terminated[parent[x]] /\ parent[x] \in Thread
      BY <1>1, <2>4, <3>1, <3>2 DEF BlockInv, BlockTypes, Link
    <3>. QED BY <3>1, <3>3
  <2>. QED BY <1>3, <2>1, <2>2, <2>3, <2>4 DEF BlockInv
<1>. QED BY <1>3, <1>11 DEF KinInv

LEMMA ExitSafe ==
  ASSUME IInv, NEW t \in Thread, Exit(t)
  PROVE  KinInv' /\ NoInternalError'
<1>1. Runs(t) /\ ExitInstruction(t, FALSE) /\ terminated' = terminated
  BY DEF Exit
<1>2. /\ {} \in SUBSET CutOff(t, FALSE)
      /\ \A c \in Thread : terminated'[c] <=> terminated[c] \/ c \in {}
  BY <1>1
<1>. QED BY <1>1, <1>2, ExitInstructionSafe

LEMMA ExitWithValueSafe ==
  ASSUME IInv, NEW t \in Thread, NEW v, ExitWithValue(t, v)
  PROVE  KinInv' /\ NoInternalError'
<1> DEFINE decided == parent[t] # None /\ Combined(t, v) = Decisive(form[t])
<1>1. /\ Runs(t) /\ ExitInstruction(t, decided) /\ decided \in BOOLEAN
      /\ terminated' = [c \in Thread |-> terminated[c] \/ c \in CutOff(t, decided)]
  BY DEF ExitWithValue
<1>2. \A c \in Thread : terminated'[c] <=> terminated[c] \/ c \in CutOff(t, decided)
  BY <1>1
<1>3. CutOff(t, decided) \in SUBSET CutOff(t, decided)
  OBVIOUS
<1> HIDE DEF decided
<1>. QED BY <1>1, <1>2, <1>3, ExitInstructionSafe

(* What terminate reaches is alive and descends from t; it reaches a child  *)
(* that reports to another thread exactly if it reaches that thread         *)
LEMMA TerminateReaches ==
  ASSUME IInv, NEW t \in Thread, Runs(t)
  PROVE  /\ \A x \in TermSubtree(t) :
              /\ x \in Thread /\ x # t /\ Alive(x) /\ t \in Ancestors(x)
              /\ term_parent[x] \in TermSubtree(t) \cup {t}
         /\ \A c \in Thread : Reports(c) =>
              /\ parent[c] \in Thread /\ parent[c] # t /\ ~Gone(parent[c])
              /\ c \in TermSubtree(t) <=> parent[c] \in TermSubtree(t)
<1> DEFINE below == TermSubtree(t)
           S == {x \in Thread : Alive(x) /\ t \in Ancestors(x)}
<1>1. BlockInv /\ TreeInv /\ TermTypes /\ BlockTypes /\ HistoryTypes
  BY DEF IInv, KinInv, TypeOK
<1>2. queue[t] = "none" /\ forking = "no" /\ ~Gone(t) /\ ~InBlock(t)
  BY DEF Runs, Executes, IInv, OnePlace, Gone, InBlock
<1>3. \A x \in Thread : Alive(x) => ~Gone(x)
  BY DEF Alive, Gone
<1>4. \A x \in Thread : ~Gone(x) =>
        \A y \in term_child[x] : y \in Thread /\ Alive(y) /\ term_parent[y] = x /\ x \in Ancestors(y)
  BY <1>1, NoneAssumption DEF TreeInv, TermTypes
<1>5. term_child[t] \subseteq S
  BY <1>2, <1>4
<1>6. \A x \in S : term_child[x] \subseteq S
  BY <1>1, <1>3, <1>4, AncestorsTrans
<1>7. below \subseteq S
  BY <1>5, <1>6, ReachLeast DEF TermSubtree
<1>8. term_child[t] \in SUBSET Thread /\ term_child \in [Thread -> SUBSET Thread]
  BY <1>1 DEF TermTypes
<1>9. term_child[t] \subseteq below
  BY <1>8, ReachFirst DEF TermSubtree
<1>10. \A x \in below : term_child[x] \subseteq below
  BY <1>8, ReachClosed DEF TermSubtree
<1>11. \A y \in below : y \in term_child[t] \/ \E x \in below : y \in term_child[x]
  BY <1>8, ReachStep DEF TermSubtree
<1> HIDE DEF below
<1>12. ASSUME NEW x \in below
       PROVE  /\ x \in Thread /\ x # t /\ Alive(x) /\ t \in Ancestors(x)
              /\ term_parent[x] \in below \cup {t}
  <2>1. x \in Thread /\ x # t /\ Alive(x) /\ t \in Ancestors(x)
    BY <1>1, <1>7 DEF TreeInv
  <2>2. term_parent[x] \in below \cup {t}
    <3>1. CASE x \in term_child[t]
      BY <1>2, <1>4, <3>1
    <3>2. CASE \E y \in below : x \in term_child[y]
      BY <1>3, <1>4, <1>7, <3>2
    <3>. QED BY <1>11, <3>1, <3>2
  <2>. QED BY <2>1, <2>2
<1>13. ASSUME NEW c \in Thread, Reports(c)
       PROVE  /\ parent[c] \in Thread /\ parent[c] # t /\ ~Gone(parent[c])
              /\ c \in below <=> parent[c] \in below
  <2>1. parent[c] \in Thread /\ InBlock(parent[c])
    BY <1>1, <1>2, <1>13 DEF BlockInv, Forking, Reports, BlockTypes, Link
  <2>2. parent[c] # t /\ ~Gone(parent[c])
    BY <1>2, <2>1 DEF InBlock, Gone
  <2>3. term_parent[c] = parent[c] /\ c \in term_child[parent[c]]
    BY <1>1, <1>13 DEF TreeInv
  <2>. QED BY <1>10, <1>12, <2>1, <2>2, <2>3
<1>. QED BY <1>12, <1>13 DEF below

LEMMA TerminateSafe ==
  ASSUME IInv, NEW t \in Thread, Terminate(t)
  PROVE  KinInv' /\ NoInternalError'
<1> DEFINE below == TermSubtree(t)
<1>1. /\ Runs(t) /\ thread = t /\ forking = "no"
      /\ terminated' = [c \in Thread |-> terminated[c] \/ c \in below]
      /\ term_parent' = [c \in Thread |-> IF c \in below THEN None ELSE term_parent[c]]
      /\ term_child' = [c \in Thread |-> IF c \in below \cup {t} THEN {} ELSE term_child[c]]
      /\ UNCHANGED <<thread, queue, at, parent, child, wait_child, forking, forked, creator,
                     thread_join, internal_error>>
  BY DEF Terminate, Runs, Executes, runVars, loopVars, blockVars, history
<1>2. /\ BlockInv /\ TreeInv /\ JoinInv /\ FreshUnrelated /\ OneProgram /\ TerminatedIsStopped
      /\ TermTypes /\ BlockTypes
  BY DEF IInv, KinInv, TypeOK
<1>3. \A x \in below :
        x \in Thread /\ x # t /\ Alive(x) /\ term_parent[x] \in below \cup {t}
  BY <1>1, TerminateReaches
<1>4. \A c \in Thread : Reports(c) =>
        /\ parent[c] \in Thread /\ parent[c] # t /\ ~Gone(parent[c])
        /\ c \in below <=> parent[c] \in below
  BY <1>1, TerminateReaches
<1> HIDE DEF below
<1>5. \A x \in Thread : /\ Alive(x)' <=> Alive(x)
                        /\ Gone(x)' <=> Gone(x)
                        /\ InBlock(x)' <=> InBlock(x)
                        /\ ~Forking(x)' /\ ~Forking(x)
                        /\ Reports(x)' <=> Reports(x) /\ x \notin below
  BY <1>1 DEF Alive, Gone, InBlock, Forking, Reports
<1>6. BlockInv'
  <2>1. \A x \in Thread : (Reports(x) =>
          x \in child[parent[x]] /\ (InBlock(parent[x]) \/ Forking(parent[x])))'
    BY <1>1, <1>2, <1>4, <1>5 DEF BlockInv
  <2>2. ASSUME NEW p \in Thread, InBlock(p)' PROVE Counted(p)' \/ Abandoned(p)'
    <3>1. CASE Abandoned(p)
      BY <1>1, <1>5, <3>1 DEF Abandoned
    <3>2. CASE Counted(p) /\ p \in below
      BY <1>1, <1>4, <1>5, <3>2 DEF Abandoned
    <3>3. CASE Counted(p) /\ p \notin below
      <4>1. \A c \in child[p] : c \in Thread /\ parent[c] = p /\ Reports(c)
        BY <1>2, <3>3 DEF Counted, BlockTypes
      <4>2. \A c \in child'[p] : parent'[c] = p /\ Reports(c)'
        BY <1>1, <1>4, <1>5, <3>3, <4>1
      <4>. QED BY <1>1, <3>3, <4>2 DEF Counted
    <3>. QED BY <1>2, <1>5, <2>2, <3>1, <3>2, <3>3 DEF BlockInv
  <2>3. \A p \in Thread : ~InBlock(p)' /\ ~Forking(p)' => child'[p] = {}
    BY <1>1, <1>2, <1>5 DEF BlockInv
  <2>4. ASSUME NEW x \in Thread, Alive(x)', terminated'[x], parent'[x] # None
        PROVE  terminated'[parent'[x]]
    <3>1. Alive(x) /\ parent'[x] = parent[x] /\ parent[x] \in Thread
      BY <1>1, <1>2, <1>5, <2>4 DEF BlockTypes, Link
    <3>2. CASE terminated[x]
      BY <1>1, <1>2, <2>4, <3>1, <3>2 DEF BlockInv
    <3>3. CASE ~terminated[x]
      BY <1>1, <1>4, <2>4, <3>1, <3>3 DEF Reports
    <3>. QED BY <3>2, <3>3
  <2>. QED BY <1>5, <2>1, <2>2, <2>3, <2>4 DEF BlockInv
<1>7. TreeInv'
  <2>1. \A x \in Thread : Ancestors(x)' = Ancestors(x)
    BY <1>1 DEF Ancestors, Creators
  <2>2. ASSUME NEW p \in Thread, ~Gone(p)', NEW x \in term_child'[p]
        PROVE  Alive(x)' /\ term_parent'[x] = p
    <3>1. p \notin below \cup {t} /\ x \in term_child[p] /\ x \in Thread
      BY <1>1, <1>2, <2>2 DEF TermTypes
    <3>2. Alive(x) /\ term_parent[x] = p
      BY <1>2, <1>5, <2>2, <3>1 DEF TreeInv
    <3>. QED BY <1>1, <1>3, <1>5, <3>1, <3>2
  <2>3. \A c \in Thread : term_parent'[c] # None => term_parent'[c] \in Ancestors(c)
    BY <1>1, <1>2 DEF TreeInv
  <2>4. ASSUME NEW c \in Thread, Reports(c)'
        PROVE  term_parent'[c] = parent'[c] /\ c \in term_child'[parent'[c]]
    <3>1. Reports(c) /\ c \notin below /\ parent[c] \notin below \cup {t} /\ parent[c] \in Thread
      BY <1>4, <1>5, <2>4
    <3>2. term_parent[c] = parent[c] /\ c \in term_child[parent[c]]
      BY <1>2, <3>1 DEF TreeInv
    <3>. QED BY <1>1, <3>1, <3>2
  <2>5. parent'[Main] = None /\ term_parent'[Main] = None /\ queue'[Main] # "unallocated"
    BY <1>1, <1>2, MainAssumption DEF TreeInv
  <2>. QED BY <1>2, <2>1, <2>2, <2>3, <2>4, <2>5 DEF TreeInv
<1>8. FreshUnrelated'
  <2> SUFFICES ASSUME NEW x \in Thread, queue'[x] = "unallocated" PROVE Unrelated(x)'
    BY DEF FreshUnrelated
  <2>1. queue[x] = "unallocated" /\ x \notin below /\ Unrelated(x)
    BY <1>1, <1>2, <1>3 DEF Alive, FreshUnrelated
  <2>. QED BY <1>1, <2>1 DEF Unrelated
<1>9. TerminatedIsStopped'
  BY <1>1, <1>2, <1>3 DEF TerminatedIsStopped, OneProgram
<1>10. OneProgram' /\ JoinInv' /\ NoInternalError'
  BY <1>1, <1>2 DEF OneProgram, JoinInv, IInv, NoInternalError
<1>. QED BY <1>6, <1>7, <1>8, <1>9, <1>10 DEF KinInv

LEMMA MainReturnsSafe == IInv /\ MainReturns => KinInv' /\ NoInternalError'
<1> SUFFICES ASSUME IInv, MainReturns PROVE KinInv' /\ NoInternalError'
  OBVIOUS
<1>1. /\ thread = Main /\ at[Main] = "code" /\ queue[Main] = "none" /\ forking = "no"
      /\ thread' = None
      /\ queue' = [queue EXCEPT ![Main] = "zombie"]
      /\ at' = [at EXCEPT ![Main] = "exited"]
      /\ UNCHANGED <<parent, child, wait_child, forking, forked, creator, term_parent,
                     term_child, thread_join, terminated, internal_error>>
  BY MainAssumption DEF MainReturns, Runs, Executes, loopVars, blockVars, termVars, history,
     IInv, OnePlace
<1>2. /\ BlockInv /\ TreeInv /\ JoinInv /\ FreshUnrelated /\ OneProgram /\ TerminatedIsStopped
      /\ RunTypes /\ TermTypes /\ BlockTypes
  BY DEF IInv, KinInv, TypeOK
<1>3. \A x \in Thread : /\ Alive(x)' <=> Alive(x) /\ x # Main
                        /\ Gone(x)' <=> Gone(x) \/ x = Main
                        /\ InBlock(x)' <=> InBlock(x)
                        /\ InBlock(x) => at'[x] = at[x]
                        /\ ~Forking(x)' /\ ~Forking(x)
                        /\ Reports(x)' <=> Reports(x)
  BY <1>1, <1>2, MainAssumption DEF Alive, Gone, InBlock, Forking, Reports, RunTypes, TreeInv
<1>4. BlockInv'
  <2>1. \A p \in Thread : InBlock(p) /\ Counted(p) => Counted(p)'
    BY <1>1, <1>2, <1>3 DEF Counted, BlockTypes
  <2>2. \A p \in Thread : Abandoned(p) => Abandoned(p)'
    BY <1>1, <1>3 DEF Abandoned
  <2>3. \A x \in Thread : (Reports(x) =>
          x \in child[parent[x]] /\ (InBlock(parent[x]) \/ Forking(parent[x])))'
    <3> SUFFICES ASSUME NEW x \in Thread, Reports(x)'
                 PROVE  (x \in child[parent[x]] /\ InBlock(parent[x]))'
      OBVIOUS
    <3>1. Reports(x) /\ parent[x] \in Thread
      BY <1>2, <1>3 DEF Reports, BlockTypes, Link
    <3>2. x \in child[parent[x]] /\ InBlock(parent[x])
      BY <1>2, <1>3, <3>1 DEF BlockInv
    <3>. QED BY <1>1, <1>3, <3>1, <3>2
  <2>4. \A p \in Thread : ~InBlock(p)' /\ ~Forking(p)' => child'[p] = {}
    BY <1>1, <1>2, <1>3 DEF BlockInv
  <2>5. \A x \in Thread : Alive(x)' /\ terminated'[x] /\ parent'[x] # None =>
          terminated'[parent'[x]]
    BY <1>1, <1>2, <1>3 DEF BlockInv
  <2>. QED BY <1>2, <1>3, <2>1, <2>2, <2>3, <2>4, <2>5 DEF BlockInv
<1>5. TreeInv'
  <2>1. \A x \in Thread : Ancestors(x)' = Ancestors(x)
    BY <1>1 DEF Ancestors, Creators
  <2>2. \A p \in Thread : ~Gone(p) => Main \notin term_child[p]
    BY <1>2, NoneAssumption DEF TreeInv
  <2>3. \A p \in Thread : ~Gone(p)' => \A x \in term_child'[p] : Alive(x)' /\ term_parent'[x] = p
    BY <1>1, <1>2, <1>3, <2>2 DEF TreeInv, TermTypes
  <2>4. queue'[Main] # "unallocated"
    BY <1>1, <1>2, MainAssumption DEF RunTypes
  <2>. QED BY <1>1, <1>2, <1>3, <2>1, <2>3, <2>4 DEF TreeInv
<1>6. FreshUnrelated'
  BY <1>1, <1>2, MainAssumption DEF FreshUnrelated, Unrelated, RunTypes
<1>7. OneProgram' /\ TerminatedIsStopped' /\ JoinInv' /\ NoInternalError'
  BY <1>1, <1>2, MainAssumption DEF OneProgram, TerminatedIsStopped, JoinInv, RunTypes, IInv,
     NoInternalError
<1>. QED BY <1>4, <1>5, <1>6, <1>7 DEF KinInv
-----------------------------------------------------------------------------
LEMMA KinInit == Init => KinInv /\ NoInternalError
<1> SUFFICES ASSUME Init PROVE KinInv /\ NoInternalError
  OBVIOUS
<1> USE MainAssumption, NoneAssumption DEF Init
<1>1. \A x \in Thread : /\ ~InBlock(x) /\ ~Forking(x) /\ ~Reports(x)
                        /\ Unrelated(x) /\ creator[x] = None
  BY DEF InBlock, Forking, Reports, Unrelated
<1>2. OneProgram /\ FreshUnrelated /\ JoinInv /\ TerminatedIsStopped /\ NoInternalError
  BY <1>1 DEF OneProgram, FreshUnrelated, JoinInv, TerminatedIsStopped, NoInternalError
<1>3. BlockInv
  BY <1>1 DEF BlockInv
<1>4. \A x \in Thread : x \notin Ancestors(x)
  <2>1. creator \in [Thread -> Link]
    BY DEF Link
  <2>. QED BY <1>1, <2>1, AncestorsBarren DEF HistoryTypes
<1>5. TreeInv
  BY <1>1, <1>4 DEF TreeInv
<1>. QED BY <1>2, <1>3, <1>5 DEF KinInv

LEMMA KinStep ==
  ASSUME JoinLimits = {}, IInv, [Next]_vars
  PROVE  KinInv' /\ NoInternalError'
<1>1. CASE UNCHANGED vars
  <2>1. Steady
    BY <1>1 DEF vars, runVars, blockVars, termVars, history, Steady, Alive, Gone, InBlock,
       Forking, IInv, KinInv, FreshUnrelated, Unrelated
  <2>2. FreshUnrelated' /\ BlockInv' /\ TreeInv'
    BY <2>1, SteadyStep
  <2>. QED BY <1>1, <2>2 DEF vars, runVars, loopVars, blockVars, termVars, IInv, KinInv,
              OneProgram, TerminatedIsStopped, JoinInv, NoInternalError
<1>2. CASE Scheduler
  BY <1>2, DispatchSafe, EndTimeSlotSafe, StartTimeSlotSafe, WakeFromEdgeSafe DEF Scheduler
<1>3. CASE MainReturns
  BY <1>3, MainReturnsSafe
<1>4. ASSUME NEW t \in Thread, Step(t) PROVE KinInv' /\ NoInternalError'
  <2>1. CASE Begin(t) \/ Resume(t)
    BY <2>1, BeginSafe, ResumeSafe
  <2>2. CASE Blocks(t)
    BY <2>2, ForkSafe, ExecSafe, JoinSafe, KnifeSafe, ExitSafe, ExitWithValueSafe DEF Blocks
  <2>3. CASE Terminate(t)
    BY <2>3, TerminateSafe
  <2>4. CASE \E limit \in JoinLimits \cup {0} : ThreadJoin(t, limit)
    BY <2>4, ThreadJoinSafe
  <2>5. CASE ThreadPause(t) \/ SyncOnEdge(t) \/ ExitSimulation(t) \/ VerifError(t)
    BY <2>5, PauseSafe
  <2>. QED BY <1>4, <2>1, <2>2, <2>3, <2>4, <2>5 DEF Step
<1>. QED BY <1>1, <1>2, <1>3, <1>4 DEF Next, SimulationOver

(* Only Begin and Resume bring a thread into its program *)
LEMMA GoesOnAlone ==
  ASSUME IInv, [Next]_vars, NEW p \in Thread, at[p] # "code", at'[p] = "code"
  PROVE  thread = p /\ ~terminated[p] /\ Alive(p) /\ queue[p] # "sleep"
<1>1. RunTypes
  BY DEF IInv, TypeOK
<1>2. ASSUME NEW t \in Thread, Begin(t) \/ Resume(t) PROVE thread = p /\ ~terminated[p]
  BY <1>1, <1>2 DEF Begin, Resume, Stopped, ExitTerminated, BecomeZombie, RunTypes
<1>3. ASSUME NEW t \in Thread, NEW q, NEW x \in Points \ {"code"}, Suspend(t, q, x)
      PROVE  FALSE
  BY <1>1, <1>3 DEF Suspend, RunTypes
<1>4. ResumePoints \subseteq Points \ {"code"}
  BY DEF Points, KernelPoints, ResumePoints
<1>5. ASSUME NEW t \in Thread, Blocks(t) PROVE FALSE
  <2>1. CASE Join(t) \/ Spoon(t)
    BY <1>3, <1>4, <2>1 DEF Join, Spoon, WaitForChildren, ResumePoints
  <2>2. CASE Exit(t) \/ \E v \in {0, 1} : ExitWithValue(t, v)
    BY <1>1, <2>2 DEF Exit, ExitWithValue, ExitInstruction, BecomeZombie, RunTypes
  <2>. QED BY <1>5, <2>1, <2>2 DEF Blocks, Fork, Exec, Knife, runVars
<1>6. ASSUME NEW t \in Thread,
             \/ Terminate(t) \/ ThreadPause(t) \/ SyncOnEdge(t)
             \/ ExitSimulation(t) \/ VerifError(t)
             \/ \E limit \in JoinLimits \cup {0} : ThreadJoin(t, limit)
      PROVE  FALSE
  BY <1>3, <1>4, <1>6 DEF Terminate, ThreadPause, SyncOnEdge, ExitSimulation, VerifError,
     StopLoop, ThreadJoin, ResumePoints, runVars
<1>7. ~Scheduler /\ ~MainReturns /\ ~UNCHANGED vars
  BY <1>1 DEF Scheduler, Dispatch, EndTimeSlot, StartTimeSlot, WakeFromEdge, MainReturns,
     RunTypes, vars, runVars
<1>8. thread = p /\ ~terminated[p]
  BY <1>2, <1>5, <1>6, <1>7 DEF Next, SimulationOver, Step
<1>. QED BY <1>8 DEF IInv, OnePlace, Alive

(* The invariant of the thread kernel is inductive *)
THEOREM Inductive == ASSUME JoinLimits = {} PROVE Spec => []IInv
<1>1. Init => IInv
  BY TypeInit, PlaceInit, KinInit DEF IInv, PlaceInv, NoInternalError
<1>2. IInv /\ [Next]_vars => IInv'
  <2> SUFFICES ASSUME IInv, [Next]_vars PROVE IInv'
    OBVIOUS
  <2>1. TypeOK' /\ NoTimers' /\ PlaceInv'
    BY PlaceStep DEF IInv, PlaceInv
  <2>2. KinInv' /\ NoInternalError'
    BY KinStep
  <2>. QED BY <2>1, <2>2 DEF IInv, PlaceInv, NoInternalError
<1>. QED BY <1>1, <1>2, PTL DEF Spec

(* No JEDA INTERNAL ERROR: the exit of a child always finds its parent in   *)
(* the sleep queue, and JD_dequeue the thread it is asked for.              *)
THEOREM NeverInternalError == ASSUME JoinLimits = {} PROVE Spec => []NoInternalError
<1>1. IInv => NoInternalError
  BY DEF IInv
<1>. QED BY <1>1, Inductive, PTL

(* No thread is ever in two queues, or in none unless it executes or was    *)
(* terminated before it began.                                              *)
THEOREM AlwaysOnePlace == ASSUME JoinLimits = {} PROVE Spec => []OnePlace
<1>1. IInv => OnePlace
  BY DEF IInv
<1>. QED BY <1>1, Inductive, PTL

(* A thread that was terminated is resumed at most to leave. *)
THEOREM TerminatedStaysStopped ==
  ASSUME JoinLimits = {} PROVE Spec => []TerminatedIsStopped
<1>1. IInv => TerminatedIsStopped
  BY DEF IInv, KinInv
<1>. QED BY <1>1, Inductive, PTL

(* The children a sleeping parent counts are those that will report to it.  *)
THEOREM BlocksAlwaysCount == ASSUME JoinLimits = {} PROVE Spec => []BlockCounts
<1>1. IInv => BlockCounts
  <2> SUFFICES ASSUME IInv, NEW p \in Thread, InBlock(p), ~terminated[p]
               PROVE  /\ child[p] = {c \in Thread : parent[c] = p /\ ~Gone(c)}
                      /\ \A c \in child[p] : Alive(c) /\ ~terminated[c]
                      /\ child[p] # {}
                      /\ wait_child[p] = IF at[p] = "spoon" THEN 1 ELSE Cardinality(child[p])
    BY DEF BlockCounts
  <2>1. Counted(p)
    BY DEF IInv, KinInv, BlockInv, Abandoned
  <2>2. \A c \in child[p] : c \in Thread /\ parent[c] = p /\ Alive(c) /\ ~terminated[c]
    BY <2>1 DEF Counted, Reports, IInv, TypeOK, BlockTypes
  <2>3. \A c \in Thread : parent[c] = p /\ ~Gone(c) => c \in child[p]
    <3> SUFFICES ASSUME NEW c \in Thread, parent[c] = p, ~Gone(c) PROVE c \in child[p]
      OBVIOUS
    <3>1. Alive(c)
      BY NoneAssumption DEF IInv, KinInv, FreshUnrelated, Unrelated, Alive, Gone
    <3>2. ~terminated[c]
      BY <3>1, NoneAssumption DEF IInv, KinInv, BlockInv
    <3>. QED BY <3>1, <3>2, NoneAssumption DEF IInv, KinInv, BlockInv, Reports
  <2>4. \A c \in child[p] : ~Gone(c)
    BY <2>2 DEF Alive, Gone
  <2>. QED BY <2>1, <2>2, <2>3, <2>4 DEF Counted
<1>. QED BY <1>1, Inductive, PTL
-----------------------------------------------------------------------------
(***************************************************************************)
(* Why a thread sleeps in thread_join(), with any time limits.             *)
(***************************************************************************)

(* The thread that runs is in no queue, and outside of v_top_loop none runs *)
RunnerInv == /\ \A t \in Thread : thread = t => queue[t] = "none"
             /\ ~in_loop => thread = None

(* Nobody else is in no queue *)
NoneLost == \A t \in Thread : queue[t] = "none" => thread = t

(* A sleeper in thread_join() that is not terminated has a descendant to    *)
(* wait for, and the flag that exit_term_link looks at                      *)
SleepsInJoin(p) == queue[p] = "sleep" /\ at[p] = "thread_join" /\ ~terminated[p]

JoinerInv == \A p \in Thread : SleepsInJoin(p) => thread_join[p] /\ term_child[p] # {}

CauseInv == RunnerInv /\ (~SelfThreadControl => NoneLost) /\ JoinerInv

LEMMA CauseInitial == Init => CauseInv
BY MainAssumption, NoneAssumption DEF Init, CauseInv, RunnerInv, NoneLost, JoinerInv, SleepsInJoin

(* t leaves its place for queue q *)
LEMMA CauseSuspend ==
  ASSUME TypeOK, CauseInv, NEW t \in Thread, thread = t,
         NEW q \in QueueNames, NEW p \in Points, q # "none",
         Suspend(t, q, p), p = "thread_join" => thread_join'[t] /\ term_child[t] # {},
         UNCHANGED <<in_loop, term_child, terminated>>,
         \A x \in Thread : x # t => thread_join'[x] = thread_join[x]
  PROVE  CauseInv'
<1>1. RunTypes /\ TermTypes
  BY DEF TypeOK
<1>2. \A x \in Thread : /\ queue'[x] = IF x = t THEN q ELSE queue[x]
                        /\ at'[x] = IF x = t THEN p ELSE at[x]
  BY <1>1 DEF Suspend, RunTypes
<1>3. RunnerInv' /\ (~SelfThreadControl => NoneLost')
  BY <1>2, NoneAssumption DEF Suspend, CauseInv, RunnerInv, NoneLost
<1>4. JoinerInv'
  BY <1>2 DEF CauseInv, JoinerInv, SleepsInJoin
<1>. QED BY <1>3, <1>4 DEF CauseInv

(* t exits: who waits for it alone is woken *)
LEMMA CauseExit ==
  ASSUME TypeOK, CauseInv, NEW t \in Thread, thread = t,
         ExitTermLink(t), NEW woken, NEW error,
         Range(WokenJoiner(t)) \subseteq Range(woken), BecomeZombie(t, woken, error),
         \A x \in Thread : terminated[x] => terminated'[x]
  PROVE  CauseInv'
<1>1. RunTypes /\ TermTypes
  BY DEF TypeOK
<1>2. \A x \in Thread : queue'[x] = IF x = t THEN "zombie"
                                    ELSE IF x \in Range(woken) THEN "ready" ELSE queue[x]
  BY DEF BecomeZombie
<1>3. \A x \in Thread : x # t => at'[x] = at[x]
  BY <1>1 DEF BecomeZombie, RunTypes
<1>4. RunnerInv' /\ (~SelfThreadControl => NoneLost')
  BY <1>2, NoneAssumption DEF BecomeZombie, CauseInv, RunnerInv, NoneLost
<1>5. JoinerInv'
  <2> SUFFICES ASSUME NEW p \in Thread, SleepsInJoin(p)' PROVE thread_join'[p] /\ term_child'[p] # {}
    BY DEF JoinerInv
  <2>1. p # t /\ p \notin Range(woken) /\ SleepsInJoin(p)
    BY <1>2, <1>3 DEF SleepsInJoin
  <2>2. thread_join[p] /\ term_child[p] # {}
    BY <2>1 DEF CauseInv, JoinerInv
  <2>3. ~(JoinerDone(t) /\ p = term_parent[t])
    <3>1. JoinerDone(t) => Range(WokenJoiner(t)) = {term_parent[t]}
      <4>1. JoinerDone(t) => term_parent[t] \in Thread /\ WokenJoiner(t) = <<term_parent[t]>>
        BY <1>1 DEF JoinerDone, WokenJoiner, TermTypes, Link
      <4>. QED BY <4>1, SingleOnce
    <3>. QED BY <3>1, <2>1
  <2>4. thread_join'[p]
    BY <1>1, <2>2, <2>3 DEF ExitTermLink, TermTypes
  <2>5. term_child'[p] # {}
    <3>1. CASE p = term_parent[t]
      <4>1. TermHeirs(t) # {}
        BY <2>2, <2>3, <3>1, NoneAssumption DEF JoinerDone
      <4>2. term_child'[p] = TermHeirs(t)
        BY <1>1, <3>1, NoneAssumption DEF ExitTermLink, TermTypes
      <4>. QED BY <4>1, <4>2
    <3>2. CASE p # term_parent[t]
      BY <1>1, <2>2, <3>2 DEF ExitTermLink, TermTypes
    <3>. QED BY <3>1, <3>2
  <2>. QED BY <2>4, <2>5
<1>. QED BY <1>4, <1>5 DEF CauseInv

(* The steps that move nobody and take no descendant away *)
LEMMA CauseSame ==
  ASSUME CauseInv, UNCHANGED <<thread, queue, thread_join, terminated, in_loop>>,
         \A x \in Thread : SleepsInJoin(x) => at'[x] = at[x],
         \A x \in Thread : at'[x] = "thread_join" => at[x] = "thread_join",
         \A x \in Thread : term_child[x] \subseteq term_child'[x]
  PROVE  CauseInv'
BY DEF CauseInv, RunnerInv, NoneLost, JoinerInv, SleepsInJoin

(* Somebody is released while nobody runs *)
LEMMA CauseRelease ==
  ASSUME CauseInv, NEW woken, Release(woken), ~in_loop,
         UNCHANGED <<thread, at, terminated, term_child>>,
         \A x \in Thread : x \notin Range(woken) => thread_join'[x] = thread_join[x]
  PROVE  CauseInv'
<1>1. \A x \in Thread : queue'[x] = IF x \in Range(woken) THEN "ready" ELSE queue[x]
  BY DEF Release
<1>. QED BY <1>1, NoneAssumption DEF CauseInv, RunnerInv, NoneLost, JoinerInv, SleepsInJoin

LEMMA CauseScheduler == ASSUME TypeOK, CauseInv, Scheduler PROVE CauseInv'
<1>1. RunTypes /\ TermTypes
  BY DEF TypeOK
<1>2. CASE Dispatch
  <2> DEFINE t == Head(ready_queue)
  <2>1. t \in Thread /\ thread' = t /\ queue' = [queue EXCEPT ![t] = "none"] /\ thread = None
        /\ in_loop' = in_loop /\ in_loop /\ UNCHANGED <<at, thread_join, term_child, terminated>>
    BY <1>1, <1>2 DEF Dispatch, RunTypes, loopVars, termVars
  <2> HIDE DEF t
  <2>2. \A x \in Thread : queue'[x] = IF x = t THEN "none" ELSE queue[x]
    BY <1>1, <2>1 DEF RunTypes
  <2>. QED BY <2>1, <2>2, NoneAssumption DEF CauseInv, RunnerInv, NoneLost, JoinerInv, SleepsInJoin
<1>3. CASE EndTimeSlot
  <2>1. \A x \in Thread : /\ queue'[x] = IF queue[x] = "zombie" THEN "freed" ELSE queue[x]
                          /\ x # None
    BY <1>3, NoneAssumption DEF EndTimeSlot
  <2>. QED BY <1>3, <2>1 DEF EndTimeSlot, CauseInv, RunnerInv, NoneLost, JoinerInv, SleepsInJoin, termVars
<1>4. ASSUME NEW posedge \in BOOLEAN, StartTimeSlot(posedge) PROVE CauseInv'
  <2>1. CASE posedge /\ timeq.head # None
    BY <1>1, <1>4, <2>1, CauseRelease DEF StartTimeSlot, CountTimeLimits, TermTypes
  <2>2. CASE ~(posedge /\ timeq.head # None)
    BY <1>4, <2>2, NoneAssumption DEF StartTimeSlot, CauseInv, RunnerInv, NoneLost, JoinerInv, SleepsInJoin
  <2>. QED BY <2>1, <2>2
<1>5. ASSUME NEW t \in Thread, WakeFromEdge(t) PROVE CauseInv'
  BY <1>5, CauseRelease DEF WakeFromEdge, termVars
<1>. QED BY <1>2, <1>3, <1>4, <1>5 DEF Scheduler

LEMMA CauseBegin == ASSUME TypeOK, CauseInv, NEW t \in Thread, Begin(t) \/ Resume(t) PROVE CauseInv'
<1>1. RunTypes /\ TermTypes
  BY DEF TypeOK
<1>2. CASE ExitTerminated(t)
  <2>1. /\ thread = t /\ ExitTermLink(t) /\ BecomeZombie(t, WokenJoiner(t), FALSE)
        /\ terminated' = terminated
    BY <1>2 DEF ExitTerminated, Begin, Resume
  <2>. QED BY <2>1, CauseExit
<1>3. CASE SelfThreadControl /\ thread' = None /\ UNCHANGED <<queue, at, loopVars, termVars>>
  BY <1>3, NoneAssumption DEF loopVars, termVars, CauseInv, RunnerInv, JoinerInv, SleepsInJoin
<1>4. CASE at' = [at EXCEPT ![t] = "code"] /\ UNCHANGED <<thread, queue, loopVars, termVars>>
  <2>1. queue[t] = "none"
    BY DEF Begin, Resume, CauseInv, RunnerInv
  <2>. QED BY <1>1, <1>4, <2>1, CauseSame DEF RunTypes, loopVars, termVars, SleepsInJoin
<1>. QED BY <1>2, <1>3, <1>4 DEF Begin, Resume

LEMMA CauseExitInstruction ==
  ASSUME TypeOK, CauseInv, NEW t \in Thread, thread = t, NEW decided \in BOOLEAN,
         ExitInstruction(t, decided), \A x \in Thread : terminated[x] => terminated'[x]
  PROVE  CauseInv'
<1>1. WokenParent(t, decided) \in Seq(Thread) /\ WokenJoiner(t) \in Seq(Thread)
  <2>1. LastOut(t, decided) => parent[t] \in Thread
    BY DEF LastOut, TypeOK, BlockTypes, Link
  <2>. QED BY <2>1, WokenJoinerType DEF WokenParent, TypeOK
<1> DEFINE woken == WokenParent(t, decided) \o WokenJoiner(t)
<1>2. Range(woken) = Range(WokenParent(t, decided)) \cup Range(WokenJoiner(t))
  BY <1>1, ConcatRange
<1>3. ExitTermLink(t) /\ BecomeZombie(t, woken, NoSibling(t, decided))
  BY DEF ExitInstruction
<1> HIDE DEF woken
<1>. QED BY <1>2, <1>3, CauseExit

LEMMA CauseBlocks == ASSUME TypeOK, CauseInv, NEW t \in Thread, Blocks(t) PROVE CauseInv'
<1>1. RunTypes /\ TermTypes
  BY DEF TypeOK
<1>2. CASE (\E f \in Forms : Fork(t, f)) \/ Knife(t)
  BY <1>2, CauseSame DEF Fork, Knife, runVars, loopVars, termVars
<1>3. ASSUME NEW c \in Thread, Exec(t, c) PROVE CauseInv'
  <2>1. /\ \A x \in Thread : /\ queue'[x] = IF x = c THEN "ready" ELSE queue[x]
                             /\ term_child[x] \subseteq term_child'[x]
        /\ UNCHANGED <<thread, at, in_loop, thread_join, terminated>>
        /\ queue[c] = "unallocated"
    BY <1>1, <1>3 DEF Exec, RunTypes, TermTypes, loopVars
  <2>. QED BY <2>1 DEF CauseInv, RunnerInv, NoneLost, JoinerInv, SleepsInJoin
<1>4. CASE Join(t) \/ Spoon(t)
  BY <1>4, CauseSuspend DEF Join, Spoon, EndsBlock, Executes, WaitForChildren, loopVars, termVars,
     QueueNames, KernelQueues, Points, KernelPoints, ResumePoints
<1>5. CASE Exit(t)
  BY <1>5, CauseExitInstruction DEF Exit, Runs, Executes
<1>6. ASSUME NEW v \in {0, 1}, ExitWithValue(t, v) PROVE CauseInv'
  <2>1. PICK decided \in BOOLEAN : ExitInstruction(t, decided) /\ terminated' =
            [c \in Thread |-> terminated[c] \/ c \in CutOff(t, decided)]
    BY <1>6 DEF ExitWithValue
  <2>. QED BY <1>6, <2>1, CauseExitInstruction DEF ExitWithValue, Runs, Executes
<1>. QED BY <1>2, <1>3, <1>4, <1>5, <1>6 DEF Blocks

LEMMA CauseTerminate == ASSUME TypeOK, CauseInv, NEW t \in Thread, Terminate(t) PROVE CauseInv'
<1>1. TermTypes /\ queue[t] = "none"
  BY DEF TypeOK, Terminate, Runs, Executes, CauseInv, RunnerInv
<1>2. /\ \A x \in Thread : /\ terminated'[x] <=> terminated[x] \/ x \in TermSubtree(t)
                           /\ x \notin TermSubtree(t) /\ x # t => term_child'[x] = term_child[x]
      /\ UNCHANGED <<thread, queue, at, in_loop, thread_join>>
  BY <1>1 DEF Terminate, TermTypes, runVars, loopVars
<1>. QED BY <1>1, <1>2 DEF CauseInv, RunnerInv, NoneLost, JoinerInv, SleepsInJoin

LEMMA CauseFunctions ==
  ASSUME TypeOK, CauseInv, NEW t \in Thread,
         \/ ThreadPause(t) \/ SyncOnEdge(t) \/ ExitSimulation(t) \/ VerifError(t)
         \/ \E limit \in JoinLimits \cup {0} : ThreadJoin(t, limit)
  PROVE  CauseInv'
<1>1. /\ "ready" \in QueueNames /\ "port" \in QueueNames /\ "sleep" \in QueueNames
      /\ "pause" \in Points /\ "port" \in Points /\ "thread_join" \in Points
      /\ TermTypes
  BY DEF QueueNames, KernelQueues, Points, KernelPoints, ResumePoints, TypeOK
<1>2. CASE ThreadPause(t) \/ ExitSimulation(t) \/ VerifError(t)
  BY <1>1, <1>2, CauseSuspend DEF ThreadPause, ExitSimulation, VerifError, StopLoop, Runs, Executes,
     loopVars, termVars
<1>3. CASE SyncOnEdge(t)
  BY <1>1, <1>3, CauseSuspend DEF SyncOnEdge, Runs, Executes, termVars
<1>4. ASSUME NEW limit \in JoinLimits \cup {0}, ThreadJoin(t, limit) PROVE CauseInv'
  BY <1>1, <1>4, CauseSuspend DEF ThreadJoin, SetTimeLimit, Runs, Executes, TermTypes
<1>. QED BY <1>2, <1>3, <1>4

LEMMA CauseInductive == TypeOK /\ CauseInv /\ [Next]_vars => CauseInv'
<1> SUFFICES ASSUME TypeOK, CauseInv, [Next]_vars PROVE CauseInv'
  OBVIOUS
<1>1. ASSUME NEW t \in Thread, Step(t) PROVE CauseInv'
  BY <1>1, CauseBegin, CauseBlocks, CauseTerminate, CauseFunctions DEF Step
<1>2. CASE MainReturns
  <2>1. \A x \in Thread : /\ queue'[x] = IF x = Main THEN "zombie" ELSE queue[x]
                          /\ x # Main => at'[x] = at[x]
    BY <1>2 DEF MainReturns, TypeOK, RunTypes
  <2>. QED BY <1>2, <2>1, NoneAssumption, MainAssumption DEF MainReturns, Runs, Executes, CauseInv,
           RunnerInv, NoneLost, JoinerInv, SleepsInJoin, termVars
<1>3. CASE UNCHANGED vars
  BY <1>3 DEF vars, runVars, loopVars, termVars, CauseInv, RunnerInv, NoneLost, JoinerInv, SleepsInJoin
<1>. QED BY <1>1, <1>2, <1>3, CauseScheduler DEF Next, SimulationOver

(* With pthreads no thread_join() sleeps without a descendant that can      *)
(* still be woken, exit and wake it: exit_term_link, terminate and the time *)
(* limits keep the lists of children and the flag thread_join in step.      *)
THEOREM ThreadJoinCaused ==
  ASSUME ~SelfThreadControl PROVE Spec => []ThreadJoinHasCause
<1>1. Init => TypeOK /\ CauseInv
  BY TypeInit, CauseInitial
<1>2. TypeOK /\ CauseInv /\ [Next]_vars => TypeOK' /\ CauseInv'
  BY TypeStep, CauseInductive
<1>3. TypeOK /\ CauseInv => ThreadJoinHasCause
  BY DEF CauseInv, NoneLost, JoinerInv, SleepsInJoin, ThreadJoinHasCause, Lost, TypeOK, TermTypes
<1>. QED BY <1>1, <1>2, <1>3, PTL DEF Spec
=============================================================================
