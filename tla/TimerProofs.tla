---------------------------- MODULE TimerProofs ----------------------------
(***************************************************************************)
(* Proofs about TimerList, for any number of threads and all limits: the   *)
(* links and counts of the time-out queue always stand for a list of       *)
(* alarms, and its operations do to that list what Timers promises.        *)
(***************************************************************************)
EXTENDS TimerList, Recursion

(* The alarms of Timers, and the ith thread and its cycles, if there is one *)
Alarm == [thread : Thread, left : Int]

At(a, i)   == IF i \in 1 .. Len(a) THEN a[i].thread ELSE None
Left(a, i) == IF i \in 1 .. Len(a) THEN a[i].left ELSE 0

Alarmed(a) == {a[i].thread : i \in DOMAIN a}

(* By due time, none twice and all to come *)
IsAlarms(a) ==
  /\ a \in Seq(Alarm)
  /\ \A i, j \in 1 .. Len(a) : a[i].thread = a[j].thread => i = j
  /\ \A i, j \in 1 .. Len(a) : i < j => a[i].left <= a[j].left
  /\ \A i \in 1 .. Len(a) : a[i].left > 0

(* The ith thread is linked to its neighbours and counts from the one above *)
Linked(q, a, i) == /\ q.fw[At(a, i)] = At(a, i - 1)
                   /\ q.bw[At(a, i)] = At(a, i + 1)
                   /\ q.count[At(a, i)] = Left(a, i) - Left(a, i - 1)

(* q is the time-out queue of the alarms a *)
Represents(q, a) == /\ q \in TimeQueues
                    /\ IsAlarms(a)
                    /\ q.head = At(a, 1)
                    /\ \A i \in 1 .. Len(a) : Linked(q, a, i)

LEMMA CountIsNat == Cardinality(Thread) \in Nat
  BY ThreadAssumption, FS_CardinalityType

LEMMA QueueType ==
  ASSUME NEW q \in TimeQueues
  PROVE  /\ q.head \in Link /\ q.fw \in [Thread -> Link] /\ q.bw \in [Thread -> Link]
         /\ q.count \in [Thread -> Int]
  BY DEF TimeQueues

(* What the places of the alarms hold *)
AlarmFacts(a) ==
  /\ Len(a) \in Nat /\ DOMAIN a = 1 .. Len(a)
  /\ \A i \in 1 .. Len(a) : /\ At(a, i) = a[i].thread /\ At(a, i) \in Thread
                            /\ Left(a, i) = a[i].left /\ Left(a, i) \in Nat
                            /\ Left(a, i) > 0
                            /\ a[i] \in Alarm
                            /\ a[i] = [thread |-> At(a, i), left |-> Left(a, i)]
  /\ \A i, j \in 1 .. Len(a) : At(a, i) = At(a, j) => i = j
  /\ \A i, j \in 1 .. Len(a) : i < j => Left(a, i) <= Left(a, j)

LEMMA AlarmsType == ASSUME NEW a, IsAlarms(a) PROVE AlarmFacts(a)
<1>1. a \in Seq(Alarm) /\ Len(a) \in Nat /\ DOMAIN a = 1 .. Len(a)
  BY DEF IsAlarms
<1>2. ASSUME NEW i \in 1 .. Len(a)
      PROVE  /\ At(a, i) = a[i].thread /\ At(a, i) \in Thread
             /\ Left(a, i) = a[i].left /\ Left(a, i) \in Nat /\ Left(a, i) > 0
             /\ a[i] \in Alarm
             /\ a[i] = [thread |-> At(a, i), left |-> Left(a, i)]
  <2>1. a[i] \in Alarm /\ a[i].left > 0
    BY <1>1 DEF IsAlarms
  <2>2. a[i].thread \in Thread /\ a[i].left \in Int
        /\ a[i] = [thread |-> a[i].thread, left |-> a[i].left]
    BY <2>1 DEF Alarm
  <2>3. At(a, i) = a[i].thread /\ Left(a, i) = a[i].left
    BY DEF At, Left
  <2>4. a[i].left \in Nat
    BY <2>1, <2>2
  <2>. QED BY <2>1, <2>2, <2>3, <2>4
<1>. QED BY <1>1, <1>2 DEF IsAlarms, AlarmFacts

(* Outside of the list there is nothing *)
LEMMA Outside ==
  ASSUME NEW a, NEW i, i \notin 1 .. Len(a)
  PROVE  At(a, i) = None /\ Left(a, i) = 0
  BY DEF At, Left

LEMMA Values ==
  ASSUME NEW a, IsAlarms(a), NEW i
  PROVE  At(a, i) \in Link /\ Left(a, i) \in Nat
<1>1. CASE i \in 1 .. Len(a)
  BY <1>1, AlarmsType DEF AlarmFacts, Link
<1>2. CASE i \notin 1 .. Len(a)
  BY <1>2, Outside DEF Link
<1>. QED BY <1>1, <1>2

(* There are no more alarms than threads *)
LEMMA AlarmsFit ==
  ASSUME NEW a, IsAlarms(a)
  PROVE  Len(a) <= Cardinality(Thread) /\ Cardinality(Alarmed(a)) = Len(a)
<1> DEFINE s == [i \in 1 .. Len(a) |-> a[i].thread]
<1>0. Len(a) \in Nat /\ DOMAIN a = 1 .. Len(a) /\ \A i \in 1 .. Len(a) : a[i].thread \in Thread
  <2>1. AlarmFacts(a)
    BY AlarmsType
  <2>. QED BY <2>1 DEF AlarmFacts
<1>1. s \in Seq(Thread) /\ Len(s) = Len(a) /\ IsInjective(s) /\ Range(s) = Alarmed(a)
  <2>1. s \in Seq(Thread) /\ Len(s) = Len(a)
    BY <1>0
  <2>2. \A i, j \in 1 .. Len(a) : a[i].thread = a[j].thread => i = j
    BY DEF IsAlarms
  <2>3. IsInjective(s)
    BY <2>2 DEF IsInjective
  <2>4. Range(s) = Alarmed(a)
    BY <1>0 DEF Range, Alarmed
  <2>. QED BY <2>1, <2>3, <2>4
<1> HIDE DEF s
<1>2. Cardinality(Range(s)) = Len(s) /\ Len(s) \in Nat
  BY <1>1, OnceCounted
<1>3. Range(s) \in SUBSET Thread
  BY <1>1 DEF Range
<1>4. Cardinality(Range(s)) <= Cardinality(Thread)
  BY <1>3, ThreadAssumption, FS_Subset
<1>. QED BY <1>1, <1>2, <1>4
-----------------------------------------------------------------------------
(* The walk of Alarms *)

WalkStep(q, w) ==
  IF w.next = None THEN w
  ELSE LET left == w.sum + q.count[w.next]
       IN  [seen |-> Append(w.seen, [thread |-> w.next, left |-> left]),
            next |-> q.bw[w.next], sum |-> left]

IsWalk(f, q) ==
  f = [n \in Nat |-> IF n = 0 THEN [seen |-> <<>>, next |-> q.head, sum |-> 0]
                     ELSE WalkStep(q, f[n - 1])]

(* The walk after n threads *)
Walked(a, n) == [seen |-> SubSeq(a, 1, n), next |-> At(a, n + 1), sum |-> Left(a, n)]

LEMMA WalkBegins ==
  ASSUME NEW q, NEW a, Represents(q, a)
  PROVE  Walked(a, 0) = [seen |-> <<>>, next |-> q.head, sum |-> 0]
<1>1. SubSeq(a, 1, 0) = <<>> /\ Left(a, 0) = 0
  BY SubSeqEmpty, Outside DEF Represents
<1>. QED BY <1>1 DEF Walked, Represents

LEMMA WalkGoesOn ==
  ASSUME NEW q, NEW a, Represents(q, a), NEW n \in 0 .. Len(a) - 1
  PROVE  WalkStep(q, Walked(a, n)) = Walked(a, n + 1)
<1>0. IsAlarms(a) /\ a \in Seq(Alarm) /\ Len(a) \in Nat
  BY AlarmsType DEF AlarmFacts, Represents, IsAlarms
<1>1. n + 1 \in 1 .. Len(a) /\ (n + 1) - 1 = n /\ IsAlarms(a) /\ a \in Seq(Alarm)
  BY <1>0
<1> DEFINE m == n + 1
<1>2. /\ At(a, m) \in Thread /\ Left(a, m) \in Int /\ a[m] \in Alarm
      /\ a[m] = [thread |-> At(a, m), left |-> Left(a, m)]
  BY <1>1, AlarmsType DEF AlarmFacts
<1>3. Left(a, n) \in Int
  BY <1>0, Values
<1>4. q.bw[At(a, m)] = At(a, m + 1) /\ q.count[At(a, m)] = Left(a, m) - Left(a, n)
  BY <1>1 DEF Represents, Linked
<1>5. Left(a, n) + q.count[At(a, m)] = Left(a, m)
  BY <1>2, <1>3, <1>4
<1>6. At(a, m) # None
  BY <1>2, NoneAssumption
<1>7. Append(SubSeq(a, 1, n), a[m]) = SubSeq(a, 1, m)
  <2>1. 1 \in 1 .. Len(a) /\ m \in 1 .. Len(a) /\ m - 1 = n
    BY <1>1
  <2>2. SubSeq(a, 1, m) = SubSeq(a, 1, m - 1) \o <<a[m]>>
    BY <1>1, <2>1, SubSeqRecursiveSecond, Zenon
  <2>3. SubSeq(a, 1, n) \in Seq(Alarm)
    BY <1>1, SubSeqProperties
  <2>4. Append(SubSeq(a, 1, n), a[m]) = SubSeq(a, 1, n) \o <<a[m]>>
    BY <2>3, <1>2, AppendIsConcat, Zenon
  <2>. QED BY <2>1, <2>2, <2>4
<1> HIDE DEF m
<1>8. WalkStep(q, Walked(a, n)) = [seen |-> SubSeq(a, 1, m), next |-> At(a, m + 1), sum |-> Left(a, m)]
  <2>1. Walked(a, n).next = At(a, m) /\ Walked(a, n).seen = SubSeq(a, 1, n)
        /\ Walked(a, n).sum = Left(a, n)
    BY DEF Walked, m
  <2>. QED BY <2>1, <1>2, <1>4, <1>5, <1>6, <1>7, Zenon DEF WalkStep
<1>. QED BY <1>8 DEF Walked, m

LEMMA WalkEnds ==
  ASSUME NEW q, NEW a, Represents(q, a)
  PROVE  WalkStep(q, Walked(a, Len(a))) = Walked(a, Len(a))
<1>1. At(a, Len(a) + 1) = None
  BY AlarmsType, Outside DEF AlarmFacts, Represents
<1>. QED BY <1>1 DEF WalkStep, Walked

(* A walk along the queue of the alarms a sees a *)
LEMMA AlarmsAre ==
  ASSUME NEW q, NEW a, Represents(q, a)
  PROVE  Alarms(q) = a
<1> DEFINE f == CHOOSE f : IsWalk(f, q)
           L == Len(a)
           least(n) == IF n <= L THEN n ELSE L
           g == [n \in Nat |-> Walked(a, least(n))]
           T == {n \in Nat : f[n] = g[n]}
<1>0. IsAlarms(a) /\ L \in Nat
  BY AlarmsType DEF AlarmFacts, Represents
<1>1. Alarms(q) = f[Cardinality(Thread)].seen
  BY DEF Alarms, IsWalk, WalkStep
<1> HIDE DEF L
<1>2. g[0] = [seen |-> <<>>, next |-> q.head, sum |-> 0]
  BY <1>0, WalkBegins
<1>3. ASSUME NEW n \in Nat PROVE g[n + 1] = WalkStep(q, g[n])
  <2>1. g[n] = Walked(a, least(n)) /\ g[n + 1] = Walked(a, least(n + 1))
    OBVIOUS
  <2>2. CASE n < L
    <3>1. least(n) = n /\ least(n + 1) = n + 1 /\ n \in 0 .. Len(a) - 1
      BY <1>0, <2>2 DEF L
    <3>2. WalkStep(q, Walked(a, n)) = Walked(a, n + 1)
      BY <3>1, WalkGoesOn
    <3>. QED BY <2>1, <3>1, <3>2
  <2>3. CASE ~(n < L)
    <3>1. least(n) = L /\ least(n + 1) = L
      BY <1>0, <2>3
    <3>2. WalkStep(q, Walked(a, L)) = Walked(a, L)
      BY WalkEnds DEF L
    <3>. QED BY <2>1, <3>1, <3>2
  <2>. QED BY <2>2, <2>3
<1>4. IsWalk(g, q)
  <2>1. ASSUME NEW n \in Nat
        PROVE  g[n] = IF n = 0 THEN [seen |-> <<>>, next |-> q.head, sum |-> 0]
                      ELSE WalkStep(q, g[n - 1])
    <3> HIDE DEF g
    <3>1. CASE n = 0
      BY <1>2, <3>1
    <3>2. CASE n # 0
      <4>1. n - 1 \in Nat /\ (n - 1) + 1 = n
        BY <3>2
      <4>2. g[(n - 1) + 1] = WalkStep(q, g[n - 1])
        BY <1>3, <4>1
      <4>. QED BY <3>2, <4>1, <4>2
    <3>. QED BY <3>1, <3>2
  <2>2. g = [n \in Nat |-> g[n]]
    OBVIOUS
  <2> HIDE DEF g
  <2>. QED BY <2>1, <2>2 DEF IsWalk
<1>5. IsWalk(f, q)
  BY <1>4
<1> HIDE DEF f, g
<1>6. /\ f[0] = [seen |-> <<>>, next |-> q.head, sum |-> 0]
      /\ \A n \in Nat : n # 0 => f[n] = WalkStep(q, f[n - 1])
  BY <1>5 DEF IsWalk
<1>7. T = Nat
  <2>1. T \in SUBSET Nat /\ 0 \in T
    BY <1>2, <1>6
  <2>2. ASSUME NEW n \in T PROVE n + 1 \in T
    <3>1. n \in Nat /\ f[n] = g[n] /\ n + 1 \in Nat /\ n + 1 # 0 /\ (n + 1) - 1 = n
      OBVIOUS
    <3>2. f[n + 1] = WalkStep(q, f[n])
      BY <1>6, <3>1
    <3>. QED BY <1>3, <3>1, <3>2
  <2> HIDE DEF T
  <2>. QED BY <2>1, <2>2, AllNumbers
<1>8. f[Cardinality(Thread)] = Walked(a, L)
  <2>1. Cardinality(Thread) \in T /\ least(Cardinality(Thread)) = L
    BY <1>0, <1>7, CountIsNat, AlarmsFit DEF L
  <2>. QED BY <2>1, CountIsNat DEF g
<1>9. SubSeq(a, 1, L) = a
  BY SubSeqFull DEF L, Represents, IsAlarms
<1>. QED BY <1>1, <1>8, <1>9 DEF Walked
-----------------------------------------------------------------------------
(* The search of JD_enqueue_timeq *)

LEMMA DeficitBounds ==
  ASSUME NEW q \in TimeQueues
  PROVE  Deficit(q) \in Nat /\ \A t \in Thread : 0 - q.count[t] <= Deficit(q)
<1> DEFINE f == [t \in Thread |-> 0 - q.count[t]]
           T == {0 - q.count[t] : t \in Thread}
<1>1. f \in Surjection(Thread, T)
  BY DEF Surjection
<1>2. IsFiniteSet({0} \cup T)
  BY <1>1, ThreadAssumption, FS_Surjection, FS_AddElement
<1>3. {0} \cup T \in SUBSET Int
  BY DEF TimeQueues
<1>4. /\ Max({0} \cup T) \in Int /\ 0 <= Max({0} \cup T)
      /\ \A x \in T : x <= Max({0} \cup T)
  BY <1>2, <1>3, GreatestOne
<1>. QED BY <1>4 DEF Deficit

LEMMA Products ==
  ASSUME NEW a \in Nat, NEW b \in Nat, NEW c \in Nat, a <= b
  PROVE  a * c \in Nat /\ b * c \in Nat /\ a * c <= b * c /\ (a + 1) * c = a * c + c
  OBVIOUS

LEMMA SearchBoundType ==
  ASSUME NEW q \in TimeQueues, NEW limit \in Nat
  PROVE  /\ SearchBound(q, limit) \in Nat
         /\ Cardinality(Thread) <= SearchBound(q, limit)
<1> DEFINE n == Cardinality(Thread)
           e == Deficit(q)
<1>1. n \in Nat /\ e \in Nat
  BY CountIsNat, DeficitBounds
<1> HIDE DEF n, e
<1>2. n * e \in Nat
  BY <1>1, Products
<1> DEFINE k == limit + n * e + 2
<1>3. k \in Nat /\ 1 <= k
  BY <1>2
<1> HIDE DEF k
<1>4. 1 * n <= k * n /\ k * n \in Nat /\ 1 * n = n /\ k * n = n * k
  BY <1>1, <1>3, Products
<1>. QED BY <1>4 DEF SearchBound, n, e, k

ScanStep(q, t, s) ==
  IF StepsOver(q, t, s)
  THEN [fw |-> s.bw, bw |-> q.bw[s.bw], left |-> s.left - CountSeen(q, t, s)]
  ELSE s

IsScan(f, q, t, limit) ==
  f = [n \in Nat |-> IF n = 0 THEN [fw |-> None, bw |-> q.head, left |-> limit]
                     ELSE ScanStep(q, t, f[n - 1])]

(* The search after n threads *)
Scanned(a, limit, n) ==
  [fw |-> At(a, n), bw |-> At(a, n + 1), left |-> limit - Left(a, n)]

(* The first k alarms go off within the limit, and no other *)
Within(a, limit, k) ==
  /\ k \in 0 .. Len(a)
  /\ \A i \in 1 .. k : Left(a, i) <= limit
  /\ \A i \in k + 1 .. Len(a) : Left(a, i) > limit

LEMMA WithinExists ==
  ASSUME NEW a, IsAlarms(a), NEW limit \in Nat
  PROVE  \E k : Within(a, limit, k)
<1> DEFINE T == {i \in Nat : i >= 1 /\ (i \in 1 .. Len(a) => Left(a, i) > limit)}
<1>0. AlarmFacts(a)
  BY AlarmsType
<1>1. Len(a) + 1 \in T /\ T \in SUBSET Nat
  BY <1>0 DEF AlarmFacts
<1>2. PICK m \in T : \A i \in T : m <= i
  <2> HIDE DEF T
  <2>. QED BY <1>1, LeastNumber
<1>3. m \in Nat /\ m - 1 \in 0 .. Len(a)
  BY <1>0, <1>1, <1>2 DEF AlarmFacts
<1>4. ASSUME NEW i \in 1 .. m - 1 PROVE Left(a, i) <= limit
  <2>1. i \notin T /\ i \in 1 .. Len(a) /\ i \in Nat
    BY <1>0, <1>2, <1>3 DEF AlarmFacts
  <2>2. ~(Left(a, i) > limit) /\ Left(a, i) \in Nat
    BY <1>0, <2>1 DEF AlarmFacts
  <2>. QED BY <2>2
<1>5. ASSUME NEW i \in m .. Len(a) PROVE Left(a, i) > limit
  <2>1. m \in 1 .. Len(a) /\ i \in 1 .. Len(a) /\ (m < i \/ m = i)
    BY <1>0, <1>3 DEF AlarmFacts
  <2>2. Left(a, m) > limit /\ Left(a, m) <= Left(a, i) /\ Left(a, m) \in Nat /\ Left(a, i) \in Nat
    BY <1>0, <2>1 DEF AlarmFacts
  <2>. QED BY <2>2
<1>6. Within(a, limit, m - 1)
  BY <1>3, <1>4, <1>5 DEF Within
<1>. QED BY <1>6

(* A thread without an alarm is at none of the places *)
LEMMA AlarmedIsNot ==
  ASSUME NEW a, NEW t, t \notin Alarmed(a), NEW i \in 1 .. Len(a), IsAlarms(a)
  PROVE  At(a, i) # t
<1>1. AlarmFacts(a)
  BY AlarmsType
<1>. QED BY <1>1 DEF AlarmFacts, Alarmed

LEMMA ScanBegins ==
  ASSUME NEW q, NEW a, Represents(q, a), NEW limit \in Nat
  PROVE  Scanned(a, limit, 0) = [fw |-> None, bw |-> q.head, left |-> limit]
<1>1. At(a, 0) = None /\ Left(a, 0) = 0
  BY Outside
<1>. QED BY <1>1 DEF Scanned, Represents

LEMMA ScanGoesOn ==
  ASSUME NEW q, NEW a, Represents(q, a), NEW t \in Thread \ Alarmed(a),
         NEW limit \in Nat, NEW k, Within(a, limit, k), NEW n \in 0 .. k - 1
  PROVE  ScanStep(q, t, Scanned(a, limit, n)) = Scanned(a, limit, n + 1)
<1>0. AlarmFacts(a) /\ IsAlarms(a) /\ Len(a) \in Nat
  BY AlarmsType DEF AlarmFacts, Represents
<1> DEFINE m == n + 1
<1>1. m \in 1 .. Len(a) /\ m \in 1 .. k /\ m - 1 = n
  BY <1>0 DEF Within
<1>2. At(a, m) \in Thread /\ Left(a, m) \in Nat /\ Left(a, m) <= limit /\ Left(a, n) \in Nat
  BY <1>0, <1>1, Values DEF AlarmFacts, Within
<1>3. q.bw[At(a, m)] = At(a, m + 1) /\ q.count[At(a, m)] = Left(a, m) - Left(a, n)
  BY <1>1 DEF Represents, Linked
<1>4. /\ q.count[At(a, m)] <= limit - Left(a, n)
      /\ (limit - Left(a, n)) - q.count[At(a, m)] = limit - Left(a, m)
  BY <1>2, <1>3
<1>5. At(a, m) # None
  BY <1>2, NoneAssumption
<1>6. Scanned(a, limit, n).bw = At(a, m) /\ Scanned(a, limit, n).left = limit - Left(a, n)
  BY DEF Scanned
<1> HIDE DEF m
<1>7. CountSeen(q, t, Scanned(a, limit, n)) = q.count[At(a, m)]
  BY <1>0, <1>1, <1>6, AlarmedIsNot, Zenon DEF CountSeen
<1>8. StepsOver(q, t, Scanned(a, limit, n))
  BY <1>4, <1>5, <1>6, <1>7, Zenon DEF StepsOver
<1>9. ScanStep(q, t, Scanned(a, limit, n)) = Scanned(a, limit, m)
  BY <1>3, <1>4, <1>6, <1>7, <1>8, Zenon DEF ScanStep, Scanned
<1>. QED BY <1>9 DEF m

LEMMA ScanEnds ==
  ASSUME NEW q, NEW a, Represents(q, a), NEW t \in Thread \ Alarmed(a),
         NEW limit \in Nat, NEW k, Within(a, limit, k)
  PROVE  ~StepsOver(q, t, Scanned(a, limit, k))
<1>0. AlarmFacts(a) /\ IsAlarms(a) /\ Len(a) \in Nat /\ k \in 0 .. Len(a)
  BY AlarmsType DEF AlarmFacts, Represents, Within
<1> DEFINE m == k + 1
<1>1. CASE m \in 1 .. Len(a)
  <2>1. m \in k + 1 .. Len(a) /\ m - 1 = k
    BY <1>0, <1>1
  <2>2. Left(a, m) \in Nat /\ Left(a, m) > limit /\ Left(a, k) \in Nat
    BY <1>0, <1>1, <2>1, Values DEF AlarmFacts, Within
  <2>3. q.count[At(a, m)] = Left(a, m) - Left(a, k)
    BY <1>1, <2>1 DEF Represents, Linked
  <2>4. ~(q.count[At(a, m)] <= limit - Left(a, k))
    BY <2>2, <2>3
  <2>5. CountSeen(q, t, Scanned(a, limit, k)) = q.count[At(a, m)]
    BY <1>0, <1>1, AlarmedIsNot DEF CountSeen, Scanned
  <2>. QED BY <2>4, <2>5 DEF StepsOver, Scanned
<1>2. CASE m \notin 1 .. Len(a)
  <2>1. At(a, m) = None
    BY <1>2, Outside
  <2>. QED BY <2>1 DEF StepsOver, Scanned
<1>. QED BY <1>1, <1>2

(* The search stops behind the alarms that are due no later *)
LEMMA ScanFinds ==
  ASSUME NEW q, NEW a, Represents(q, a), NEW t \in Thread \ Alarmed(a),
         NEW limit \in Nat, NEW k, Within(a, limit, k)
  PROVE  Scan(q, t, limit) = Scanned(a, limit, k) /\ SearchEnds(q, t, limit)
<1> DEFINE f == CHOOSE f : IsScan(f, q, t, limit)
           least(n) == IF n <= k THEN n ELSE k
           b == [fw |-> None, bw |-> q.head, left |-> limit]
           g == [n \in Nat |-> Scanned(a, limit, least(n))]
           T == {n \in Nat : f[n] = g[n]}
<1>0. IsAlarms(a) /\ k \in Nat /\ k <= Len(a) /\ Len(a) \in Nat
  BY AlarmsType DEF AlarmFacts, Represents, Within
<1>1. Scan(q, t, limit) = f[SearchBound(q, limit)]
  BY DEF Scan, IsScan, ScanStep
<1>2. g[0] = b
  BY <1>0, ScanBegins
<1>3. ASSUME NEW n \in Nat PROVE g[n + 1] = ScanStep(q, t, g[n])
  <2>1. g[n] = Scanned(a, limit, least(n)) /\ g[n + 1] = Scanned(a, limit, least(n + 1))
    OBVIOUS
  <2>2. CASE n < k
    <3>1. least(n) = n /\ least(n + 1) = n + 1 /\ n \in 0 .. k - 1
      BY <1>0, <2>2
    <3>2. ScanStep(q, t, Scanned(a, limit, n)) = Scanned(a, limit, n + 1)
      BY <3>1, ScanGoesOn
    <3>. QED BY <2>1, <3>1, <3>2
  <2>3. CASE ~(n < k)
    <3>1. least(n) = k /\ least(n + 1) = k
      BY <1>0, <2>3
    <3>2. ScanStep(q, t, Scanned(a, limit, k)) = Scanned(a, limit, k)
      BY ScanEnds DEF ScanStep
    <3>. QED BY <2>1, <3>1, <3>2
  <2>. QED BY <2>2, <2>3
<1> HIDE DEF b
<1>4. IsScan(g, q, t, limit)
  <2>1. ASSUME NEW n \in Nat PROVE g[n] = IF n = 0 THEN b ELSE ScanStep(q, t, g[n - 1])
    <3> HIDE DEF g
    <3>1. CASE n = 0
      BY <1>2, <3>1
    <3>2. CASE n # 0
      <4>1. n - 1 \in Nat /\ (n - 1) + 1 = n
        BY <3>2
      <4>2. g[(n - 1) + 1] = ScanStep(q, t, g[n - 1])
        BY <1>3, <4>1
      <4>. QED BY <3>2, <4>1, <4>2
    <3>. QED BY <3>1, <3>2
  <2>2. g = [n \in Nat |-> g[n]]
    OBVIOUS
  <2> HIDE DEF g
  <2>. QED BY <2>1, <2>2 DEF IsScan, b
<1>5. IsScan(f, q, t, limit)
  BY <1>4
<1> HIDE DEF f, g
<1>6. f[0] = b /\ \A n \in Nat : n # 0 => f[n] = ScanStep(q, t, f[n - 1])
  BY <1>5 DEF IsScan, b
<1>7. T = Nat
  <2>1. T \in SUBSET Nat /\ 0 \in T
    BY <1>2, <1>6
  <2>2. ASSUME NEW n \in T PROVE n + 1 \in T
    <3>1. n \in Nat /\ f[n] = g[n] /\ n + 1 \in Nat /\ n + 1 # 0 /\ (n + 1) - 1 = n
      OBVIOUS
    <3>2. f[n + 1] = ScanStep(q, t, f[n])
      BY <1>6, <3>1
    <3>. QED BY <1>3, <3>1, <3>2
  <2> HIDE DEF T
  <2>. QED BY <2>1, <2>2, AllNumbers
<1>8. f[SearchBound(q, limit)] = Scanned(a, limit, k)
  <2> DEFINE c == SearchBound(q, limit)
  <2>1. c \in Nat /\ Cardinality(Thread) <= c /\ k <= Cardinality(Thread)
    BY <1>0, SearchBoundType, CountIsNat, AlarmsFit DEF Represents
  <2> HIDE DEF c
  <2>2. c \in T /\ least(c) = k
    BY <1>0, <1>7, <2>1, CountIsNat
  <2>. QED BY <2>1, <2>2 DEF g, c
<1>. QED BY <1>1, <1>8, ScanEnds DEF SearchEnds
-----------------------------------------------------------------------------
(* JD_enqueue_timeq *)

(* a with x behind the first k *)
Inserted(a, k, x) ==
  [i \in 1 .. Len(a) + 1 |-> IF i <= k THEN a[i] ELSE IF i = k + 1 THEN x ELSE a[i - 1]]

NewAlarm(t, limit) == [thread |-> t, left |-> limit]

(* What the places of b hold: those of a, and t with its limit behind the kth *)
IsInserted(b, a, k, t, limit) ==
  /\ b \in Seq(Alarm) /\ Len(b) = Len(a) + 1
  /\ \A i \in Int : i <= k => At(b, i) = At(a, i) /\ Left(b, i) = Left(a, i)
  /\ At(b, k + 1) = t /\ Left(b, k + 1) = limit
  /\ \A i \in Int : i > k + 1 => At(b, i) = At(a, i - 1) /\ Left(b, i) = Left(a, i - 1)

LEMMA InsertedAt ==
  ASSUME NEW a, IsAlarms(a), NEW k \in 0 .. Len(a), NEW t \in Thread, NEW limit \in Nat
  PROVE  IsInserted(Inserted(a, k, NewAlarm(t, limit)), a, k, t, limit)
<1> DEFINE x == NewAlarm(t, limit)
           b == Inserted(a, k, x)
<1>0. AlarmFacts(a) /\ Len(a) \in Nat /\ a \in Seq(Alarm)
  BY AlarmsType DEF AlarmFacts, IsAlarms
<1>1. x \in Alarm /\ x.thread = t /\ x.left = limit
  BY DEF NewAlarm, Alarm
<1> HIDE DEF x
<1>2. /\ b \in Seq(Alarm) /\ Len(b) = Len(a) + 1
      /\ \A i \in 1 .. Len(a) + 1 :
           b[i] = IF i <= k THEN a[i] ELSE IF i = k + 1 THEN x ELSE a[i - 1]
  BY <1>0, <1>1 DEF Inserted
<1> HIDE DEF b
<1>3. ASSUME NEW i \in Int, i <= k PROVE At(b, i) = At(a, i) /\ Left(b, i) = Left(a, i)
  <2>1. i \in 1 .. Len(b) <=> i \in 1 .. Len(a)
    BY <1>0, <1>2, <1>3
  <2>2. i \in 1 .. Len(a) => b[i] = a[i]
    BY <1>0, <1>2, <1>3
  <2>. QED BY <2>1, <2>2 DEF At, Left
<1>4. At(b, k + 1) = t /\ Left(b, k + 1) = limit
  <2>1. k + 1 \in 1 .. Len(b) /\ b[k + 1] = x
    BY <1>0, <1>2
  <2>. QED BY <1>1, <2>1 DEF At, Left
<1>5. ASSUME NEW i \in Int, i > k + 1
      PROVE  At(b, i) = At(a, i - 1) /\ Left(b, i) = Left(a, i - 1)
  <2>1. i \in 1 .. Len(b) <=> i - 1 \in 1 .. Len(a)
    BY <1>0, <1>2, <1>5
  <2>2. i \in 1 .. Len(b) => b[i] = a[i - 1]
    BY <1>0, <1>2, <1>5
  <2>. QED BY <2>1, <2>2 DEF At, Left
<1>. QED BY <1>2, <1>3, <1>4, <1>5 DEF IsInserted, b, x

LEMMA InsertedOrder ==
  ASSUME NEW a, IsAlarms(a), NEW k, NEW t \in Thread, NEW limit \in Nat \ {0},
         Within(a, limit, k), t \notin Alarmed(a), NEW b, IsInserted(b, a, k, t, limit)
  PROVE  IsAlarms(b)
<1>0. AlarmFacts(a) /\ Len(a) \in Nat /\ k \in Nat /\ k <= Len(a)
  BY AlarmsType DEF AlarmFacts, Within
<1>1. b \in Seq(Alarm) /\ Len(b) = Len(a) + 1
  BY DEF IsInserted
<1>2. \A i \in 1 .. Len(a) : At(a, i) # t
  BY <1>0 DEF AlarmFacts, Alarmed
<1>3. ASSUME NEW i \in 1 .. Len(b)
      PROVE  /\ i <= k => i \in 1 .. Len(a) /\ At(b, i) = At(a, i) /\ Left(b, i) = Left(a, i)
             /\ i = k + 1 => At(b, i) = t /\ Left(b, i) = limit
             /\ i > k + 1 => i - 1 \in 1 .. Len(a) /\ i - 1 \in k + 1 .. Len(a)
                              /\ At(b, i) = At(a, i - 1) /\ Left(b, i) = Left(a, i - 1)
             /\ b[i].thread = At(b, i) /\ b[i].left = Left(b, i)
  BY <1>0, <1>1 DEF IsInserted, At, Left
<1>4. ASSUME NEW i \in 1 .. Len(b), NEW j \in 1 .. Len(b), At(b, i) = At(b, j) PROVE i = j
  <2>1. \A m, n \in 1 .. Len(a) : At(a, m) = At(a, n) => m = n
    BY <1>0 DEF AlarmFacts
  <2>2. CASE i = k + 1
    BY <1>0, <1>1, <1>2, <1>3, <1>4, <2>2
  <2>3. CASE j = k + 1
    BY <1>0, <1>1, <1>2, <1>3, <1>4, <2>3
  <2>4. CASE i # k + 1 /\ j # k + 1
    <3> DEFINE p == IF i <= k THEN i ELSE i - 1
               r == IF j <= k THEN j ELSE j - 1
    <3>1. p \in 1 .. Len(a) /\ At(b, i) = At(a, p)
      BY <1>0, <1>3, <2>4
    <3>2. r \in 1 .. Len(a) /\ At(b, j) = At(a, r)
      BY <1>0, <1>3, <2>4
    <3>3. p = r
      BY <1>4, <2>1, <3>1, <3>2
    <3>. QED BY <1>0, <1>1, <2>4, <3>3
  <2>. QED BY <2>2, <2>3, <2>4
<1>5. ASSUME NEW i \in 1 .. Len(b), NEW j \in 1 .. Len(b), i < j
      PROVE  Left(b, i) <= Left(b, j)
  <2>1. \A m, n \in 1 .. Len(a) : m < n => Left(a, m) <= Left(a, n)
    BY <1>0 DEF AlarmFacts
  <2>2. /\ \A m \in 1 .. Len(a) : m <= k => Left(a, m) <= limit
        /\ \A m \in 1 .. Len(a) : m >= k + 1 => Left(a, m) > limit
        /\ \A m \in 1 .. Len(a) : Left(a, m) \in Nat
    BY <1>0 DEF AlarmFacts, Within
  <2>3. CASE i = k + 1
    <3>1. j > k + 1
      BY <1>0, <1>5, <2>3
    <3>. QED BY <1>0, <1>3, <2>2, <2>3, <3>1
  <2>4. CASE j = k + 1
    <3>1. i <= k
      BY <1>0, <1>5, <2>4
    <3>. QED BY <1>0, <1>3, <2>2, <2>4, <3>1
  <2>5. CASE i # k + 1 /\ j # k + 1
    <3> DEFINE p == IF i <= k THEN i ELSE i - 1
               r == IF j <= k THEN j ELSE j - 1
    <3>1. p \in 1 .. Len(a) /\ Left(b, i) = Left(a, p)
      BY <1>0, <1>3, <2>5
    <3>2. r \in 1 .. Len(a) /\ Left(b, j) = Left(a, r)
      BY <1>0, <1>3, <2>5
    <3>3. p < r
      BY <1>0, <1>1, <1>5, <2>5
    <3>. QED BY <2>1, <3>1, <3>2, <3>3
  <2>. QED BY <2>3, <2>4, <2>5
<1>6. ASSUME NEW i \in 1 .. Len(b) PROVE b[i].left > 0
  <2>1. \A m \in 1 .. Len(a) : Left(a, m) > 0
    BY <1>0 DEF AlarmFacts
  <2>2. b[i].left = Left(b, i) /\ (i <= k \/ i = k + 1 \/ i > k + 1)
    BY <1>0, <1>1, <1>3
  <2>3. limit > 0
    OBVIOUS
  <2>4. i <= k => b[i].left > 0
    BY <1>3, <2>1, <2>2
  <2>5. i > k + 1 => b[i].left > 0
    BY <1>3, <2>1, <2>2
  <2>6. i = k + 1 => b[i].left > 0
    BY <1>3, <2>2, <2>3
  <2>. QED BY <2>2, <2>4, <2>5, <2>6
<1>. QED BY <1>1, <1>3, <1>4, <1>5, <1>6 DEF IsAlarms

(* The links JD_enqueue_timeq leaves *)
LEMMA EnqueueLinks ==
  ASSUME NEW q, NEW a, Represents(q, a), NEW t \in Thread, NEW limit \in Nat, NEW k,
         Within(a, limit, k), t \notin Alarmed(a)
  PROVE  LET r == EnqueueTimeq(q, t, limit)
             u == At(a, k)
             v == At(a, k + 1)
         IN  /\ r \in TimeQueues
             /\ r.head = IF u = None THEN t ELSE q.head
             /\ r.fw[t] = u /\ r.bw[t] = v /\ r.count[t] = limit - Left(a, k)
             /\ \A x \in Thread \ {t} :
                  /\ r.fw[x] = IF x = v THEN t ELSE q.fw[x]
                  /\ r.bw[x] = IF x = u THEN t ELSE q.bw[x]
                  /\ r.count[x] = IF x = v THEN q.count[x] - (limit - Left(a, k)) ELSE q.count[x]
<1> DEFINE r == EnqueueTimeq(q, t, limit)
           u == At(a, k)
           v == At(a, k + 1)
           d == limit - Left(a, k)
<1>0. IsAlarms(a) /\ AlarmFacts(a) /\ q \in TimeQueues /\ k \in Nat
  BY AlarmsType DEF AlarmFacts, Represents, Within
<1>1. Scan(q, t, limit) = [fw |-> u, bw |-> v, left |-> d]
  BY ScanFinds DEF Scanned
<1>2. u \in Link /\ v \in Link /\ d \in Int /\ u # t /\ v # t
  <2>1. t # None
    BY NoneAssumption
  <2>2. \A i : At(a, i) # t
    BY <1>0, <2>1, Outside DEF AlarmFacts, Alarmed
  <2>. QED BY <1>0, <2>2, Values
<1> HIDE DEF u, v, d
<1>3. r = [head  |-> IF u = None THEN t ELSE q.head,
           fw    |-> [Store(q.fw, v, t) EXCEPT ![t] = u],
           bw    |-> [Store(q.bw, u, t) EXCEPT ![t] = v],
           count |-> IF v = None THEN [q.count EXCEPT ![t] = d]
                     ELSE [q.count EXCEPT ![t] = d, ![v] = @ - d]]
  BY <1>1 DEF EnqueueTimeq
<1> HIDE DEF r
<1>4. /\ q.head \in Link /\ q.fw \in [Thread -> Link] /\ q.bw \in [Thread -> Link]
      /\ q.count \in [Thread -> Int]
  BY <1>0, QueueType
<1>5. /\ r.head = IF u = None THEN t ELSE q.head
      /\ r.head \in Link
  BY <1>3, <1>4 DEF Link
<1>6. /\ r.fw \in [Thread -> Link] /\ r.fw[t] = u
      /\ \A x \in Thread \ {t} : r.fw[x] = IF x = v THEN t ELSE q.fw[x]
  <2>1. r.fw = [Store(q.fw, v, t) EXCEPT ![t] = u]
    BY <1>3
  <2>. QED BY <2>1, <1>2, <1>4, NoneAssumption DEF Store, Link
<1>7. /\ r.bw \in [Thread -> Link] /\ r.bw[t] = v
      /\ \A x \in Thread \ {t} : r.bw[x] = IF x = u THEN t ELSE q.bw[x]
  <2>1. r.bw = [Store(q.bw, u, t) EXCEPT ![t] = v]
    BY <1>3
  <2>. QED BY <2>1, <1>2, <1>4, NoneAssumption DEF Store, Link
<1>8. /\ r.count \in [Thread -> Int] /\ r.count[t] = d
      /\ \A x \in Thread \ {t} : r.count[x] = IF x = v THEN q.count[x] - d ELSE q.count[x]
  <2>1. r.count = IF v = None THEN [q.count EXCEPT ![t] = d]
                  ELSE [q.count EXCEPT ![t] = d, ![v] = @ - d]
    BY <1>3
  <2>. QED BY <2>1, <1>2, <1>4, NoneAssumption DEF Link
<1>9. r \in TimeQueues
  BY <1>3, <1>5, <1>6, <1>7, <1>8 DEF TimeQueues
<1>. QED BY <1>2, <1>5, <1>6, <1>7, <1>8, <1>9 DEF r, u, v, d

(* JD_enqueue_timeq enters the alarm behind those due no later *)
LEMMA EnqueueRepresents ==
  ASSUME NEW q, NEW a, Represents(q, a), NEW t \in Thread, NEW limit \in Nat \ {0}, NEW k,
         Within(a, limit, k), t \notin Alarmed(a)
  PROVE  Represents(EnqueueTimeq(q, t, limit), Inserted(a, k, NewAlarm(t, limit)))
<1> DEFINE r == EnqueueTimeq(q, t, limit)
           b == Inserted(a, k, NewAlarm(t, limit))
           u == At(a, k)
           v == At(a, k + 1)
<1>0. IsAlarms(a) /\ AlarmFacts(a) /\ k \in Nat /\ k \in 0 .. Len(a) /\ Len(a) \in Nat
  BY AlarmsType DEF AlarmFacts, Represents, Within
<1>1. IsInserted(b, a, k, t, limit)
  BY <1>0, InsertedAt
<1>2. /\ r \in TimeQueues
      /\ r.head = IF u = None THEN t ELSE q.head
      /\ r.fw[t] = u /\ r.bw[t] = v /\ r.count[t] = limit - Left(a, k)
      /\ \A x \in Thread \ {t} :
           /\ r.fw[x] = IF x = v THEN t ELSE q.fw[x]
           /\ r.bw[x] = IF x = u THEN t ELSE q.bw[x]
           /\ r.count[x] = IF x = v THEN q.count[x] - (limit - Left(a, k)) ELSE q.count[x]
  BY EnqueueLinks
<1> HIDE DEF r, b
<1>3. IsAlarms(b)
  BY <1>0, <1>1, InsertedOrder DEF Represents
<1>4. /\ Len(b) = Len(a) + 1
      /\ \A i \in Int : i <= k => At(b, i) = At(a, i) /\ Left(b, i) = Left(a, i)
      /\ At(b, k + 1) = t /\ Left(b, k + 1) = limit
      /\ \A i \in Int : i > k + 1 => At(b, i) = At(a, i - 1) /\ Left(b, i) = Left(a, i - 1)
  BY <1>1 DEF IsInserted
<1>5. r.head = At(b, 1)
  <2>1. CASE k = 0
    <3>1. At(a, 0) = None
      BY Outside
    <3>. QED BY <1>2, <1>4, <2>1, <3>1
  <2>2. CASE k # 0
    <3>1. k \in 1 .. Len(a) /\ 1 <= k
      BY <1>0, <2>2
    <3>2. u # None /\ At(b, 1) = At(a, 1)
      BY <1>0, <1>4, <3>1, NoneAssumption DEF AlarmFacts
    <3>. QED BY <1>2, <3>2 DEF Represents
  <2>. QED BY <2>1, <2>2
<1>6. ASSUME NEW j \in 1 .. Len(a)
      PROVE  /\ At(a, j) \in Thread \ {t} /\ Left(a, j) \in Nat
             /\ At(a, j) = u <=> j = k
             /\ At(a, j) = v <=> j = k + 1
             /\ q.fw[At(a, j)] = At(a, j - 1) /\ q.bw[At(a, j)] = At(a, j + 1)
             /\ q.count[At(a, j)] = Left(a, j) - Left(a, j - 1)
  <2>1. At(a, j) \in Thread /\ At(a, j) # t /\ Left(a, j) \in Nat /\ At(a, j) # None
    BY <1>0, NoneAssumption DEF AlarmFacts, Alarmed
  <2>2. ASSUME NEW m \in Int, At(a, j) = At(a, m) PROVE j = m
    <3>1. m \in 1 .. Len(a)
      BY <2>1, <2>2, Outside
    <3>. QED BY <1>0, <2>2, <3>1 DEF AlarmFacts
  <2>3. Linked(q, a, j)
    BY DEF Represents
  <2>. QED BY <1>0, <2>1, <2>2, <2>3 DEF Linked
<1>7. Left(a, k) \in Nat
  BY <1>0, Values
<1> HIDE DEF u, v
<1>8. ASSUME NEW i \in 1 .. Len(b) PROVE Linked(r, b, i)
  <2>0. i \in Int /\ i - 1 \in Int /\ i + 1 \in Int /\ Len(b) = Len(a) + 1
    BY <1>0, <1>4
  <2>1. CASE i < k
    <3>1. i \in 1 .. Len(a) /\ i <= k /\ i - 1 <= k /\ i + 1 <= k /\ i # k /\ i # k + 1
      BY <1>0, <2>1
    <3>2. /\ At(b, i) = At(a, i) /\ At(b, i - 1) = At(a, i - 1) /\ At(b, i + 1) = At(a, i + 1)
          /\ Left(b, i) = Left(a, i) /\ Left(b, i - 1) = Left(a, i - 1)
      BY <1>4, <2>0, <3>1
    <3>. QED BY <1>2, <1>6, <3>1, <3>2 DEF Linked
  <2>2. CASE i = k
    <3>1. i \in 1 .. Len(a) /\ i <= k /\ i - 1 <= k /\ i + 1 = k + 1 /\ i # k + 1
      BY <1>0, <2>2
    <3>2. /\ At(b, i) = At(a, i) /\ At(b, i - 1) = At(a, i - 1) /\ At(b, i + 1) = t
          /\ Left(b, i) = Left(a, i) /\ Left(b, i - 1) = Left(a, i - 1)
      BY <1>4, <2>0, <3>1
    <3>3. /\ At(a, i) \in Thread \ {t} /\ At(a, i) = u /\ At(a, i) # v
          /\ q.fw[At(a, i)] = At(a, i - 1) /\ q.count[At(a, i)] = Left(a, i) - Left(a, i - 1)
      BY <1>6, <2>2, <3>1
    <3>4. /\ r.fw[At(a, i)] = q.fw[At(a, i)] /\ r.bw[At(a, i)] = t
          /\ r.count[At(a, i)] = q.count[At(a, i)]
      BY <1>2, <3>3
    <3>. QED BY <3>2, <3>3, <3>4 DEF Linked
  <2>3. CASE i = k + 1
    <3>1. i - 1 = k /\ k <= k /\ i + 1 > k + 1 /\ (i + 1) - 1 = k + 1
      BY <1>0, <2>3
    <3>2. /\ At(b, i) = t /\ At(b, i - 1) = u /\ At(b, i + 1) = v
          /\ Left(b, i) = limit /\ Left(b, i - 1) = Left(a, k)
      BY <1>0, <1>4, <2>0, <2>3, <3>1 DEF u, v
    <3>. QED BY <1>2, <3>2 DEF Linked
  <2>4. CASE i = k + 2
    <3>1. /\ i > k + 1 /\ i - 1 = k + 1 /\ k + 1 \in 1 .. Len(a) /\ i + 1 > k + 1
          /\ (i + 1) - 1 = (k + 1) + 1 /\ (k + 1) - 1 = k /\ k + 1 # k
      BY <1>0, <1>4, <2>4
    <3>2. /\ At(b, i) = At(a, k + 1) /\ At(b, i - 1) = t /\ At(b, i + 1) = At(a, (k + 1) + 1)
          /\ Left(b, i) = Left(a, k + 1) /\ Left(b, i - 1) = limit
      BY <1>4, <2>0, <3>1
    <3>3. /\ At(a, k + 1) = v /\ At(a, k + 1) # u /\ v \in Thread \ {t} /\ Left(a, k + 1) \in Nat
          /\ q.bw[v] = At(a, (k + 1) + 1)
          /\ q.count[v] = Left(a, k + 1) - Left(a, k)
      BY <1>6, <3>1 DEF v
    <3>4. q.count[v] - (limit - Left(a, k)) = Left(a, k + 1) - limit
      BY <1>7, <3>3
    <3>. QED BY <1>2, <3>2, <3>3, <3>4 DEF Linked
  <2>5. CASE i > k + 2
    <3> DEFINE j == i - 1
    <3>1. /\ j \in 1 .. Len(a) /\ j # k /\ j # k + 1 /\ i > k + 1 /\ i - 1 > k + 1 /\ i + 1 > k + 1
          /\ (i + 1) - 1 = j + 1 /\ (i - 1) - 1 = j - 1
      BY <1>0, <1>4, <2>5
    <3>2. /\ At(b, i) = At(a, j) /\ At(b, i - 1) = At(a, j - 1) /\ At(b, i + 1) = At(a, j + 1)
          /\ Left(b, i) = Left(a, j) /\ Left(b, i - 1) = Left(a, j - 1)
      BY <1>4, <2>0, <3>1
    <3> HIDE DEF j
    <3>. QED BY <1>2, <1>6, <3>1, <3>2 DEF Linked
  <2>. QED BY <1>0, <2>0, <2>1, <2>2, <2>3, <2>4, <2>5
<1>. QED BY <1>2, <1>3, <1>5, <1>8 DEF Represents, r, b
-----------------------------------------------------------------------------
(* JD_dequeue_timeq *)

(* What the places of b hold: those of a, without the kth *)
IsWithout(b, a, k) ==
  /\ b \in Seq(Alarm) /\ Len(b) = Len(a) - 1
  /\ \A i \in Int : i < k => At(b, i) = At(a, i) /\ Left(b, i) = Left(a, i)
  /\ \A i \in Int : i >= k => At(b, i) = At(a, i + 1) /\ Left(b, i) = Left(a, i + 1)

LEMMA WithoutAt ==
  ASSUME NEW a, IsAlarms(a), NEW k \in 1 .. Len(a)
  PROVE  IsWithout(WithoutPlace(a, k), a, k)
<1> DEFINE b == WithoutPlace(a, k)
<1>0. a \in Seq(Alarm) /\ Len(a) \in Nat /\ k \in Nat /\ k >= 1 /\ k <= Len(a)
  BY DEF IsAlarms
<1>1. /\ b \in Seq(Alarm) /\ Len(b) = Len(a) - 1
      /\ \A i \in 1 .. Len(a) - 1 : b[i] = IF i < k THEN a[i] ELSE a[i + 1]
  BY <1>0, WithoutOne
<1> HIDE DEF b
<1>2. ASSUME NEW i \in Int, i < k PROVE At(b, i) = At(a, i) /\ Left(b, i) = Left(a, i)
  <2>1. i \in 1 .. Len(b) <=> i \in 1 .. Len(a)
    BY <1>0, <1>1, <1>2
  <2>2. i \in 1 .. Len(b) => b[i] = a[i]
    BY <1>0, <1>1, <1>2
  <2>. QED BY <2>1, <2>2 DEF At, Left
<1>3. ASSUME NEW i \in Int, i >= k
      PROVE  At(b, i) = At(a, i + 1) /\ Left(b, i) = Left(a, i + 1)
  <2>1. i \in 1 .. Len(b) <=> i + 1 \in 1 .. Len(a)
    BY <1>0, <1>1, <1>3
  <2>2. i \in 1 .. Len(b) => b[i] = a[i + 1]
    BY <1>0, <1>1, <1>3
  <2>. QED BY <2>1, <2>2 DEF At, Left
<1>. QED BY <1>1, <1>2, <1>3 DEF IsWithout, b

LEMMA WithoutOrder ==
  ASSUME NEW a, IsAlarms(a), NEW k \in 1 .. Len(a), NEW b, IsWithout(b, a, k)
  PROVE  IsAlarms(b)
<1>0. AlarmFacts(a) /\ Len(a) \in Nat
  BY AlarmsType DEF AlarmFacts
<1>1. b \in Seq(Alarm) /\ Len(b) = Len(a) - 1
  BY DEF IsWithout
<1> DEFINE p(i) == IF i < k THEN i ELSE i + 1
<1>2. ASSUME NEW i \in 1 .. Len(b)
      PROVE  /\ p(i) \in 1 .. Len(a) /\ At(b, i) = At(a, p(i)) /\ Left(b, i) = Left(a, p(i))
             /\ b[i].thread = At(b, i) /\ b[i].left = Left(b, i)
  <2>1. p(i) \in 1 .. Len(a) /\ i \in Int /\ (i < k \/ i >= k)
    BY <1>0, <1>1
  <2>2. At(b, i) = At(a, p(i)) /\ Left(b, i) = Left(a, p(i))
    BY <2>1 DEF IsWithout
  <2>. QED BY <2>1, <2>2 DEF At, Left
<1>3. ASSUME NEW i \in 1 .. Len(b), NEW j \in 1 .. Len(b)
      PROVE  (p(i) = p(j) => i = j) /\ (i < j => p(i) < p(j))
  BY <1>0, <1>1
<1> HIDE DEF p
<1>4. /\ \A m, n \in 1 .. Len(a) : At(a, m) = At(a, n) => m = n
      /\ \A m, n \in 1 .. Len(a) : m < n => Left(a, m) <= Left(a, n)
      /\ \A m \in 1 .. Len(a) : Left(a, m) > 0
  BY <1>0 DEF AlarmFacts
<1>5. ASSUME NEW i \in 1 .. Len(b), NEW j \in 1 .. Len(b)
      PROVE  /\ b[i].thread = b[j].thread => i = j
             /\ i < j => b[i].left <= b[j].left
             /\ b[i].left > 0
  BY <1>2, <1>3, <1>4
<1>. QED BY <1>1, <1>5 DEF IsAlarms

(* The links JD_dequeue_timeq leaves *)
LEMMA DequeueLinks ==
  ASSUME NEW q, NEW a, Represents(q, a), NEW k \in 1 .. Len(a)
  PROVE  LET t == At(a, k)
             r == DequeueTimeq(q, t)
             u == At(a, k - 1)
             v == At(a, k + 1)
         IN  /\ r \in TimeQueues
             /\ r.head = IF u = None THEN v ELSE q.head
             /\ \A x \in Thread \ {t} :
                  /\ r.fw[x] = IF x = v THEN u ELSE q.fw[x]
                  /\ r.bw[x] = IF x = u THEN v ELSE q.bw[x]
                  /\ r.count[x] = IF x = v THEN q.count[x] + q.count[t] ELSE q.count[x]
<1> DEFINE t == At(a, k)
           r == DequeueTimeq(q, t)
           u == At(a, k - 1)
           v == At(a, k + 1)
<1>0. IsAlarms(a) /\ AlarmFacts(a) /\ q \in TimeQueues /\ k \in Nat
  BY AlarmsType DEF AlarmFacts, Represents
<1>1. q.fw[t] = u /\ q.bw[t] = v
  BY DEF Represents, Linked
<1>2. t \in Thread /\ u \in Link /\ v \in Link /\ u # t /\ v # t
  <2>1. t \in Thread
    BY <1>0 DEF AlarmFacts
  <2>2. ASSUME NEW m \in Int, At(a, m) = t PROVE m = k
    <3>1. m \in 1 .. Len(a)
      BY <2>1, <2>2, Outside, NoneAssumption
    <3>. QED BY <1>0, <2>2, <3>1 DEF AlarmFacts
  <2>. QED BY <1>0, <2>1, <2>2, Values
<1> HIDE DEF t, u, v
<1>3. r = [head  |-> IF u = None THEN v ELSE q.head,
           fw    |-> [Store(q.fw, v, u) EXCEPT ![t] = None],
           bw    |-> [Store(q.bw, u, v) EXCEPT ![t] = None],
           count |-> IF v = None THEN q.count
                     ELSE [q.count EXCEPT ![v] = @ + q.count[t]]]
  BY <1>1 DEF DequeueTimeq
<1> HIDE DEF r
<1>4. /\ q.head \in Link /\ q.fw \in [Thread -> Link] /\ q.bw \in [Thread -> Link]
      /\ q.count \in [Thread -> Int] /\ q.count[t] \in Int
  BY <1>0, <1>2, QueueType
<1>5. r.head = (IF u = None THEN v ELSE q.head) /\ r.head \in Link
  BY <1>2, <1>3, <1>4 DEF Link
<1>6. /\ r.fw \in [Thread -> Link]
      /\ \A x \in Thread \ {t} : r.fw[x] = IF x = v THEN u ELSE q.fw[x]
  <2>1. r.fw = [Store(q.fw, v, u) EXCEPT ![t] = None]
    BY <1>3
  <2>. QED BY <2>1, <1>2, <1>4, NoneAssumption DEF Store, Link
<1>7. /\ r.bw \in [Thread -> Link]
      /\ \A x \in Thread \ {t} : r.bw[x] = IF x = u THEN v ELSE q.bw[x]
  <2>1. r.bw = [Store(q.bw, u, v) EXCEPT ![t] = None]
    BY <1>3
  <2>. QED BY <2>1, <1>2, <1>4, NoneAssumption DEF Store, Link
<1>8. /\ r.count \in [Thread -> Int]
      /\ \A x \in Thread \ {t} : r.count[x] = IF x = v THEN q.count[x] + q.count[t] ELSE q.count[x]
  <2>1. r.count = IF v = None THEN q.count ELSE [q.count EXCEPT ![v] = @ + q.count[t]]
    BY <1>3
  <2>. QED BY <2>1, <1>2, <1>4, NoneAssumption DEF Link
<1>9. r \in TimeQueues
  BY <1>3, <1>5, <1>6, <1>7, <1>8 DEF TimeQueues
<1>. QED BY <1>5, <1>6, <1>7, <1>8, <1>9 DEF r, t, u, v

(* JD_dequeue_timeq takes the alarm out and leaves the others as they are *)
LEMMA DequeueRepresents ==
  ASSUME NEW q, NEW a, Represents(q, a), NEW k \in 1 .. Len(a)
  PROVE  Represents(DequeueTimeq(q, At(a, k)), WithoutPlace(a, k))
<1> DEFINE t == At(a, k)
           r == DequeueTimeq(q, t)
           b == WithoutPlace(a, k)
           u == At(a, k - 1)
           v == At(a, k + 1)
<1>0. IsAlarms(a) /\ AlarmFacts(a) /\ k \in Nat /\ Len(a) \in Nat /\ k >= 1 /\ k <= Len(a)
  BY AlarmsType DEF AlarmFacts, Represents
<1>1. IsWithout(b, a, k)
  BY <1>0, WithoutAt
<1>2. /\ r \in TimeQueues
      /\ r.head = IF u = None THEN v ELSE q.head
      /\ \A x \in Thread \ {t} :
           /\ r.fw[x] = IF x = v THEN u ELSE q.fw[x]
           /\ r.bw[x] = IF x = u THEN v ELSE q.bw[x]
           /\ r.count[x] = IF x = v THEN q.count[x] + q.count[t] ELSE q.count[x]
  BY DequeueLinks
<1> HIDE DEF r, b
<1>3. IsAlarms(b)
  BY <1>0, <1>1, WithoutOrder
<1>4. /\ Len(b) = Len(a) - 1
      /\ \A i \in Int : i < k => At(b, i) = At(a, i) /\ Left(b, i) = Left(a, i)
      /\ \A i \in Int : i >= k => At(b, i) = At(a, i + 1) /\ Left(b, i) = Left(a, i + 1)
  BY <1>1 DEF IsWithout
<1>5. r.head = At(b, 1)
  <2>1. CASE k = 1
    <3>1. u = None
      BY <2>1, Outside
    <3>. QED BY <1>2, <1>4, <2>1, <3>1
  <2>2. CASE k # 1
    <3>1. k - 1 \in 1 .. Len(a) /\ 1 < k
      BY <1>0, <2>2
    <3>2. u # None /\ At(b, 1) = At(a, 1)
      BY <1>0, <1>4, <3>1, NoneAssumption DEF AlarmFacts
    <3>. QED BY <1>2, <3>2 DEF Represents
  <2>. QED BY <2>1, <2>2
<1>6. ASSUME NEW j \in 1 .. Len(a)
      PROVE  /\ At(a, j) \in Thread /\ Left(a, j) \in Nat /\ Left(a, j - 1) \in Nat
             /\ At(a, j) = t <=> j = k
             /\ At(a, j) = u <=> j = k - 1
             /\ At(a, j) = v <=> j = k + 1
             /\ q.fw[At(a, j)] = At(a, j - 1) /\ q.bw[At(a, j)] = At(a, j + 1)
             /\ q.count[At(a, j)] = Left(a, j) - Left(a, j - 1)
  <2>1. At(a, j) \in Thread /\ Left(a, j) \in Nat /\ At(a, j) # None
    BY <1>0, NoneAssumption DEF AlarmFacts
  <2>2. ASSUME NEW m \in Int, At(a, j) = At(a, m) PROVE j = m
    <3>1. m \in 1 .. Len(a)
      BY <2>1, <2>2, Outside
    <3>. QED BY <1>0, <2>2, <3>1 DEF AlarmFacts
  <2>3. Linked(q, a, j)
    BY DEF Represents
  <2>4. Left(a, j - 1) \in Nat
    BY <1>0, Values
  <2>. QED BY <1>0, <2>1, <2>2, <2>3, <2>4 DEF Linked
<1>7. q.count[t] = Left(a, k) - Left(a, k - 1)
  BY <1>6
<1>8. ASSUME NEW i \in 1 .. Len(b) PROVE Linked(r, b, i)
  <2>0. i \in Int /\ i - 1 \in Int /\ i + 1 \in Int /\ Len(b) = Len(a) - 1
    BY <1>0, <1>4
  <2>1. CASE i < k - 1
    <3>1. i \in 1 .. Len(a) /\ i < k /\ i - 1 < k /\ i + 1 < k /\ i # k /\ i # k + 1 /\ i # k - 1
      BY <1>0, <2>1
    <3>2. /\ At(b, i) = At(a, i) /\ At(b, i - 1) = At(a, i - 1) /\ At(b, i + 1) = At(a, i + 1)
          /\ Left(b, i) = Left(a, i) /\ Left(b, i - 1) = Left(a, i - 1)
      BY <1>4, <2>0, <3>1
    <3> HIDE DEF t, u, v
    <3>. QED BY <1>2, <1>6, <3>1, <3>2 DEF Linked
  <2>2. CASE i = k - 1
    <3>1. i \in 1 .. Len(a) /\ i < k /\ i - 1 < k /\ i + 1 = k /\ k >= k /\ i # k + 1 /\ i # k
      BY <1>0, <2>2
    <3>2. /\ At(b, i) = At(a, i) /\ At(b, i - 1) = At(a, i - 1) /\ At(b, i + 1) = v
          /\ Left(b, i) = Left(a, i) /\ Left(b, i - 1) = Left(a, i - 1)
      BY <1>0, <1>4, <2>0, <3>1
    <3>3. /\ At(a, i) \in Thread \ {t} /\ At(a, i) = u /\ At(a, i) # v
          /\ q.fw[At(a, i)] = At(a, i - 1) /\ q.count[At(a, i)] = Left(a, i) - Left(a, i - 1)
      BY <1>6, <2>2, <3>1
    <3> HIDE DEF t, u, v
    <3>4. /\ r.fw[At(a, i)] = q.fw[At(a, i)] /\ r.bw[At(a, i)] = v
          /\ r.count[At(a, i)] = q.count[At(a, i)]
      BY <1>2, <3>3
    <3>. QED BY <3>2, <3>3, <3>4 DEF Linked
  <2>3. CASE i = k
    <3>1. /\ k + 1 \in 1 .. Len(a) /\ i - 1 < k /\ i >= k /\ i + 1 >= k /\ i + 1 = k + 1
          /\ k + 1 # k /\ k + 1 # k - 1 /\ (k + 1) - 1 = k /\ i - 1 = k - 1
      BY <1>0, <1>4, <2>3
    <3>2. /\ At(b, i) = v /\ At(b, i - 1) = u /\ At(b, i + 1) = At(a, (k + 1) + 1)
          /\ Left(b, i) = Left(a, k + 1) /\ Left(b, i - 1) = Left(a, k - 1)
      BY <1>4, <2>0, <2>3, <3>1
    <3>3. /\ v \in Thread \ {t} /\ v # u /\ Left(a, k + 1) \in Nat
          /\ q.bw[v] = At(a, (k + 1) + 1)
          /\ q.count[v] = Left(a, k + 1) - Left(a, k)
      BY <1>6, <3>1
    <3>4. q.count[v] + q.count[t] = Left(a, k + 1) - Left(a, k - 1)
      <4>1. Left(a, k) \in Nat /\ Left(a, k - 1) \in Nat
        BY <1>6
      <4>. QED BY <1>7, <3>3, <4>1
    <3> HIDE DEF t, u, v
    <3>. QED BY <1>2, <3>2, <3>3, <3>4 DEF Linked
  <2>4. CASE i > k
    <3> DEFINE j == i + 1
    <3>1. /\ j \in 1 .. Len(a) /\ j # k /\ j # k + 1 /\ j # k - 1 /\ i >= k /\ i - 1 >= k /\ i + 1 >= k
          /\ (i - 1) + 1 = j - 1
      BY <1>0, <1>4, <2>4
    <3>2. /\ At(b, i) = At(a, j) /\ At(b, i - 1) = At(a, j - 1) /\ At(b, i + 1) = At(a, j + 1)
          /\ Left(b, i) = Left(a, j) /\ Left(b, i - 1) = Left(a, j - 1)
      BY <1>4, <2>0, <3>1
    <3> HIDE DEF j, t, u, v
    <3>. QED BY <1>2, <1>6, <3>1, <3>2 DEF Linked
  <2>. QED BY <1>0, <2>0, <2>1, <2>2, <2>3, <2>4
<1>. QED BY <1>2, <1>3, <1>5, <1>8 DEF Represents, r, b, t
-----------------------------------------------------------------------------
(* JD_count_timeq *)

LEMMA DecrementLinks ==
  ASSUME NEW q, NEW a, Represents(q, a)
  PROVE  LET d == Decrement(q)
         IN  /\ d \in TimeQueues /\ d.head = At(a, 1)
             /\ d.fw = q.fw /\ d.bw = q.bw
             /\ \A x \in Thread :
                  d.count[x] = IF x = At(a, 1) THEN q.count[x] - 1 ELSE q.count[x]
<1>1. q \in TimeQueues /\ q.head = At(a, 1)
  BY DEF Represents
<1>. QED BY <1>1, NoneAssumption DEF Decrement, TimeQueues, Link

PopStep(d, p) ==
  IF p.next # None /\ d.count[p.next] = 0
  THEN [gone |-> Append(p.gone, p.next), next |-> d.bw[p.next]]
  ELSE p

IsPop(f, d) ==
  f = [n \in Nat |-> IF n = 0 THEN [gone |-> <<>>, next |-> d.head]
                     ELSE PopStep(d, f[n - 1])]

(* The first n threads, and the loop after them *)
First(a, n)  == [i \in 1 .. n |-> At(a, i)]
Popped(a, n) == [gone |-> First(a, n), next |-> At(a, n + 1)]

LEMMA FirstType ==
  ASSUME NEW a, IsAlarms(a), NEW n \in 0 .. Len(a)
  PROVE  /\ First(a, n) \in Seq(Thread) /\ Len(First(a, n)) = n
         /\ \A i \in 1 .. n : First(a, n)[i] = At(a, i)
         /\ n = 0 <=> First(a, n) = <<>>
<1>1. AlarmFacts(a) /\ Len(a) \in Nat /\ n \in Nat
  BY AlarmsType DEF AlarmFacts
<1>2. \A i \in 1 .. n : At(a, i) \in Thread
  BY <1>1 DEF AlarmFacts
<1>3. First(a, n) \in Seq(Thread) /\ Len(First(a, n)) = n
  BY <1>1, <1>2 DEF First
<1>. QED BY <1>1, <1>3 DEF First

LEMMA FirstGrows ==
  ASSUME NEW a, IsAlarms(a), NEW n \in 0 .. Len(a) - 1
  PROVE  Append(First(a, n), At(a, n + 1)) = First(a, n + 1)
<1>0. AlarmFacts(a) /\ n \in 0 .. Len(a) /\ n + 1 \in 0 .. Len(a) /\ n + 1 \in 1 .. Len(a) /\ n \in Nat
  <2>1. AlarmFacts(a)
    BY AlarmsType
  <2>2. Len(a) \in Nat
    BY <2>1 DEF AlarmFacts
  <2>. QED BY <2>1, <2>2
<1> DEFINE r == First(a, n)
           s == First(a, n + 1)
           x == At(a, n + 1)
<1>1. r \in Seq(Thread) /\ Len(r) = n /\ \A i \in 1 .. n : r[i] = At(a, i)
  BY <1>0, FirstType
<1>2. s \in Seq(Thread) /\ Len(s) = n + 1 /\ \A i \in 1 .. n + 1 : s[i] = At(a, i)
  BY <1>0, FirstType
<1>3. x \in Thread
  BY <1>0 DEF AlarmFacts
<1> HIDE DEF r, s
<1>4. s[n + 1] = x
  BY <1>0, <1>2
<1> HIDE DEF x
<1>5. /\ Append(r, x) \in Seq(Thread) /\ Len(Append(r, x)) = n + 1
      /\ \A i \in 1 .. n : Append(r, x)[i] = r[i]
      /\ Append(r, x)[n + 1] = x
  BY <1>0, <1>1, <1>3, AppendProperties
<1>6. \A i \in 1 .. n + 1 : Append(r, x)[i] = s[i]
  <2>1. ASSUME NEW i \in 1 .. n + 1 PROVE Append(r, x)[i] = s[i]
    <3>1. i \in 1 .. n \/ i = n + 1
      BY <1>0
    <3>. QED BY <1>1, <1>2, <1>4, <1>5, <3>1
  <2>. QED BY <2>1
<1>7. Append(r, x) = s
  BY <1>2, <1>5, <1>6, SeqEqual
<1>. QED BY <1>7 DEF r, s, x

LEMMA PopBegins ==
  ASSUME NEW q, NEW a, Represents(q, a)
  PROVE  Popped(a, 0) = [gone |-> <<>>, next |-> Decrement(q).head]
<1>1. First(a, 0) = <<>>
  BY FirstType, AlarmsType DEF Represents, AlarmFacts
<1>2. Decrement(q).head = At(a, 1)
  BY DecrementLinks
<1>. QED BY <1>1, <1>2 DEF Popped

(* What the loop looks at behind the nth thread *)
PopSees(d, a, k, n) ==
  /\ At(a, n + 1) # None
  /\ d.bw[At(a, n + 1)] = At(a, (n + 1) + 1)
  /\ d.count[At(a, n + 1)] = 0 <=> n < k

LEMMA PopCount ==
  ASSUME NEW q, NEW a, Represents(q, a), NEW k, Within(a, 1, k), NEW n \in 0 .. k,
         n + 1 \in 1 .. Len(a)
  PROVE  PopSees(Decrement(q), a, k, n)
<1> DEFINE d == Decrement(q)
           m == n + 1
           x == At(a, m)
<1>0. IsAlarms(a) /\ AlarmFacts(a) /\ Len(a) \in Nat /\ k \in 0 .. Len(a) /\ n \in Nat /\ k \in Nat
  BY AlarmsType DEF AlarmFacts, Represents, Within
<1>1. /\ d.bw = q.bw
      /\ \A y \in Thread : d.count[y] = IF y = At(a, 1) THEN q.count[y] - 1 ELSE q.count[y]
  BY DecrementLinks
<1> HIDE DEF d
<1>2. m \in 1 .. Len(a) /\ m - 1 = n /\ 1 \in 1 .. Len(a)
  BY <1>0
<1>3. x \in Thread /\ x # None /\ (x = At(a, 1) <=> m = 1)
  BY <1>0, <1>2, NoneAssumption DEF AlarmFacts
<1>4. q.bw[x] = At(a, m + 1) /\ q.count[x] = Left(a, m) - Left(a, n)
  BY <1>2 DEF Represents, Linked
<1>5. Left(a, m) \in Nat /\ Left(a, m) > 0 /\ Left(a, n) \in Nat
  BY <1>0, <1>2, Values DEF AlarmFacts
<1>6. (Left(a, m) = 1) <=> n < k
  <2>1. CASE n < k
    <3>1. m \in 1 .. k
      BY <1>0, <2>1
    <3>2. Left(a, m) <= 1
      BY <3>1 DEF Within
    <3>. QED BY <1>5, <2>1, <3>2
  <2>2. CASE ~(n < k)
    <3>1. m \in k + 1 .. Len(a)
      BY <1>0, <1>2, <2>2
    <3>2. Left(a, m) > 1
      BY <3>1 DEF Within
    <3>. QED BY <1>5, <2>2, <3>2
  <2>. QED BY <2>1, <2>2
<1>7. d.count[x] = 0 <=> Left(a, m) = 1
  <2>1. CASE m = 1
    <3>1. n = 0 /\ Left(a, n) = 0
      BY <1>0, <2>1, Outside
    <3>2. d.count[x] = q.count[x] - 1
      BY <1>1, <1>3, <2>1
    <3> HIDE DEF x, m
    <3>3. q.count[x] = Left(a, m)
      BY <1>4, <1>5, <3>1
    <3>. QED BY <1>5, <3>2, <3>3
  <2>2. CASE m # 1
    <3>1. n \in 1 .. k /\ n \in 1 .. Len(a)
      BY <1>0, <1>2, <2>2
    <3>2. Left(a, n) <= 1 /\ Left(a, n) > 0
      BY <1>0, <3>1 DEF Within, AlarmFacts
    <3>3. Left(a, n) = 1
      BY <1>5, <3>2
    <3>4. d.count[x] = q.count[x]
      BY <1>1, <1>3, <2>2
    <3> HIDE DEF x, m
    <3>. QED BY <1>4, <1>5, <3>3, <3>4
  <2>. QED BY <2>1, <2>2
<1>. QED BY <1>1, <1>3, <1>4, <1>6, <1>7 DEF d, PopSees

LEMMA PopGoesOn ==
  ASSUME NEW q, NEW a, Represents(q, a), NEW k, Within(a, 1, k), NEW n \in 0 .. k - 1
  PROVE  PopStep(Decrement(q), Popped(a, n)) = Popped(a, n + 1)
<1> DEFINE d == Decrement(q)
           x == At(a, n + 1)
<1>0. /\ IsAlarms(a) /\ Len(a) \in Nat /\ k \in Nat /\ n \in 0 .. k /\ n < k
      /\ n + 1 \in 1 .. Len(a) /\ n \in 0 .. Len(a) - 1
  <2>1. IsAlarms(a) /\ Len(a) \in Nat /\ k \in 0 .. Len(a)
    BY AlarmsType DEF AlarmFacts, Represents, Within
  <2>. QED BY <2>1
<1>1. x # None /\ d.bw[x] = At(a, (n + 1) + 1) /\ d.count[x] = 0
  <2>1. PopSees(d, a, k, n)
    BY <1>0, PopCount
  <2> HIDE DEF d
  <2>. QED BY <1>0, <2>1 DEF PopSees
<1>2. Append(First(a, n), x) = First(a, n + 1)
  BY <1>0, FirstGrows
<1>3. Popped(a, n).next = x /\ Popped(a, n).gone = First(a, n)
  BY DEF Popped
<1> HIDE DEF d, x
<1>4. PopStep(d, Popped(a, n)) = [gone |-> First(a, n + 1), next |-> At(a, (n + 1) + 1)]
  BY <1>1, <1>2, <1>3, Zenon DEF PopStep
<1>. QED BY <1>4, Zenon DEF Popped, d

LEMMA PopEnds ==
  ASSUME NEW q, NEW a, Represents(q, a), NEW k, Within(a, 1, k)
  PROVE  Popped(a, k).next = None \/ Decrement(q).count[Popped(a, k).next] # 0
<1>0. k \in Nat /\ k \in 0 .. k /\ ~(k < k)
  BY DEF Within
<1>1. Popped(a, k).next = At(a, k + 1)
  BY DEF Popped
<1>2. CASE k + 1 \in 1 .. Len(a)
  <2>1. Decrement(q).count[At(a, k + 1)] # 0
    BY <1>0, <1>2, PopCount DEF PopSees
  <2>. QED BY <1>1, <2>1
<1>3. CASE k + 1 \notin 1 .. Len(a)
  <2>1. At(a, k + 1) = None
    BY <1>3, Outside
  <2>. QED BY <1>1, <2>1
<1>. QED BY <1>2, <1>3

(* The loop removes the threads of the alarms that are due, and ends *)
LEMMA ExpiryFinds ==
  ASSUME NEW q, NEW a, Represents(q, a), NEW k, Within(a, 1, k)
  PROVE  Expiry(q) = Popped(a, k) /\ CountEnds(q)
<1> DEFINE d == Decrement(q)
           f == CHOOSE f : IsPop(f, d)
           least(n) == IF n <= k THEN n ELSE k
           b == [gone |-> <<>>, next |-> d.head]
           g == [n \in Nat |-> Popped(a, least(n))]
           T == {n \in Nat : f[n] = g[n]}
<1>0. IsAlarms(a) /\ k \in Nat /\ k <= Len(a) /\ Len(a) \in Nat
  BY AlarmsType DEF AlarmFacts, Represents, Within
<1>1. Expiry(q) = f[Cardinality(Thread)]
  BY DEF Expiry, IsPop, PopStep
<1>2. g[0] = b
  BY <1>0, PopBegins
<1>3. ASSUME NEW n \in Nat PROVE g[n + 1] = PopStep(d, g[n])
  <2>1. g[n] = Popped(a, least(n)) /\ g[n + 1] = Popped(a, least(n + 1))
    OBVIOUS
  <2>2. CASE n < k
    <3>1. least(n) = n /\ least(n + 1) = n + 1 /\ n \in 0 .. k - 1
      BY <1>0, <2>2
    <3>2. PopStep(d, Popped(a, n)) = Popped(a, n + 1)
      BY <3>1, PopGoesOn
    <3>. QED BY <2>1, <3>1, <3>2
  <2>3. CASE ~(n < k)
    <3>1. least(n) = k /\ least(n + 1) = k
      BY <1>0, <2>3
    <3>2. PopStep(d, Popped(a, k)) = Popped(a, k)
      BY PopEnds DEF PopStep
    <3>. QED BY <2>1, <3>1, <3>2
  <2>. QED BY <2>2, <2>3
<1> HIDE DEF b, d
<1>4. IsPop(g, d)
  <2>1. ASSUME NEW n \in Nat PROVE g[n] = IF n = 0 THEN b ELSE PopStep(d, g[n - 1])
    <3> HIDE DEF g
    <3>1. CASE n = 0
      BY <1>2, <3>1
    <3>2. CASE n # 0
      <4>1. n - 1 \in Nat /\ (n - 1) + 1 = n
        BY <3>2
      <4>2. g[(n - 1) + 1] = PopStep(d, g[n - 1])
        BY <1>3, <4>1
      <4>. QED BY <3>2, <4>1, <4>2
    <3>. QED BY <3>1, <3>2
  <2>2. g = [n \in Nat |-> g[n]]
    OBVIOUS
  <2> HIDE DEF g
  <2>. QED BY <2>1, <2>2 DEF IsPop, b
<1>5. IsPop(f, d)
  BY <1>4
<1> HIDE DEF f, g
<1>6. f[0] = b /\ \A n \in Nat : n # 0 => f[n] = PopStep(d, f[n - 1])
  BY <1>5 DEF IsPop, b
<1>7. T = Nat
  <2>1. T \in SUBSET Nat /\ 0 \in T
    BY <1>2, <1>6
  <2>2. ASSUME NEW n \in T PROVE n + 1 \in T
    <3>1. n \in Nat /\ f[n] = g[n] /\ n + 1 \in Nat /\ n + 1 # 0 /\ (n + 1) - 1 = n
      OBVIOUS
    <3>2. f[n + 1] = PopStep(d, f[n])
      BY <1>6, <3>1
    <3>. QED BY <1>3, <3>1, <3>2
  <2> HIDE DEF T
  <2>. QED BY <2>1, <2>2, AllNumbers
<1>8. f[Cardinality(Thread)] = Popped(a, k)
  <2>1. Cardinality(Thread) \in T /\ least(Cardinality(Thread)) = k
    BY <1>0, <1>7, CountIsNat, AlarmsFit
  <2>. QED BY <2>1, CountIsNat DEF g
<1>9. Expiry(q) = Popped(a, k)
  BY <1>1, <1>8
<1>. QED BY <1>9, PopEnds DEF CountEnds

(* a without the first k, a cycle later *)
Sooner(x)     == [x EXCEPT !.left = @ - 1]
Dropped(a, k) == [i \in 1 .. Len(a) - k |-> Sooner(a[i + k])]

LEMMA SoonerType ==
  ASSUME NEW x \in Alarm
  PROVE  Sooner(x) \in Alarm /\ Sooner(x).thread = x.thread /\ Sooner(x).left = x.left - 1
  BY DEF Sooner, Alarm

(* What the places of b hold: those of a behind the kth, a cycle later *)
IsDropped(b, a, k) ==
  /\ b \in Seq(Alarm) /\ Len(b) = Len(a) - k
  /\ \A i \in Nat \ {0} : At(b, i) = At(a, i + k)
  /\ \A i \in 1 .. Len(b) : Left(b, i) = Left(a, i + k) - 1

LEMMA DroppedAt ==
  ASSUME NEW a, IsAlarms(a), NEW k \in 0 .. Len(a)
  PROVE  IsDropped(Dropped(a, k), a, k)
<1> DEFINE b == Dropped(a, k)
<1>0. AlarmFacts(a) /\ Len(a) \in Nat /\ k \in Nat /\ k <= Len(a)
  BY AlarmsType DEF AlarmFacts
<1>1. ASSUME NEW i \in 1 .. Len(a) - k
      PROVE  /\ i + k \in 1 .. Len(a) /\ Sooner(a[i + k]) \in Alarm
             /\ Sooner(a[i + k]).thread = a[i + k].thread
             /\ Sooner(a[i + k]).left = a[i + k].left - 1
  <2>1. i + k \in 1 .. Len(a)
    BY <1>0
  <2>2. a[i + k] \in Alarm
    BY <1>0, <2>1 DEF AlarmFacts
  <2>. QED BY <2>1, <2>2, SoonerType
<1>2. /\ b \in Seq(Alarm) /\ Len(b) = Len(a) - k
      /\ \A i \in 1 .. Len(a) - k : b[i].thread = a[i + k].thread /\ b[i].left = a[i + k].left - 1
  <2>1. Len(a) - k \in Nat
    BY <1>0
  <2>2. b \in Seq(Alarm) /\ Len(b) = Len(a) - k
    BY <1>1, <2>1 DEF Dropped
  <2>3. \A i \in 1 .. Len(a) - k : b[i] = Sooner(a[i + k])
    BY DEF Dropped
  <2>. QED BY <1>1, <2>2, <2>3
<1> HIDE DEF b
<1>3. ASSUME NEW i \in Nat \ {0} PROVE At(b, i) = At(a, i + k)
  <2>1. i \in 1 .. Len(b) <=> i + k \in 1 .. Len(a)
    BY <1>0, <1>2
  <2>. QED BY <1>2, <2>1 DEF At
<1>4. ASSUME NEW i \in 1 .. Len(b) PROVE Left(b, i) = Left(a, i + k) - 1
  <2>1. i + k \in 1 .. Len(a)
    BY <1>1, <1>2
  <2>. QED BY <1>2, <2>1 DEF Left
<1>. QED BY <1>2, <1>3, <1>4 DEF IsDropped, b

LEMMA DroppedOrder ==
  ASSUME NEW a, IsAlarms(a), NEW k, Within(a, 1, k), NEW b, IsDropped(b, a, k)
  PROVE  IsAlarms(b)
<1>0. AlarmFacts(a) /\ Len(a) \in Nat /\ k \in Nat
  BY AlarmsType DEF AlarmFacts, Within
<1>1. b \in Seq(Alarm) /\ Len(b) = Len(a) - k
  BY DEF IsDropped
<1> DEFINE p(i) == i + k
<1>2. ASSUME NEW i \in 1 .. Len(b)
      PROVE  /\ p(i) \in 1 .. Len(a) /\ p(i) \in k + 1 .. Len(a)
             /\ b[i].thread = At(a, p(i)) /\ b[i].left = Left(a, p(i)) - 1
  <2>1. p(i) \in 1 .. Len(a) /\ p(i) \in k + 1 .. Len(a) /\ i \in Nat \ {0}
    BY <1>0, <1>1
  <2>2. At(b, i) = At(a, p(i)) /\ Left(b, i) = Left(a, p(i)) - 1
    BY <2>1 DEF IsDropped
  <2>. QED BY <2>1, <2>2 DEF At, Left
<1>3. ASSUME NEW i \in 1 .. Len(b), NEW j \in 1 .. Len(b)
      PROVE  (p(i) = p(j) => i = j) /\ (i < j => p(i) < p(j))
  BY <1>0, <1>1
<1> HIDE DEF p
<1>4. /\ \A m, n \in 1 .. Len(a) : At(a, m) = At(a, n) => m = n
      /\ \A m, n \in 1 .. Len(a) : m < n => Left(a, m) <= Left(a, n)
      /\ \A m \in 1 .. Len(a) : Left(a, m) \in Nat
      /\ \A m \in k + 1 .. Len(a) : Left(a, m) > 1
  BY <1>0 DEF AlarmFacts, Within
<1>5. ASSUME NEW i \in 1 .. Len(b), NEW j \in 1 .. Len(b)
      PROVE  /\ b[i].thread = b[j].thread => i = j
             /\ i < j => b[i].left <= b[j].left
             /\ b[i].left > 0
  <2>1. /\ p(i) \in 1 .. Len(a) /\ p(i) \in k + 1 .. Len(a)
        /\ b[i].thread = At(a, p(i)) /\ b[i].left = Left(a, p(i)) - 1
    BY <1>2
  <2>2. /\ p(j) \in 1 .. Len(a)
        /\ b[j].thread = At(a, p(j)) /\ b[j].left = Left(a, p(j)) - 1
    BY <1>2
  <2>3. b[i].thread = b[j].thread => i = j
    BY <1>3, <1>4, <2>1, <2>2
  <2>4. i < j => Left(a, p(i)) <= Left(a, p(j))
    BY <1>3, <1>4, <2>1, <2>2
  <2>5. Left(a, p(i)) \in Nat /\ Left(a, p(j)) \in Nat /\ Left(a, p(i)) > 1
    BY <1>4, <2>1, <2>2
  <2>6. b[i].left > 0 /\ (Left(a, p(i)) <= Left(a, p(j)) => b[i].left <= b[j].left)
    BY <2>1, <2>2, <2>5
  <2>. QED BY <2>3, <2>4, <2>6
<1>. QED BY <1>1, <1>5 DEF IsAlarms

(* The links JD_count_timeq leaves: the thread at the new top has none above *)
LEMMA CountLinks ==
  ASSUME NEW q, NEW a, Represents(q, a), NEW k, Within(a, 1, k)
  PROVE  LET r == CountTimeq(q)
         IN  /\ r \in TimeQueues /\ r.head = At(a, k + 1) /\ r.bw = q.bw
             /\ \A x \in Thread \ Range(First(a, k)) :
                  r.fw[x] = IF k # 0 /\ x = At(a, k + 1) THEN None ELSE q.fw[x]
             /\ \A x \in Thread :
                  r.count[x] = IF x = At(a, 1) THEN q.count[x] - 1 ELSE q.count[x]
<1> DEFINE d == Decrement(q)
           e == Expiry(q)
           r == CountTimeq(q)
           tops == IF e.gone = <<>> THEN {} ELSE Range(Tail(e.gone)) \cup {e.next}
           fw == [t \in Thread |-> IF t \in tops THEN None ELSE d.fw[t]]
<1>0. IsAlarms(a) /\ k \in 0 .. Len(a)
  BY DEF Represents, Within
<1>1. e.gone = First(a, k) /\ e.next = At(a, k + 1)
  BY ExpiryFinds DEF Popped
<1>2. /\ d \in TimeQueues /\ d.fw = q.fw /\ d.bw = q.bw
      /\ \A x \in Thread : d.count[x] = IF x = At(a, 1) THEN q.count[x] - 1 ELSE q.count[x]
  BY DecrementLinks
<1>3. r = [d EXCEPT !.head = e.next, !.fw = fw]
  BY Zenon DEF CountTimeq
<1>4. /\ First(a, k) = <<>> <=> k = 0
      /\ First(a, k) # <<>> => Range(Tail(First(a, k))) \subseteq Range(First(a, k))
  <2>1. First(a, k) \in Seq(Thread) /\ (First(a, k) = <<>> <=> k = 0)
    BY <1>0, FirstType
  <2>2. ASSUME First(a, k) # <<>>, NEW i \in DOMAIN Tail(First(a, k))
        PROVE  i + 1 \in DOMAIN First(a, k) /\ Tail(First(a, k))[i] = First(a, k)[i + 1]
    BY <2>1, <2>2, HeadTailProperties
  <2>. QED BY <2>1, <2>2 DEF Range
<1>5. At(a, k + 1) \in Link
  BY <1>0, Values
<1> HIDE DEF d, e, r
<1>6. fw \in [Thread -> Link]
  BY <1>2 DEF TimeQueues, Link
<1>7. \A x \in Thread \ Range(First(a, k)) :
        fw[x] = IF k # 0 /\ x = At(a, k + 1) THEN None ELSE q.fw[x]
  BY <1>1, <1>2, <1>4
<1> HIDE DEF fw
<1>8. r \in TimeQueues /\ r.head = At(a, k + 1) /\ r.bw = d.bw /\ r.fw = fw /\ r.count = d.count
  BY <1>1, <1>2, <1>3, <1>5, <1>6 DEF TimeQueues
<1>. QED BY <1>2, <1>7, <1>8 DEF r

(* JD_count_timeq sets off the alarms that are due and brings the rest      *)
(* closer                                                                   *)
LEMMA CountRepresents ==
  ASSUME NEW q, NEW a, Represents(q, a), NEW k, Within(a, 1, k)
  PROVE  Represents(CountTimeq(q), Dropped(a, k))
<1> DEFINE r == CountTimeq(q)
           b == Dropped(a, k)
<1>0. IsAlarms(a) /\ AlarmFacts(a) /\ Len(a) \in Nat /\ k \in Nat /\ k \in 0 .. Len(a)
  BY AlarmsType DEF AlarmFacts, Represents, Within
<1>1. IsDropped(b, a, k)
  BY <1>0, DroppedAt
<1>2. /\ r \in TimeQueues /\ r.head = At(a, k + 1) /\ r.bw = q.bw
      /\ \A x \in Thread \ Range(First(a, k)) :
           r.fw[x] = IF k # 0 /\ x = At(a, k + 1) THEN None ELSE q.fw[x]
      /\ \A x \in Thread :
           r.count[x] = IF x = At(a, 1) THEN q.count[x] - 1 ELSE q.count[x]
  BY CountLinks
<1> HIDE DEF r, b
<1>3. IsAlarms(b)
  BY <1>0, <1>1, DroppedOrder
<1>4. /\ Len(b) = Len(a) - k
      /\ \A i \in Nat \ {0} : At(b, i) = At(a, i + k)
      /\ \A i \in 1 .. Len(b) : Left(b, i) = Left(a, i + k) - 1
  BY <1>1 DEF IsDropped
<1>5. r.head = At(b, 1)
  <2>1. 1 + k = k + 1 /\ 1 \in Nat \ {0}
    BY <1>0
  <2>. QED BY <1>2, <1>4, <2>1
<1>6. ASSUME NEW i \in 1 .. Len(b) PROVE Linked(r, b, i)
  <2> DEFINE j == i + k
             x == At(a, j)
  <2>1. /\ j \in 1 .. Len(a) /\ j \in k + 1 .. Len(a) /\ j \in Nat /\ i \in Nat \ {0}
        /\ i + 1 \in Nat \ {0} /\ (i + 1) + k = j + 1 /\ (j = 1 <=> (i = 1 /\ k = 0))
        /\ (j = k + 1 <=> i = 1) /\ k + 1 \in Nat
    <3>1. i \in Nat /\ i >= 1 /\ i <= Len(a) - k
      BY <1>4
    <3>2. Len(a) \in Nat /\ k \in Nat
      BY <1>0
    <3>. QED BY <3>1, <3>2
  <2>2. x \in Thread /\ Left(a, j) \in Nat /\ Left(a, j - 1) \in Nat /\ x # None
    BY <1>0, <2>1, Values, NoneAssumption DEF AlarmFacts
  <2>3. At(b, i) = x /\ At(b, i + 1) = At(a, j + 1) /\ Left(b, i) = Left(a, j) - 1
    BY <1>4, <2>1
  <2>4. q.fw[x] = At(a, j - 1) /\ q.bw[x] = At(a, j + 1)
        /\ q.count[x] = Left(a, j) - Left(a, j - 1)
    BY <2>1 DEF Represents, Linked
  <2>5. ASSUME NEW m \in Int, At(a, m) = x PROVE m = j
    <3>1. m \in 1 .. Len(a)
      BY <2>2, <2>5, Outside
    <3>. QED BY <1>0, <2>1, <2>5, <3>1 DEF AlarmFacts
  <2>6. x \notin Range(First(a, k))
    <3> SUFFICES ASSUME x \in Range(First(a, k)) PROVE FALSE
      OBVIOUS
    <3>1. PICK m \in 1 .. k : First(a, k)[m] = x
      BY <1>0, FirstType DEF Range
    <3>2. At(a, m) = x /\ m \in Int
      BY <1>0, <3>1, FirstType
    <3>3. m = j
      BY <2>5, <3>2
    <3>. QED BY <1>0, <2>1, <3>1, <3>3
  <2>7. r.bw[x] = At(b, i + 1)
    BY <1>2, <2>3, <2>4
  <2>8. r.fw[x] = At(b, i - 1)
    <3>1. CASE i = 1
      <4>1. At(b, i - 1) = None
        BY <3>1, Outside
      <4>2. x = At(a, k + 1)
        BY <2>1, <3>1
      <4>3. CASE k = 0
        <5>1. j - 1 \notin 1 .. Len(a)
          BY <2>1, <3>1, <4>3
        <5>2. q.fw[x] = None
          BY <2>4, <5>1, Outside
        <5>. QED BY <1>2, <2>2, <2>6, <4>1, <4>3, <5>2
      <4>4. CASE k # 0
        <5> HIDE DEF x, j
        <5>. QED BY <1>2, <2>2, <2>6, <4>1, <4>2, <4>4
      <4>. QED BY <4>3, <4>4
    <3>2. CASE i # 1
      <4>1. i - 1 \in Nat \ {0} /\ (i - 1) + k = j - 1 /\ j # k + 1
        BY <1>0, <2>1, <3>2
      <4>2. At(b, i - 1) = At(a, j - 1)
        BY <1>4, <4>1
      <4>3. x # At(a, k + 1)
        BY <2>1, <2>5, <4>1
      <4> HIDE DEF x, j
      <4>. QED BY <1>2, <2>2, <2>4, <2>6, <4>2, <4>3
    <3>. QED BY <3>1, <3>2
  <2>9. r.count[x] = Left(b, i) - Left(b, i - 1)
    <3>1. x = At(a, 1) <=> j = 1
      BY <2>1, <2>5
    <3>2. CASE i = 1 /\ k = 0
      <4>1. j = 1 /\ Left(a, j - 1) = 0 /\ Left(b, i - 1) = 0
        BY <2>1, <3>2, Outside
      <4> HIDE DEF x, j
      <4>2. r.count[x] = q.count[x] - 1
        BY <1>2, <2>2, <3>1, <4>1
      <4>. QED BY <2>2, <2>3, <2>4, <4>1, <4>2
    <3>3. CASE i = 1 /\ k # 0
      <4>1. j # 1 /\ j - 1 = k /\ k \in 1 .. Len(a) /\ k \in 1 .. k
        BY <1>0, <2>1, <3>3
      <4>2. Left(a, k) <= 1 /\ Left(a, k) > 0 /\ Left(a, k) \in Nat
        BY <1>0, <4>1 DEF AlarmFacts, Within
      <4>3. Left(a, j - 1) = 1 /\ Left(b, i - 1) = 0
        BY <3>3, <4>1, <4>2, Outside
      <4> HIDE DEF x, j
      <4>4. r.count[x] = q.count[x]
        BY <1>2, <2>2, <3>1, <4>1
      <4>. QED BY <2>2, <2>3, <2>4, <4>3, <4>4
    <3>4. CASE i # 1
      <4>1. j # 1 /\ i - 1 \in 1 .. Len(b) /\ (i - 1) + k = j - 1
        BY <1>0, <1>4, <2>1, <3>4
      <4>2. Left(b, i - 1) = Left(a, j - 1) - 1
        BY <1>4, <4>1
      <4> HIDE DEF x, j
      <4>3. r.count[x] = q.count[x]
        BY <1>2, <2>2, <3>1, <4>1
      <4>. QED BY <2>2, <2>3, <2>4, <4>2, <4>3
    <3>. QED BY <3>2, <3>3, <3>4
  <2>. QED BY <2>3, <2>7, <2>8, <2>9 DEF Linked
<1>. QED BY <1>2, <1>3, <1>5, <1>6 DEF Represents, r, b
-----------------------------------------------------------------------------
(* The operations of Timers on the list of alarms *)

Soon(a, limit)  == {x \in Range(a) : x.left <= limit}
Later(a, limit) == {x \in Range(a) : x.left > limit}
Others(a, t)    == {x \in Range(a) : x.thread # t}
Due(a)          == {x \in Range(a) : x.left = 1}

LEMMA SoonLater ==
  ASSUME NEW a, IsAlarms(a), NEW limit \in Nat, NEW k, Within(a, limit, k)
  PROVE  /\ Those(a, Soon(a, limit)) = SubSeq(a, 1, k)
         /\ Those(a, Later(a, limit)) = SubSeq(a, k + 1, Len(a))
<1>0. AlarmFacts(a) /\ a \in Seq(Alarm) /\ Len(a) \in Nat /\ k \in 0 .. Len(a)
  BY AlarmsType DEF AlarmFacts, IsAlarms, Within
<1>1. ASSUME NEW i \in 1 .. Len(a)
      PROVE  /\ a[i] \in Soon(a, limit) <=> i <= k
             /\ a[i] \in Later(a, limit) <=> i > k
  <2>1. a[i] \in Range(a) /\ a[i].left = Left(a, i) /\ Left(a, i) \in Nat
    BY <1>0 DEF Range, AlarmFacts
  <2>2. i <= k => Left(a, i) <= limit
    BY <1>0 DEF Within
  <2>3. i > k => Left(a, i) > limit
    BY <1>0 DEF Within
  <2>. QED BY <1>0, <2>1, <2>2, <2>3 DEF Soon, Later
<1>2. /\ \A i \in 1 .. k : a[i] \in Soon(a, limit) /\ a[i] \notin Later(a, limit)
      /\ \A i \in k + 1 .. Len(a) : a[i] \notin Soon(a, limit) /\ a[i] \in Later(a, limit)
  BY <1>0, <1>1
<1>. QED BY <1>0, <1>2, ThoseFirst, ThoseRest

(* Set enters the alarm behind those due no later *)
LEMMA SetInserts ==
  ASSUME NEW a, IsAlarms(a), NEW limit \in Nat, NEW k, Within(a, limit, k), NEW t \in Thread
  PROVE  Those(a, Soon(a, limit)) \o <<NewAlarm(t, limit)>> \o Those(a, Later(a, limit))
           = Inserted(a, k, NewAlarm(t, limit))
<1> DEFINE x == NewAlarm(t, limit)
           r == SubSeq(a, 1, k)
           s == SubSeq(a, k + 1, Len(a))
           b == Inserted(a, k, x)
           c == (r \o <<x>>) \o s
<1>0. a \in Seq(Alarm) /\ Len(a) \in Nat /\ k \in 0 .. Len(a) /\ k \in Nat /\ x \in Alarm
  BY DEF IsAlarms, Within, NewAlarm, Alarm
<1>1. r \in Seq(Alarm) /\ Len(r) = k /\ \A i \in 1 .. k : r[i] = a[i]
  BY <1>0, SubSeqProperties
<1>2. s \in Seq(Alarm) /\ Len(s) = Len(a) - k /\ \A i \in 1 .. Len(a) - k : s[i] = a[k + i]
  BY <1>0, SubSeqProperties
<1>3. b \in Seq(Alarm) /\ Len(b) = Len(a) + 1
      /\ \A i \in 1 .. Len(a) + 1 :
           b[i] = IF i <= k THEN a[i] ELSE IF i = k + 1 THEN x ELSE a[i - 1]
  BY <1>0 DEF Inserted
<1> HIDE DEF x, r, s, b
<1>4. <<x>> \in Seq(Alarm) /\ Len(<<x>>) = 1 /\ <<x>>[1] = x
  BY <1>0
<1>5. /\ r \o <<x>> \in Seq(Alarm) /\ Len(r \o <<x>>) = k + 1
      /\ \A i \in 1 .. k : (r \o <<x>>)[i] = a[i]
      /\ (r \o <<x>>)[k + 1] = x
  BY <1>0, <1>1, <1>4
<1>6. /\ c \in Seq(Alarm) /\ Len(c) = Len(a) + 1
      /\ \A i \in 1 .. Len(a) + 1 :
           c[i] = IF i <= k + 1 THEN (r \o <<x>>)[i] ELSE s[i - (k + 1)]
  BY <1>0, <1>2, <1>5
<1> HIDE DEF c
<1>7. ASSUME NEW i \in 1 .. Len(a) + 1 PROVE b[i] = c[i]
  <2>1. CASE i <= k
    BY <1>0, <1>3, <1>5, <1>6, <2>1
  <2>2. CASE i = k + 1
    BY <1>0, <1>3, <1>5, <1>6, <2>2
  <2>3. CASE i > k + 1
    <3>1. i - (k + 1) \in 1 .. Len(a) - k /\ k + (i - (k + 1)) = i - 1
      BY <1>0, <2>3
    <3>2. s[i - (k + 1)] = a[i - 1]
      BY <1>2, <3>1
    <3>. QED BY <1>0, <1>3, <1>6, <2>3, <3>2
  <2>. QED BY <1>0, <2>1, <2>2, <2>3
<1>8. b = c
  BY <1>3, <1>6, <1>7, SeqEqual
<1>. QED BY <1>8, SoonLater DEF b, c, r, s, x

(* Cancel takes the alarm out *)
LEMMA CancelRemoves ==
  ASSUME NEW a, IsAlarms(a), NEW k \in 1 .. Len(a)
  PROVE  Those(a, Others(a, At(a, k))) = WithoutPlace(a, k)
<1>0. AlarmFacts(a) /\ a \in Seq(Alarm)
  BY AlarmsType DEF IsAlarms
<1>1. ASSUME NEW i \in 1 .. Len(a) PROVE a[i] \in Others(a, At(a, k)) <=> i # k
  <2>1. a[i] \in Range(a) /\ a[i].thread = At(a, i)
    BY <1>0 DEF Range, AlarmFacts
  <2>. QED BY <1>0, <2>1 DEF Others, AlarmFacts
<1>. QED BY <1>0, <1>1, ThoseWithout

(* Tick sets off the first alarms and keeps the rest *)
LEMMA TickCounts ==
  ASSUME NEW a, IsAlarms(a), NEW k, Within(a, 1, k)
  PROVE  LET going   == Those(a, Due(a))
             staying == Those(a, Later(a, 1))
         IN  /\ [i \in DOMAIN going |-> going[i].thread] = First(a, k)
             /\ [i \in DOMAIN staying |-> [staying[i] EXCEPT !.left = @ - 1]] = Dropped(a, k)
<1> DEFINE going   == Those(a, Due(a))
           staying == Those(a, Later(a, 1))
<1>0. AlarmFacts(a) /\ a \in Seq(Alarm) /\ Len(a) \in Nat /\ k \in 0 .. Len(a) /\ k \in Nat
  BY AlarmsType DEF AlarmFacts, IsAlarms, Within
<1>1. Due(a) = Soon(a, 1)
  <2>1. ASSUME NEW x \in Range(a) PROVE x.left = 1 <=> x.left <= 1
    <3>1. PICK i \in 1 .. Len(a) : x = a[i]
      BY <1>0 DEF Range
    <3>2. x.left \in Nat /\ x.left > 0
      BY <1>0, <3>1 DEF AlarmFacts
    <3>. QED BY <3>2
  <2>. QED BY <2>1 DEF Due, Soon
<1>2. going = SubSeq(a, 1, k) /\ staying = SubSeq(a, k + 1, Len(a))
  BY <1>1, SoonLater
<1>3. /\ SubSeq(a, 1, k) \in Seq(Alarm) /\ Len(SubSeq(a, 1, k)) = k
      /\ \A i \in 1 .. k : SubSeq(a, 1, k)[i] = a[i]
  BY <1>0, SubSeqProperties
<1>4. /\ SubSeq(a, k + 1, Len(a)) \in Seq(Alarm) /\ Len(SubSeq(a, k + 1, Len(a))) = Len(a) - k
      /\ \A i \in 1 .. Len(a) - k : SubSeq(a, k + 1, Len(a))[i] = a[k + i]
  BY <1>0, SubSeqProperties
<1> HIDE DEF going, staying
<1>5. DOMAIN going = 1 .. k /\ \A i \in 1 .. k : going[i].thread = At(a, i)
  <2>1. \A i \in 1 .. k : i \in 1 .. Len(a)
    BY <1>0
  <2>. QED BY <1>0, <1>2, <1>3, <2>1 DEF AlarmFacts
<1>6. DOMAIN staying = 1 .. Len(a) - k /\ \A i \in 1 .. Len(a) - k : staying[i] = a[i + k]
  <2>1. \A i \in 1 .. Len(a) - k : k + i = i + k
    BY <1>0
  <2>. QED BY <1>0, <1>2, <1>4, <2>1
<1>7. [i \in DOMAIN going |-> going[i].thread] = First(a, k)
  BY <1>5 DEF First
<1>8. [i \in DOMAIN staying |-> [staying[i] EXCEPT !.left = @ - 1]] = Dropped(a, k)
  BY <1>6 DEF Dropped, Sooner
<1>. QED BY <1>7, <1>8 DEF going, staying
-----------------------------------------------------------------------------
(* The inductive invariant: the queue is that of the alarms it shows, and   *)
(* these are the alarms of the threads that wait                            *)
TimerInv == /\ Represents(timeq, Alarms(timeq))
            /\ waiting = Alarmed(Alarms(timeq))

(* The operations of Timers are on the same lists *)
LEMMA SameLists ==
  /\ \A s, S : Promise!Those(s, S) = Those(s, S)
  /\ \A f : Promise!Range(f) = Range(f)
  BY DEF Promise!Those, Those, Promise!Range, Range

LEMMA TimerInitial == Init => TimerInv /\ Promise!Init
<1> SUFFICES ASSUME Init PROVE TimerInv /\ Promise!Init
  OBVIOUS
<1>1. timeq = EmptyTimeQueue /\ waiting = {} /\ fired = <<>>
  BY DEF Init
<1>2. IsAlarms(<<>>)
  BY DEF IsAlarms
<1>3. EmptyTimeQueue \in TimeQueues /\ EmptyTimeQueue.head = None
  BY DEF EmptyTimeQueue, TimeQueues, Link
<1>4. At(<<>>, 1) = None
  BY Outside
<1>5. Represents(timeq, <<>>)
  BY <1>1, <1>2, <1>3, <1>4 DEF Represents
<1>6. Alarms(timeq) = <<>>
  BY <1>5, AlarmsAre
<1>7. Alarmed(<<>>) = {}
  BY DEF Alarmed
<1>. QED BY <1>1, <1>5, <1>6, <1>7 DEF TimerInv, Promise!Init

LEMMA BlockSets ==
  ASSUME TimerInv, NEW t \in Thread, NEW l \in Limits, Block(t, l)
  PROVE  TimerInv' /\ Promise!Set(t, l)
<1>1. PICK a : a = Alarms(timeq)
  OBVIOUS
<1>2. Represents(timeq, a) /\ IsAlarms(a) /\ waiting = Alarmed(a) /\ AlarmFacts(a)
  BY <1>1, AlarmsType DEF TimerInv, Represents
<1>3. l \in Nat \ {0} /\ t \notin Alarmed(a)
  BY <1>2, LimitsAssumption DEF Block
<1>4. PICK k : Within(a, l, k)
  BY <1>2, <1>3, WithinExists
<1> DEFINE b == Inserted(a, k, NewAlarm(t, l))
<1>5. Represents(timeq', b)
  BY <1>2, <1>3, <1>4, EnqueueRepresents DEF Block
<1>6. Alarms(timeq') = b
  BY <1>5, AlarmsAre
<1>7. b = Those(a, Soon(a, l)) \o <<NewAlarm(t, l)>> \o Those(a, Later(a, l))
  BY <1>2, <1>3, <1>4, SetInserts
<1>8. Alarmed(b) = Alarmed(a) \cup {t}
  <2>1. Len(a) \in Nat /\ k \in 0 .. Len(a) /\ DOMAIN a = 1 .. Len(a)
    BY <1>2, <1>4 DEF AlarmFacts, Within
  <2>2. DOMAIN b = 1 .. Len(a) + 1
    BY DEF Inserted
  <2>3. \A i \in 1 .. Len(a) + 1 :
          b[i] = IF i <= k THEN a[i] ELSE IF i = k + 1 THEN NewAlarm(t, l) ELSE a[i - 1]
    BY DEF Inserted
  <2>4. NewAlarm(t, l).thread = t
    BY DEF NewAlarm
  <2> HIDE DEF b
  <2>5. ASSUME NEW i \in 1 .. Len(a) + 1 PROVE b[i].thread \in Alarmed(a) \cup {t}
    <3>1. CASE i <= k
      BY <2>1, <2>3, <3>1, SMTT(30) DEF Alarmed
    <3>2. CASE i = k + 1
      BY <2>1, <2>3, <2>4, <3>2
    <3>3. CASE i > k + 1
      <4>1. i - 1 \in 1 .. Len(a) /\ b[i] = a[i - 1]
        BY <2>1, <2>3, <3>3
      <4>. QED BY <2>1, <4>1 DEF Alarmed
    <3>. QED BY <2>1, <3>1, <3>2, <3>3
  <2>6. ASSUME NEW i \in 1 .. Len(a) PROVE a[i].thread \in Alarmed(b)
    <3>1. CASE i <= k
      <4>1. i \in 1 .. Len(a) + 1 /\ b[i] = a[i]
        BY <2>1, <2>3, <3>1
      <4>. QED BY <2>2, <4>1 DEF Alarmed
    <3>2. CASE i > k
      <4>1. i + 1 \in 1 .. Len(a) + 1 /\ b[i + 1] = a[(i + 1) - 1] /\ (i + 1) - 1 = i
        BY <2>1, <2>3, <3>2
      <4>. QED BY <2>2, <4>1 DEF Alarmed
    <3>. QED BY <2>1, <3>1, <3>2
  <2>7. t \in Alarmed(b)
    <3>1. k + 1 \in 1 .. Len(a) + 1 /\ b[k + 1] = NewAlarm(t, l)
      BY <2>1, <2>3
    <3>. QED BY <2>2, <2>4, <3>1 DEF Alarmed
  <2>8. Alarmed(b) \subseteq Alarmed(a) \cup {t}
    BY <2>2, <2>5 DEF Alarmed
  <2>9. Alarmed(a) \subseteq Alarmed(b)
    BY <2>1, <2>6 DEF Alarmed
  <2>. QED BY <2>7, <2>8, <2>9
<1> HIDE DEF b
<1>9. TimerInv'
  BY <1>2, <1>5, <1>6, <1>8 DEF TimerInv, Block
<1>10. Promise!Set(t, l)
  <2>1. \A i \in DOMAIN a : a[i].thread # t
    BY <1>3 DEF Alarmed
  <2>. QED BY <1>1, <1>6, <1>7, <2>1, SameLists
       DEF Promise!Set, Block, Soon, Later, NewAlarm
<1>. QED BY <1>9, <1>10

LEMMA WakeCancels ==
  ASSUME TimerInv, NEW t \in Thread, Wake(t)
  PROVE  TimerInv' /\ Promise!Cancel(t)
<1>1. PICK a : a = Alarms(timeq)
  OBVIOUS
<1>2. Represents(timeq, a) /\ IsAlarms(a) /\ waiting = Alarmed(a) /\ AlarmFacts(a)
  BY <1>1, AlarmsType DEF TimerInv, Represents
<1>3. PICK k \in 1 .. Len(a) : a[k].thread = t
  BY <1>2 DEF Wake, Alarmed, AlarmFacts
<1>4. At(a, k) = t /\ Len(a) \in Nat /\ DOMAIN a = 1 .. Len(a)
  BY <1>2, <1>3 DEF AlarmFacts
<1> DEFINE b == WithoutPlace(a, k)
<1>5. Represents(timeq', b)
  BY <1>2, <1>4, DequeueRepresents DEF Wake
<1>6. Alarms(timeq') = b
  BY <1>5, AlarmsAre
<1>7. b = Those(a, Others(a, t))
  BY <1>2, <1>4, CancelRemoves
<1>8. Alarmed(b) = Alarmed(a) \ {t}
  <2>1. DOMAIN b = 1 .. Len(a) - 1
        /\ \A i \in 1 .. Len(a) - 1 : b[i] = IF i < k THEN a[i] ELSE a[i + 1]
    BY DEF WithoutPlace
  <2> HIDE DEF b
  <2>2. ASSUME NEW i \in 1 .. Len(a) PROVE a[i].thread = t <=> i = k
    BY <1>2, <1>4 DEF AlarmFacts
  <2>3. ASSUME NEW i \in 1 .. Len(a) - 1 PROVE b[i].thread \in Alarmed(a) \ {t}
    <3> DEFINE j == IF i < k THEN i ELSE i + 1
    <3>1. j \in 1 .. Len(a) /\ j # k /\ b[i] = a[j]
      BY <1>4, <2>1
    <3> HIDE DEF j
    <3>. QED BY <1>4, <2>2, <3>1 DEF Alarmed
  <2>4. ASSUME NEW i \in 1 .. Len(a), i # k PROVE a[i].thread \in Alarmed(b)
    <3> DEFINE j == IF i < k THEN i ELSE i - 1
    <3>1. j \in 1 .. Len(a) - 1 /\ (IF j < k THEN j ELSE j + 1) = i
      BY <1>4, <2>4
    <3> HIDE DEF j
    <3>2. b[j] = a[i]
      BY <2>1, <3>1
    <3>. QED BY <2>1, <3>1, <3>2 DEF Alarmed
  <2>5. Alarmed(b) \subseteq Alarmed(a) \ {t}
    BY <2>1, <2>3 DEF Alarmed
  <2>6. Alarmed(a) \ {t} \subseteq Alarmed(b)
    BY <1>3, <1>4, <2>4 DEF Alarmed
  <2>. QED BY <2>5, <2>6
<1> HIDE DEF b
<1>9. TimerInv'
  BY <1>2, <1>5, <1>6, <1>8 DEF TimerInv, Wake
<1>10. Promise!Cancel(t)
  <2>1. \E i \in DOMAIN a : a[i].thread = t
    BY <1>3, <1>4
  <2>. QED BY <1>1, <1>6, <1>7, <2>1, SameLists DEF Promise!Cancel, Wake, Others
<1>. QED BY <1>9, <1>10

LEMMA CountTicks ==
  ASSUME TimerInv, Count
  PROVE  TimerInv' /\ Promise!Tick
<1>1. PICK a : a = Alarms(timeq)
  OBVIOUS
<1>2. Represents(timeq, a) /\ IsAlarms(a) /\ waiting = Alarmed(a) /\ AlarmFacts(a)
  BY <1>1, AlarmsType DEF TimerInv, Represents
<1>3. PICK k : Within(a, 1, k)
  BY <1>2, WithinExists
<1>4. k \in 0 .. Len(a) /\ k \in Nat /\ Len(a) \in Nat /\ DOMAIN a = 1 .. Len(a)
  BY <1>2, <1>3 DEF Within, AlarmFacts
<1> DEFINE b == Dropped(a, k)
           gone == First(a, k)
<1>5. Represents(timeq', b)
  BY <1>2, <1>3, CountRepresents DEF Count
<1>6. Alarms(timeq') = b
  BY <1>5, AlarmsAre
<1>7. Expiry(timeq).gone = gone
  BY <1>2, <1>3, ExpiryFinds DEF Popped
<1>8. Alarmed(b) = Alarmed(a) \ Range(gone)
  <2>1. Range(gone) = {At(a, i) : i \in 1 .. k}
    BY DEF First, Range
  <2>2. \A i \in 1 .. Len(a) : a[i].thread = At(a, i)
    BY <1>2 DEF AlarmFacts
  <2>3. DOMAIN b = 1 .. Len(a) - k /\ \A i \in 1 .. Len(a) - k : b[i] = Sooner(a[i + k])
    BY DEF Dropped
  <2> HIDE DEF b, gone
  <2>4. ASSUME NEW i \in 1 .. Len(a) - k
        PROVE  i + k \in 1 .. Len(a) /\ i + k > k /\ b[i].thread = At(a, i + k)
    <3>1. i + k \in 1 .. Len(a) /\ i + k > k
      BY <1>4
    <3>2. a[i + k] \in Alarm
      BY <1>2, <3>1 DEF AlarmFacts
    <3>. QED BY <2>2, <2>3, <3>1, <3>2, SoonerType
  <2>5. ASSUME NEW i \in 1 .. Len(a) PROVE At(a, i) \in Range(gone) <=> i <= k
    <3>1. i <= k => i \in 1 .. k
      BY <1>4
    <3>2. ASSUME NEW j \in 1 .. k, At(a, i) = At(a, j) PROVE i = j
      <4>1. j \in 1 .. Len(a)
        BY <1>4
      <4>. QED BY <1>2, <3>2, <4>1 DEF AlarmFacts
    <3>. QED BY <1>4, <2>1, <3>1, <3>2
  <2>6. Alarmed(b) \subseteq Alarmed(a) \ Range(gone)
    <3>1. ASSUME NEW i \in 1 .. Len(a) - k PROVE b[i].thread \in Alarmed(a) \ Range(gone)
      <4> DEFINE j == i + k
      <4>1. j \in 1 .. Len(a) /\ ~(j <= k) /\ b[i].thread = At(a, j)
        BY <1>4, <2>4
      <4> HIDE DEF j
      <4>. QED BY <1>4, <2>2, <2>5, <4>1 DEF Alarmed
    <3>. QED BY <2>3, <3>1 DEF Alarmed
  <2>7. Alarmed(a) \ Range(gone) \subseteq Alarmed(b)
    <3>1. ASSUME NEW i \in 1 .. Len(a), a[i].thread \notin Range(gone)
          PROVE  a[i].thread \in Alarmed(b)
      <4>1. ~(i <= k)
        BY <2>2, <2>5, <3>1
      <4>2. i - k \in 1 .. Len(a) - k /\ (i - k) + k = i
        BY <1>4, <4>1
      <4>3. b[i - k].thread = At(a, i)
        BY <2>4, <4>2
      <4>. QED BY <2>2, <2>3, <4>2, <4>3 DEF Alarmed
    <3>. QED BY <1>4, <3>1 DEF Alarmed
  <2>. QED BY <2>6, <2>7
<1>9. TimerInv'
  <2> HIDE DEF b, gone
  <2>. QED BY <1>2, <1>5, <1>6, <1>7, <1>8 DEF TimerInv, Count
<1>10. Promise!Tick
  <2> DEFINE going   == Those(a, Due(a))
             staying == Those(a, Later(a, 1))
  <2>1. /\ [i \in DOMAIN going |-> going[i].thread] = gone
        /\ [i \in DOMAIN staying |-> [staying[i] EXCEPT !.left = @ - 1]] = b
    BY <1>2, <1>3, TickCounts
  <2>2. Promise!Those(a, {x \in Promise!Range(a) : x.left = 1}) = going
        /\ Promise!Those(a, {x \in Promise!Range(a) : x.left > 1}) = staying
    BY SameLists DEF Due, Later
  <2> HIDE DEF b, gone, going, staying
  <2>. QED BY <1>1, <1>6, <1>7, <2>1, <2>2 DEF Promise!Tick, Count
<1>. QED BY <1>9, <1>10

LEMMA TimerStep == TimerInv /\ [Next]_vars => TimerInv' /\ [Promise!Next]_(Promise!vars)
<1> SUFFICES ASSUME TimerInv, [Next]_vars PROVE TimerInv' /\ [Promise!Next]_(Promise!vars)
  OBVIOUS
<1>1. ASSUME NEW t \in Thread, NEW l \in Limits, Block(t, l)
      PROVE  TimerInv' /\ Promise!Next
  BY <1>1, BlockSets DEF Promise!Next
<1>2. ASSUME NEW t \in Thread, Wake(t) PROVE TimerInv' /\ Promise!Next
  BY <1>2, WakeCancels DEF Promise!Next
<1>3. ASSUME Count PROVE TimerInv' /\ Promise!Next
  BY <1>3, CountTicks DEF Promise!Next
<1>4. CASE UNCHANGED vars
  BY <1>4 DEF vars, TimerInv, Promise!vars
<1>. QED BY <1>1, <1>2, <1>3, <1>4 DEF Next

(* With any number of threads and all limits, the links, the counts and the *)
(* set of waiting threads stay in step, the thread at the top never has 0   *)
(* cycles or fewer, so that JD_count_timeq cannot step over it, and the     *)
(* loops of JD_count_timeq and of JD_enqueue_timeq come to their end.       *)
THEOREM LinksAlwaysAgree == Spec => []LinksAgree
<1>1. TimerInv => LinksAgree
  <2> SUFFICES ASSUME TimerInv PROVE LinksAgree
    OBVIOUS
  <2>1. PICK a : a = Alarms(timeq)
    OBVIOUS
  <2>2. Represents(timeq, a) /\ IsAlarms(a) /\ AlarmFacts(a) /\ waiting = Alarmed(a)
    BY <2>1, AlarmsType DEF TimerInv, Represents
  <2>3. Len(a) = Cardinality(waiting)
    BY <2>2, AlarmsFit
  <2>4. ASSUME NEW i \in DOMAIN a
        PROVE  /\ timeq.fw[a[i].thread] = IF i = 1 THEN None ELSE a[i - 1].thread
               /\ a[i].left > 0
    <3>1. i \in 1 .. Len(a) /\ a[i].thread = At(a, i) /\ a[i].left > 0
      BY <2>2 DEF AlarmFacts, IsAlarms
    <3>2. timeq.fw[At(a, i)] = At(a, i - 1)
      BY <2>2, <3>1 DEF Represents, Linked
    <3>3. i = 1 => At(a, i - 1) = None
      BY Outside
    <3>4. i # 1 => At(a, i - 1) = a[i - 1].thread
      <4>1. i # 1 => i - 1 \in 1 .. Len(a)
        BY <2>2, <3>1 DEF AlarmFacts
      <4>. QED BY <4>1 DEF At
    <3>. QED BY <3>1, <3>2, <3>3, <3>4
  <2>5. CountEnds(timeq)
    BY <2>2, WithinExists, ExpiryFinds
  <2>6. ASSUME NEW t \in Thread \ waiting, NEW l \in Limits PROVE SearchEnds(timeq, t, l)
    BY <2>2, LimitsAssumption, WithinExists, ScanFinds
  <2>. QED BY <2>1, <2>2, <2>3, <2>4, <2>5, <2>6 DEF LinksAgree, Alarmed
<1>. QED BY <1>1, TimerInitial, TimerStep, PTL DEF Spec

(* The delta list implements an alarm per thread: a limit runs out after    *)
(* exactly the cycles it was set to, whatever other threads enter and leave *)
(* meanwhile, and alarms due together go off in the order they were set.    *)
THEOREM AlarmsKept == Spec => KeepsAlarms
BY TimerInitial, TimerStep, PTL DEF Spec, KeepsAlarms, Promise!Spec
=============================================================================
