--------------------------- MODULE InterfaceProofs ---------------------------
(***************************************************************************)
(* Proofs about Interface, for any number of threads and ports: whatever    *)
(* the program and the simulator do, the calls of a Verilog task are made   *)
(* one at a time, the lists of a slot agree with the flags of the ports,    *)
(* the queue of delays is left alone by the rest, every thread is in a      *)
(* place from which it is woken, ports are monitored as long as somebody    *)
(* needs it, and the edges of a clock are counted.                          *)
(***************************************************************************)
EXTENDS Interface, Recursion
Entry == Thread \cup Driven

(***************************************************************************)
(* Sequences and numbers                                                   *)
(***************************************************************************)

(* An element between two sequences *)
LEMMA Between ==
  ASSUME NEW S, NEW a \in Seq(S), NEW r \in S, NEW b \in Seq(S)
  PROVE  LET n == a \o <<r>> \o b IN
         /\ n \in Seq(S) /\ Len(n) = Len(a) + 1 + Len(b)
         /\ \A i \in 1 .. Len(a) + 1 + Len(b) :
              n[i] = IF i <= Len(a) THEN a[i] ELSE IF i = Len(a) + 1 THEN r ELSE b[i - Len(a) - 1]
<1> DEFINE first == Append(a, r)
<1>1. a \o <<r>> = first
  BY AppendIsConcat, Zenon
<1>2. /\ first \in Seq(S) /\ Len(first) = Len(a) + 1 /\ Len(a) \in Nat /\ Len(b) \in Nat
      /\ \A i \in 1 .. Len(a) + 1 : first[i] = IF i <= Len(a) THEN a[i] ELSE r
  OBVIOUS
<1> HIDE DEF first
<1>3. /\ first \o b \in Seq(S) /\ Len(first \o b) = Len(first) + Len(b)
      /\ \A i \in 1 .. Len(first) + Len(b) :
           (first \o b)[i] = IF i <= Len(first) THEN first[i] ELSE b[i - Len(first)]
  BY <1>2, ConcatProperties, Zenon
<1> DEFINE n == first \o b
<1>4. /\ n \in Seq(S) /\ Len(n) = Len(a) + 1 + Len(b)
      /\ \A i \in 1 .. Len(a) + 1 + Len(b) :
           n[i] = IF i <= Len(a) + 1 THEN first[i] ELSE b[i - (Len(a) + 1)]
  BY <1>2, <1>3, Zenon
<1> HIDE DEF n
<1>5. \A i \in 1 .. Len(a) + 1 + Len(b) :
        n[i] = IF i <= Len(a) THEN a[i] ELSE IF i = Len(a) + 1 THEN r ELSE b[i - Len(a) - 1]
  BY <1>2, <1>4
<1>6. QED
  BY <1>1, <1>4, <1>5, Zenon DEF n

(* What InsertAt makes of a sequence *)
LEMMA Insertion ==
  ASSUME NEW S, NEW q \in Seq(S), NEW r \in S, NEW k \in 1 .. Len(q) + 1
  PROVE  LET n == InsertAt(q, k, r) IN
         /\ n \in Seq(S) /\ Len(n) = Len(q) + 1
         /\ \A i \in 1 .. Len(q) + 1 :
              n[i] = IF i < k THEN q[i] ELSE IF i = k THEN r ELSE q[i - 1]
<1> DEFINE a == SubSeq(q, 1, k - 1)
           b == SubSeq(q, k, Len(q))
           n == a \o <<r>> \o b
<1>1. Len(q) \in Nat /\ k \in Nat
  OBVIOUS
<1>2. /\ a \in Seq(S) /\ Len(a) = k - 1
      /\ \A i \in 1 .. k - 1 : a[i] = q[i]
  BY <1>1
<1>3. /\ b \in Seq(S) /\ Len(b) = Len(q) - k + 1
      /\ \A i \in 1 .. Len(q) - k + 1 : b[i] = q[k + i - 1]
  BY <1>1
<1>4. n = InsertAt(q, k, r)
  BY DEF InsertAt
<1> HIDE DEF a, b
<1>5. /\ n \in Seq(S) /\ Len(n) = Len(a) + 1 + Len(b)
      /\ \A i \in 1 .. Len(a) + 1 + Len(b) :
           n[i] = IF i <= Len(a) THEN a[i] ELSE IF i = Len(a) + 1 THEN r ELSE b[i - Len(a) - 1]
  <2>1. a \in Seq(S) /\ b \in Seq(S)
    BY <1>2, <1>3
  <2>2. QED
    BY <2>1, Between
<1> HIDE DEF n
<1>6. Len(n) = Len(q) + 1
  BY <1>1, <1>2, <1>3, <1>5
<1>7. ASSUME NEW i \in 1 .. Len(q) + 1
      PROVE  n[i] = IF i < k THEN q[i] ELSE IF i = k THEN r ELSE q[i - 1]
  <2>1. n[i] = IF i <= k - 1 THEN a[i] ELSE IF i = k THEN r ELSE b[i - k]
    <3>1. i \in 1 .. Len(a) + 1 + Len(b)
      BY <1>1, <1>2, <1>3
    <3>2. n[i] = IF i <= Len(a) THEN a[i] ELSE IF i = Len(a) + 1 THEN r ELSE b[i - Len(a) - 1]
      BY <3>1, <1>5, Zenon
    <3>3. Len(a) + 1 = k /\ Len(a) = k - 1 /\ i - Len(a) - 1 = i - k
      BY <1>1, <1>2
    <3>4. QED
      BY <3>2, <3>3, Zenon
  <2>2. i > k => i - k \in 1 .. Len(q) - k + 1 /\ b[i - k] = q[k + (i - k) - 1] /\ k + (i - k) - 1 = i - 1
    BY <1>1, <1>3
  <2>3. i > k => b[i - k] = q[i - 1]
    BY <2>2, Zenon
  <2>4. QED
    BY <2>1, <2>3, <1>1, <1>2
<1>8. QED
  BY <1>4, <1>5, <1>6, <1>7, Zenon

(* <<r>> \o q is the insertion at the first place *)
LEMMA InsertionInFront ==
  ASSUME NEW S, NEW q \in Seq(S), NEW r \in S
  PROVE  LET n == <<r>> \o q IN
         /\ n \in Seq(S) /\ Len(n) = Len(q) + 1
         /\ \A i \in 1 .. Len(q) + 1 : n[i] = IF i = 1 THEN r ELSE q[i - 1]
OBVIOUS

(* The loop of enter_delay_queue stops *)
LEMMA PlaceExists ==
  ASSUME NEW q \in Seq(Entry), q # <<>>, dly \in [Entry -> Nat], NEW d \in Nat
  PROVE  LET k == PlaceBehindHead(q, d) IN
         /\ k \in 2 .. Len(q) + 1
         /\ \A i \in 2 .. k - 1 : dly[q[i]] < d
         /\ k <= Len(q) => dly[q[k]] >= d
<1> DEFINE T == {i \in 2 .. Len(q) + 1 : i <= Len(q) => dly[q[i]] >= d}
<1>1. Len(q) \in Nat /\ Len(q) > 0 /\ \A i \in 1 .. Len(q) : q[i] \in Entry
  OBVIOUS
<1>2. T \in SUBSET Nat /\ Len(q) + 1 \in T
  BY <1>1
<1>3. PICK k \in T : \A y \in T : k <= y
  <2> HIDE DEF T
  <2> QED
    BY <1>2, LeastNumber
<1>4. \A i \in 2 .. k - 1 : dly[q[i]] < d
  <2> SUFFICES ASSUME NEW i \in 2 .. k - 1 PROVE dly[q[i]] < d
    OBVIOUS
  <2>1. i \notin T /\ i \in 2 .. Len(q)
    BY <1>1, <1>3
  <2>2. dly[q[i]] \in Nat
    BY <1>1, <2>1
  <2>3. QED
    BY <2>1, <2>2
<1>5. k \in 2 .. Len(q) + 1 /\ (k <= Len(q) => dly[q[k]] >= d)
  BY <1>3
<1>6. QED
  BY <1>4, <1>5 DEF PlaceBehindHead
-----------------------------------------------------------------------------
(***************************************************************************)
(* The queue                                                               *)
(***************************************************************************)
Inserted(n, q, r, k) ==
  /\ n \in Seq(Entry) /\ Len(n) = Len(q) + 1
  /\ \A i \in 1 .. Len(q) + 1 : n[i] = IF i < k THEN q[i] ELSE IF i = k THEN r ELSE q[i - 1]

Separates(k, q, d) ==
  \A i \in 1 .. Len(q) : IF i < k THEN dly[q[i]] <= d ELSE dly[q[i]] >= d

InOrder(q, f) == \A i, j \in DOMAIN q : i < j => f[q[i]] <= f[q[j]]

(* An entry put between those that end earlier and those that end later *)
LEMMA PutInOrder ==
  ASSUME dly \in [Entry -> Nat], NEW q \in Seq(Entry), IsInjective(q), InOrder(q, dly),
         NEW r \in Entry, r \notin Range(q), NEW d \in Nat,
         NEW k \in 1 .. Len(q) + 1, NEW n, Inserted(n, q, r, k), Separates(k, q, d)
  PROVE  /\ n \in Seq(Entry) /\ IsInjective(n)
         /\ Range(n) = Range(q) \cup {r}
         /\ InOrder(n, [dly EXCEPT ![r] = d])
<1> DEFINE f == [dly EXCEPT ![r] = d]
           from(i) == IF i < k THEN i ELSE i - 1
<1> USE DEF Inserted, Separates
<1>1. /\ Len(q) \in Nat /\ k \in Nat
      /\ DOMAIN q = 1 .. Len(q) /\ DOMAIN n = 1 .. Len(q) + 1
  OBVIOUS
<1>2. \A i \in 1 .. Len(q) : q[i] \in Entry /\ q[i] # r
  <2>1. \A i \in 1 .. Len(q) : q[i] \in Range(q)
    BY <1>1, Zenon DEF Range
  <2>2. QED
    BY <2>1
<1>3. \A i \in 1 .. Len(q) + 1 : i # k => from(i) \in 1 .. Len(q) /\ n[i] = q[from(i)]
  BY <1>1
<1>4. n[k] = r
  BY <1>1
<1>5. IsInjective(n)
  <2> SUFFICES ASSUME NEW i \in 1 .. Len(q) + 1, NEW j \in 1 .. Len(q) + 1, n[i] = n[j]
               PROVE  i = j
    BY <1>1 DEF IsInjective
  <2>1. i = k <=> j = k
    BY <1>2, <1>3, <1>4
  <2>2. CASE i # k /\ j # k
    <3>1. from(i) = from(j)
      BY <2>2, <1>1, <1>3, ZenonT(30) DEF IsInjective
    <3>2. QED
      BY <3>1, <2>2, <1>1, SMTT(30)
  <2>3. QED
    BY <2>1, <2>2
<1>6. Range(n) = Range(q) \cup {r}
  <2>1. \A i \in 1 .. Len(q) + 1 : n[i] \in Range(q) \cup {r}
    BY <1>1, <1>3, <1>4 DEF Range
  <2>2. \A i \in 1 .. Len(q) : \E j \in 1 .. Len(q) + 1 : n[j] = q[i]
    <3> SUFFICES ASSUME NEW i \in 1 .. Len(q) PROVE \E j \in 1 .. Len(q) + 1 : n[j] = q[i]
      OBVIOUS
    <3>1. CASE i < k
      <4>1. i \in 1 .. Len(q) + 1
        BY <1>1
      <4>2. n[i] = q[i]
        BY <4>1, <3>1
      <4>3. QED
        BY <4>1, <4>2
    <3>2. CASE ~(i < k)
      <4>1. i + 1 \in 1 .. Len(q) + 1 /\ i + 1 # k /\ ~(i + 1 < k) /\ (i + 1) - 1 = i
        BY <3>2, <1>1
      <4>2. n[i + 1] = q[i]
        BY <4>1
      <4>3. QED
        BY <4>1, <4>2
    <3>3. QED
      BY <3>1, <3>2
  <2>3. QED
    <3>1. k \in 1 .. Len(q) + 1
      OBVIOUS
    <3>2. Range(n) \subseteq Range(q) \cup {r}
      <4> SUFFICES ASSUME NEW x \in Range(n) PROVE x \in Range(q) \cup {r}
        OBVIOUS
      <4>1. PICK i \in 1 .. Len(q) + 1 : x = n[i]
        BY <1>1, Zenon DEF Range
      <4>2. QED
        BY <4>1, <2>1
    <3>3. Range(q) \subseteq Range(n)
      <4> SUFFICES ASSUME NEW x \in Range(q) PROVE x \in Range(n)
        OBVIOUS
      <4>1. PICK i \in 1 .. Len(q) : x = q[i]
        BY <1>1, Zenon DEF Range
      <4>2. PICK j \in 1 .. Len(q) + 1 : n[j] = q[i]
        BY <2>2, Zenon
      <4>3. QED
        BY <4>1, <4>2, <1>1, Zenon DEF Range
    <3>4. r \in Range(n)
      BY <3>1, <1>1, <1>4, Zenon DEF Range
    <3>5. QED
      BY <3>2, <3>3, <3>4, Zenon
<1>7. InOrder(n, f)
  <2>1. f[r] = d /\ \A i \in 1 .. Len(q) : f[q[i]] = dly[q[i]] /\ dly[q[i]] \in Nat
    BY <1>2
  <2>2. \A i, j \in 1 .. Len(q) : i <= j => dly[q[i]] <= dly[q[j]]
    <3> SUFFICES ASSUME NEW i \in 1 .. Len(q), NEW j \in 1 .. Len(q), i <= j
                 PROVE  dly[q[i]] <= dly[q[j]]
      OBVIOUS
    <3>1. i = j \/ i < j
      BY <1>1
    <3>2. i < j => dly[q[i]] <= dly[q[j]]
      BY <1>1, Zenon DEF InOrder
    <3>3. QED
      BY <3>1, <3>2, <2>1
  <2> HIDE DEF f
  <2> SUFFICES ASSUME NEW i \in 1 .. Len(q) + 1, NEW j \in 1 .. Len(q) + 1, i < j
               PROVE  f[n[i]] <= f[n[j]]
    BY <1>1 DEF InOrder
  <2>3. CASE i = k
    <3>1. from(j) \in 1 .. Len(q) /\ ~(from(j) < k) /\ n[j] = q[from(j)]
      BY <2>3, <1>1, <1>3
    <3>2. QED
      BY <3>1, <2>1, <2>3, <1>4
  <2>4. CASE j = k
    <3>1. i \in 1 .. Len(q) /\ i < k /\ n[i] = q[i]
      BY <2>4, <1>1
    <3>2. QED
      BY <3>1, <2>1, <2>4, <1>4
  <2>5. CASE i # k /\ j # k
    <3>1. /\ from(i) \in 1 .. Len(q) /\ from(j) \in 1 .. Len(q) /\ from(i) <= from(j)
          /\ n[i] = q[from(i)] /\ n[j] = q[from(j)]
      BY <2>5, <1>1, <1>3, SMTT(30)
    <3> HIDE DEF from
    <3>2. QED
      BY <3>1, <2>1, <2>2, SMTT(30)
  <2>6. QED
    BY <2>3, <2>4, <2>5
<1>8. QED
  BY <1>5, <1>6, <1>7

(* enter_delay_queue *)
LEMMA EnterInOrder ==
  ASSUME dly \in [Entry -> Nat], NEW q \in Seq(Entry), IsInjective(q), InOrder(q, dly),
         NEW r \in Entry, r \notin Range(q), NEW d \in Nat
  PROVE  LET n == EnterDelayQueue(q, r, d) IN
         /\ n \in Seq(Entry) /\ IsInjective(n)
         /\ Range(n) = Range(q) \cup {r}
         /\ InOrder(n, [dly EXCEPT ![r] = d])
<1>1. /\ Len(q) \in Nat /\ DOMAIN q = 1 .. Len(q)
      /\ \A i \in 1 .. Len(q) : dly[q[i]] \in Nat
  OBVIOUS
<1>2. \A i, j \in 1 .. Len(q) : i <= j => dly[q[i]] <= dly[q[j]]
  BY <1>1 DEF InOrder
<1>3. CASE q = <<>> \/ dly[Head(q)] > d
  <2> DEFINE n == <<r>> \o q
  <2>1. \A i \in 1 .. Len(q) : dly[q[i]] >= d
    <3> SUFFICES ASSUME NEW i \in 1 .. Len(q) PROVE dly[q[i]] >= d
      OBVIOUS
    <3>1. q # <<>> /\ Head(q) = q[1] /\ 1 \in 1 .. Len(q) /\ 1 <= i
      BY <1>1
    <3>2. dly[q[1]] <= dly[q[i]] /\ dly[q[1]] > d
      BY <3>1, <1>2, <1>3
    <3>3. QED
      BY <3>1, <3>2, <1>1
  <2>2. /\ n \in Seq(Entry) /\ Len(n) = Len(q) + 1
        /\ \A i \in 1 .. Len(q) + 1 : n[i] = IF i = 1 THEN r ELSE q[i - 1]
    BY InsertionInFront
  <2>3. n = EnterDelayQueue(q, r, d)
    BY <1>3 DEF EnterDelayQueue
  <2> HIDE DEF n
  <2>4. /\ 1 \in 1 .. Len(q) + 1
        /\ \A i \in 1 .. Len(q) + 1 : n[i] = IF i < 1 THEN q[i] ELSE IF i = 1 THEN r ELSE q[i - 1]
        /\ \A i \in 1 .. Len(q) : IF i < 1 THEN dly[q[i]] <= d ELSE dly[q[i]] >= d
    BY <1>1, <2>1, <2>2
  <2>5. /\ n \in Seq(Entry) /\ IsInjective(n)
        /\ Range(n) = Range(q) \cup {r}
        /\ InOrder(n, [dly EXCEPT ![r] = d])
    <3>1. Inserted(n, q, r, 1) /\ Separates(1, q, d)
      BY <2>2, <2>4 DEF Inserted, Separates
    <3>2. QED
      BY <3>1, <2>4, PutInOrder, Zenon
  <2>6. QED
    BY <2>3, <2>5, Zenon
<1>4. CASE ~(q = <<>> \/ dly[Head(q)] > d)
  <2> DEFINE k == PlaceBehindHead(q, d)
             n == InsertAt(q, k, r)
  <2>1. q # <<>> /\ Head(q) = q[1] /\ 1 \in 1 .. Len(q)
    BY <1>1, <1>4
  <2>2. /\ k \in 2 .. Len(q) + 1
        /\ \A i \in 2 .. k - 1 : dly[q[i]] < d
        /\ k <= Len(q) => dly[q[k]] >= d
    BY <2>1, PlaceExists
  <2>3. n = EnterDelayQueue(q, r, d)
    BY <1>4 DEF EnterDelayQueue
  <2> HIDE DEF k
  <2>4. k \in 1 .. Len(q) + 1
    BY <2>2, <1>1
  <2>5. /\ n \in Seq(Entry) /\ Len(n) = Len(q) + 1
        /\ \A i \in 1 .. Len(q) + 1 :
             n[i] = IF i < k THEN q[i] ELSE IF i = k THEN r ELSE q[i - 1]
    BY <2>4, Insertion
  <2> HIDE DEF n
  <2>6. ASSUME NEW i \in 1 .. Len(q) PROVE IF i < k THEN dly[q[i]] <= d ELSE dly[q[i]] >= d
    <3>1. CASE i = 1
      BY <3>1, <2>1, <2>2, <1>1, <1>4
    <3>2. CASE i # 1 /\ i < k
      <4>1. i \in 2 .. k - 1 /\ dly[q[i]] \in Nat
        BY <3>2, <2>2, <1>1
      <4>2. dly[q[i]] < d
        BY <4>1, <2>2
      <4>3. QED
        BY <4>1, <4>2, <3>2
    <3>3. CASE ~(i < k)
      <4>1. k \in 1 .. Len(q) /\ k <= i
        BY <3>3, <2>2, <1>1
      <4>2. dly[q[k]] >= d /\ dly[q[k]] <= dly[q[i]] /\ dly[q[k]] \in Nat /\ dly[q[i]] \in Nat
        BY <4>1, <2>2, <1>1, <1>2
      <4>3. QED
        BY <4>2, <3>3
    <3>4. QED
      BY <3>1, <3>2, <3>3
  <2>7. /\ n \in Seq(Entry) /\ IsInjective(n)
        /\ Range(n) = Range(q) \cup {r}
        /\ InOrder(n, [dly EXCEPT ![r] = d])
    <3>1. Inserted(n, q, r, k) /\ Separates(k, q, d)
      BY <2>5, <2>6 DEF Inserted, Separates
    <3>2. QED
      BY <3>1, <2>4, PutInOrder, Zenon
  <2>8. QED
    BY <2>3, <2>7, Zenon
<1>5. QED
  BY <1>3, <1>4
-----------------------------------------------------------------------------
(* Without its head *)
LEMMA TailFacts ==
  ASSUME NEW S, NEW q \in Seq(S), q # <<>>, IsInjective(q)
  PROVE  /\ Head(q) \in S /\ Head(q) \in Range(q) /\ Head(q) = q[1] /\ 1 \in DOMAIN q
         /\ Tail(q) \in Seq(S) /\ IsInjective(Tail(q))
         /\ Range(Tail(q)) = Range(q) \ {Head(q)}
         /\ \A f : InOrder(q, f) => InOrder(Tail(q), f)
<1> DEFINE t == Tail(q)
<1>1. /\ Len(q) \in Nat /\ Len(q) >= 1 /\ DOMAIN q = 1 .. Len(q) /\ Head(q) = q[1]
      /\ t \in Seq(S) /\ DOMAIN t = 1 .. Len(q) - 1
      /\ \A i \in 1 .. Len(q) - 1 : t[i] = q[i + 1] /\ i + 1 \in 1 .. Len(q)
  OBVIOUS
<1> HIDE DEF t
<1>2. Head(q) \in S /\ 1 \in DOMAIN q
  BY <1>1
<1>3. IsInjective(t)
  BY <1>1, SMTT(30) DEF IsInjective
<1>4. Range(t) = Range(q) \ {Head(q)}
  <2>1. ASSUME NEW x \in Range(t) PROVE x \in Range(q) /\ x # Head(q)
    <3>1. PICK i \in 1 .. Len(q) - 1 : x = t[i]
      BY <1>1, Zenon DEF Range
    <3>2. x = q[i + 1] /\ i + 1 \in DOMAIN q /\ i + 1 # 1
      BY <3>1, <1>1
    <3>3. QED
      BY <3>2, <1>1, <1>2, Zenon DEF Range, IsInjective
  <2>2. ASSUME NEW x \in Range(q), x # Head(q) PROVE x \in Range(t)
    <3>1. PICK i \in 1 .. Len(q) : x = q[i]
      BY <1>1, Zenon DEF Range
    <3>2. i - 1 \in 1 .. Len(q) - 1 /\ (i - 1) + 1 = i
      BY <3>1, <2>2, <1>1
    <3>3. t[i - 1] = q[i]
      BY <3>2, <1>1
    <3>4. QED
      BY <3>1, <3>2, <3>3, <1>1, Zenon DEF Range
  <2>3. QED
    BY <2>1, <2>2, Zenon
<1>5. Head(q) \in Range(q)
  BY <1>1, <1>2, Zenon DEF Range
<1>6. ASSUME NEW f, InOrder(q, f) PROVE InOrder(t, f)
  <2> SUFFICES ASSUME NEW i \in DOMAIN t, NEW j \in DOMAIN t, i < j PROVE f[t[i]] <= f[t[j]]
    BY Zenon DEF InOrder
  <2>1. /\ i + 1 \in DOMAIN q /\ j + 1 \in DOMAIN q /\ i + 1 < j + 1
        /\ t[i] = q[i + 1] /\ t[j] = q[j + 1]
    BY <1>1
  <2>2. f[q[i + 1]] <= f[q[j + 1]]
    BY <1>6, <2>1, Zenon DEF InOrder
  <2>3. QED
    BY <2>1, <2>2, Zenon
<1>7. Head(q) = q[1] /\ t \in Seq(S)
  BY <1>1
<1>8. \A f : InOrder(q, f) => InOrder(t, f)
  BY <1>6
<1>9. QED
  BY <1>2, <1>3, <1>4, <1>5, <1>7, <1>8, Zenon DEF t

(* With another element at its end *)
LEMMA AppendFacts ==
  ASSUME NEW S, NEW q \in Seq(S), IsInjective(q), NEW x \in S, x \notin Range(q)
  PROVE  /\ Append(q, x) \in Seq(S) /\ IsInjective(Append(q, x))
         /\ Range(Append(q, x)) = Range(q) \cup {x}
  BY AppendRange, AppendInjects
-----------------------------------------------------------------------------
(***************************************************************************)
(* The inductive invariant                                                 *)
(***************************************************************************)
Status == {"none", "start", "period1", "period2", "stopped"}

(* A thread that is ready has no delay *)
DTypes ==
  /\ ready \in Seq(Thread) /\ IsInjective(ready)
  /\ delay_queue \in Seq(Entry) /\ IsInjective(delay_queue)
  /\ dly \in [Entry -> Nat]
  /\ drive_clock \in [Driven -> Status]
  /\ periods \in [Driven -> Nat \X Nat]
  /\ Range(ready) \cap Range(delay_queue) = {}

DQueue ==
  /\ InOrder(delay_queue, dly)
  /\ ~broken
  /\ \A p \in Driven : drive_clock[p] # "none" <=> p \in Range(delay_queue)

DInv == DTypes /\ DQueue

LEMMA DInvImplies == DInv => DelaysInOrder /\ OneDriver
BY DEF DInv, DTypes, DQueue, InOrder, DelaysInOrder, OneDriver

LEMMA DInitial == DelaysInit /\ ready \in Seq(Thread) /\ IsInjective(ready) => DInv
<1> SUFFICES ASSUME DelaysInit, ready \in Seq(Thread), IsInjective(ready) PROVE DInv
  OBVIOUS
<1>1. DOMAIN delay_queue = {} /\ delay_queue \in Seq(Entry)
  BY DEF DelaysInit
<1>2. Range(delay_queue) = {}
  BY <1>1, Zenon DEF Range
<1>3. QED
  BY <1>1, <1>2 DEF DelaysInit, DInv, DTypes, DQueue, InOrder, IsInjective, Entry, Status

LEMMA Disjoint == Thread \cap Driven = {}
BY SlotsAssumption, DelaysAssumption

(* The entry of r enters behind the queue q that is left *)
LEMMA Entered ==
  ASSUME dly \in [Entry -> Nat], NEW q \in Seq(Entry), IsInjective(q), InOrder(q, dly),
         NEW r \in Entry, r \notin Range(q), NEW d \in Nat, Enter(q, r, d)
  PROVE  /\ delay_queue' \in Seq(Entry) /\ IsInjective(delay_queue')
         /\ Range(delay_queue') = Range(q) \cup {r}
         /\ InOrder(delay_queue', dly')
         /\ dly' \in [Entry -> Nat]
<1>1. delay_queue' = EnterDelayQueue(q, r, d) /\ dly' = [dly EXCEPT ![r] = d]
  BY Zenon DEF Enter
<1>2. /\ EnterDelayQueue(q, r, d) \in Seq(Entry) /\ IsInjective(EnterDelayQueue(q, r, d))
      /\ Range(EnterDelayQueue(q, r, d)) = Range(q) \cup {r}
      /\ InOrder(EnterDelayQueue(q, r, d), [dly EXCEPT ![r] = d])
  BY EnterInOrder, Zenon
<1>3. dly' \in [Entry -> Nat]
  BY <1>1
<1>4. QED
  BY <1>1, <1>2, <1>3, Zenon

(* The thread that runs has no delay *)
LEMMA RunnerFacts ==
  ASSUME DInv, NEW t \in Thread, Sleeps(t)
  PROVE  /\ t \notin Range(delay_queue)
         /\ ready' \in Seq(Thread) /\ IsInjective(ready')
         /\ Range(ready') = Range(ready) \ {t}
<1>1. ready # <<>> /\ t = Head(ready) /\ ready' = Tail(ready)
  BY DEF Sleeps, Runs
<1>2. QED
  BY <1>1, TailFacts, Zenon DEF DInv, DTypes

LEMMA UnitDelayKeeps ==
  ASSUME DInv, NEW t \in Thread, NEW d \in Delay, UnitDelay(t, d)
  PROVE  DInv'
<1>1. d \in Nat /\ t \in Entry /\ t \notin Driven
  BY DelaysAssumption, Disjoint DEF Entry
<1>2. Sleeps(t) /\ Enter(delay_queue, t, d) /\ UNCHANGED <<drive_clock, periods, broken>>
  BY DEF UnitDelay
<1>3. /\ t \notin Range(delay_queue)
      /\ ready' \in Seq(Thread) /\ IsInjective(ready')
      /\ Range(ready') = Range(ready) \ {t}
  BY <1>2, RunnerFacts
<1>4. /\ delay_queue' \in Seq(Entry) /\ IsInjective(delay_queue')
      /\ Range(delay_queue') = Range(delay_queue) \cup {t}
      /\ InOrder(delay_queue', dly')
      /\ dly' \in [Entry -> Nat]
  BY <1>1, <1>2, <1>3, Entered, Zenon DEF DInv, DTypes, DQueue
<1>5. DTypes'
  <2>1. Range(ready') \cap Range(delay_queue') = {}
    BY <1>3, <1>4 DEF DInv, DTypes
  <2>2. QED
    BY <1>2, <1>3, <1>4, <2>1, Zenon DEF DInv, DTypes
<1>6. DQueue'
  <2>1. \A p \in Driven : p \in Range(delay_queue') <=> p \in Range(delay_queue)
    BY <1>1, <1>4
  <2>2. QED
    BY <2>1, <1>2, <1>4, Zenon DEF DInv, DQueue
<1>7. QED
  BY <1>5, <1>6 DEF DInv

LEMMA DriveClockKeeps ==
  ASSUME DInv, NEW t \in Thread, NEW p \in Driven, NEW v, NEW start \in Period \cup {0},
         NEW d1 \in Period, NEW d2 \in Period, DriveClock(t, p, v, start, d1, d2)
  PROVE  DInv'
<1> DEFINE d == IF start # 0 THEN start ELSE d1
<1>1. d \in Nat /\ d1 \in Nat /\ d2 \in Nat /\ p \in Entry
  BY DelaysAssumption DEF Entry
<1>2. /\ drive_clock[p] = "none"
      /\ drive_clock' = [drive_clock EXCEPT ![p] = IF start # 0 THEN "start" ELSE "period1"]
      /\ periods' = [periods EXCEPT ![p] = <<d1, d2>>]
      /\ Enter(delay_queue, p, d)
      /\ UNCHANGED <<ready, broken>>
  BY DEF DriveClock, slotVars
<1> HIDE DEF d
<1>3. p \notin Range(delay_queue)
  BY <1>2 DEF DInv, DQueue
<1>4. /\ delay_queue' \in Seq(Entry) /\ IsInjective(delay_queue')
      /\ Range(delay_queue') = Range(delay_queue) \cup {p}
      /\ InOrder(delay_queue', dly')
      /\ dly' \in [Entry -> Nat]
  BY <1>1, <1>2, <1>3, Entered, Zenon DEF DInv, DTypes, DQueue
<1>5. DTypes'
  <2>1. Range(ready') \cap Range(delay_queue') = {}
    <3>1. p \notin Range(ready)
      <4>1. p \notin Thread
        BY Disjoint
      <4>2. Range(ready) \subseteq Thread
        BY DEF DInv, DTypes, Range
      <4>3. QED
        BY <4>1, <4>2
    <3>2. QED
      BY <3>1, <1>2, <1>4 DEF DInv, DTypes
  <2>2. drive_clock' \in [Driven -> Status] /\ periods' \in [Driven -> Nat \X Nat]
    BY <1>1, <1>2 DEF DInv, DTypes, Status
  <2>3. QED
    BY <1>2, <1>4, <2>1, <2>2, Zenon DEF DInv, DTypes
<1>6. DQueue'
  <2>1. \A c \in Driven : drive_clock'[c] # "none" <=> c \in Range(delay_queue')
    BY <1>2, <1>4 DEF DInv, DTypes, DQueue
  <2>2. QED
    BY <2>1, <1>2, <1>4, Zenon DEF DInv, DQueue
<1>7. QED
  BY <1>5, <1>6 DEF DInv

LEMMA StopClockKeeps ==
  ASSUME DInv, NEW t \in Thread, NEW p \in Driven, StopClock(t, p)
  PROVE  DInv'
<1>1. /\ drive_clock[p] # "none"
      /\ drive_clock' = [drive_clock EXCEPT ![p] = "stopped"]
      /\ UNCHANGED <<ready, delay_queue, dly, periods, broken>>
  BY DEF StopClock, slotVars
<1>2. /\ drive_clock' \in [Driven -> Status]
      /\ \A c \in Driven : drive_clock'[c] # "none" <=> drive_clock[c] # "none"
  BY <1>1 DEF DInv, DTypes, Status
<1>3. QED
  BY <1>1, <1>2, Zenon DEF DInv, DTypes, DQueue

LEMMA ReactivateKeeps == ASSUME DInv, Reactivate PROVE DInv'
<1> DEFINE r == Head(delay_queue)
           rest == Tail(delay_queue)
<1>1. delay_queue # <<>> /\ \E i \in DOMAIN delay_queue : dly[delay_queue[i]] = 0
  BY DEF Reactivate
<1>2. /\ r \in Entry /\ r \in Range(delay_queue) /\ r = delay_queue[1] /\ 1 \in DOMAIN delay_queue
      /\ rest \in Seq(Entry) /\ IsInjective(rest)
      /\ Range(rest) = Range(delay_queue) \ {r}
      /\ InOrder(rest, dly)
  BY <1>1, TailFacts, Zenon DEF DInv, DTypes, DQueue
<1>3. dly[r] = 0
  <2>1. PICK i \in DOMAIN delay_queue : dly[delay_queue[i]] = 0
    BY <1>1
  <2>2. i = 1 \/ 1 < i
    BY DEF DInv, DTypes
  <2>3. 1 < i => dly[r] <= 0
    BY <2>1, <1>2, Zenon DEF DInv, DQueue, InOrder
  <2>4. dly[r] \in Nat
    BY <1>2 DEF DInv, DTypes
  <2>5. QED
    BY <2>1, <2>2, <2>3, <2>4, <1>2
<1> HIDE DEF r, rest
<1>4. (r \in Thread /\ UnitDelayEnd(r)) \/ (r \notin Thread /\ DriveClockSeq(r))
  BY <1>3, Zenon DEF Reactivate, r
<1>5. CASE r \in Thread /\ UnitDelayEnd(r)
  <2>1. /\ delay_queue' = rest /\ ready' = Append(ready, r)
        /\ UNCHANGED <<dly, drive_clock, periods, broken>>
    BY <1>5 DEF UnitDelayEnd, rest
  <2>2. r \notin Range(ready)
    BY <1>2 DEF DInv, DTypes
  <2>3. /\ ready' \in Seq(Thread) /\ IsInjective(ready')
        /\ Range(ready') = Range(ready) \cup {r}
    BY <1>5, <2>1, <2>2, AppendFacts, Zenon DEF DInv, DTypes
  <2>4. DTypes'
    <3>1. Range(ready') \cap Range(delay_queue') = {}
      BY <1>2, <2>1, <2>3 DEF DInv, DTypes
    <3>2. QED
      BY <3>1, <1>2, <2>1, <2>3, Zenon DEF DInv, DTypes
  <2>5. DQueue'
    <3>1. r \notin Driven
      BY <1>5, Disjoint
    <3>2. \A p \in Driven : p \in Range(delay_queue') <=> p \in Range(delay_queue)
      BY <3>1, <1>2, <2>1
    <3>3. QED
      BY <3>2, <1>2, <2>1, Zenon DEF DInv, DQueue
  <2>6. QED
    BY <2>4, <2>5 DEF DInv
<1>6. CASE r \notin Thread /\ DriveClockSeq(r)
  <2>1. r \in Driven /\ UNCHANGED <<ready, periods, broken>>
    BY <1>2, <1>6 DEF Entry, DriveClockSeq, slotVars
  <2>2. r \notin Range(ready) /\ drive_clock[r] # "none"
    BY <2>1, <1>2 DEF DInv, DTypes, DQueue
  <2>3. CASE drive_clock[r] = "stopped"
    <3>1. /\ drive_clock' = [drive_clock EXCEPT ![r] = "none"] /\ delay_queue' = rest
          /\ UNCHANGED dly
      BY <1>6, <2>3 DEF DriveClockSeq, rest
    <3>2. DTypes'
      <4>1. Range(ready') \cap Range(delay_queue') = {}
        BY <1>2, <2>1, <3>1 DEF DInv, DTypes
      <4>2. drive_clock' \in [Driven -> Status]
        BY <3>1 DEF DInv, DTypes, Status
      <4>3. QED
        BY <4>1, <4>2, <1>2, <2>1, <3>1, Zenon DEF DInv, DTypes
    <3>3. DQueue'
      <4>1. \A p \in Driven : drive_clock'[p] # "none" <=> p \in Range(delay_queue')
        BY <1>2, <2>1, <3>1 DEF DInv, DTypes, DQueue
      <4>2. QED
        BY <4>1, <1>2, <2>1, <3>1, Zenon DEF DInv, DQueue
    <3>4. QED
      BY <3>2, <3>3 DEF DInv
  <2>4. CASE drive_clock[r] # "stopped"
    <3> DEFINE next == IF drive_clock[r] = "period1" THEN 2 ELSE 1
               d == periods[r][next]
    <3>1. /\ drive_clock' = [drive_clock EXCEPT ![r] = IF next = 1 THEN "period1" ELSE "period2"]
          /\ Enter(rest, r, d)
      BY <1>6, <2>4 DEF DriveClockSeq, rest
    <3>2. d \in Nat
      BY <2>1 DEF DInv, DTypes
    <3> HIDE DEF next, d
    <3>3. r \notin Range(rest)
      BY <1>2
    <3>4. /\ delay_queue' \in Seq(Entry) /\ IsInjective(delay_queue')
          /\ Range(delay_queue') = Range(rest) \cup {r}
          /\ InOrder(delay_queue', dly')
          /\ dly' \in [Entry -> Nat]
      BY <1>2, <3>1, <3>2, <3>3, Entered, Zenon DEF DInv, DTypes
    <3>5. Range(delay_queue') = Range(delay_queue)
      BY <3>4, <1>2
    <3>6. DTypes'
      <4>1. drive_clock' \in [Driven -> Status]
        BY <3>1 DEF DInv, DTypes, Status
      <4>2. QED
        BY <4>1, <2>1, <3>4, <3>5, Zenon DEF DInv, DTypes
    <3>7. DQueue'
      <4>1. \A p \in Driven : drive_clock'[p] # "none" <=> drive_clock[p] # "none"
        BY <2>1, <2>2, <3>1 DEF DInv, DTypes
      <4>2. QED
        BY <4>1, <2>1, <3>4, <3>5, Zenon DEF DInv, DQueue
    <3>8. QED
      BY <3>6, <3>7 DEF DInv
  <2>5. QED
    BY <2>3, <2>4
<1>7. QED
  BY <1>4, <1>5, <1>6

LEMMA TimePassesKeeps == ASSUME DInv, TimePasses PROVE DInv'
<1>1. /\ \A i \in DOMAIN delay_queue : dly[delay_queue[i]] > 0
      /\ dly' = [r \in DOMAIN dly |-> IF r \in Range(delay_queue) THEN dly[r] - 1 ELSE dly[r]]
      /\ UNCHANGED <<ready, delay_queue, drive_clock, periods, broken>>
  BY DEF TimePasses, slotVars
<1>2. \A r \in Range(delay_queue) : dly[r] > 0
  BY <1>1, Zenon DEF Range
<1>3. dly' \in [Entry -> Nat]
  BY <1>1, <1>2 DEF DInv, DTypes
<1>4. \A i \in DOMAIN delay_queue : delay_queue[i] \in Range(delay_queue) /\ delay_queue[i] \in Entry
  <2>1. \A i \in DOMAIN delay_queue : delay_queue[i] \in Range(delay_queue)
    BY Zenon DEF Range
  <2>2. QED
    BY <2>1 DEF DInv, DTypes
<1>5. \A i \in DOMAIN delay_queue :
        dly'[delay_queue[i]] = dly[delay_queue[i]] - 1 /\ dly[delay_queue[i]] \in Nat
  BY <1>1, <1>4 DEF DInv, DTypes
<1>6. InOrder(delay_queue', dly')
  <2> SUFFICES ASSUME NEW i \in DOMAIN delay_queue, NEW j \in DOMAIN delay_queue, i < j
               PROVE  dly'[delay_queue[i]] <= dly'[delay_queue[j]]
    BY <1>1, Zenon DEF InOrder
  <2>1. dly[delay_queue[i]] <= dly[delay_queue[j]]
    BY Zenon DEF DInv, DQueue, InOrder
  <2>2. QED
    BY <2>1, <1>5
<1>7. QED
  BY <1>1, <1>3, <1>6, Zenon DEF DInv, DTypes, DQueue

LEMMA OthersKeep == ASSUME DInv, OthersMove PROVE DInv'
<1>1. /\ ready' \in Seq(Thread) /\ IsInjective(ready') /\ Range(ready') \cap Range(delay_queue') = {}
      /\ UNCHANGED <<delay_queue, dly, drive_clock, periods, broken>>
  BY DEF OthersMove, delayVars
<1>2. QED
  BY <1>1, Zenon DEF DInv, DTypes, DQueue

LEMMA DInductive == DInv /\ [DelaysNext]_<<slotVars, delayVars>> => DInv'
<1> SUFFICES ASSUME DInv, [DelaysNext]_<<slotVars, delayVars>> PROVE DInv'
  OBVIOUS
<1>1. ASSUME NEW t \in Thread, NEW d \in Delay, UnitDelay(t, d) PROVE DInv'
  BY <1>1, UnitDelayKeeps
<1>2. ASSUME NEW t \in Thread, NEW p \in Driven, StopClock(t, p) PROVE DInv'
  BY <1>2, StopClockKeeps
<1>3. ASSUME NEW t \in Thread, NEW p \in Driven, NEW v \in {"0", "1"}, NEW start \in Period \cup {0},
             NEW d1 \in Period, NEW d2 \in Period, DriveClock(t, p, v, start, d1, d2)
      PROVE  DInv'
  BY <1>3, DriveClockKeeps
<1>4. CASE Reactivate
  BY <1>4, ReactivateKeeps
<1>5. CASE TimePasses
  BY <1>5, TimePassesKeeps
<1>6. CASE OthersMove
  BY <1>6, OthersKeep
<1>7. CASE UNCHANGED <<slotVars, delayVars>>
  <2>1. UNCHANGED <<ready, delay_queue, dly, drive_clock, periods, broken>>
    BY <1>7 DEF slotVars, delayVars
  <2>2. QED
    BY <2>1, Zenon DEF DInv, DTypes, DQueue
<1>8. QED
  BY <1>1, <1>2, <1>3, <1>4, <1>5, <1>6, <1>7, Zenon DEF DelaysNext

(* The invariant holds in every behaviour of the queue of delays *)
LEMMA DAlways == DelaysSpec => []DInv
<1>1. DelaysInit /\ ready \in Seq(Thread) /\ IsInjective(ready) => DInv
  BY DInitial
<1>2. DInv /\ [DelaysNext]_<<slotVars, delayVars>> => DInv'
  BY DInductive
<1>3. QED
  BY <1>1, <1>2, PTL DEF DelaysSpec

(* JD_misctf_reason_reactivate always finds the entry it was called for at  *)
(* the head of the queue: the simulation never ends with "broken .. sequence" *)
THEOREM DelaysAreInOrder == DelaysSpec => []DelaysInOrder
<1>1. DInv => DelaysInOrder
  BY DInvImplies
<1>2. QED
  BY <1>1, DAlways, PTL

(* A port that is driven as a clock, or was stopped and still waits for the *)
(* end of its delay, has one entry in the queue, and no other port has one  *)
THEOREM PortsHaveOneDriver == DelaysSpec => []OneDriver
<1>1. DInv => OneDriver
  BY DInvImplies
<1>2. QED
  BY <1>1, DAlways, PTL
-----------------------------------------------------------------------------

Object == Data \cup {Task}

TaskListed == Task \in Range(changed_list)

LEMMA RangeEmpty == ASSUME NEW x PROVE x \notin Range(<<>>)
<1>1. DOMAIN <<>> = {}
  OBVIOUS
<1>2. QED
  BY <1>1, Zenon DEF Range

(***************************************************************************)
(* The inductive invariant: in a turn of Verilog the task is called for or *)
(* done, never both                                                        *)
(***************************************************************************)
Types ==
  /\ turn \in {"verilog", "jeda"}
  /\ callers \in Seq(Thread) /\ changed_list \in Seq(Object)
  /\ busy \in BOOLEAN /\ done_vcl \in BOOLEAN /\ call \in {0, 1}

CallInv ==
  /\ OneCallActive
  /\ call = 1 => done_vcl
  /\ turn = "verilog" /\ TaskListed => call = 0

TaskInv == Types /\ CallInv

LEMMA TaskNoPort == Task \notin Port /\ Task \notin Data
BY SlotsAssumption DEF Data

LEMMA TaskInitial == Init => TaskInv
<1> SUFFICES ASSUME Init PROVE TaskInv
  OBVIOUS
<1>1. /\ turn = "verilog" /\ changed_list = <<>>
      /\ callers = <<>> /\ busy = FALSE /\ call = 0 /\ done_vcl = FALSE
  BY DEF Init, SlotsInit, TaskInit
<1>2. ~TaskListed
  BY <1>1, RangeEmpty DEF TaskListed
<1>3. Types
  <2>1. callers \in Seq(Thread) /\ changed_list \in Seq(Object)
    BY <1>1, EmptySeq, Zenon
  <2>2. turn \in {"verilog", "jeda"} /\ busy \in BOOLEAN /\ done_vcl \in BOOLEAN /\ call \in {0, 1}
    BY <1>1
  <2>3. QED
    BY <2>1, <2>2, Zenon DEF Types
<1>4. call # 1
  BY <1>1
<1>5. QED
  BY <1>1, <1>2, <1>3, <1>4, Zenon DEF TaskInv, CallInv, OneCallActive, TaskListed

(* The steps that leave the task alone, but may change the turn or list a port *)
LEMMA Unrelated ==
  ASSUME TaskInv, UNCHANGED <<turn, callers, busy, call, done_vcl, args>>,
         changed_list' \in Seq(Object), TaskListed' <=> TaskListed
  PROVE  TaskInv'
BY Zenon DEF TaskInv, Types, CallInv, OneCallActive, TaskListed

LEMMA CallTaskKeeps == ASSUME TaskInv, NEW t \in Thread, CallTask(t) PROVE TaskInv'
<1>1. /\ turn = "jeda" /\ UNCHANGED <<turn, changed_list>>
      /\ callers' = Append(callers, t)
      /\ IF busy THEN UNCHANGED <<busy, call, done_vcl, args>> ELSE SetVeriTaskCall(t, TRUE)
  BY DEF CallTask, VeriTaskCall, Sleeps, Runs
<1>2. callers' \in Seq(Thread) /\ callers' # <<>> /\ (callers # <<>> => Head(callers') = Head(callers))
      /\ (callers = <<>> => Head(callers') = t)
  BY <1>1 DEF TaskInv, Types
<1>3. CASE busy
  BY <1>1, <1>2, <1>3 DEF TaskInv, Types, CallInv, OneCallActive, TaskListed
<1>4. CASE ~busy
  <2>1. /\ busy' = TRUE /\ call' = 1 /\ done_vcl' = TRUE
        /\ args'.of = t
    BY <1>1, <1>4 DEF SetVeriTaskCall
  <2>2. callers = <<>>
    BY <1>4 DEF TaskInv, CallInv, OneCallActive
  <2>3. QED
    BY <1>1, <1>2, <2>1, <2>2 DEF TaskInv, Types, CallInv, OneCallActive, TaskListed
<1>5. QED
  BY <1>3, <1>4 DEF TaskInv, Types

LEMMA TaskFinishesKeeps == ASSUME TaskInv, TaskFinishes PROVE TaskInv'
<1>1. turn = "verilog" /\ call = 1 /\ done_vcl
  BY DEF TaskFinishes, TaskEnds, TaskInv, CallInv
<1>2. /\ call' = 0 /\ done_vcl' = FALSE /\ changed_list' = Append(changed_list, Task)
      /\ UNCHANGED <<turn, callers, busy, args>>
  BY <1>1 DEF TaskFinishes, TaskEnds
<1>3. changed_list' \in Seq(Object) /\ TaskListed'
  BY <1>2, AppendRange DEF TaskInv, Types, Object, TaskListed
<1>4. busy
  BY <1>1 DEF TaskInv, CallInv, OneCallActive
<1>5. Types'
  BY <1>1, <1>2, <1>3 DEF TaskInv, Types
<1>6. call' # 1
  BY <1>2
<1>7. QED
  BY <1>1, <1>2, <1>3, <1>4, <1>5, <1>6, Zenon DEF TaskInv, CallInv, OneCallActive, TaskListed

LEMMA PortChangesKeeps == ASSUME TaskInv, PortChanges PROVE TaskInv'
<1>1. PICK p \in Port, v \in Value : ValueChanges(p, v)
  BY DEF PortChanges
<1>2. UNCHANGED <<turn, callers, busy, call, done_vcl, args>>
  BY <1>1 DEF PortChanges, ValueChanges, taskVars
<1>3. CASE changed_list' = changed_list
  BY <1>2, <1>3, Unrelated DEF TaskInv, Types, TaskListed
<1>4. CASE changed_list' # changed_list
  <2>1. p \notin Clock /\ changed_list' = Append(changed_list, p)
    BY <1>1, <1>4 DEF ValueChanges, Listed
  <2>2. p \in Object /\ p # Task
    BY <2>1, TaskNoPort DEF Object, Data
  <2>3. changed_list' \in Seq(Object) /\ Range(changed_list') = Range(changed_list) \cup {p}
    BY <2>1, <2>2, AppendRange DEF TaskInv, Types
  <2>4. TaskListed' <=> TaskListed
    BY <2>2, <2>3 DEF TaskListed
  <2>5. QED
    BY <1>2, <2>3, <2>4, Unrelated
<1>5. QED
  BY <1>3, <1>4

LEMMA SlotEndsKeeps == ASSUME TaskInv, SlotEnds PROVE TaskInv'
<1>1. /\ turn = "verilog" /\ turn' = "jeda" /\ UNCHANGED changed_list
      /\ ServeTask
  BY DEF SlotEnds, ServeAll
<1>2. CASE ~TaskListed
  BY <1>1, <1>2, Zenon DEF ServeTask, taskVars, TaskInv, Types, CallInv, OneCallActive, TaskListed
<1>3. CASE TaskListed
  <2>1. busy /\ call = 0 /\ callers # <<>>
    BY <1>1, <1>3 DEF TaskInv, CallInv, OneCallActive, TaskListed
  <2>2. callers' = Tail(callers) /\ NextCall
    BY <1>1, <1>3 DEF ServeTask, TaskListed
  <2>3. callers' \in Seq(Thread) /\ Len(callers) \in Nat /\ Len(callers) > 0
    BY <2>1, <2>2 DEF TaskInv, Types
  <2>4. CASE Len(callers) > 1
    <3>1. busy' = TRUE /\ call' = 1 /\ done_vcl' = TRUE /\ args'.of = callers[2]
      BY <2>2, <2>4 DEF NextCall, SetVeriTaskCall
    <3>2. callers' # <<>> /\ Head(callers') = callers[2]
      BY <2>1, <2>2, <2>3, <2>4, SMTT(30) DEF TaskInv, Types
    <3>3. QED
      BY <1>1, <2>3, <3>1, <3>2 DEF TaskInv, Types, CallInv, OneCallActive, TaskListed
  <2>5. CASE ~(Len(callers) > 1)
    <3>1. busy' = FALSE /\ UNCHANGED <<call, done_vcl>>
      BY <2>2, <2>5 DEF NextCall
    <3>2. callers' = <<>>
      <4>1. Len(callers) = 1
        <5>1. \A n \in Nat : n > 0 /\ ~(n > 1) => n = 1
          OBVIOUS
        <5>2. QED
          BY <5>1, <2>3, <2>5, Zenon
      <4>2. callers \in Seq(Thread) /\ callers' = Tail(callers)
        BY <2>2, Zenon DEF TaskInv, Types
      <4>3. callers # <<>> => Len(callers') = Len(callers) - 1
        BY <4>2, HeadTailProperties
      <4>4. ~(Len(callers') \in Nat \ {0})
        BY <4>1, <4>3, <2>1
      <4>5. QED
        BY <4>4, <2>3, EmptySeq, Zenon
    <3>3. Types'
      BY <1>1, <2>3, <3>1 DEF TaskInv, Types
    <3>4. call' # 1 /\ turn' # "verilog"
      BY <1>1, <2>1, <3>1
    <3>5. QED
      BY <3>1, <3>2, <3>3, <3>4, Zenon DEF TaskInv, CallInv, OneCallActive, TaskListed
  <2>6. QED
    BY <2>4, <2>5
<1>4. QED
  BY <1>2, <1>3

LEMMA BackToVerilogKeeps == ASSUME TaskInv, BackToVerilog PROVE TaskInv'
<1>1. /\ turn = "jeda" /\ turn' = "verilog" /\ changed_list' = <<>>
      /\ UNCHANGED <<callers, busy, call, done_vcl, args>>
  BY DEF BackToVerilog, taskVars
<1>2. ~TaskListed' /\ changed_list' \in Seq(Object)
  BY <1>1, RangeEmpty DEF TaskListed
<1>3. QED
  BY <1>1, <1>2 DEF TaskInv, Types, CallInv, OneCallActive, TaskListed

LEMMA TaskInductive == TaskInv /\ [Next]_vars => TaskInv'
<1> SUFFICES ASSUME TaskInv, [Next]_vars PROVE TaskInv'
  OBVIOUS
<1> DEFINE Same == UNCHANGED <<turn, changed_list, callers, busy, call, done_vcl, args>>
<1>1. ASSUME Same PROVE TaskInv'
  <2>1. changed_list' \in Seq(Object) /\ (TaskListed' <=> TaskListed)
    BY <1>1 DEF TaskInv, Types, TaskListed
  <2>2. QED
    BY <1>1, <2>1, Unrelated
<1>2. ASSUME NEW t \in Thread, WaitForEdge(t) PROVE TaskInv'
  <2>1. Same
    BY <1>2 DEF WaitForEdge, SyncOnPort, Sleeps, taskVars
  <2>2. QED
    BY <2>1, <1>1
<1>3. ASSUME NEW t \in Thread, CallTask(t) PROVE TaskInv'
  BY <1>3, CallTaskKeeps
<1>4. ASSUME NEW t \in Thread, DelayItself(t) PROVE TaskInv'
  <2>1. Same
    BY <1>4 DEF DelayItself, UnitDelay, Sleeps, taskVars
  <2>2. QED
    BY <2>1, <1>1
<1>5. ASSUME NEW t \in Thread, DriveAClock(t) PROVE TaskInv'
  <2>1. Same
    BY <1>5 DEF DriveAClock, DriveClock, StopClock, slotVars, taskVars
  <2>2. QED
    BY <2>1, <1>1
<1>6. CASE PortChanges
  BY <1>6, PortChangesKeeps
<1>7. CASE TaskFinishes
  BY <1>7, TaskFinishesKeeps
<1>8. CASE DelayEnds
  <2>1. Same
    BY <1>8 DEF DelayEnds, Reactivate, UnitDelayEnd, DriveClockSeq, slotVars, taskVars
  <2>2. QED
    BY <2>1, <1>1
<1>9. CASE NextTime
  <2>1. Same
    BY <1>9 DEF NextTime, TimePasses, slotVars, taskVars
  <2>2. QED
    BY <2>1, <1>1
<1>10. CASE SlotEnds
  BY <1>10, SlotEndsKeeps
<1>11. CASE BackToVerilog
  BY <1>11, BackToVerilogKeeps
<1>12. CASE UNCHANGED vars
  <2>1. Same
    BY <1>12 DEF vars, slotVars, taskVars
  <2>2. QED
    BY <2>1, <1>1
<1>13. QED
  BY <1>2, <1>3, <1>4, <1>5, <1>6, <1>7, <1>8, <1>9, <1>10, <1>11, <1>12 DEF Next, Suspends

(* The calls of the task are made one at a time, each for the thread that   *)
(* has waited longest, and the end of none is missed: JD_veri_task_call and *)
(* task_call_action keep the queue, the busy flag, the call signal and the  *)
(* callback of done in agreement.                                           *)
THEOREM CallsAreSerial == Spec => []OneCallActive
<1>1. Init => TaskInv
  BY TaskInitial
<1>2. TaskInv /\ [Next]_vars => TaskInv'
  BY TaskInductive
<1>3. TaskInv => OneCallActive
  BY DEF TaskInv, CallInv
<1>4. QED
  BY <1>1, <1>2, <1>3, PTL DEF Spec
-----------------------------------------------------------------------------
(***************************************************************************)
(* The lists of a slot.  That the task is not listed twice rests on TaskInv *)
(***************************************************************************)
LEMMA EmptyInjective == IsInjective(<<>>)
<1>1. DOMAIN <<>> = {}
  OBVIOUS
<1>2. QED
  BY <1>1, Zenon DEF IsInjective

ListTypes ==
  /\ clocked_list \in Seq(Clock)
  /\ clocked \in [Port -> BOOLEAN] /\ tf_isynchronized \in BOOLEAN

ListInv == ListTypes /\ ListsAgree

LEMMA ListInitial == Init => ListInv
<1> SUFFICES ASSUME Init PROVE ListInv
  OBVIOUS
<1>1. /\ clocked_list = <<>> /\ changed_list = <<>> /\ tf_isynchronized = TRUE
      /\ clocked = [p \in Port |-> FALSE]
  BY DEF Init, SlotsInit, PortsInit
<1>2. Listing = {}
  BY <1>1, RangeEmpty DEF Listing
<1>3. ListTypes
  BY <1>1, EmptySeq DEF ListTypes
<1>4. \A p \in Port : ~clocked[p]
  BY <1>1
<1>5. IsInjective(clocked_list) /\ IsInjective(changed_list)
  BY <1>1, EmptyInjective
<1>6. QED
  BY <1>1, <1>2, <1>3, <1>4, <1>5, Zenon DEF ListInv, ListsAgree

(* The steps that leave the lists alone *)
LEMMA ListSame ==
  ASSUME ListInv, UNCHANGED <<clocked_list, changed_list, clocked>>,
         tf_isynchronized' \in BOOLEAN,
         turn' = "verilog" => tf_isynchronized' \/ (turn = "verilog" /\ UNCHANGED tf_isynchronized)
  PROVE  ListInv'
<1>1. Listing' = Listing
  BY DEF Listing
<1>2. ListTypes'
  BY DEF ListInv, ListTypes
<1>3. QED
  BY <1>1, <1>2, Zenon DEF ListInv, ListsAgree

LEMMA ListPortChanges == ASSUME TaskInv, ListInv, PortChanges PROVE ListInv'
<1>1. PICK p \in Port, v \in Value : ValueChanges(p, v)
  BY DEF PortChanges
<1>2. CASE p \notin monitored
  <2>1. UNCHANGED <<turn, clocked_list, changed_list, clocked, tf_isynchronized>>
    BY <1>1, <1>2 DEF ValueChanges
  <2>2. QED
    BY <2>1, ListSame DEF ListInv, ListTypes
<1>3. CASE p \in monitored /\ clocked[p]
  <2>1. UNCHANGED <<clocked_list, changed_list>> /\ tf_isynchronized' = TRUE
    BY <1>1, <1>3 DEF ValueChanges, Listed
  <2>2. clocked' = clocked
    BY <1>1, <1>3 DEF ValueChanges, ListInv, ListTypes
  <2>3. QED
    BY <2>1, <2>2, ListSame
<1>4. CASE p \in monitored /\ ~clocked[p]
  <2>1. /\ clocked' = [clocked EXCEPT ![p] = TRUE] /\ tf_isynchronized' = TRUE
        /\ IF p \in Clock
           THEN clocked_list' = Append(clocked_list, p) /\ changed_list' = changed_list
           ELSE changed_list' = Append(changed_list, p) /\ clocked_list' = clocked_list
    BY <1>1, <1>4 DEF ValueChanges, Listed
  <2>2. p \notin Listing
    BY <1>4 DEF ListInv, ListsAgree
  <2>3. p \notin Range(clocked_list) /\ p \notin Range(changed_list)
    BY <2>2 DEF Listing
  <2>4. /\ clocked_list' \in Seq(Clock) /\ IsInjective(clocked_list') /\ IsInjective(changed_list')
        /\ Listing' = Listing \cup {p}
    <3>1. CASE p \in Clock
      <4>1. clocked_list \in Seq(Clock) /\ IsInjective(clocked_list) /\ IsInjective(changed_list)
        BY DEF ListInv, ListTypes, ListsAgree
      <4>2. clocked_list' = Append(clocked_list, p) /\ changed_list' = changed_list
        BY <2>1, <3>1
      <4>3. /\ clocked_list' \in Seq(Clock) /\ Range(clocked_list') = Range(clocked_list) \cup {p}
            /\ IsInjective(clocked_list')
        BY <4>1, <4>2, <3>1, <2>3, AppendRange, AppendInjects
      <4>4. QED
        BY <4>1, <4>2, <4>3 DEF Listing
    <3>2. CASE p \notin Clock
      <4>1. p \in Object
        BY <3>2 DEF Object, Data
      <4>2. /\ changed_list \in Seq(Object) /\ clocked_list \in Seq(Clock)
            /\ IsInjective(clocked_list) /\ IsInjective(changed_list)
        BY DEF ListInv, ListTypes, ListsAgree, TaskInv, Types
      <4>3. changed_list' = Append(changed_list, p) /\ clocked_list' = clocked_list
        BY <2>1, <3>2
      <4>4. Range(changed_list') = Range(changed_list) \cup {p} /\ IsInjective(changed_list')
        BY <4>1, <4>2, <4>3, <2>3, AppendRange, AppendInjects
      <4>5. QED
        BY <4>2, <4>3, <4>4 DEF Listing
    <3>3. QED
      BY <3>1, <3>2
  <2>5. clocked' \in [Port -> BOOLEAN] /\ \A x \in Port : clocked'[x] <=> x = p \/ clocked[x]
    BY <2>1 DEF ListInv, ListTypes
  <2>6. \A x \in Port : clocked'[x] <=> x \in Listing'
    BY <2>4, <2>5, Zenon DEF ListInv, ListsAgree
  <2>7. QED
    BY <2>1, <2>4, <2>5, <2>6, Zenon DEF ListInv, ListTypes, ListsAgree
<1>5. QED
  BY <1>2, <1>3, <1>4

LEMMA ListTaskFinishes == ASSUME TaskInv, ListInv, TaskFinishes PROVE ListInv'
<1>1. turn = "verilog" /\ call = 1 /\ done_vcl /\ ~TaskListed
  BY DEF TaskFinishes, TaskEnds, TaskInv, CallInv
<1>2. /\ changed_list' = Append(changed_list, Task) /\ tf_isynchronized' = TRUE
      /\ UNCHANGED <<clocked_list, clocked>>
  BY <1>1 DEF TaskFinishes, TaskEnds, portVars
<1>3. Task \in Object /\ Task \notin Range(changed_list)
  BY <1>1 DEF Object, TaskListed
<1>4. IsInjective(changed_list') /\ Listing' = Listing \cup {Task}
  <2>1. changed_list \in Seq(Object) /\ IsInjective(changed_list)
    BY DEF TaskInv, Types, ListInv, ListsAgree
  <2>2. Range(changed_list') = Range(changed_list) \cup {Task} /\ IsInjective(changed_list')
    BY <1>2, <1>3, <2>1, AppendRange, AppendInjects
  <2>3. QED
    BY <1>2, <2>2 DEF Listing
<1>5. \A p \in Port : clocked'[p] <=> p \in Listing'
  BY <1>2, <1>4, TaskNoPort DEF ListInv, ListsAgree
<1>6. QED
  BY <1>2, <1>4, <1>5, Zenon DEF ListInv, ListTypes, ListsAgree

LEMMA ListBackToVerilog == ASSUME ListInv, BackToVerilog PROVE ListInv'
<1>1. /\ clocked_list' = <<>> /\ changed_list' = <<>> /\ tf_isynchronized' = FALSE
      /\ clocked' = [p \in Port |-> clocked[p] /\ p \notin Listing]
  BY DEF BackToVerilog, ClearPorts
<1>2. \A p \in Port : ~clocked'[p]
  BY <1>1 DEF ListInv, ListsAgree
<1>3. Listing' = {}
  BY <1>1, RangeEmpty DEF Listing
<1>4. ListTypes'
  BY <1>1, EmptySeq DEF ListTypes
<1>5. IsInjective(clocked_list') /\ IsInjective(changed_list')
  BY <1>1, EmptyInjective
<1>6. QED
  BY <1>2, <1>3, <1>4, <1>5, Zenon DEF ListInv, ListsAgree

LEMMA ListInductive == TaskInv /\ ListInv /\ [Next]_vars => ListInv'
<1> SUFFICES ASSUME TaskInv, ListInv, [Next]_vars PROVE ListInv'
  OBVIOUS
<1> DEFINE Same == UNCHANGED <<turn, clocked_list, changed_list, clocked, tf_isynchronized>>
<1>1. ASSUME Same PROVE ListInv'
  BY <1>1, ListSame DEF ListInv, ListTypes
<1>2. ASSUME NEW t \in Thread, WaitForEdge(t) PROVE ListInv'
  <2>1. Same
    BY <1>2 DEF WaitForEdge, SyncOnPort, Sleeps
  <2>2. QED
    BY <2>1, <1>1
<1>3. ASSUME NEW t \in Thread, CallTask(t) PROVE ListInv'
  <2>1. Same
    BY <1>3 DEF CallTask, VeriTaskCall, Sleeps
  <2>2. QED
    BY <2>1, <1>1
<1>4. ASSUME NEW t \in Thread, DelayItself(t) PROVE ListInv'
  <2>1. Same
    BY <1>4 DEF DelayItself, UnitDelay, Sleeps
  <2>2. QED
    BY <2>1, <1>1
<1>5. ASSUME NEW t \in Thread, DriveAClock(t) PROVE ListInv'
  <2>1. Same
    BY <1>5 DEF DriveAClock, DriveClock, StopClock, slotVars, portVars
  <2>2. QED
    BY <2>1, <1>1
<1>6. CASE PortChanges
  BY <1>6, ListPortChanges
<1>7. CASE TaskFinishes
  BY <1>7, ListTaskFinishes
<1>8. CASE DelayEnds
  <2>1. /\ turn = "verilog" /\ UNCHANGED <<clocked_list, changed_list, clocked>>
        /\ tf_isynchronized' = TRUE \/ UNCHANGED tf_isynchronized
    BY <1>8 DEF DelayEnds, Reactivate, UnitDelayEnd, DriveClockSeq, slotVars, portVars
  <2>2. QED
    BY <2>1, ListSame DEF ListInv, ListTypes
<1>9. CASE NextTime
  <2>1. Same
    BY <1>9 DEF NextTime, TimePasses, slotVars, portVars
  <2>2. QED
    BY <2>1, <1>1
<1>10. CASE SlotEnds
  <2>1. turn' = "jeda" /\ UNCHANGED <<clocked_list, changed_list, clocked, tf_isynchronized>>
    BY <1>10 DEF SlotEnds, ServeAll, ServePorts
  <2>2. QED
    BY <2>1, ListSame DEF ListInv, ListTypes
<1>11. CASE BackToVerilog
  BY <1>11, ListBackToVerilog
<1>12. CASE UNCHANGED vars
  <2>1. Same
    BY <1>12 DEF vars, slotVars, portVars
  <2>2. QED
    BY <2>1, <1>1
<1>13. QED
  BY <1>2, <1>3, <1>4, <1>5, <1>6, <1>7, <1>8, <1>9, <1>10, <1>11, <1>12 DEF Next, Suspends

(* A port or the task is linked into the list of a slot once, its flag      *)
(* clocked tells so, and a slot with a list that is not empty is served:    *)
(* the callbacks of Verilog and the clean-up at the end of a slot overwrite *)
(* no link and drop no change, whatever the program does in between.        *)
THEOREM ListsAlwaysAgree == Spec => []ListsAgree
<1>1. Init => TaskInv /\ ListInv
  BY TaskInitial, ListInitial
<1>2. TaskInv /\ ListInv /\ [Next]_vars => (TaskInv /\ ListInv)'
  BY TaskInductive, ListInductive
<1>3. TaskInv /\ ListInv => ListsAgree
  BY DEF ListInv
<1>4. QED
  BY <1>1, <1>2, <1>3, PTL DEF Spec
-----------------------------------------------------------------------------
(***************************************************************************)
(* Sequences of sequences                                                  *)
(***************************************************************************)
IsFlatten(flatten, seqs) ==
  flatten = [i \in 1 .. Len(seqs) |-> IF i = 1 THEN seqs[i] ELSE flatten[i - 1] \o seqs[i]]

LEMMA FlattenSolution ==
  ASSUME NEW X, NEW seqs \in Seq(Seq(X)), Len(seqs) # 0
  PROVE  \E flatten \in [1 .. Len(seqs) -> Seq(X)] :
           IsFlatten(flatten, seqs) /\ FlattenSeq(seqs) = flatten[Len(seqs)]
<1> DEFINE D == 1 .. Len(seqs)
           flat == CHOOSE flatten : IsFlatten(flatten, seqs)
           pred == [i \in D |-> IF i = 1 THEN 1 ELSE i - 1]
           measure == [i \in D |-> i - 1]
           step == [x \in D \X Seq(X) |-> x[2] \o seqs[x[1]]]
<1>1. FlattenSeq(seqs) = flat[Len(seqs)]
  BY DEF FlattenSeq, IsFlatten
<1>2. 1 \in D /\ Len(seqs) \in Nat /\ seqs[1] \in Seq(X)
  OBVIOUS
<1>3. IsRecursion(D, Seq(X), seqs[1], step, pred, measure)
  <2>1. ASSUME NEW x \in D \X Seq(X) PROVE x[2] \o seqs[x[1]] \in Seq(X)
    <3>1. x[2] \in Seq(X) /\ seqs[x[1]] \in Seq(X)
      OBVIOUS
    <3>. QED BY <3>1
  <2>2. step \in [D \X Seq(X) -> Seq(X)]
    BY <2>1, Zenon
  <2>3. pred \in [D -> D] /\ measure \in [D -> Nat]
    BY <1>2
  <2>4. ASSUME NEW d \in D, measure[d] # 0 PROVE measure[pred[d]] < measure[d]
    BY <2>4, <1>2
  <2>. QED BY <1>2, <2>2, <2>3, <2>4 DEF IsRecursion
<1>4. PICK f \in [D -> Seq(X)] : Solves(f, D, seqs[1], step, pred, measure)
  <2> HIDE DEF D, pred, measure, step
  <2>. QED BY <1>3, Solution
<1>5. ASSUME NEW i \in D PROVE f[i] = IF i = 1 THEN seqs[i] ELSE f[i - 1] \o seqs[i]
  <2>1. CASE i = 1
    <3>1. measure[1] = 0
      BY <1>2
    <3>2. f[1] = seqs[1]
      BY <3>1, <1>2, <1>4, Zenon DEF Solves
    <3>. QED BY <2>1, <3>2
  <2>2. CASE i # 1
    <3>1. i - 1 \in D /\ measure[i] # 0 /\ pred[i] = i - 1
      BY <2>2, <1>2
    <3>2. f[i] = step[<<i, f[i - 1]>>]
      BY <3>1, <1>4 DEF Solves
    <3>3. <<i, f[i - 1]>> \in D \X Seq(X)
      BY <3>1
    <3>. QED BY <2>2, <3>2, <3>3
  <2>. QED BY <2>1, <2>2
<1>6. IsFlatten(f, seqs)
  BY <1>5 DEF IsFlatten
<1>7. IsFlatten(flat, seqs)
  BY <1>6
<1> HIDE DEF flat
<1>8. ASSUME NEW i \in D PROVE flat[i] = f[i]
  <2> DEFINE Bad == {n \in D : flat[n] # f[n]}
  <2> SUFFICES ASSUME Bad # {} PROVE FALSE
    OBVIOUS
  <2>1. PICK n \in Bad : \A k \in Bad : n <= k
    <3>1. Bad \in SUBSET Nat
      OBVIOUS
    <3> HIDE DEF Bad
    <3>. QED BY <3>1, LeastNumber
  <2>2. flat[n] = IF n = 1 THEN seqs[n] ELSE flat[n - 1] \o seqs[n]
    BY <1>7 DEF IsFlatten
  <2>3. n # 1 => n - 1 \in D /\ n - 1 \notin Bad
    BY <2>1, <1>2
  <2>. QED BY <2>2, <2>3, <1>5
<1>9. flat = f
  <2>1. flat = [i \in D |-> flat[i]]
    BY <1>7 DEF IsFlatten
  <2>. QED BY <2>1, <1>8
<1>. QED BY <1>1, <1>6, <1>9

(* What is in the sequences of seqs, and how often *)
LEMMA FlattenFacts ==
  ASSUME NEW X, NEW seqs \in Seq(Seq(X)),
         \A i \in DOMAIN seqs : IsInjective(seqs[i]),
         \A i, j \in DOMAIN seqs : i # j => Range(seqs[i]) \cap Range(seqs[j]) = {}
  PROVE  /\ FlattenSeq(seqs) \in Seq(X) /\ IsInjective(FlattenSeq(seqs))
         /\ \A x : x \in Range(FlattenSeq(seqs)) <=> \E i \in DOMAIN seqs : x \in Range(seqs[i])
<1>1. CASE Len(seqs) = 0
  <2>1. FlattenSeq(seqs) = <<>> /\ DOMAIN seqs = {}
    BY <1>1 DEF FlattenSeq
  <2>2. IsInjective(<<>>) /\ \A x : x \notin Range(<<>>)
    BY EmptyInjective, RangeEmpty
  <2>3. <<>> \in Seq(X)
    OBVIOUS
  <2>. QED BY <2>1, <2>2, <2>3, Zenon
<1>2. CASE Len(seqs) # 0
  <2>1. PICK flat \in [1 .. Len(seqs) -> Seq(X)] :
               IsFlatten(flat, seqs) /\ FlattenSeq(seqs) = flat[Len(seqs)]
    BY <1>2, FlattenSolution
  <2> DEFINE Held(n) == \A x : x \in Range(flat[n]) <=> \E i \in 1 .. n : x \in Range(seqs[i])
             Good(n) == IsInjective(flat[n]) /\ Held(n)
             T == {n \in Nat : n + 1 <= Len(seqs) => Good(n + 1)}
  <2>2. /\ Len(seqs) \in Nat /\ DOMAIN seqs = 1 .. Len(seqs) /\ Len(seqs) \in 1 .. Len(seqs)
        /\ \A i \in 1 .. Len(seqs) : seqs[i] \in Seq(X) /\ flat[i] \in Seq(X)
    <3>1. Len(seqs) \in Nat /\ DOMAIN seqs = 1 .. Len(seqs)
      OBVIOUS
    <3>2. Len(seqs) \in 1 .. Len(seqs)
      BY <3>1, <1>2
    <3>3. \A i \in 1 .. Len(seqs) : seqs[i] \in Seq(X)
      OBVIOUS
    <3>4. \A i \in 1 .. Len(seqs) : flat[i] \in Seq(X)
      BY <2>1, Zenon
    <3>. QED BY <3>1, <3>2, <3>3, <3>4, Zenon
  <2>3. \A i \in 1 .. Len(seqs) : flat[i] = IF i = 1 THEN seqs[i] ELSE flat[i - 1] \o seqs[i]
    BY <2>1, Zenon DEF IsFlatten
  <2>4. 0 \in T
    <3>1. flat[1] = seqs[1]
      BY <1>2, <2>2, <2>3
    <3>2. IsInjective(flat[1]) /\ Held(1)
      BY <3>1, <1>2, <2>2
    <3>. QED BY <3>2
  <2>5. ASSUME NEW n \in T PROVE n + 1 \in T
    <3>0. n \in Nat
      OBVIOUS
    <3> SUFFICES ASSUME (n + 1) + 1 <= Len(seqs) PROVE Good((n + 1) + 1)
      BY <3>0
    <3> DEFINE m == n + 1
    <3>1. /\ m \in 1 .. Len(seqs) /\ m + 1 \in 1 .. Len(seqs) /\ m + 1 # 1 /\ (m + 1) - 1 = m
          /\ \A i : i \in 1 .. m + 1 <=> i \in 1 .. m \/ i = m + 1
          /\ \A i \in 1 .. m : i \in DOMAIN seqs /\ i # m + 1
      BY <3>0, <2>2, SMTT(30)
    <3>2. Good(m)
      BY <3>0, <3>1
    <3> HIDE DEF m
    <3>3. flat[m + 1] = flat[m] \o seqs[m + 1]
      BY <3>1, <2>3, Zenon
    <3>4. flat[m] \in Seq(X) /\ seqs[m + 1] \in Seq(X)
      BY <3>1, <2>2, Zenon
    <3>5. IsInjective(seqs[m + 1]) /\ \A i \in 1 .. m : Range(seqs[i]) \cap Range(seqs[m + 1]) = {}
      BY <3>1, <2>2, Zenon
    <3>6. Range(flat[m]) \cap Range(seqs[m + 1]) = {}
      BY <3>2, <3>5, Zenon
    <3>7. Range(flat[m + 1]) = Range(flat[m]) \cup Range(seqs[m + 1])
      BY <3>3, <3>4, JoinedRange
    <3>8. IsInjective(flat[m + 1])
      BY <3>2, <3>3, <3>4, <3>5, <3>6, JoinedOnce
    <3>9. Held(m + 1)
      BY <3>1, <3>2, <3>7, Zenon
    <3>. QED BY <3>8, <3>9 DEF m
  <2>6. T = Nat
    <3>1. T \in SUBSET Nat
      OBVIOUS
    <3> HIDE DEF T
    <3>. QED BY <3>1, <2>4, <2>5, AllNumbers
  <2>7. Good(Len(seqs))
    <3>1. Len(seqs) - 1 \in Nat /\ (Len(seqs) - 1) + 1 = Len(seqs) /\ Len(seqs) <= Len(seqs)
      BY <1>2, <2>2
    <3>2. Len(seqs) - 1 \in T
      BY <3>1, <2>6
    <3> HIDE DEF Good
    <3>. QED BY <3>1, <3>2
  <2>8. flat[Len(seqs)] \in Seq(X)
    BY <2>2
  <2>. QED BY <2>1, <2>2, <2>7, <2>8, Zenon
<1>. QED BY <1>1, <1>2
-----------------------------------------------------------------------------
(***************************************************************************)
(* The lists of requests of a port                                         *)
(***************************************************************************)
Request == [thread : Thread, num_cycle : Nat]

ThreadsOf(list) == [i \in DOMAIN list |-> list[i].thread]

Sleepers(list) == {r.thread : r \in Range(list)}

LEMMA ThreadsOfFacts ==
  ASSUME NEW list \in Seq(Request)
  PROVE  /\ ThreadsOf(list) \in Seq(Thread) /\ Len(ThreadsOf(list)) = Len(list)
         /\ Range(ThreadsOf(list)) = Sleepers(list)
         /\ IsInjective(ThreadsOf(list)) <=>
              \A i, j \in DOMAIN list : list[i].thread = list[j].thread => i = j
<1>1. /\ DOMAIN ThreadsOf(list) = DOMAIN list /\ DOMAIN list = 1 .. Len(list)
      /\ \A i \in DOMAIN list : ThreadsOf(list)[i] = list[i].thread
      /\ \A i \in DOMAIN list : list[i].thread \in Thread
      /\ ThreadsOf(list) \in Seq(Thread) /\ Len(ThreadsOf(list)) = Len(list)
  <2> DEFINE u == ThreadsOf(list)
  <2>1. \A i \in 1 .. Len(list) : list[i] \in Request
    OBVIOUS
  <2>2. /\ u = [i \in 1 .. Len(list) |-> list[i].thread] /\ Len(list) \in Nat
        /\ \A i \in 1 .. Len(list) : list[i].thread \in Thread
    BY <2>1 DEF ThreadsOf, Request
  <2> HIDE DEF u
  <2>3. /\ u \in Seq(Thread) /\ Len(u) = Len(list) /\ DOMAIN u = 1 .. Len(list)
        /\ \A i \in 1 .. Len(list) : u[i] = list[i].thread
    BY <2>2
  <2>4. DOMAIN list = 1 .. Len(list)
    OBVIOUS
  <2>. QED BY <2>2, <2>3, <2>4 DEF u
<1>2. \A x : x \in Range(ThreadsOf(list)) <=> \E i \in DOMAIN list : x = list[i].thread
  BY <1>1, Zenon DEF Range
<1>3. \A x : x \in Sleepers(list) <=> \E i \in DOMAIN list : x = list[i].thread
  BY Zenon DEF Sleepers, Range
<1>4. IsInjective(ThreadsOf(list)) <=>
              \A i, j \in DOMAIN list : list[i].thread = list[j].thread => i = j
  BY <1>1, Zenon DEF IsInjective
<1>. QED BY <1>1, <1>2, <1>3, <1>4, Zenon

LEMMA ThreadsJoined ==
  ASSUME NEW a \in Seq(Request), NEW b \in Seq(Request)
  PROVE  a \o b \in Seq(Request) /\ ThreadsOf(a \o b) = ThreadsOf(a) \o ThreadsOf(b)
<1> DEFINE u == ThreadsOf(a)
           v == ThreadsOf(b)
           w == ThreadsOf(a \o b)
<1>1. /\ a \o b \in Seq(Request) /\ Len(a \o b) = Len(a) + Len(b)
      /\ Len(a) \in Nat /\ Len(b) \in Nat
      /\ \A i \in 1 .. Len(a) + Len(b) :
           (a \o b)[i] = IF i <= Len(a) THEN a[i] ELSE b[i - Len(a)]
  BY ConcatProperties
<1>2. /\ u \in Seq(Thread) /\ Len(u) = Len(a) /\ v \in Seq(Thread) /\ Len(v) = Len(b)
      /\ w \in Seq(Thread) /\ Len(w) = Len(a) + Len(b)
  BY <1>1, ThreadsOfFacts
<1>3. /\ \A i \in 1 .. Len(a) : u[i] = a[i].thread
      /\ \A i \in 1 .. Len(b) : v[i] = b[i].thread
      /\ \A i \in 1 .. Len(a) + Len(b) : w[i] = (a \o b)[i].thread
  BY <1>1 DEF ThreadsOf
<1> HIDE DEF u, v, w
<1>4. /\ u \o v \in Seq(Thread) /\ Len(u \o v) = Len(a) + Len(b)
      /\ \A i \in 1 .. Len(a) + Len(b) :
           (u \o v)[i] = IF i <= Len(a) THEN u[i] ELSE v[i - Len(a)]
  <2>1. /\ u \o v \in Seq(Thread) /\ Len(u \o v) = Len(u) + Len(v)
        /\ \A i \in 1 .. Len(u) + Len(v) :
             (u \o v)[i] = IF i <= Len(u) THEN u[i] ELSE v[i - Len(u)]
    <3>1. u \in Seq(Thread) /\ v \in Seq(Thread)
      BY <1>2
    <3>. QED BY <3>1, ConcatProperties, Zenon
  <2>. QED BY <1>2, <2>1, Zenon
<1>5. ASSUME NEW i \in 1 .. Len(a) + Len(b) PROVE w[i] = (u \o v)[i]
  <2>1. /\ w[i] = (a \o b)[i].thread
        /\ (a \o b)[i] = IF i <= Len(a) THEN a[i] ELSE b[i - Len(a)]
        /\ (u \o v)[i] = IF i <= Len(a) THEN u[i] ELSE v[i - Len(a)]
    BY <1>1, <1>3, <1>4, Zenon
  <2>2. CASE i <= Len(a)
    <3>1. i \in 1 .. Len(a)
      BY <2>2
    <3>2. u[i] = a[i].thread
      BY <3>1, <1>3, Zenon
    <3>. QED BY <3>2, <2>1, <2>2, Zenon
  <2>3. CASE ~(i <= Len(a))
    <3>1. i - Len(a) \in 1 .. Len(b)
      BY <2>3, <1>1
    <3>2. v[i - Len(a)] = b[i - Len(a)].thread
      BY <3>1, <1>3, Zenon
    <3>. QED BY <3>2, <2>1, <2>3, Zenon
  <2>. QED BY <2>2, <2>3, Zenon
<1>6. w = u \o v
  BY <1>2, <1>4, <1>5, SeqEqual
<1>. QED BY <1>1, <1>6 DEF u, v, w

(* Some of the requests of a list *)
LEMMA SomeRequests ==
  ASSUME NEW list \in Seq(Request), IsInjective(ThreadsOf(list)), NEW S
  PROVE  /\ Those(list, S) \in Seq(Request) /\ Range(Those(list, S)) = Range(list) \cap S
         /\ IsInjective(ThreadsOf(Those(list, S)))
<1> DEFINE k == Those(list, S)
<1>1. \A i, j \in DOMAIN list : list[i].thread = list[j].thread => i = j
  BY ThreadsOfFacts
<1>2. IsInjective(list)
  BY <1>1, Zenon DEF IsInjective
<1>3. k \in Seq(Request) /\ Range(k) = Range(list) \cap S /\ IsInjective(k)
  BY <1>2, ThoseRange, ThoseOnce
<1> HIDE DEF k
<1>4. ASSUME NEW i \in DOMAIN k, NEW j \in DOMAIN k, k[i].thread = k[j].thread PROVE i = j
  <2>1. k[i] \in Range(list) /\ k[j] \in Range(list)
    BY <1>3 DEF Range
  <2>2. PICK m \in DOMAIN list : k[i] = list[m]
    BY <2>1, Zenon DEF Range
  <2>3. PICK n \in DOMAIN list : k[j] = list[n]
    BY <2>1, Zenon DEF Range
  <2>4. k[i] = k[j]
    BY <2>2, <2>3, <1>1, <1>4, Zenon
  <2>. QED BY <2>4, <1>3, Zenon DEF IsInjective
<1>5. IsInjective(ThreadsOf(k))
  BY <1>3, <1>4, ThreadsOfFacts
<1>. QED BY <1>3, <1>5 DEF k

LeftOf(r) == [r EXCEPT !.num_cycle = @ - 1]

LEMMA RemainingFacts ==
  ASSUME NEW list \in Seq(Request), IsInjective(ThreadsOf(list))
  PROVE  /\ Remaining(list) \in Seq(Request) /\ IsInjective(ThreadsOf(Remaining(list)))
         /\ \A r : r \in Range(Remaining(list)) <=>
                     \E q \in Range(list) : q.num_cycle # 0 /\ r = LeftOf(q)
<1> DEFINE k == Those(list, Range(list) \ Due(list))
           m == Remaining(list)
<1>1. /\ k \in Seq(Request) /\ Range(k) = Range(list) \ Due(list)
      /\ IsInjective(ThreadsOf(k))
  BY SomeRequests
<1>2. m = [i \in DOMAIN k |-> LeftOf(k[i])]
  BY DEF Remaining, LeftOf
<1> HIDE DEF k, m
<1>3. \A i \in DOMAIN k : k[i] \in Range(k)
  BY Zenon DEF Range
<1>4. ASSUME NEW q \in Range(k)
      PROVE  q \in Request /\ q.num_cycle # 0 /\ LeftOf(q) \in Request /\ LeftOf(q).thread = q.thread
  <2>1. q \in Request /\ q \in Range(list) /\ q \notin Due(list)
    BY <1>1 DEF Range
  <2>2. q.num_cycle # 0
    BY <2>1 DEF Due
  <2>. QED BY <2>1, <2>2 DEF LeftOf, Request
<1>5. m \in Seq(Request) /\ DOMAIN m = DOMAIN k /\ \A i \in DOMAIN k : m[i] = LeftOf(k[i])
  BY <1>1, <1>2, <1>3, <1>4
<1>6. \A i, j \in DOMAIN m : m[i].thread = m[j].thread => i = j
  BY <1>1, <1>3, <1>4, <1>5, ThreadsOfFacts
<1>7. IsInjective(ThreadsOf(m))
  BY <1>5, <1>6, ThreadsOfFacts
<1>8. \A r : r \in Range(m) <=> \E q \in Range(k) : r = LeftOf(q)
  BY <1>5, Zenon DEF Range
<1>9. \A q : q \in Range(k) <=> q \in Range(list) /\ q.num_cycle # 0
  BY <1>1 DEF Due
<1>. QED BY <1>5, <1>7, <1>8, <1>9 DEF m
-----------------------------------------------------------------------------
(***************************************************************************)
(* Every thread is in one place                                            *)
(***************************************************************************)
AtReady == <<"ready", None, "any">>
AtTask  == <<"task", None, "any">>
AtDelay == <<"delay", None, "any">>
AtPort(p, e) == <<"port", p, e>>

Places == {AtReady, AtTask, AtDelay} \cup {AtPort(p, e) : p \in Port, e \in Edges}

LEMMA PlacesDiffer ==
  /\ AtReady # AtTask /\ AtReady # AtDelay /\ AtTask # AtDelay
  /\ \A p, e : AtPort(p, e) # AtReady /\ AtPort(p, e) # AtTask /\ AtPort(p, e) # AtDelay
  /\ \A p, e, q, f : AtPort(p, e) = AtPort(q, f) <=> p = q /\ e = f
  /\ AtReady \in Places /\ AtTask \in Places /\ AtDelay \in Places
  /\ \A p \in Port, e \in Edges : AtPort(p, e) \in Places
<1>1. /\ AtReady # AtTask /\ AtReady # AtDelay /\ AtTask # AtDelay
      /\ \A p, e : AtPort(p, e) # AtReady /\ AtPort(p, e) # AtTask /\ AtPort(p, e) # AtDelay
      /\ \A p, e, q, f : AtPort(p, e) = AtPort(q, f) <=> p = q /\ e = f
  BY DEF AtReady, AtTask, AtDelay, AtPort
<1>2. AtReady \in Places /\ AtTask \in Places /\ AtDelay \in Places
  BY DEF Places
<1>3. \A p \in Port, e \in Edges : AtPort(p, e) \in Places
  BY DEF Places
<1>. QED BY <1>1, <1>2, <1>3, Zenon

(* at tells the place of every thread *)
Standing(at) ==
  \A t \in Thread :
    /\ at[t] = AtReady <=> t \in Range(ready)
    /\ at[t] = AtTask  <=> t \in Range(callers)
    /\ at[t] = AtDelay <=> t \in Range(delay_queue)
    /\ \A p \in Port, e \in Edges : at[t] = AtPort(p, e) <=> t \in Sleepers(requests[p][e])

PlaceTypes ==
  /\ ready \in Seq(Thread) /\ IsInjective(ready)
  /\ callers \in Seq(Thread) /\ IsInjective(callers)
  /\ requests \in [Port -> [Edges -> Seq(Request)]]
  /\ \A p \in Port, e \in Edges : IsInjective(ThreadsOf(requests[p][e]))

PlaceInv == PlaceTypes /\ \E at \in [Thread -> Places] : Standing(at)

(* The threads that JD_misctf_reason_sync wakes of a port: those that wait  *)
(* for its edge and have slept through all but one                          *)
Wakes(p, t) == \E e \in ServedLists(NewEdge(p)) : \E r \in Due(requests[p][e]) : r.thread = t

LEMMA ServedFacts ==
  ASSUME NEW p
  PROVE  /\ ServedLists(NewEdge(p)) \subseteq {"pos", "neg", "any"}
         /\ ServedLists(NewEdge(p)) \subseteq Edges
         /\ ~("pos" \in ServedLists(NewEdge(p)) /\ "neg" \in ServedLists(NewEdge(p)))
BY DEF ServedLists, NewEdge, EdgeOf, Edges

LEMMA WokenFacts ==
  ASSUME NEW p \in Port, PlaceTypes,
         \A e, f \in Edges : e # f => Sleepers(requests[p][e]) \cap Sleepers(requests[p][f]) = {}
  PROVE  /\ Woken(p) \in Seq(Thread) /\ IsInjective(Woken(p))
         /\ \A t : t \in Range(Woken(p)) <=> Wakes(p, t)
<1> DEFINE served == ServedLists(NewEdge(p))
           due(e) == IF e \in served THEN Those(requests[p][e], Due(requests[p][e])) ELSE <<>>
           w(e) == ThreadsOf(due(e))
           all == due("pos") \o due("neg") \o due("any")
<1>1. ASSUME NEW e \in Edges
      PROVE  /\ due(e) \in Seq(Request) /\ IsInjective(w(e)) /\ w(e) \in Seq(Thread)
             /\ \A t : t \in Range(w(e)) <=> e \in served /\ \E r \in Due(requests[p][e]) : r.thread = t
             /\ Range(w(e)) \subseteq Sleepers(requests[p][e])
  <2>1. requests[p][e] \in Seq(Request) /\ IsInjective(ThreadsOf(requests[p][e]))
    BY DEF PlaceTypes
  <2>2. CASE e \in served
    <3>1. /\ due(e) \in Seq(Request) /\ IsInjective(w(e))
          /\ Range(due(e)) = Range(requests[p][e]) \cap Due(requests[p][e])
      BY <2>1, <2>2, SomeRequests
    <3>2. Range(due(e)) = Due(requests[p][e]) /\ Due(requests[p][e]) \subseteq Range(requests[p][e])
      BY <3>1 DEF Due
    <3> HIDE DEF due
    <3>3. w(e) \in Seq(Thread) /\ Range(w(e)) = Sleepers(due(e))
      BY <3>1, ThreadsOfFacts
    <3>. QED BY <2>2, <3>1, <3>2, <3>3, Zenon DEF Sleepers
  <2>3. CASE e \notin served
    <3>1. due(e) = <<>>
      BY <2>3
    <3>2. ThreadsOf(<<>>) = <<>>
      BY DEF ThreadsOf
    <3>3. <<>> \in Seq(Request) /\ <<>> \in Seq(Thread) /\ IsInjective(<<>>) /\ \A t : t \notin Range(<<>>)
      BY EmptySeq, EmptyInjective, RangeEmpty, Zenon
    <3>. QED BY <2>3, <3>1, <3>2, <3>3
  <2>. QED BY <2>2, <2>3
<1>2. "pos" \in Edges /\ "neg" \in Edges /\ "any" \in Edges
  BY DEF Edges
<1>3. Woken(p) = ThreadsOf(all)
  BY DEF Woken, ThreadsOf
<1>4. served \subseteq {"pos", "neg", "any"}
  BY ServedFacts
<1> HIDE DEF due, served
<1>5. ThreadsOf(all) = w("pos") \o w("neg") \o w("any")
  <2>1. due("pos") \o due("neg") \in Seq(Request)
    BY <1>1, <1>2, ThreadsJoined
  <2>2. ThreadsOf(due("pos") \o due("neg")) = w("pos") \o w("neg")
    BY <1>1, <1>2, ThreadsJoined
  <2>3. ThreadsOf(all) = ThreadsOf(due("pos") \o due("neg")) \o w("any")
    BY <1>1, <1>2, <2>1, ThreadsJoined
  <2>. QED BY <2>2, <2>3, Zenon
<1> HIDE DEF w
<1>6. \A e, f \in Edges : e # f => Range(w(e)) \cap Range(w(f)) = {}
  BY <1>1
<1> DEFINE first == w("pos") \o w("neg")
<1>7. /\ first \in Seq(Thread) /\ IsInjective(first)
      /\ Range(first) = Range(w("pos")) \cup Range(w("neg"))
  <2>1. /\ w("pos") \in Seq(Thread) /\ w("neg") \in Seq(Thread)
        /\ IsInjective(w("pos")) /\ IsInjective(w("neg"))
    BY <1>1, <1>2
  <2>2. Range(w("pos")) \cap Range(w("neg")) = {}
    BY <1>2, <1>6
  <2>. QED BY <2>1, <2>2, JoinedRange, JoinedOnce
<1> HIDE DEF first
<1>8. Range(first) \cap Range(w("any")) = {}
  BY <1>2, <1>6, <1>7
<1>9. /\ first \o w("any") \in Seq(Thread) /\ IsInjective(first \o w("any"))
      /\ Range(first \o w("any")) = Range(first) \cup Range(w("any"))
  BY <1>1, <1>2, <1>7, <1>8, JoinedRange, JoinedOnce
<1>10. Woken(p) = first \o w("any")
  BY <1>3, <1>5, Zenon DEF first
<1>11. \A t : t \in Range(Woken(p)) <=> \E e \in {"pos", "neg", "any"} : t \in Range(w(e))
  BY <1>7, <1>9, <1>10
<1>12. \A t : t \in Range(Woken(p)) <=> \E e \in served : \E r \in Due(requests[p][e]) : r.thread = t
  <2> DEFINE Hit(e, t) == \E r \in Due(requests[p][e]) : r.thread = t
  <2>1. \A e \in {"pos", "neg", "any"} : e \in Edges
    BY DEF Edges
  <2>2. \A e \in Edges : \A t : t \in Range(w(e)) <=> e \in served /\ Hit(e, t)
    BY <1>1
  <2> HIDE DEF Hit
  <2>3. \A t : t \in Range(Woken(p)) <=> \E e \in served : Hit(e, t)
    BY <1>4, <1>11, <2>1, <2>2, Zenon
  <2>. QED BY <2>3 DEF Hit
<1>13. \A t : t \in Range(Woken(p)) <=> Wakes(p, t)
  BY <1>12 DEF Wakes, served
<1>. QED BY <1>9, <1>10, <1>13

(* At first every thread is ready *)
LEMMA FirstReady ==
  ASSUME SlotsInit
  PROVE  ready \in Seq(Thread) /\ IsInjective(ready) /\ Range(ready) = Thread
<1> DEFINE n == Cardinality(Thread)
<1>1. ready \in [1 .. n -> Thread] /\ \A i, j \in 1 .. n : i # j => ready[i] # ready[j]
  BY DEF SlotsInit, SetToSeqs
<1>2. IsFiniteSet(Thread) /\ n \in Nat
  BY SlotsAssumption, FS_CardinalityType
<1>3. IsFiniteSet(1 .. n) /\ Cardinality(1 .. n) = n
  <2> HIDE DEF n
  <2>1. 1 \in Int /\ n \in Int /\ (1 > n => n = 0) /\ n - 1 + 1 = n
    BY <1>2
  <2>. QED BY <2>1, FS_Interval
<1>4. ready \in Injection(1 .. n, Thread)
  BY <1>1, Zenon DEF Injection, IsInjective
<1>5. ready \in Surjection(1 .. n, Thread)
  BY <1>2, <1>3, <1>4, FS_Injection
<1> HIDE DEF n
<1>6. ready \in Seq(Thread) /\ DOMAIN ready = 1 .. n
  BY <1>1, <1>2
<1>7. IsInjective(ready)
  BY <1>1, <1>6 DEF IsInjective
<1>8. Range(ready) = Thread
  BY <1>1, <1>5, <1>6 DEF Surjection, Range
<1>. QED BY <1>6, <1>7, <1>8

LEMMA PlaceInitial == Init => PlaceInv
<1> SUFFICES ASSUME Init PROVE PlaceInv
  OBVIOUS
<1>1. /\ callers = <<>> /\ delay_queue = <<>>
      /\ requests = [p \in Port |-> [e \in Edges |-> <<>>]]
  BY DEF Init, TaskInit, DelaysInit, PortsInit
<1>2. ready \in Seq(Thread) /\ IsInjective(ready) /\ Range(ready) = Thread
  BY FirstReady DEF Init
<1>3. /\ \A S : <<>> \in Seq(S)
      /\ IsInjective(<<>>) /\ ThreadsOf(<<>>) = <<>> /\ Range(<<>>) = {} /\ Sleepers(<<>>) = {}
  <2>1. \A S : <<>> \in Seq(S)
    OBVIOUS
  <2>2. Range(<<>>) = {}
    BY RangeEmpty
  <2>. QED BY <2>1, <2>2, EmptyInjective DEF ThreadsOf, Sleepers
<1>4. PlaceTypes
  BY <1>1, <1>2, <1>3 DEF PlaceTypes
<1> DEFINE at == [t \in Thread |-> AtReady]
<1>5. at \in [Thread -> Places] /\ \A t \in Thread : at[t] = AtReady
  BY PlacesDiffer
<1> HIDE DEF at
<1>6. \A p \in Port, e \in Edges : requests[p][e] = <<>>
  BY <1>1
<1>7. ASSUME NEW t \in Thread
      PROVE  /\ at[t] = AtReady <=> t \in Range(ready)
             /\ at[t] = AtTask  <=> t \in Range(callers)
             /\ at[t] = AtDelay <=> t \in Range(delay_queue)
             /\ \A p \in Port, e \in Edges : at[t] = AtPort(p, e) <=> t \in Sleepers(requests[p][e])
  BY <1>1, <1>2, <1>3, <1>5, <1>6, PlacesDiffer
<1>8. Standing(at)
  BY <1>7, Zenon DEF Standing
<1>. QED BY <1>4, <1>5, <1>8 DEF PlaceInv

(* The steps that move no thread *)
LEMMA NobodyMoves ==
  ASSUME PlaceInv, UNCHANGED <<ready, callers, requests>>,
         \A t \in Thread : t \in Range(delay_queue') <=> t \in Range(delay_queue)
  PROVE  PlaceInv'
<1>1. PICK at \in [Thread -> Places] : Standing(at)
  BY DEF PlaceInv
<1>2. Standing(at)'
  BY <1>1 DEF Standing
<1>3. PlaceTypes'
  BY DEF PlaceInv, PlaceTypes
<1>. QED BY <1>2, <1>3 DEF PlaceInv

LEMMA PlaceWaitForEdge ==
  ASSUME PlaceInv, NEW t \in Thread, WaitForEdge(t) PROVE PlaceInv'
<1>1. PICK p \in Port, e \in Edges, n \in Cycles : SyncOnPort(t, p, e, n)
  BY DEF WaitForEdge
<1> DEFINE q == [thread |-> t, num_cycle |-> CyclesLeft(n)]
           old == requests[p][e]
<1>2. /\ ready # <<>> /\ t = Head(ready) /\ ready' = Tail(ready)
      /\ requests' = [requests EXCEPT ![p][e] = Append(@, q)]
      /\ UNCHANGED <<callers, delay_queue>>
  BY <1>1 DEF WaitForEdge, SyncOnPort, Sleeps, Runs, taskVars, delayVars
<1>3. q \in Request /\ q.thread = t
  <2>1. n \in Nat
    BY PortsAssumption
  <2>. QED BY <2>1 DEF CyclesLeft, Request
<1>4. /\ ready' \in Seq(Thread) /\ IsInjective(ready') /\ Range(ready') = Range(ready) \ {t}
      /\ t \in Range(ready)
  BY <1>2, TailFacts DEF PlaceInv, PlaceTypes
<1>5. PICK at \in [Thread -> Places] : Standing(at)
  BY DEF PlaceInv
<1>6. old \in Seq(Request) /\ IsInjective(ThreadsOf(old)) /\ t \notin Sleepers(old)
  <2>1. at[t] = AtReady
    BY <1>4, <1>5 DEF Standing
  <2>2. t \notin Sleepers(old)
    BY <2>1, <1>5, PlacesDiffer DEF Standing
  <2>. QED BY <2>2 DEF PlaceInv, PlaceTypes
<1> HIDE DEF q, old
<1> DEFINE new == Append(old, q)
<1>7. /\ new \in Seq(Request) /\ IsInjective(ThreadsOf(new)) /\ Sleepers(new) = Sleepers(old) \cup {t}
  <2>1. new \in Seq(Request) /\ Range(new) = Range(old) \cup {q}
    BY <1>3, <1>6, AppendRange
  <2>2. ThreadsOf(old) \in Seq(Thread) /\ t \notin Range(ThreadsOf(old))
    BY <1>6, ThreadsOfFacts
  <2>3. ThreadsOf(new) = Append(ThreadsOf(old), t)
    <3>1. <<q>> \in Seq(Request) /\ new = old \o <<q>>
      BY <1>3, <1>6
    <3>2. ThreadsOf(<<q>>) = <<t>>
      BY <1>3 DEF ThreadsOf
    <3>3. ThreadsOf(new) = ThreadsOf(old) \o <<t>>
      BY <3>1, <3>2, <1>6, ThreadsJoined
    <3>. QED BY <3>3, <2>2
  <2>4. IsInjective(ThreadsOf(new))
    BY <2>2, <2>3, <1>6, AppendInjects
  <2>5. Sleepers(new) = Sleepers(old) \cup {t}
    BY <2>1, <1>3 DEF Sleepers
  <2>. QED BY <2>1, <2>4, <2>5
<1>8. /\ requests' \in [Port -> [Edges -> Seq(Request)]]
      /\ \A r \in Port, f \in Edges : requests'[r][f] = IF r = p /\ f = e THEN new ELSE requests[r][f]
  <2>1. requests' = [requests EXCEPT ![p][e] = new]
    BY <1>2 DEF old
  <2> HIDE DEF new
  <2>. QED BY <2>1, <1>7 DEF PlaceInv, PlaceTypes
<1> HIDE DEF new
<1>9. PlaceTypes'
  BY <1>2, <1>4, <1>7, <1>8 DEF PlaceInv, PlaceTypes
<1> DEFINE to == [at EXCEPT ![t] = AtPort(p, e)]
<1>10. to \in [Thread -> Places] /\ \A x \in Thread : to[x] = IF x = t THEN AtPort(p, e) ELSE at[x]
  BY PlacesDiffer
<1> HIDE DEF to
<1>11. ASSUME NEW x \in Thread
       PROVE  /\ to[x] = AtReady <=> x \in Range(ready')
              /\ to[x] = AtTask  <=> x \in Range(callers')
              /\ to[x] = AtDelay <=> x \in Range(delay_queue')
              /\ \A r \in Port, f \in Edges : to[x] = AtPort(r, f) <=> x \in Sleepers(requests'[r][f])
  <2>1. /\ at[x] = AtReady <=> x \in Range(ready)
        /\ at[x] = AtTask  <=> x \in Range(callers)
        /\ at[x] = AtDelay <=> x \in Range(delay_queue)
        /\ \A r \in Port, f \in Edges : at[x] = AtPort(r, f) <=> x \in Sleepers(requests[r][f])
    BY <1>5 DEF Standing
  <2>2. \A r \in Port, f \in Edges :
          x \in Sleepers(requests'[r][f]) <=> (x = t /\ r = p /\ f = e) \/ x \in Sleepers(requests[r][f])
    BY <1>7, <1>8 DEF old
  <2>3. CASE x = t
    <3>1. at[x] = AtReady
      BY <2>1, <2>3, <1>4
    <3>2. \A r \in Port, f \in Edges : x \notin Sleepers(requests[r][f])
      BY <3>1, <2>1, PlacesDiffer
    <3>3. x \notin Range(ready') /\ x \notin Range(callers') /\ x \notin Range(delay_queue')
      BY <3>1, <2>1, <2>3, <1>2, <1>4, PlacesDiffer
    <3>. QED BY <3>2, <3>3, <2>2, <2>3, <1>10, PlacesDiffer
  <2>4. CASE x # t
    BY <2>1, <2>2, <2>4, <1>2, <1>4, <1>10
  <2>. QED BY <2>3, <2>4
<1>12. Standing(to)'
  BY <1>11, Zenon DEF Standing
<1>. QED BY <1>9, <1>10, <1>12 DEF PlaceInv

LEMMA PlaceCallTask ==
  ASSUME PlaceInv, NEW t \in Thread, CallTask(t) PROVE PlaceInv'
<1>1. /\ ready # <<>> /\ t = Head(ready) /\ ready' = Tail(ready)
      /\ callers' = Append(callers, t)
      /\ UNCHANGED <<requests, delay_queue>>
  BY DEF CallTask, VeriTaskCall, Sleeps, Runs, delayVars
<1>2. /\ ready' \in Seq(Thread) /\ IsInjective(ready') /\ Range(ready') = Range(ready) \ {t}
      /\ t \in Range(ready)
  BY <1>1, TailFacts DEF PlaceInv, PlaceTypes
<1>3. PICK at \in [Thread -> Places] : Standing(at)
  BY DEF PlaceInv
<1>4. at[t] = AtReady
  BY <1>2, <1>3 DEF Standing
<1>5. t \notin Range(callers)
  BY <1>3, <1>4, PlacesDiffer DEF Standing
<1>6. /\ callers' \in Seq(Thread) /\ IsInjective(callers')
      /\ Range(callers') = Range(callers) \cup {t}
  BY <1>1, <1>5, AppendRange, AppendInjects DEF PlaceInv, PlaceTypes
<1>7. PlaceTypes'
  BY <1>1, <1>2, <1>6 DEF PlaceInv, PlaceTypes
<1> DEFINE to == [at EXCEPT ![t] = AtTask]
<1>8. to \in [Thread -> Places] /\ \A x \in Thread : to[x] = IF x = t THEN AtTask ELSE at[x]
  BY PlacesDiffer
<1> HIDE DEF to
<1>9. ASSUME NEW x \in Thread
      PROVE  /\ to[x] = AtReady <=> x \in Range(ready')
             /\ to[x] = AtTask  <=> x \in Range(callers')
             /\ to[x] = AtDelay <=> x \in Range(delay_queue')
             /\ \A r \in Port, f \in Edges : to[x] = AtPort(r, f) <=> x \in Sleepers(requests'[r][f])
  <2>1. /\ at[x] = AtReady <=> x \in Range(ready)
        /\ at[x] = AtTask  <=> x \in Range(callers)
        /\ at[x] = AtDelay <=> x \in Range(delay_queue)
        /\ \A r \in Port, f \in Edges : at[x] = AtPort(r, f) <=> x \in Sleepers(requests[r][f])
    BY <1>3 DEF Standing
  <2>. QED BY <2>1, <1>1, <1>2, <1>4, <1>6, <1>8, PlacesDiffer
<1>10. Standing(to)'
  BY <1>9, Zenon DEF Standing
<1>. QED BY <1>7, <1>8, <1>10 DEF PlaceInv

LEMMA PlaceDelayItself ==
  ASSUME DInv, PlaceInv, NEW t \in Thread, DelayItself(t) PROVE PlaceInv'
<1>1. PICK d \in Delay : UnitDelay(t, d)
  BY DEF DelayItself
<1>2. /\ ready # <<>> /\ t = Head(ready) /\ ready' = Tail(ready)
      /\ UNCHANGED <<requests, callers>>
  BY <1>1 DEF DelayItself, UnitDelay, Sleeps, Runs, taskVars
<1>3. /\ ready' \in Seq(Thread) /\ IsInjective(ready') /\ Range(ready') = Range(ready) \ {t}
      /\ t \in Range(ready)
  BY <1>2, TailFacts DEF PlaceInv, PlaceTypes
<1>4. PICK at \in [Thread -> Places] : Standing(at)
  BY DEF PlaceInv
<1>5. at[t] = AtReady
  BY <1>3, <1>4 DEF Standing
<1>6. t \notin Range(delay_queue)
  BY <1>4, <1>5, PlacesDiffer DEF Standing
<1>7. Range(delay_queue') = Range(delay_queue) \cup {t}
  <2>1. t \in Entry /\ d \in Nat
    BY DelaysAssumption DEF Entry
  <2>2. Enter(delay_queue, t, d)
    BY <1>1 DEF UnitDelay
  <2>. QED BY <2>1, <2>2, <1>6, Entered DEF DInv, DTypes, DQueue
<1>8. PlaceTypes'
  BY <1>2, <1>3 DEF PlaceInv, PlaceTypes
<1> DEFINE to == [at EXCEPT ![t] = AtDelay]
<1>9. to \in [Thread -> Places] /\ \A x \in Thread : to[x] = IF x = t THEN AtDelay ELSE at[x]
  BY PlacesDiffer
<1> HIDE DEF to
<1>10. ASSUME NEW x \in Thread
       PROVE  /\ to[x] = AtReady <=> x \in Range(ready')
              /\ to[x] = AtTask  <=> x \in Range(callers')
              /\ to[x] = AtDelay <=> x \in Range(delay_queue')
              /\ \A r \in Port, f \in Edges : to[x] = AtPort(r, f) <=> x \in Sleepers(requests'[r][f])
  <2>1. /\ at[x] = AtReady <=> x \in Range(ready)
        /\ at[x] = AtTask  <=> x \in Range(callers)
        /\ at[x] = AtDelay <=> x \in Range(delay_queue)
        /\ \A r \in Port, f \in Edges : at[x] = AtPort(r, f) <=> x \in Sleepers(requests[r][f])
    BY <1>4 DEF Standing
  <2>. QED BY <2>1, <1>2, <1>3, <1>5, <1>7, <1>9, PlacesDiffer
<1>11. Standing(to)'
  BY <1>10, Zenon DEF Standing
<1>. QED BY <1>8, <1>9, <1>11 DEF PlaceInv

(* The clocks that are driven are in the queue of delays with the threads *)
LEMMA PlaceDriveAClock ==
  ASSUME DInv, PlaceInv, NEW t \in Thread, DriveAClock(t) PROVE PlaceInv'
<1>1. UNCHANGED <<ready, callers, requests>>
  BY DEF DriveAClock, DriveClock, StopClock, slotVars, portVars, taskVars
<1>2. CASE UNCHANGED delay_queue
  BY <1>1, <1>2, NobodyMoves
<1>3. CASE ~UNCHANGED delay_queue
  <2>1. PICK p \in Driven, v \in {"0", "1"}, start \in Period \cup {0}, d1 \in Period, d2 \in Period :
               DriveClock(t, p, v, start, d1, d2)
    BY <1>3 DEF DriveAClock, StopClock
  <2> DEFINE d == IF start # 0 THEN start ELSE d1
  <2>2. Enter(delay_queue, p, d) /\ drive_clock[p] = "none"
    BY <2>1 DEF DriveClock
  <2>3. d \in Nat /\ p \in Entry /\ p \notin Thread /\ p \notin Range(delay_queue)
    BY <2>2, DelaysAssumption, Disjoint DEF Entry, DInv, DQueue
  <2> HIDE DEF d
  <2>4. Range(delay_queue') = Range(delay_queue) \cup {p}
    BY <2>2, <2>3, Entered DEF DInv, DTypes, DQueue
  <2>. QED BY <1>1, <2>3, <2>4, NobodyMoves
<1>. QED BY <1>2, <1>3

LEMMA PlaceDelayEnds ==
  ASSUME DInv, PlaceInv, DelayEnds PROVE PlaceInv'
<1>0. PICK r : r = Head(delay_queue)
  OBVIOUS
<1>1. Reactivate /\ UNCHANGED <<callers, requests>> /\ DInv'
  BY ReactivateKeeps DEF DelayEnds, portVars, taskVars
<1>2. /\ r \in Range(delay_queue) /\ Range(Tail(delay_queue)) = Range(delay_queue) \ {r} /\ r \in Entry
      /\ Tail(delay_queue) \in Seq(Entry) /\ IsInjective(Tail(delay_queue))
      /\ InOrder(Tail(delay_queue), dly)
  <2>1. delay_queue # <<>>
    BY <1>1 DEF Reactivate
  <2>. QED BY <2>1, <1>0, TailFacts, Zenon DEF DInv, DTypes, DQueue
<1>3. \/ broken' = TRUE
      \/ r \in Thread /\ UnitDelayEnd(r)
      \/ r \notin Thread /\ DriveClockSeq(r)
  BY <1>0, <1>1, Zenon DEF Reactivate
<1>4. broken' # TRUE
  BY <1>1 DEF DInv, DQueue
<1>5. CASE r \in Thread /\ UnitDelayEnd(r)
  <2>1. ready' = Append(ready, r) /\ delay_queue' = Tail(delay_queue)
    BY <1>5 DEF UnitDelayEnd
  <2>2. PICK at \in [Thread -> Places] : Standing(at)
    BY DEF PlaceInv
  <2>3. at[r] = AtDelay
    BY <1>2, <1>5, <2>2 DEF Standing
  <2>4. r \notin Range(ready)
    BY <1>5, <2>2, <2>3, PlacesDiffer DEF Standing
  <2>5. ready' \in Seq(Thread) /\ IsInjective(ready') /\ Range(ready') = Range(ready) \cup {r}
    BY <1>5, <2>1, <2>4, AppendRange, AppendInjects DEF PlaceInv, PlaceTypes
  <2>6. PlaceTypes'
    BY <1>1, <2>5 DEF PlaceInv, PlaceTypes
  <2> DEFINE to == [at EXCEPT ![r] = AtReady]
  <2>7. to \in [Thread -> Places] /\ \A x \in Thread : to[x] = IF x = r THEN AtReady ELSE at[x]
    BY PlacesDiffer
  <2> HIDE DEF to
  <2>8. ASSUME NEW x \in Thread
        PROVE  /\ to[x] = AtReady <=> x \in Range(ready')
               /\ to[x] = AtTask  <=> x \in Range(callers')
               /\ to[x] = AtDelay <=> x \in Range(delay_queue')
               /\ \A p \in Port, f \in Edges : to[x] = AtPort(p, f) <=> x \in Sleepers(requests'[p][f])
    <3>1. /\ at[x] = AtReady <=> x \in Range(ready)
          /\ at[x] = AtTask  <=> x \in Range(callers)
          /\ at[x] = AtDelay <=> x \in Range(delay_queue)
          /\ \A p \in Port, f \in Edges : at[x] = AtPort(p, f) <=> x \in Sleepers(requests[p][f])
      BY <2>2 DEF Standing
    <3>. QED BY <3>1, <1>1, <1>2, <2>1, <2>3, <2>5, <2>7, PlacesDiffer
  <2>9. Standing(to)'
    BY <2>8, Zenon DEF Standing
  <2>. QED BY <2>6, <2>7, <2>9 DEF PlaceInv
<1>6. CASE r \notin Thread /\ DriveClockSeq(r)
  <2>1. UNCHANGED ready /\ r \in Driven
    BY <1>2, <1>6 DEF DriveClockSeq, slotVars, Entry
  <2>2. drive_clock[r] = "stopped" => delay_queue' = Tail(delay_queue)
    BY <1>6 DEF DriveClockSeq
  <2> DEFINE next == IF drive_clock[r] = "period1" THEN 2 ELSE 1
             d == periods[r][next]
  <2>3. drive_clock[r] # "stopped" => Enter(Tail(delay_queue), r, d)
    BY <1>6 DEF DriveClockSeq
  <2>4. d \in Nat
    BY <2>1 DEF DInv, DTypes
  <2> HIDE DEF next, d
  <2>5. drive_clock[r] # "stopped" => Range(delay_queue') = (Range(delay_queue) \ {r}) \cup {r}
    <3>1. r \notin Range(Tail(delay_queue))
      BY <1>2
    <3>. QED BY <3>1, <1>2, <2>3, <2>4, Entered, Zenon DEF DInv, DTypes
  <2>6. \A x \in Thread : x \in Range(delay_queue') <=> x \in Range(delay_queue)
    BY <1>2, <1>6, <2>2, <2>5
  <2>. QED BY <1>1, <2>1, <2>6, NobodyMoves
<1>. QED BY <1>3, <1>4, <1>5, <1>6
-----------------------------------------------------------------------------
(***************************************************************************)
(* The end of a slot: the threads an object of the lists wakes             *)
(***************************************************************************)
Piece(o) == IF o = Task THEN Returned ELSE Woken(o)

Brings(o, t) == IF o = Task THEN TaskListed /\ t = Head(callers) ELSE Wakes(o, t)

LEMMA WakesWhere ==
  ASSUME PlaceTypes, NEW at \in [Thread -> Places], Standing(at), NEW p \in Port, NEW t, Wakes(p, t)
  PROVE  t \in Thread /\ \E e \in Edges : at[t] = AtPort(p, e)
<1>1. PICK e \in ServedLists(NewEdge(p)) : \E r \in Due(requests[p][e]) : r.thread = t
  BY DEF Wakes
<1>2. e \in Edges
  BY ServedFacts
<1>3. PICK r \in Range(requests[p][e]) : r.thread = t
  BY <1>1 DEF Due
<1>4. r \in Request /\ t \in Sleepers(requests[p][e])
  BY <1>2, <1>3 DEF PlaceTypes, Range, Sleepers
<1>. QED BY <1>2, <1>3, <1>4 DEF Standing, Request

LEMMA EdgesApart ==
  ASSUME PlaceTypes, NEW at \in [Thread -> Places], Standing(at), NEW p \in Port
  PROVE  \A e, f \in Edges : e # f => Sleepers(requests[p][e]) \cap Sleepers(requests[p][f]) = {}
<1> SUFFICES ASSUME NEW e \in Edges, NEW f \in Edges,
                    NEW t \in Sleepers(requests[p][e]), t \in Sleepers(requests[p][f])
             PROVE  e = f
  OBVIOUS
<1>1. requests[p][e] \in Seq(Request)
  BY DEF PlaceTypes
<1>2. t \in Thread
  <2>1. Range(ThreadsOf(requests[p][e])) = Sleepers(requests[p][e])
    BY <1>1, ThreadsOfFacts
  <2>2. ThreadsOf(requests[p][e]) \in Seq(Thread)
    BY <1>1, ThreadsOfFacts
  <2>3. Range(ThreadsOf(requests[p][e])) \subseteq Thread
    BY <2>2 DEF Range
  <2>. QED BY <2>1, <2>3
<1>3. at[t] = AtPort(p, e) /\ at[t] = AtPort(p, f)
  BY <1>2 DEF Standing
<1>4. AtPort(p, e) = AtPort(p, f)
  BY <1>3, Zenon
<1>. QED BY <1>4 DEF AtPort

LEMMA PieceFacts ==
  ASSUME PlaceInv, NEW o \in Port \cup {Task}, o = Task => TaskListed /\ callers # <<>>
  PROVE  /\ Piece(o) \in Seq(Thread) /\ IsInjective(Piece(o))
         /\ \A t : t \in Range(Piece(o)) <=> Brings(o, t)
<1>1. PICK at \in [Thread -> Places] : Standing(at)
  BY DEF PlaceInv
<1>2. CASE o = Task
  <2> DEFINE h == Head(callers)
  <2>1. h \in Thread
    BY <1>2 DEF PlaceInv, PlaceTypes
  <2>2. Piece(o) = <<h>>
    BY <1>2 DEF Piece, Returned, TaskListed
  <2>3. Brings(o, h) /\ \A t : Brings(o, t) => t = h
    BY <1>2 DEF Brings
  <2> HIDE DEF h
  <2>4. <<h>> \in Seq(Thread) /\ IsInjective(<<h>>) /\ Range(<<h>>) = {h}
    BY <2>1 DEF IsInjective, Range
  <2>. QED BY <2>2, <2>3, <2>4
<1>3. CASE o # Task
  <2>1. o \in Port /\ Piece(o) = Woken(o) /\ \A t : Brings(o, t) <=> Wakes(o, t)
    BY <1>3 DEF Piece, Brings
  <2>2. \A e, f \in Edges : e # f => Sleepers(requests[o][e]) \cap Sleepers(requests[o][f]) = {}
    BY <2>1, <1>1, EdgesApart DEF PlaceInv
  <2>3. /\ Woken(o) \in Seq(Thread) /\ IsInjective(Woken(o))
        /\ \A t : t \in Range(Woken(o)) <=> Wakes(o, t)
    BY <2>1, <2>2, WokenFacts DEF PlaceInv
  <2>. QED BY <2>1, <2>3, Zenon
<1>. QED BY <1>2, <1>3

LEMMA BringsApart ==
  ASSUME PlaceTypes, NEW at \in [Thread -> Places], Standing(at), callers # <<>> \/ ~TaskListed,
         NEW o \in Port \cup {Task}, NEW u \in Port \cup {Task}, NEW t, Brings(o, t), Brings(u, t)
  PROVE  o = u
<1>1. ASSUME NEW p \in Port \cup {Task}, Brings(p, t)
      PROVE  IF p = Task THEN at[t] = AtTask ELSE \E e \in Edges : at[t] = AtPort(p, e)
  <2>1. CASE p = Task
    <3>1. t = Head(callers) /\ callers # <<>>
      BY <1>1, <2>1 DEF Brings
    <3>2. t \in Thread /\ t \in Range(callers)
      BY <3>1, TailFacts DEF PlaceTypes
    <3>. QED BY <2>1, <3>2 DEF Standing
  <2>2. CASE p # Task
    BY <1>1, <2>2, WakesWhere DEF Brings
  <2>. QED BY <2>1, <2>2
<1>. QED BY <1>1, PlacesDiffer

(* What the objects of a list bring *)
LEMMA ListBrings ==
  ASSUME PlaceInv, NEW list \in Seq(Port \cup {Task}), IsInjective(list),
         Task \in Range(list) => TaskListed, TaskListed => callers # <<>>
  PROVE  LET w == FlattenSeq([i \in DOMAIN list |->
                                IF list[i] = Task THEN Returned ELSE Woken(list[i])])
         IN  /\ w \in Seq(Thread) /\ IsInjective(w)
             /\ \A t : t \in Range(w) <=> \E o \in Range(list) : Brings(o, t)
<1> DEFINE seqs == [i \in DOMAIN list |-> IF list[i] = Task THEN Returned ELSE Woken(list[i])]
<1>1. PICK at \in [Thread -> Places] : Standing(at)
  BY DEF PlaceInv
<1>2. /\ DOMAIN list = 1 .. Len(list) /\ Len(list) \in Nat
      /\ \A i \in DOMAIN list : list[i] \in Port \cup {Task} /\ list[i] \in Range(list)
  BY DEF Range
<1>3. DOMAIN seqs = DOMAIN list /\ \A i \in DOMAIN list : seqs[i] = Piece(list[i])
  BY DEF Piece
<1>4. ASSUME NEW i \in DOMAIN list
      PROVE  /\ Piece(list[i]) \in Seq(Thread) /\ IsInjective(Piece(list[i]))
             /\ \A t : t \in Range(Piece(list[i])) <=> Brings(list[i], t)
  <2>1. list[i] \in Port \cup {Task} /\ (list[i] = Task => TaskListed /\ callers # <<>>)
    BY <1>2
  <2>. QED BY <2>1, PieceFacts
<1>5. seqs \in Seq(Seq(Thread))
  <2>1. seqs = [i \in 1 .. Len(list) |-> IF list[i] = Task THEN Returned ELSE Woken(list[i])]
    BY <1>2
  <2>2. \A i \in 1 .. Len(list) : seqs[i] \in Seq(Thread)
    BY <1>2, <1>3, <1>4
  <2>3. seqs \in [1 .. Len(list) -> Seq(Thread)]
    BY <2>1, <2>2, Zenon
  <2> HIDE DEF seqs
  <2>. QED BY <2>3, <1>2
<1> HIDE DEF seqs
<1>6. \A i \in DOMAIN seqs : IsInjective(seqs[i])
  BY <1>3, <1>4
<1>7. \A i, j \in DOMAIN seqs : i # j => Range(seqs[i]) \cap Range(seqs[j]) = {}
  <2> SUFFICES ASSUME NEW i \in DOMAIN list, NEW j \in DOMAIN list, NEW t,
                      t \in Range(Piece(list[i])), t \in Range(Piece(list[j]))
               PROVE  i = j
    BY <1>3
  <2>1. Brings(list[i], t) /\ Brings(list[j], t)
    BY <1>4
  <2>2. list[i] = list[j]
    BY <1>1, <1>2, <2>1, BringsApart DEF PlaceInv
  <2>. QED BY <2>2 DEF IsInjective
<1>8. /\ FlattenSeq(seqs) \in Seq(Thread) /\ IsInjective(FlattenSeq(seqs))
      /\ \A x : x \in Range(FlattenSeq(seqs)) <=> \E i \in DOMAIN seqs : x \in Range(seqs[i])
  BY <1>5, <1>6, <1>7, FlattenFacts, Zenon
<1>9. ASSUME NEW t
      PROVE  (\E i \in DOMAIN seqs : t \in Range(seqs[i])) <=> \E o \in Range(list) : Brings(o, t)
  <2>1. (\E i \in DOMAIN seqs : t \in Range(seqs[i])) <=> \E i \in DOMAIN list : Brings(list[i], t)
    BY <1>3, <1>4, Zenon
  <2>. QED BY <2>1, Zenon DEF Range
<1>. QED BY <1>8, <1>9, Zenon DEF seqs

(* All that the end of a slot makes ready, and where they were *)
LEMMA ServedAll ==
  ASSUME TaskInv, ListInv, PlaceInv, SlotEnds, NEW at \in [Thread -> Places], Standing(at)
  PROVE  \E new \in Seq(Thread) :
           /\ IsInjective(new) /\ ready' = ready \o new
           /\ \A t : t \in Range(new) <=> \E o \in Listing : Brings(o, t)
<1> DEFINE woken(list) == FlattenSeq([i \in DOMAIN list |->
                                 IF list[i] = Task THEN Returned ELSE Woken(list[i])])
           a == woken(clocked_list)
           b == woken(changed_list)
<1>1. ready' = (ready \o a) \o b
  BY DEF SlotEnds, ServeAll
<1>2. TaskListed => callers # <<>>
  BY DEF SlotEnds, TaskInv, CallInv, OneCallActive, TaskListed
<1>3. clocked_list \in Seq(Port \cup {Task}) /\ IsInjective(clocked_list) /\ Task \notin Range(clocked_list)
  <2>1. clocked_list \in Seq(Clock) /\ Clock \subseteq Port /\ Task \notin Clock
    BY SlotsAssumption DEF ListInv, ListTypes
  <2>2. \A x \in Range(clocked_list) : x \in Clock
    BY <2>1 DEF Range
  <2>. QED BY <2>1, <2>2 DEF ListInv, ListsAgree
<1>4. changed_list \in Seq(Port \cup {Task}) /\ IsInjective(changed_list)
  BY DEF TaskInv, Types, Object, Data, ListInv, ListsAgree
<1>5. /\ a \in Seq(Thread) /\ IsInjective(a)
      /\ \A t : t \in Range(a) <=> \E o \in Range(clocked_list) : Brings(o, t)
  BY <1>2, <1>3, ListBrings
<1>6. /\ b \in Seq(Thread) /\ IsInjective(b)
      /\ \A t : t \in Range(b) <=> \E o \in Range(changed_list) : Brings(o, t)
  BY <1>2, <1>4, ListBrings DEF TaskListed
<1> HIDE DEF a, b
<1>7. Range(a) \cap Range(b) = {}
  <2> SUFFICES ASSUME NEW t, t \in Range(a), t \in Range(b) PROVE FALSE
    OBVIOUS
  <2>1. PICK o \in Range(clocked_list) : Brings(o, t)
    BY <1>5
  <2>2. PICK u \in Range(changed_list) : Brings(u, t)
    BY <1>6
  <2>3. o \in Clock /\ u \in Object /\ o \in Port \cup {Task} /\ u \in Port \cup {Task}
    <3>1. clocked_list \in Seq(Clock) /\ changed_list \in Seq(Object)
      BY DEF ListInv, ListTypes, TaskInv, Types
    <3>2. o \in Clock /\ u \in Object
      BY <3>1 DEF Range
    <3>. QED BY <3>2, SlotsAssumption DEF Object, Data
  <2>4. o = u
    BY <1>2, <2>1, <2>2, <2>3, BringsApart DEF PlaceInv
  <2>. QED BY <2>3, <2>4, SlotsAssumption DEF Object, Data
<1>8. a \o b \in Seq(Thread) /\ Range(a \o b) = Range(a) \cup Range(b) /\ IsInjective(a \o b)
  BY <1>5, <1>6, <1>7, JoinedRange, JoinedOnce
<1>9. ready' = ready \o (a \o b)
  <2>1. ready \in Seq(Thread)
    BY DEF PlaceInv, PlaceTypes
  <2>2. a \in Seq(Thread) /\ b \in Seq(Thread)
    BY <1>5, <1>6, Zenon
  <2>3. (ready \o a) \o b = ready \o (a \o b)
    BY <2>1, <2>2, ConcatAssociative
  <2>. QED BY <1>1, <2>3, Zenon
<1>10. \A t : t \in Range(a \o b) <=> \E o \in Listing : Brings(o, t)
  BY <1>5, <1>6, <1>8 DEF Listing
<1>. QED BY <1>8, <1>9, <1>10

LEMMA InRange == ASSUME NEW S, NEW s \in Seq(S), NEW x \in Range(s) PROVE x \in S
BY DEF Range

(* A thread has one request in all lists *)
LEMMA OneRequest ==
  ASSUME PlaceTypes, NEW at \in [Thread -> Places], Standing(at),
         NEW p \in Port, NEW e \in Edges, NEW q \in Range(requests[p][e]),
         NEW o \in Port, NEW f \in Edges, NEW r \in Range(requests[o][f]), q.thread = r.thread
  PROVE  /\ o = p /\ f = e /\ r = q /\ q \in Request /\ at[q.thread] = AtPort(p, e)
<1>1. requests[p][e] \in Seq(Request) /\ requests[o][f] \in Seq(Request)
  BY DEF PlaceTypes
<1>2. q \in Request /\ r \in Request /\ q.thread \in Thread
  <2>1. q \in Request /\ r \in Request
    BY <1>1, InRange
  <2>. QED BY <2>1 DEF Request
<1>3. q.thread \in Sleepers(requests[p][e]) /\ q.thread \in Sleepers(requests[o][f])
  BY DEF Sleepers
<1>4. at[q.thread] = AtPort(p, e) /\ at[q.thread] = AtPort(o, f)
  BY <1>2, <1>3 DEF Standing
<1>5. AtPort(p, e) = AtPort(o, f)
  BY <1>4, Zenon
<1>6. o = p /\ f = e
  BY <1>5 DEF AtPort
<1>7. \A i, j \in DOMAIN requests[p][e] :
        requests[p][e][i].thread = requests[p][e][j].thread => i = j
  BY <1>1, ThreadsOfFacts DEF PlaceTypes
<1>8. PICK i \in DOMAIN requests[p][e] : q = requests[p][e][i]
  BY Zenon DEF Range
<1>9. PICK j \in DOMAIN requests[p][e] : r = requests[p][e][j]
  BY <1>6, Zenon DEF Range
<1>10. i = j
  BY <1>7, <1>8, <1>9, Zenon
<1>. QED BY <1>2, <1>4, <1>6, <1>8, <1>9, <1>10, Zenon

(* Whether the request q is served *)
LEMMA ServedRequest ==
  ASSUME PlaceTypes, NEW at \in [Thread -> Places], Standing(at), TaskListed => callers # <<>>,
         Listing \subseteq Port \cup {Task},
         NEW p \in Port, NEW e \in Edges, NEW q \in Range(requests[p][e])
  PROVE  (\E o \in Listing : Brings(o, q.thread)) <=>
           p \in Listing /\ e \in ServedLists(NewEdge(p)) /\ q.num_cycle = 0
<1>1. at[q.thread] = AtPort(p, e)
  BY OneRequest
<1>2. ASSUME NEW o \in Listing, Brings(o, q.thread)
      PROVE  p \in Listing /\ e \in ServedLists(NewEdge(p)) /\ q.num_cycle = 0
  <2>1. CASE o = Task
    <3>1. q.thread = Head(callers) /\ callers # <<>>
      BY <1>2, <2>1 DEF Brings
    <3>2. q.thread \in Range(callers) /\ q.thread \in Thread
      BY <3>1, TailFacts DEF PlaceTypes
    <3>. QED BY <3>2, <1>1, PlacesDiffer DEF Standing
  <2>2. CASE o # Task
    <3>1. PICK f \in ServedLists(NewEdge(o)) : \E r \in Due(requests[o][f]) : r.thread = q.thread
      BY <1>2, <2>2 DEF Brings, Wakes
    <3>2. PICK r \in Due(requests[o][f]) : r.thread = q.thread
      BY <3>1
    <3>3. o \in Port /\ f \in Edges /\ r \in Range(requests[o][f]) /\ r.num_cycle = 0
      BY <2>2, <3>2, ServedFacts DEF Due
    <3>4. o = p /\ f = e /\ r = q
      BY <3>2, <3>3, OneRequest
    <3>. QED BY <3>1, <3>3, <3>4
  <2>. QED BY <2>1, <2>2
<1>3. ASSUME p \in Listing, e \in ServedLists(NewEdge(p)), q.num_cycle = 0
      PROVE  Brings(p, q.thread)
  <2>1. q \in Due(requests[p][e])
    BY <1>3 DEF Due
  <2>2. p # Task
    BY TaskNoPort
  <2>. QED BY <1>3, <2>1, <2>2 DEF Brings, Wakes
<1>. QED BY <1>2, <1>3

LEMMA ListingTypes == ASSUME TaskInv, ListInv PROVE Listing \subseteq Port \cup {Task}
<1>1. clocked_list \in Seq(Clock) /\ changed_list \in Seq(Object)
  BY DEF TaskInv, Types, ListInv, ListTypes
<1>2. \A x \in Range(clocked_list) : x \in Clock
  BY <1>1 DEF Range
<1>3. \A x \in Range(changed_list) : x \in Object
  BY <1>1 DEF Range
<1>. QED BY <1>2, <1>3, SlotsAssumption DEF Listing, Object, Data

(* What is left of the requests *)
LEMMA RequestsLeft ==
  ASSUME PlaceTypes, SlotEnds
  PROVE  /\ requests' \in [Port -> [Edges -> Seq(Request)]]
         /\ \A p \in Port, e \in Edges :
              /\ IsInjective(ThreadsOf(requests'[p][e]))
              /\ IF p \in Listing /\ e \in ServedLists(NewEdge(p))
                 THEN \A r : r \in Range(requests'[p][e]) <=>
                        \E q \in Range(requests[p][e]) : q.num_cycle # 0 /\ r = LeftOf(q)
                 ELSE requests'[p][e] = requests[p][e]
<1>1. requests' = [p \in Port |-> [e \in Edges |->
                    IF p \in Listing /\ e \in ServedLists(NewEdge(p))
                    THEN Remaining(requests[p][e]) ELSE requests[p][e]]]
  BY DEF SlotEnds, ServeAll, ServePorts
<1>2. ASSUME NEW p \in Port, NEW e \in Edges
      PROVE  /\ requests[p][e] \in Seq(Request) /\ IsInjective(ThreadsOf(requests[p][e]))
             /\ requests'[p][e] = IF p \in Listing /\ e \in ServedLists(NewEdge(p))
                    THEN Remaining(requests[p][e]) ELSE requests[p][e]
  BY <1>1 DEF PlaceTypes
<1>3. ASSUME NEW p \in Port, NEW e \in Edges
      PROVE  /\ requests'[p][e] \in Seq(Request)
             /\ IsInjective(ThreadsOf(requests'[p][e]))
             /\ IF p \in Listing /\ e \in ServedLists(NewEdge(p))
                THEN \A r : r \in Range(requests'[p][e]) <=>
                        \E q \in Range(requests[p][e]) : q.num_cycle # 0 /\ r = LeftOf(q)
                ELSE requests'[p][e] = requests[p][e]
  BY <1>2, RemainingFacts
<1>4. requests' \in [Port -> [Edges -> Seq(Request)]]
  <2>1. /\ requests' = [p \in Port |-> requests'[p]]
        /\ \A p \in Port : requests'[p] = [e \in Edges |-> requests'[p][e]]
    BY <1>1
  <2>2. \A p \in Port : requests'[p] \in [Edges -> Seq(Request)]
    BY <2>1, <1>3
  <2>. QED BY <2>1, <2>2
<1>. QED BY <1>3, <1>4, Zenon

LEMMA PlaceSlotEnds ==
  ASSUME TaskInv, ListInv, PlaceInv, SlotEnds PROVE PlaceInv'
<1>1. PICK at \in [Thread -> Places] : Standing(at)
  BY DEF PlaceInv
<1>2. PICK new \in Seq(Thread) :
           /\ IsInjective(new) /\ ready' = ready \o new
           /\ \A t : t \in Range(new) <=> \E o \in Listing : Brings(o, t)
  BY <1>1, ServedAll
<1>3. /\ callers' = IF TaskListed THEN Tail(callers) ELSE callers
      /\ UNCHANGED delay_queue
  BY DEF SlotEnds, ServeAll, ServeTask, taskVars, delayVars, TaskListed
<1>4. TaskListed => callers # <<>>
  BY DEF SlotEnds, TaskInv, CallInv, OneCallActive, TaskListed
<1>5. Listing \subseteq Port \cup {Task} /\ (Task \in Listing <=> TaskListed)
  <2>1. Task \notin Range(clocked_list)
    <3>1. \A x \in Range(clocked_list) : x \in Clock
      BY InRange DEF ListInv, ListTypes
    <3>. QED BY <3>1, SlotsAssumption
  <2>. QED BY <2>1, ListingTypes DEF Listing, TaskListed
<1>6. PlaceTypes
  BY DEF PlaceInv
<1>7. ASSUME NEW x \in Range(new), NEW o \in Listing, Brings(o, x)
      PROVE  x \in Thread /\ at[x] # AtReady /\ at[x] # AtDelay /\ (o # Task => at[x] # AtTask)
  <2>1. CASE o = Task
    <3>1. x \in Thread /\ x \in Range(callers)
      <4>1. x = Head(callers) /\ callers # <<>>
        BY <1>4, <1>7, <2>1 DEF Brings
      <4>. QED BY <4>1, <1>6, TailFacts DEF PlaceTypes
    <3>. QED BY <3>1, <2>1, <1>1, PlacesDiffer DEF Standing
  <2>2. CASE o # Task
    <3>1. o \in Port /\ Wakes(o, x)
      BY <1>5, <1>7, <2>2 DEF Brings
    <3>. QED BY <3>1, <1>1, <1>6, WakesWhere, PlacesDiffer
  <2>. QED BY <2>1, <2>2
<1>8. Range(ready) \cap Range(new) = {}
  <2> SUFFICES ASSUME NEW x \in Range(new), x \in Range(ready) PROVE FALSE
    OBVIOUS
  <2>1. x \in Thread /\ at[x] # AtReady
    BY <1>2, <1>7
  <2>. QED BY <2>1, <1>1 DEF Standing
<1>9. ready' \in Seq(Thread) /\ IsInjective(ready') /\ Range(ready') = Range(ready) \cup Range(new)
  BY <1>2, <1>6, <1>8, JoinedRange, JoinedOnce DEF PlaceTypes
<1>10. /\ callers' \in Seq(Thread) /\ IsInjective(callers')
       /\ \A x \in Thread : x \in Range(callers') <=> x \in Range(callers) /\ x \notin Range(new)
  <2>1. \A x \in Range(callers) : x \in Range(new) <=> TaskListed /\ x = Head(callers)
    <3> SUFFICES ASSUME NEW x \in Range(callers)
                 PROVE  x \in Range(new) <=> TaskListed /\ x = Head(callers)
      OBVIOUS
    <3>1. x \in Thread /\ at[x] = AtTask
      <4>1. x \in Thread
        BY <1>6, InRange DEF PlaceTypes
      <4>. QED BY <4>1, <1>1 DEF Standing
    <3>2. x \in Range(new) => Brings(Task, x) /\ Task \in Listing
      BY <3>1, <1>2, <1>7
    <3>3. TaskListed /\ x = Head(callers) => x \in Range(new)
      BY <1>2, <1>5 DEF Brings
    <3>. QED BY <3>2, <3>3 DEF Brings
  <2>2. CASE TaskListed
    <3>1. /\ callers' \in Seq(Thread) /\ IsInjective(callers')
          /\ Range(callers') = Range(callers) \ {Head(callers)}
      BY <2>2, <1>3, <1>4, <1>6, TailFacts DEF PlaceTypes
    <3>. QED BY <3>1, <2>1, <2>2
  <2>3. CASE ~TaskListed
    BY <2>1, <2>3, <1>3, <1>6 DEF PlaceTypes
  <2>. QED BY <2>2, <2>3
<1>11. /\ requests' \in [Port -> [Edges -> Seq(Request)]]
       /\ \A p \in Port, e \in Edges :
              /\ IsInjective(ThreadsOf(requests'[p][e]))
              /\ IF p \in Listing /\ e \in ServedLists(NewEdge(p))
                 THEN \A r : r \in Range(requests'[p][e]) <=>
                        \E q \in Range(requests[p][e]) : q.num_cycle # 0 /\ r = LeftOf(q)
                 ELSE requests'[p][e] = requests[p][e]
  BY <1>6, RequestsLeft
<1>12. PlaceTypes'
  BY <1>9, <1>10, <1>11 DEF PlaceTypes
<1>13. ASSUME NEW p \in Port, NEW e \in Edges, NEW x \in Thread
       PROVE  x \in Sleepers(requests'[p][e]) <=> x \in Sleepers(requests[p][e]) /\ x \notin Range(new)
  <2>1. ASSUME NEW q \in Range(requests[p][e])
        PROVE  /\ q.thread \in Range(new) <=>
                    p \in Listing /\ e \in ServedLists(NewEdge(p)) /\ q.num_cycle = 0
               /\ LeftOf(q).thread = q.thread
    <3>1. q \in Request
      BY <1>6, InRange DEF PlaceTypes
    <3>2. LeftOf(q).thread = q.thread
      BY <3>1 DEF LeftOf, Request
    <3>3. (\E o \in Listing : Brings(o, q.thread)) <=>
            p \in Listing /\ e \in ServedLists(NewEdge(p)) /\ q.num_cycle = 0
      BY <1>1, <1>4, <1>5, <1>6, ServedRequest
    <3>. QED BY <3>2, <3>3, <1>2
  <2>2. CASE p \in Listing /\ e \in ServedLists(NewEdge(p))
    <3>1. \A r : r \in Range(requests'[p][e]) <=>
                        \E q \in Range(requests[p][e]) : q.num_cycle # 0 /\ r = LeftOf(q)
      BY <2>2, <1>11
    <3>. QED BY <3>1, <2>1, <2>2 DEF Sleepers
  <2>3. CASE ~(p \in Listing /\ e \in ServedLists(NewEdge(p)))
    <3>1. requests'[p][e] = requests[p][e]
      BY <2>3, <1>11
    <3>. QED BY <3>1, <2>1, <2>3 DEF Sleepers
  <2>. QED BY <2>2, <2>3
<1> DEFINE to == [x \in Thread |-> IF x \in Range(new) THEN AtReady ELSE at[x]]
<1>14. to \in [Thread -> Places] /\ \A x \in Thread : to[x] = IF x \in Range(new) THEN AtReady ELSE at[x]
  BY PlacesDiffer
<1> HIDE DEF to
<1>15. ASSUME NEW x \in Thread
       PROVE  /\ to[x] = AtReady <=> x \in Range(ready')
              /\ to[x] = AtTask  <=> x \in Range(callers')
              /\ to[x] = AtDelay <=> x \in Range(delay_queue')
              /\ \A p \in Port, f \in Edges : to[x] = AtPort(p, f) <=> x \in Sleepers(requests'[p][f])
  <2>1. /\ at[x] = AtReady <=> x \in Range(ready)
        /\ at[x] = AtTask  <=> x \in Range(callers)
        /\ at[x] = AtDelay <=> x \in Range(delay_queue)
        /\ \A p \in Port, f \in Edges : at[x] = AtPort(p, f) <=> x \in Sleepers(requests[p][f])
    BY <1>1 DEF Standing
  <2>2. x \in Range(new) => at[x] # AtDelay
    BY <1>2, <1>7
  <2>. QED BY <2>1, <2>2, <1>3, <1>9, <1>10, <1>13, <1>14, PlacesDiffer
<1>16. Standing(to)'
  BY <1>15, Zenon DEF Standing
<1>. QED BY <1>12, <1>14, <1>16 DEF PlaceInv

LEMMA PlaceInductive ==
  TaskInv /\ ListInv /\ DInv /\ PlaceInv /\ [Next]_vars => PlaceInv'
<1> SUFFICES ASSUME TaskInv, ListInv, DInv, PlaceInv, [Next]_vars PROVE PlaceInv'
  OBVIOUS
<1> DEFINE Same == UNCHANGED <<ready, callers, requests, delay_queue>>
<1>1. ASSUME Same PROVE PlaceInv'
  BY <1>1, NobodyMoves
<1>2. ASSUME NEW t \in Thread, Suspends(t) PROVE PlaceInv'
  BY <1>2, PlaceWaitForEdge, PlaceCallTask, PlaceDelayItself DEF Suspends
<1>3. ASSUME NEW t \in Thread, DriveAClock(t) PROVE PlaceInv'
  BY <1>3, PlaceDriveAClock
<1>4. CASE PortChanges
  <2>1. Same
    BY <1>4 DEF PortChanges, ValueChanges, taskVars, delayVars
  <2>. QED BY <2>1, <1>1
<1>5. CASE TaskFinishes
  <2>1. Same
    BY <1>5 DEF TaskFinishes, TaskEnds, portVars, delayVars
  <2>. QED BY <2>1, <1>1
<1>6. CASE DelayEnds
  BY <1>6, PlaceDelayEnds
<1>7. CASE NextTime
  <2>1. Same
    BY <1>7 DEF NextTime, TimePasses, slotVars, portVars, taskVars
  <2>. QED BY <2>1, <1>1
<1>8. CASE SlotEnds
  BY <1>8, PlaceSlotEnds
<1>9. CASE BackToVerilog
  <2>1. Same
    BY <1>9 DEF BackToVerilog, ClearPorts, taskVars, delayVars
  <2>. QED BY <2>1, <1>1
<1>10. CASE UNCHANGED vars
  <2>1. Same
    BY <1>10 DEF vars, slotVars, portVars, taskVars, delayVars
  <2>. QED BY <2>1, <1>1
<1>. QED BY <1>2, <1>3, <1>4, <1>5, <1>6, <1>7, <1>8, <1>9, <1>10 DEF Next
-----------------------------------------------------------------------------
(***************************************************************************)
(* The queue of delays in the program                                      *)
(***************************************************************************)

(* What is ready has no delay, whoever moved it *)
LEMMA ReadyNoDelay ==
  ASSUME DInv, PlaceInv
  PROVE  /\ ready \in Seq(Thread) /\ IsInjective(ready)
         /\ Range(ready) \cap Range(delay_queue) = {}
<1>1. PICK at \in [Thread -> Places] : Standing(at)
  BY DEF PlaceInv
<1>2. Range(ready) \cap Range(delay_queue) = {}
  <2> SUFFICES ASSUME NEW x \in Range(ready), x \in Range(delay_queue) PROVE FALSE
    OBVIOUS
  <2>1. x \in Thread
    BY InRange DEF PlaceInv, PlaceTypes
  <2>. QED BY <2>1, <1>1, PlacesDiffer DEF Standing
<1>. QED BY <1>2 DEF PlaceInv, PlaceTypes

(* Every step of the program is one of the queue of delays, or leaves it    *)
(* alone and makes no thread ready that is in it                            *)
LEMMA DelaysStep ==
  ASSUME TaskInv, ListInv, DInv, PlaceInv, [Next]_vars
  PROVE  [DelaysNext]_<<slotVars, delayVars>>
<1>1. PlaceInv'
  BY PlaceInductive
<1>2. ASSUME UNCHANGED delayVars PROVE OthersMove
  <2>1. PICK at \in [Thread -> Places] : Standing(at)'
    BY <1>1 DEF PlaceInv
  <2>2. ready' \in Seq(Thread) /\ IsInjective(ready') /\ delay_queue' = delay_queue
    BY <1>1, <1>2 DEF PlaceInv, PlaceTypes, delayVars
  <2>3. Range(ready') \cap Range(delay_queue) = {}
    <3> SUFFICES ASSUME NEW x \in Range(ready'), x \in Range(delay_queue) PROVE FALSE
      OBVIOUS
    <3>1. x \in Thread
      BY <2>2, InRange
    <3>2. at[x] = AtReady /\ at[x] = AtDelay
      BY <2>1, <2>2, <3>1 DEF Standing
    <3>. QED BY <3>2, PlacesDiffer
  <2>. QED BY <1>2, <2>2, <2>3 DEF OthersMove
<1>3. ASSUME NEW t \in Thread, WaitForEdge(t) PROVE DelaysNext
  BY <1>2, <1>3 DEF WaitForEdge, DelaysNext
<1>4. ASSUME NEW t \in Thread, CallTask(t) PROVE DelaysNext
  BY <1>2, <1>4 DEF CallTask, DelaysNext
<1>5. ASSUME NEW t \in Thread, DelayItself(t) PROVE DelaysNext
  BY <1>5 DEF DelayItself, DelaysNext
<1>6. ASSUME NEW t \in Thread, DriveAClock(t) PROVE DelaysNext
  BY <1>6, Zenon DEF DriveAClock, DelaysNext
<1>7. CASE PortChanges
  BY <1>2, <1>7 DEF PortChanges, DelaysNext
<1>8. CASE TaskFinishes
  BY <1>2, <1>8 DEF TaskFinishes, DelaysNext
<1>9. CASE DelayEnds
  BY <1>9 DEF DelayEnds, DelaysNext
<1>10. CASE NextTime
  BY <1>10 DEF NextTime, DelaysNext
<1>11. CASE SlotEnds
  BY <1>2, <1>11 DEF SlotEnds, DelaysNext
<1>12. CASE BackToVerilog
  BY <1>2, <1>12 DEF BackToVerilog, DelaysNext
<1>13. CASE UNCHANGED vars
  BY <1>13 DEF vars
<1>. QED BY <1>3, <1>4, <1>5, <1>6, <1>7, <1>8, <1>9, <1>10, <1>11, <1>12, <1>13 DEF Next, Suspends

AllInv == TaskInv /\ ListInv /\ DInv /\ PlaceInv

LEMMA AllInitial == Init => AllInv
<1> SUFFICES ASSUME Init PROVE AllInv
  OBVIOUS
<1>1. DInv
  BY DInitial, FirstReady DEF Init
<1>. QED BY <1>1, TaskInitial, ListInitial, PlaceInitial DEF AllInv

LEMMA AllInductive == AllInv /\ [Next]_vars => AllInv'
<1> SUFFICES ASSUME AllInv, [Next]_vars PROVE AllInv'
  OBVIOUS
<1>1. TaskInv' /\ ListInv' /\ PlaceInv'
  BY TaskInductive, ListInductive, PlaceInductive DEF AllInv
<1>2. [DelaysNext]_<<slotVars, delayVars>>
  BY DelaysStep DEF AllInv
<1>3. DInv'
  BY <1>2, DInductive DEF AllInv
<1>. QED BY <1>1, <1>3 DEF AllInv

LEMMA AllAlways == Spec => []AllInv
BY AllInitial, AllInductive, PTL DEF Spec

(* The program with its ports, tasks and threads keeps to what the queue of *)
(* delays asks of its surroundings: JD_unit_delay, drive_clock_seq and      *)
(* JD_misctf_reason_reactivate work as they do alone, because none of the   *)
(* other callbacks makes a thread ready that is in the queue.               *)
THEOREM DelaysImplemented == Spec => DelaysSpec
<1>1. Init => DelaysInit /\ ready \in Seq(Thread) /\ IsInjective(ready)
  BY FirstReady DEF Init
<1>2. AllInv /\ [Next]_vars => [DelaysNext]_<<slotVars, delayVars>>
  BY DelaysStep DEF AllInv
<1>. QED BY <1>1, <1>2, AllAlways, PTL DEF Spec, DelaysSpec
-----------------------------------------------------------------------------
(***************************************************************************)
(* Nobody is lost                                                          *)
(* The places of thread t in sequence q, with the name of the sequence *)
PlacesIn(name, q, t) == {<<name, i>> : i \in {i \in DOMAIN q : q[i] = t}}

(* A set of one place; none at all *)
OnePlace(s) == \E x : s = {x}
NoPlace(s) == s = {}

(* A thread is once in a sequence that repeats none, or nowhere in it *)
LEMMA PlaceInSequence ==
  ASSUME NEW q, NEW t, IsInjective(q), NEW name
  PROVE  /\ t \in Range(q) => OnePlace(PlacesIn(name, q, t))
         /\ t \notin Range(q) => NoPlace(PlacesIn(name, q, t))
<1>1. CASE t \in Range(q)
  <2>1. PICK k \in DOMAIN q : q[k] = t
    BY <1>1, Zenon DEF Range
  <2>2. \A i \in DOMAIN q : q[i] = t <=> i = k
    BY <2>1 DEF IsInjective
  <2>3. PlacesIn(name, q, t) = {<<name, k>>}
    BY <2>1, <2>2 DEF PlacesIn
  <2>. QED BY <1>1, <2>3 DEF OnePlace
<1>2. CASE t \notin Range(q)
  <2>1. \A i \in DOMAIN q : q[i] # t
    BY <1>2, Zenon DEF Range
  <2>. QED BY <1>2, <2>1 DEF PlacesIn, NoPlace
<1>. QED BY <1>1, <1>2

(* One of four sets has one element, the others none *)
LEMMA OneOfFour ==
  ASSUME NEW a, NEW b, NEW c, NEW d,
         \/ OnePlace(a) /\ NoPlace(b) /\ NoPlace(c) /\ NoPlace(d)
         \/ NoPlace(a) /\ OnePlace(b) /\ NoPlace(c) /\ NoPlace(d)
         \/ NoPlace(a) /\ NoPlace(b) /\ OnePlace(c) /\ NoPlace(d)
         \/ NoPlace(a) /\ NoPlace(b) /\ NoPlace(c) /\ OnePlace(d)
  PROVE  Cardinality(a \cup b \cup c \cup d) = 1
<1>1. \E x : a \cup b \cup c \cup d = {x}
  BY DEF OnePlace, NoPlace
<1>. QED BY <1>1, FS_Singleton

(* The places in the requests of thread t *)
RequestPlaces(t) ==
  UNION {{<<p, e, i>> : i \in {i \in DOMAIN requests[p][e] : requests[p][e][i].thread = t}}
                    : p \in Port, e \in Edges}

LEMMA PlaceInRequests ==
  ASSUME PlaceTypes, NEW at \in [Thread -> Places], Standing(at), NEW t \in Thread
  PROVE  /\ (\E p \in Port, e \in Edges : at[t] = AtPort(p, e)) => OnePlace(RequestPlaces(t))
         /\ ~(\E p \in Port, e \in Edges : at[t] = AtPort(p, e)) => NoPlace(RequestPlaces(t))
<1> DEFINE here(p, e) == {<<p, e, i>> : i \in {i \in DOMAIN requests[p][e] : requests[p][e][i].thread = t}}
<1>1. ASSUME NEW p \in Port, NEW e \in Edges
      PROVE  IF at[t] = AtPort(p, e) THEN \E x : here(p, e) = {x} ELSE here(p, e) = {}
  <2> DEFINE list == requests[p][e]
  <2>1. at[t] = AtPort(p, e) <=> t \in Sleepers(list)
    BY DEF Standing
  <2>2. list \in Seq(Request) /\ IsInjective(ThreadsOf(list))
    BY DEF PlaceTypes
  <2> HIDE DEF list
  <2>3. \A i, j \in DOMAIN list : list[i].thread = list[j].thread => i = j
    BY <2>2, ThreadsOfFacts
  <2>4. t \in Sleepers(list) <=> \E i \in DOMAIN list : list[i].thread = t
    BY Zenon DEF Sleepers, Range
  <2>5. CASE t \in Sleepers(list)
    <3>1. PICK k \in DOMAIN list : list[k].thread = t
      BY <2>4, <2>5
    <3>2. \A i \in DOMAIN list : list[i].thread = t <=> i = k
      BY <2>3, <3>1, Zenon
    <3>3. {<<p, e, i>> : i \in {i \in DOMAIN list : list[i].thread = t}} = {<<p, e, k>>}
      BY <3>1, <3>2
    <3>. QED BY <2>1, <2>5, <3>3 DEF list
  <2>6. CASE t \notin Sleepers(list)
    <3>1. {<<p, e, i>> : i \in {i \in DOMAIN list : list[i].thread = t}} = {}
      BY <2>4, <2>6
    <3>. QED BY <2>1, <2>6, <3>1 DEF list
  <2>. QED BY <2>5, <2>6
<1>2. RequestPlaces(t) = UNION {here(p, e) : p \in Port, e \in Edges}
  BY DEF RequestPlaces
<1> HIDE DEF here
<1>3. CASE \E p \in Port, e \in Edges : at[t] = AtPort(p, e)
  <2>1. PICK p \in Port, e \in Edges : at[t] = AtPort(p, e)
    BY <1>3
  <2>2. PICK x : here(p, e) = {x}
    BY <2>1, <1>1
  <2>3. \A q \in Port, f \in Edges : here(q, f) = IF q = p /\ f = e THEN {x} ELSE {}
    <3> SUFFICES ASSUME NEW q \in Port, NEW f \in Edges, ~(q = p /\ f = e) PROVE here(q, f) = {}
      BY <2>2
    <3>1. AtPort(p, e) # AtPort(q, f)
      BY DEF AtPort
    <3>. QED BY <2>1, <3>1, <1>1
  <2>4. RequestPlaces(t) = {x}
    BY <1>2, <2>3
  <2>. QED BY <1>3, <2>4 DEF OnePlace
<1>4. CASE ~\E p \in Port, e \in Edges : at[t] = AtPort(p, e)
  <2>1. \A q \in Port, f \in Edges : here(q, f) = {}
    BY <1>1, <1>4
  <2>. QED BY <1>2, <1>4, <2>1 DEF NoPlace
<1>. QED BY <1>3, <1>4

(* The four sets, as NobodyLost has them *)
LEMMA LostNowhere ==
  ASSUME \A t \in Thread : Cardinality(PlacesIn("ready", ready, t) \cup PlacesIn("task", callers, t)
                             \cup PlacesIn("delay", delay_queue, t) \cup RequestPlaces(t)) = 1
  PROVE  NobodyLost
BY DEF NobodyLost, PlacesIn, RequestPlaces

LEMMA NobodyIsLost == ASSUME DInv, PlaceInv PROVE NobodyLost
<1>1. PICK at \in [Thread -> Places] : Standing(at)
  BY DEF PlaceInv
<1>0. /\ IsInjective(ready) /\ IsInjective(callers) /\ IsInjective(delay_queue)
      /\ PlaceTypes
  BY DEF PlaceInv, PlaceTypes, DInv, DTypes
<1> SUFFICES ASSUME NEW t \in Thread
             PROVE  Cardinality(PlacesIn("ready", ready, t) \cup PlacesIn("task", callers, t)
                             \cup PlacesIn("delay", delay_queue, t) \cup RequestPlaces(t)) = 1
  BY LostNowhere
<1> DEFINE a == PlacesIn("ready", ready, t)
           b == PlacesIn("task", callers, t)
           c == PlacesIn("delay", delay_queue, t)
           d == RequestPlaces(t)
           inRequest == \E p \in Port, e \in Edges : at[t] = AtPort(p, e)
<1>2. (t \in Range(ready) => OnePlace(a)) /\ (t \notin Range(ready) => NoPlace(a))
  BY <1>0, PlaceInSequence
<1>3. (t \in Range(callers) => OnePlace(b)) /\ (t \notin Range(callers) => NoPlace(b))
  BY <1>0, PlaceInSequence
<1>4. (t \in Range(delay_queue) => OnePlace(c)) /\ (t \notin Range(delay_queue) => NoPlace(c))
  BY <1>0, PlaceInSequence
<1>5. (inRequest => OnePlace(d)) /\ (~inRequest => NoPlace(d))
  BY <1>0, <1>1, PlaceInRequests
<1>6. /\ at[t] = AtReady <=> t \in Range(ready)
      /\ at[t] = AtTask  <=> t \in Range(callers)
      /\ at[t] = AtDelay <=> t \in Range(delay_queue)
  BY <1>1 DEF Standing
<1>7. \/ at[t] = AtReady /\ at[t] # AtTask /\ at[t] # AtDelay /\ ~inRequest
      \/ at[t] # AtReady /\ at[t] = AtTask /\ at[t] # AtDelay /\ ~inRequest
      \/ at[t] # AtReady /\ at[t] # AtTask /\ at[t] = AtDelay /\ ~inRequest
      \/ at[t] # AtReady /\ at[t] # AtTask /\ at[t] # AtDelay /\ inRequest
  BY PlacesDiffer DEF Places
<1> HIDE DEF a, b, c, d, inRequest
<1>8. \/ OnePlace(a) /\ NoPlace(b) /\ NoPlace(c) /\ NoPlace(d)
      \/ NoPlace(a) /\ OnePlace(b) /\ NoPlace(c) /\ NoPlace(d)
      \/ NoPlace(a) /\ NoPlace(b) /\ OnePlace(c) /\ NoPlace(d)
      \/ NoPlace(a) /\ NoPlace(b) /\ NoPlace(c) /\ OnePlace(d)
  BY <1>2, <1>3, <1>4, <1>5, <1>6, <1>7
<1>9. Cardinality(a \cup b \cup c \cup d) = 1
  BY <1>8, OneOfFour
<1>. QED BY <1>9 DEF a, b, c, d

(* Whatever edges, calls and delays follow each other, a thread is ready or *)
(* waits in one place, once: JD_misctf_reason_sync and the callbacks link   *)
(* no thread into two lists, wake none twice and drop none.                 *)
THEOREM NobodyEverLost == Spec => []NobodyLost
<1>1. AllInv => NobodyLost
  BY NobodyIsLost DEF AllInv
<1>. QED BY <1>1, AllAlways, PTL
-----------------------------------------------------------------------------
(***************************************************************************)
(* The ports: the counts of sync_count, and with them the value change     *)
(* callbacks, are those of the threads that wait, and a thread that waits  *)
(* for n edges of a clock is woken by the nth.                             *)
(***************************************************************************)
(* The threads that wait for port p *)
Waiting(p) == {t \in Thread : Waits(t, p)}

LEMMA WaitingFinite ==
  /\ \A p : IsFiniteSet(Waiting(p))
  /\ \A p : Cardinality(Waiting(p)) \in Nat
<1>1. \A p : Waiting(p) \in SUBSET Thread
  BY DEF Waiting
<1>2. \A p : IsFiniteSet(Waiting(p))
  BY <1>1, FS_Subset, SlotsAssumption
<1>. QED BY <1>2, FS_CardinalityType

(* The request of a wait *)
NewRequest(t, n) == [thread |-> t, num_cycle |-> CyclesLeft(n)]

(* The requests after JD_sync_on_port *)
LEMMA RequestEntered ==
  ASSUME PlaceInv, NEW t \in Thread, NEW p \in Port, NEW e \in Edges, NEW n \in Cycles,
         SyncOnPort(t, p, e, n)
  PROVE  /\ NewRequest(t, n) \in Request /\ NewRequest(t, n).thread = t
         /\ NewRequest(t, n).num_cycle = CyclesLeft(n)
         /\ \A o \in Port, f \in Edges : \A r :
              r \in Range(requests'[o][f]) <=>
                r \in Range(requests[o][f]) \/ (o = p /\ f = e /\ r = NewRequest(t, n))
         /\ \A o \in Port, f \in Edges : \A r \in Range(requests[o][f]) : r.thread # t
<1> DEFINE q == NewRequest(t, n)
<1>1. /\ ready # <<>> /\ t = Head(ready)
      /\ requests' = [requests EXCEPT ![p][e] = Append(@, q)]
  BY DEF SyncOnPort, Sleeps, Runs, NewRequest
<1>2. q \in Request /\ q.thread = t /\ q.num_cycle = CyclesLeft(n)
  <2>1. n \in Nat
    BY PortsAssumption
  <2>. QED BY <2>1 DEF CyclesLeft, Request, NewRequest
<1> HIDE DEF q
<1>3. requests \in [Port -> [Edges -> Seq(Request)]]
  BY DEF PlaceInv, PlaceTypes
<1>4. \A o \in Port, f \in Edges :
        requests'[o][f] = IF o = p /\ f = e THEN Append(requests[o][f], q) ELSE requests[o][f]
  BY <1>1, <1>3
<1>5. requests[p][e] \in Seq(Request)
  BY <1>3
<1>6. Range(Append(requests[p][e], q)) = Range(requests[p][e]) \cup {q}
  BY <1>2, <1>5, AppendRange
<1>7. ASSUME NEW o \in Port, NEW f \in Edges, NEW r
      PROVE  r \in Range(requests'[o][f]) <=>
               r \in Range(requests[o][f]) \/ (o = p /\ f = e /\ r = q)
  BY <1>4, <1>6
<1>8. ASSUME NEW o \in Port, NEW f \in Edges, NEW r \in Range(requests[o][f])
      PROVE  r.thread # t
  <2>1. PICK at \in [Thread -> Places] : Standing(at)
    BY DEF PlaceInv
  <2>2. t \in Range(ready)
    BY <1>1, TailFacts DEF PlaceInv, PlaceTypes
  <2>3. at[t] = AtReady
    BY <2>1, <2>2 DEF Standing
  <2>4. t \notin Sleepers(requests[o][f])
    BY <2>1, <2>3, PlacesDiffer DEF Standing
  <2>. QED BY <2>4 DEF Sleepers
<1>. QED BY <1>2, <1>7, <1>8, Zenon DEF q

(* Who still waits for a port at the end of a slot *)
LEMMA StillWaits ==
  ASSUME TaskInv, ListInv, PlaceInv, SlotEnds, NEW p \in Port
  PROVE  /\ p \notin Listing => \A t \in Thread : Waits(t, p)' <=> Waits(t, p)
         /\ p \in Listing => \A t \in Thread : Waits(t, p)' <=> Waits(t, p) /\ t \notin Range(Woken(p))
         /\ \A t \in Range(Woken(p)) : t \in Thread /\ Waits(t, p)
         /\ Woken(p) \in Seq(Thread) /\ IsInjective(Woken(p))
<1>1. PICK at \in [Thread -> Places] : Standing(at)
  BY DEF PlaceInv
<1>2. PlaceTypes
  BY DEF PlaceInv
<1>3. /\ Woken(p) \in Seq(Thread) /\ IsInjective(Woken(p))
      /\ \A t : t \in Range(Woken(p)) <=> Wakes(p, t)
  BY <1>1, <1>2, WokenFacts, EdgesApart
<1>4. ASSUME NEW e \in Edges
      PROVE  IF p \in Listing /\ e \in ServedLists(NewEdge(p))
             THEN \A r : r \in Range(requests'[p][e]) <=>
                        \E q \in Range(requests[p][e]) : q.num_cycle # 0 /\ r = LeftOf(q)
             ELSE requests'[p][e] = requests[p][e]
  BY <1>2, RequestsLeft
<1>5. ASSUME NEW e \in Edges, NEW q \in Range(requests[p][e])
      PROVE  /\ q.thread \in Thread /\ LeftOf(q).thread = q.thread
             /\ Wakes(p, q.thread) <=> e \in ServedLists(NewEdge(p)) /\ q.num_cycle = 0
  <2>1. q \in Request
    BY <1>2, InRange DEF PlaceTypes
  <2>2. q.thread \in Thread /\ LeftOf(q).thread = q.thread
    BY <2>1 DEF LeftOf, Request
  <2>3. ASSUME Wakes(p, q.thread)
        PROVE  e \in ServedLists(NewEdge(p)) /\ q.num_cycle = 0
    <3>1. PICK f \in ServedLists(NewEdge(p)) : \E r \in Due(requests[p][f]) : r.thread = q.thread
      BY <2>3 DEF Wakes
    <3>2. PICK r \in Due(requests[p][f]) : r.thread = q.thread
      BY <3>1
    <3>3. f \in Edges /\ r \in Range(requests[p][f]) /\ r.num_cycle = 0
      BY <3>1, <3>2, ServedFacts DEF Due
    <3>4. f = e /\ r = q
      BY <1>1, <1>2, <3>2, <3>3, OneRequest
    <3>. QED BY <3>1, <3>3, <3>4
  <2>4. ASSUME e \in ServedLists(NewEdge(p)), q.num_cycle = 0
        PROVE  Wakes(p, q.thread)
    BY <2>4 DEF Wakes, Due
  <2>. QED BY <2>2, <2>3, <2>4
<1>6. ASSUME NEW t \in Range(Woken(p)) PROVE t \in Thread /\ Waits(t, p)
  <2>1. PICK f \in ServedLists(NewEdge(p)) : \E r \in Due(requests[p][f]) : r.thread = t
    BY <1>3 DEF Wakes
  <2>2. f \in Edges /\ \E r \in Range(requests[p][f]) : r.thread = t
    BY <2>1, ServedFacts DEF Due
  <2>. QED BY <1>3, <2>2, InRange DEF Waits
<1>7. CASE p \notin Listing
  <2>1. \A e \in Edges : requests'[p][e] = requests[p][e]
    BY <1>4, <1>7
  <2>. QED BY <1>3, <1>6, <1>7, <2>1 DEF Waits
<1>8. CASE p \in Listing
  <2>1. ASSUME NEW t \in Thread, Waits(t, p)'
        PROVE  Waits(t, p) /\ t \notin Range(Woken(p))
    <3>1. PICK e \in Edges : \E r \in Range(requests'[p][e]) : r.thread = t
      BY <2>1 DEF Waits
    <3>2. PICK q \in Range(requests[p][e]) :
             q.thread = t /\ ~(e \in ServedLists(NewEdge(p)) /\ q.num_cycle = 0)
      BY <3>1, <1>4, <1>5, <1>8
    <3>. QED BY <3>2, <1>3, <1>5 DEF Waits
  <2>2. ASSUME NEW t \in Thread, Waits(t, p), t \notin Range(Woken(p))
        PROVE  Waits(t, p)'
    <3>0. PICK e \in Edges : \E r \in Range(requests[p][e]) : r.thread = t
      BY <2>2 DEF Waits
    <3>1. PICK q \in Range(requests[p][e]) : q.thread = t
      BY <3>0
    <3>2. ~(e \in ServedLists(NewEdge(p)) /\ q.num_cycle = 0)
      BY <2>2, <3>1, <1>3, <1>5
    <3>3. \E r \in Range(requests'[p][e]) : r.thread = t
      BY <3>1, <3>2, <1>4, <1>5, <1>8
    <3>. QED BY <3>3 DEF Waits
  <2>. QED BY <2>1, <2>2, <1>3, <1>6, <1>8
<1>. QED BY <1>7, <1>8
-----------------------------------------------------------------------------
(***************************************************************************)
(* Who is monitored                                                        *)
(***************************************************************************)

MonInv == sync_count \in [Data -> Nat] /\ MonitoredIfNeeded

LEMMA MonInitial == Init => MonInv
<1> SUFFICES ASSUME Init PROVE MonInv
  OBVIOUS
<1>1. /\ requests = [p \in Port |-> [e \in Edges |-> <<>>]]
      /\ sync_count = [p \in Data |-> 0] /\ monitored = Clock
  BY DEF Init, PortsInit
<1>2. sync_count \in [Data -> Nat] /\ \A p \in Data : sync_count[p] = 0
  BY <1>1
<1>3. ASSUME NEW p \in Data PROVE Waiting(p) = {}
  <2>1. p \in Port
    BY DEF Data
  <2>2. \A e \in Edges : requests[p][e] = <<>>
    BY <2>1, <1>1
  <2>. QED BY <2>2, RangeEmpty DEF Waiting, Waits
<1>4. \A p \in Data : Cardinality(Waiting(p)) = 0
  BY <1>3, FS_EmptySet
<1>5. monitored = Clock \cup {p \in Data : sync_count[p] > 0}
  BY <1>1, <1>2
<1>. QED BY <1>2, <1>4, <1>5 DEF MonInv, MonitoredIfNeeded, Waiting

LEMMA MonSame ==
  ASSUME MonInv, UNCHANGED <<requests, sync_count, monitored>> PROVE MonInv'
BY DEF MonInv, MonitoredIfNeeded, Waits

(* The count of a thread more *)
LEMMA MonWaitForEdge ==
  ASSUME PlaceInv, MonInv, NEW t \in Thread, WaitForEdge(t) PROVE MonInv'
<1>1. PICK p \in Port, e \in Edges, n \in Cycles : SyncOnPort(t, p, e, n)
  BY DEF WaitForEdge
<1>2. /\ \A o \in Port, f \in Edges : \A r :
              r \in Range(requests'[o][f]) <=>
                r \in Range(requests[o][f]) \/ (o = p /\ f = e /\ r = NewRequest(t, n))
      /\ \A o \in Port, f \in Edges : \A r \in Range(requests[o][f]) : r.thread # t
      /\ NewRequest(t, n).thread = t
  BY <1>1, RequestEntered
<1>3. ASSUME NEW o \in Port
      PROVE  Waiting(o)' = (IF o = p THEN Waiting(o) \cup {t} ELSE Waiting(o)) /\ t \notin Waiting(o)
  BY <1>2 DEF Waiting, Waits
<1>4. ASSUME NEW o \in Port
      PROVE  /\ o = p => Cardinality(Waiting(o)') = Cardinality(Waiting(o)) + 1
             /\ o # p => Cardinality(Waiting(o)') = Cardinality(Waiting(o))
  BY <1>3, WaitingFinite, FS_AddElement
<1>5. /\ sync_count \in [Data -> Nat] /\ monitored = Clock \cup {o \in Data : sync_count[o] > 0}
      /\ \A o \in Data : sync_count[o] = Cardinality(Waiting(o))
  BY DEF MonInv, MonitoredIfNeeded, Waiting
<1>6. \A o \in Data : o \in Port /\ o \notin Clock
  BY DEF Data
<1>7. /\ sync_count' \in [Data -> Nat]
      /\ \A o \in Data : sync_count'[o] = IF o = p THEN sync_count[o] + 1 ELSE sync_count[o]
      /\ monitored' = IF p \in Clock THEN monitored ELSE monitored \cup {p}
  <2>1. CASE p \in Clock
    BY <2>1, <1>1, <1>5, <1>6 DEF SyncOnPort
  <2>2. CASE p \notin Clock
    BY <2>2, <1>1, <1>5 DEF SyncOnPort
  <2>. QED BY <2>1, <2>2
<1>8. \A o \in Data : sync_count'[o] = Cardinality(Waiting(o)')
  BY <1>4, <1>5, <1>6, <1>7
<1>9. monitored' = Clock \cup {o \in Data : sync_count'[o] > 0}
  BY <1>5, <1>6, <1>7 DEF Data
<1>. QED BY <1>7, <1>8, <1>9 DEF MonInv, MonitoredIfNeeded, Waiting

(* The count of the threads woken less *)
LEMMA MonSlotEnds ==
  ASSUME TaskInv, ListInv, PlaceInv, MonInv, SlotEnds PROVE MonInv'
<1>1. /\ sync_count \in [Data -> Nat] /\ monitored = Clock \cup {o \in Data : sync_count[o] > 0}
      /\ \A o \in Data : sync_count[o] = Cardinality(Waiting(o))
  BY DEF MonInv, MonitoredIfNeeded, Waiting
<1>2. /\ sync_count' = [p \in Data |->
                          IF p \in Listing THEN sync_count[p] - Len(Woken(p)) ELSE sync_count[p]]
      /\ KeepMonitors
  BY DEF SlotEnds, ServeAll, ServePorts
<1>3. \A o \in Data : o \in Port /\ o \notin Clock
  BY DEF Data
<1>4. ASSUME NEW o \in Data
      PROVE  /\ sync_count'[o] = Cardinality(Waiting(o)') /\ sync_count'[o] \in Nat
             /\ ~(o \in Listing /\ Woken(o) # <<>>) => sync_count'[o] = sync_count[o]
             /\ sync_count'[o] <= sync_count[o] /\ sync_count[o] \in Nat
  <2>1. /\ o \notin Listing => \A t \in Thread : Waits(t, o)' <=> Waits(t, o)
        /\ o \in Listing => \A t \in Thread : Waits(t, o)' <=> Waits(t, o) /\ t \notin Range(Woken(o))
        /\ \A t \in Range(Woken(o)) : t \in Thread /\ Waits(t, o)
        /\ Woken(o) \in Seq(Thread) /\ IsInjective(Woken(o))
    BY <1>3, StillWaits
  <2>2. /\ IsFiniteSet(Waiting(o)) /\ Cardinality(Waiting(o)) \in Nat
        /\ Cardinality(Waiting(o)') \in Nat
    <3>1. Waiting(o)' \in SUBSET Thread
      BY DEF Waiting
    <3>2. IsFiniteSet(Waiting(o)')
      BY <3>1, FS_Subset, SlotsAssumption
    <3>. QED BY <3>2, FS_CardinalityType, WaitingFinite
  <2>3. CASE o \notin Listing
    <3>1. Waiting(o)' = Waiting(o)
      BY <2>1, <2>3 DEF Waiting
    <3>2. sync_count'[o] = sync_count[o]
      BY <1>2, <2>3
    <3>. QED BY <3>1, <3>2, <2>2, <2>3, <1>1
  <2>4. CASE o \in Listing
    <3> DEFINE gone == Range(Woken(o))
               count == sync_count'[o]
    <3>1. Waiting(o)' = Waiting(o) \ gone /\ gone \subseteq Waiting(o)
      BY <2>1, <2>4 DEF Waiting
    <3>2. IsFiniteSet(gone) /\ Cardinality(gone) = Len(Woken(o)) /\ Len(Woken(o)) \in Nat
      BY <2>1, OnceCounted
    <3>3. count = sync_count[o] - Len(Woken(o))
      BY <1>2, <2>4
    <3>4. Waiting(o) \cap gone = gone
      BY <3>1
    <3>5. Cardinality(Waiting(o)') = Cardinality(Waiting(o)) - Cardinality(gone)
      <4> HIDE DEF gone
      <4>. QED BY <3>1, <3>4, <2>2, FS_Difference
    <3>6. Woken(o) = <<>> => Len(Woken(o)) = 0
      OBVIOUS
    <3>7. sync_count[o] = Cardinality(Waiting(o))
      BY <1>1
    <3> HIDE DEF gone, count
    <3>8. count = Cardinality(Waiting(o)') /\ count <= sync_count[o]
          /\ (Woken(o) = <<>> => count = sync_count[o])
      BY <3>2, <3>3, <3>5, <3>6, <3>7, <2>2
    <3>. QED BY <3>7, <3>8, <2>2, <2>4 DEF count
  <2>. QED BY <2>3, <2>4
<1>5. sync_count' \in [Data -> Nat]
  <2>1. \A o \in Data : sync_count'[o] \in Nat
    BY <1>4
  <2>. QED BY <2>1, <1>2
<1>6. \A o \in Data : o \in monitored' <=> sync_count'[o] > 0
  <2> SUFFICES ASSUME NEW o \in Data PROVE o \in monitored' <=> sync_count'[o] > 0
    OBVIOUS
  <2>1. o \in monitored <=> sync_count[o] > 0
    BY <1>1, <1>3
  <2>2. o \in monitored' <=> o \in monitored /\ ~(o \in Listing /\ Woken(o) # <<>> /\ sync_count'[o] = 0)
    BY <1>2 DEF KeepMonitors
  <2>. QED BY <2>1, <2>2, <1>4
<1>7. monitored' = Clock \cup {o \in Data : sync_count'[o] > 0}
  <2>1. monitored' \subseteq monitored /\ Clock \subseteq monitored'
    BY <1>1, <1>2, <1>3 DEF KeepMonitors
  <2>2. \A o \in monitored' : o \in Clock \/ o \in Data
    BY <2>1, <1>1
  <2>. QED BY <2>1, <2>2, <1>6
<1>8. \A o \in Data : sync_count'[o] = Cardinality(Waiting(o)')
  BY <1>4
<1>. QED BY <1>5, <1>7, <1>8 DEF MonInv, MonitoredIfNeeded, Waiting

LEMMA MonInductive == AllInv /\ MonInv /\ [Next]_vars => MonInv'
<1> SUFFICES ASSUME AllInv, MonInv, [Next]_vars PROVE MonInv'
  OBVIOUS
<1> DEFINE Same == UNCHANGED <<requests, sync_count, monitored>>
<1>1. ASSUME Same PROVE MonInv'
  BY <1>1, MonSame
<1>2. ASSUME NEW t \in Thread, Suspends(t) \/ DriveAClock(t) PROVE MonInv'
  <2>1. CASE WaitForEdge(t)
    BY <2>1, MonWaitForEdge DEF AllInv
  <2>2. CASE CallTask(t) \/ DelayItself(t) \/ DriveAClock(t)
    <3>1. Same
      BY <2>2, Zenon DEF CallTask, DelayItself, DriveAClock, portVars
    <3>. QED BY <3>1, <1>1
  <2>. QED BY <2>1, <2>2, <1>2 DEF Suspends
<1>3. CASE PortChanges
  <2>1. Same
    BY <1>3, Zenon DEF PortChanges, ValueChanges
  <2>. QED BY <2>1, <1>1
<1>4. CASE TaskFinishes \/ DelayEnds \/ NextTime
  <2>1. Same
    BY <1>4, Zenon DEF TaskFinishes, DelayEnds, NextTime, portVars
  <2>. QED BY <2>1, <1>1
<1>5. CASE SlotEnds
  BY <1>5, MonSlotEnds DEF AllInv
<1>6. CASE BackToVerilog
  <2>1. Same
    BY <1>6, Zenon DEF BackToVerilog, ClearPorts
  <2>. QED BY <2>1, <1>1
<1>7. CASE UNCHANGED vars
  <2>1. Same
    BY <1>7, Zenon DEF vars, portVars
  <2>. QED BY <2>1, <1>1
<1>. QED BY <1>2, <1>3, <1>4, <1>5, <1>6, <1>7, Zenon DEF Next

(* A data port has a value change callback exactly while threads wait for  *)
(* it, and sync_count is their number: insert_vcl and delete_vcl in        *)
(* JD_sync_on_port and process_pli_req_on_edge are called once each,       *)
(* however many waits for the port overlap.                                *)
THEOREM PortsMonitored == Spec => []MonitoredIfNeeded
<1>1. Init => AllInv /\ MonInv
  BY AllInitial, MonInitial
<1>2. AllInv /\ MonInv /\ [Next]_vars => AllInv' /\ MonInv'
  BY AllInductive, MonInductive
<1>3. MonInv => MonitoredIfNeeded
  BY DEF MonInv
<1>. QED BY <1>1, <1>2, <1>3, PTL DEF Spec
-----------------------------------------------------------------------------
(***************************************************************************)
(* The edges of the clocks                                                 *)
(***************************************************************************)

Wishes == [port : Port \cup {None}, edge : Edges, asked : Nat, passed : Nat]

PortTypes ==
  /\ value \in [Port -> Value \cup {"x"}]
  /\ last_val \in [Port -> Value \cup {"x"}] /\ settled \in [Port -> Value \cup {"x"}]
  /\ wish \in [Thread -> Wishes]

(* Of a clock the last value is that at the end of the last slot, and a    *)
(* clock that has another value now is in its list                         *)
Settled ==
  \A p \in Clock :
    /\ last_val[p] = settled[p]
    /\ turn = "verilog" /\ value[p] # settled[p] => p \in Range(clocked_list)
    /\ turn = "jeda" => value[p] = settled[p]

(* What is left of request q and what has passed is what its thread asked  *)
InStep(q) == wish[q.thread].passed + q.num_cycle + 1 = wish[q.thread].asked

(* The request q in list e of p is what its thread wishes for *)
AsWished(p, e, q) == /\ wish[q.thread].port = p /\ wish[q.thread].edge = e
                     /\ p \in Clock /\ e # "both" => InStep(q)

(* A thread that does not wait for the clock it wished for has had it *)
Satisfied(t) == wish[t].port \in Clock /\ wish[t].edge # "both" /\ ~Waits(t, wish[t].port)
                  => wish[t].passed = wish[t].asked

Counted ==
  /\ \A p \in Port, e \in Edges : \A q \in Range(requests[p][e]) : AsWished(p, e, q)
  /\ \A t \in Thread : Satisfied(t)

ClockInv == PortTypes /\ Settled /\ Counted

NoClock == \A p \in Clock : p \in Port /\ p # None

LEMMA NoneNoClock == NoClock
BY SlotsAssumption DEF NoClock

LEMMA NoWishFits == NoWish \in Wishes /\ NoWish.port \notin Clock
<1>1. NoWish \in Wishes /\ NoWish.port = None
  BY DEF NoWish, Wishes, Edges
<1>. QED BY <1>1, NoneNoClock DEF NoClock

LEMMA ClockInitial == Init => ClockInv
<1> SUFFICES ASSUME Init PROVE ClockInv
  OBVIOUS
<1>1. /\ value = [p \in Port |-> "x"] /\ last_val = value /\ settled = value
      /\ requests = [p \in Port |-> [e \in Edges |-> <<>>]]
      /\ wish = [t \in Thread |-> NoWish]
      /\ turn = "verilog"
  BY DEF Init, PortsInit, SlotsInit
<1>2. PortTypes
  BY <1>1, NoWishFits DEF PortTypes
<1>3. Settled
  BY <1>1 DEF Settled
<1>4. \A p \in Port, e \in Edges : Range(requests[p][e]) = {}
  BY <1>1, RangeEmpty
<1>5. Counted
  BY <1>1, <1>4, NoWishFits DEF Counted, Satisfied
<1>. QED BY <1>2, <1>3, <1>5 DEF ClockInv

(* The steps that move neither requests nor wishes *)
LEMMA CountedSame == ASSUME Counted, UNCHANGED <<requests, wish>> PROVE Counted'
BY DEF Counted, AsWished, InStep, Satisfied, Waits

LEMMA SettledSame ==
  ASSUME Settled, UNCHANGED <<turn, clocked_list, value, last_val, settled>> PROVE Settled'
BY DEF Settled

(* A thread that sleeps somewhere else forgets what it waited for *)
LEMMA CountedForget ==
  ASSUME PlaceInv, PortTypes, Counted, NEW t \in Thread, Sleeps(t), Forget(t), UNCHANGED requests
  PROVE  Counted' /\ wish' \in [Thread -> Wishes]
<1>1. wish' = [wish EXCEPT ![t] = NoWish] /\ wish \in [Thread -> Wishes]
  BY DEF Forget, PortTypes
<1>2. /\ wish' \in [Thread -> Wishes]
      /\ \A x \in Thread : wish'[x] = IF x = t THEN NoWish ELSE wish[x]
  BY <1>1, NoWishFits
<1>3. ASSUME NEW o \in Port, NEW f \in Edges, NEW r \in Range(requests[o][f])
      PROVE  r.thread # t /\ r.thread \in Thread
  <2>1. PICK at \in [Thread -> Places] : Standing(at)
    BY DEF PlaceInv
  <2>2. t \in Range(ready)
    BY TailFacts DEF PlaceInv, PlaceTypes, Sleeps, Runs
  <2>3. at[t] = AtReady
    BY <2>1, <2>2 DEF Standing
  <2>4. t \notin Sleepers(requests[o][f])
    BY <2>1, <2>3, PlacesDiffer DEF Standing
  <2>5. r \in Request
    BY InRange DEF PlaceInv, PlaceTypes
  <2>. QED BY <2>4, <2>5 DEF Sleepers, Request
<1>4. ASSUME NEW p \in Port, NEW e \in Edges, NEW q \in Range(requests'[p][e])
      PROVE  AsWished(p, e, q)'
  <2>1. q \in Range(requests[p][e]) /\ AsWished(p, e, q)
    BY <1>4 DEF Counted
  <2>2. wish'[q.thread] = wish[q.thread]
    BY <1>2, <1>3, <2>1
  <2>. QED BY <2>1, <2>2 DEF AsWished, InStep
<1>5. ASSUME NEW x \in Thread PROVE Satisfied(x)'
  <2>1. CASE x = t
    BY <2>1, <1>2, NoWishFits DEF Satisfied
  <2>2. CASE x # t
    <3>1. wish'[x] = wish[x] /\ Satisfied(x)
      BY <2>2, <1>2 DEF Counted
    <3>. QED BY <3>1 DEF Satisfied, Waits
  <2>. QED BY <2>1, <2>2
<1>. QED BY <1>2, <1>4, <1>5 DEF Counted

(* A thread that waits: its request is as long as what it asks for *)
LEMMA CountedWaitForEdge ==
  ASSUME PlaceInv, ClockInv, NEW t \in Thread, WaitForEdge(t) PROVE ClockInv'
<1>1. PICK p \in Port, e \in Edges, n \in Cycles : SyncOnPort(t, p, e, n)
  BY DEF WaitForEdge
<1> DEFINE new == [port |-> p, edge |-> e, passed |-> 0, asked |-> IF n = 0 THEN 1 ELSE n]
<1>2. n \in Nat
  BY PortsAssumption
<1>3. /\ wish' = [wish EXCEPT ![t] = new] /\ wish \in [Thread -> Wishes]
      /\ UNCHANGED <<turn, clocked_list, value, last_val, settled>>
  BY <1>1 DEF SyncOnPort, Sleeps, ClockInv, PortTypes
<1>4. /\ new \in Wishes /\ new.port = p /\ new.edge = e
      /\ new.passed + CyclesLeft(n) + 1 = new.asked
  BY <1>2 DEF Wishes, CyclesLeft
<1> HIDE DEF new
<1>5. /\ wish' \in [Thread -> Wishes]
      /\ \A x \in Thread : wish'[x] = IF x = t THEN new ELSE wish[x]
  BY <1>3, <1>4
<1>6. /\ NewRequest(t, n).thread = t /\ NewRequest(t, n).num_cycle = CyclesLeft(n)
      /\ \A o \in Port, f \in Edges : \A r :
              r \in Range(requests'[o][f]) <=>
                r \in Range(requests[o][f]) \/ (o = p /\ f = e /\ r = NewRequest(t, n))
      /\ \A o \in Port, f \in Edges : \A r \in Range(requests[o][f]) : r.thread # t
  BY <1>1, RequestEntered
<1>7. ASSUME NEW o \in Port, NEW f \in Edges, NEW q \in Range(requests'[o][f])
      PROVE  AsWished(o, f, q)'
  <2>1. CASE q \in Range(requests[o][f])
    <3>1. q.thread # t /\ q.thread \in Thread
      <4>1. q \in Request
        BY <2>1, InRange DEF PlaceInv, PlaceTypes
      <4>. QED BY <4>1, <2>1, <1>6 DEF Request
    <3>2. wish'[q.thread] = wish[q.thread] /\ AsWished(o, f, q)
      BY <2>1, <3>1, <1>5 DEF ClockInv, Counted
    <3>. QED BY <3>2 DEF AsWished, InStep
  <2>2. CASE q \notin Range(requests[o][f])
    <3>1. o = p /\ f = e /\ q.thread = t /\ q.num_cycle = CyclesLeft(n)
      BY <2>2, <1>6, <1>7
    <3>2. wish'[t] = new
      BY <1>5
    <3>. QED BY <3>1, <3>2, <1>4 DEF AsWished, InStep
  <2>. QED BY <2>1, <2>2
<1>8. ASSUME NEW x \in Thread PROVE Satisfied(x)'
  <2>1. CASE x = t
    <3>1. NewRequest(t, n) \in Range(requests'[p][e])
      BY <1>6
    <3>2. Waits(t, p)'
      BY <3>1, <1>6 DEF Waits
    <3>3. wish'[t].port = p
      BY <1>4, <1>5
    <3>. QED BY <2>1, <3>2, <3>3 DEF Satisfied
  <2>2. CASE x # t
    <3>1. wish'[x] = wish[x] /\ Satisfied(x)
      BY <2>2, <1>5 DEF ClockInv, Counted
    <3>2. \A o \in Port : Waits(x, o)' <=> Waits(x, o)
      BY <2>2, <1>6 DEF Waits
    <3>. QED BY <3>1, <3>2, NoneNoClock DEF Satisfied, NoClock
  <2>. QED BY <2>1, <2>2
<1>9. Counted'
  BY <1>7, <1>8 DEF Counted
<1>10. Settled'
  BY <1>3, SettledSame DEF ClockInv
<1>11. PortTypes'
  BY <1>3, <1>5 DEF ClockInv, PortTypes
<1>. QED BY <1>9, <1>10, <1>11 DEF ClockInv

(* A clock that changes is in its list, by its flag or from now on *)
LEMMA ClockPortChanges ==
  ASSUME ListInv, MonInv, ClockInv, TaskInv, PortChanges PROVE ClockInv'
<1>1. PICK p \in Port, v \in Value : ValueChanges(p, v)
  BY DEF PortChanges
<1>2. /\ turn = "verilog" /\ UNCHANGED <<turn, last_val, settled, requests, wish>>
      /\ value' = [value EXCEPT ![p] = v] /\ value \in [Port -> Value \cup {"x"}]
  BY <1>1 DEF ValueChanges, ClockInv, PortTypes
<1>3. /\ value' \in [Port -> Value \cup {"x"}]
      /\ \A o \in Port : value'[o] = IF o = p THEN v ELSE value[o]
  BY <1>2
<1>4. Counted' /\ PortTypes'
  BY <1>2, <1>3, CountedSame DEF ClockInv, PortTypes
<1>5. clocked_list \in Seq(Clock) /\ Clock \subseteq Port
  BY SlotsAssumption DEF ListInv, ListTypes
<1>6. /\ Range(clocked_list) \subseteq Range(clocked_list')
      /\ p \in Clock => p \in Range(clocked_list')
  <2>1. CASE p \in Clock
    <3>1. p \in monitored
      BY <2>1 DEF MonInv, MonitoredIfNeeded
    <3>2. clocked_list' = Listed(clocked_list, p)
      BY <1>1, <2>1, <3>1 DEF ValueChanges
    <3>3. CASE clocked[p]
      <4>1. p \in Listing
        BY <1>5, <2>1, <3>3 DEF ListInv, ListsAgree
      <4>2. p \notin Range(changed_list)
        <5>1. \A x \in Range(changed_list) : x \in Object
          BY InRange DEF TaskInv, Types
        <5>2. p \notin Object
          BY <1>5, <2>1, TaskNoPort DEF Object, Data
        <5>. QED BY <5>1, <5>2
      <4>. QED BY <4>1, <4>2, <3>2, <3>3 DEF Listed, Listing
    <3>4. CASE ~clocked[p]
      <4>1. clocked_list' = Append(clocked_list, p)
        BY <3>2, <3>4 DEF Listed
      <4>. QED BY <4>1, <1>5, <2>1, AppendRange
    <3>. QED BY <3>3, <3>4
  <2>2. CASE p \notin Clock
    <3>1. clocked_list' = clocked_list
      BY <1>1, <2>2 DEF ValueChanges
    <3>. QED BY <2>2, <3>1
  <2>. QED BY <2>1, <2>2
<1>7. Settled'
  <2> SUFFICES ASSUME NEW o \in Clock
               PROVE  /\ last_val'[o] = settled'[o]
                      /\ value'[o] # settled'[o] => o \in Range(clocked_list')
    BY <1>2 DEF Settled
  <2>1. /\ last_val[o] = settled[o]
        /\ value[o] # settled[o] => o \in Range(clocked_list)
    BY <1>2 DEF ClockInv, Settled
  <2>. QED BY <2>1, <1>2, <1>3, <1>5, <1>6
<1>. QED BY <1>4, <1>7 DEF ClockInv

LEMMA ClockBackToVerilog ==
  ASSUME TaskInv, ClockInv, BackToVerilog PROVE ClockInv'
<1>1. /\ turn = "jeda" /\ UNCHANGED <<value, settled, requests, wish>>
      /\ last_val' = [p \in Port |-> IF p \in Range(changed_list) THEN value[p] ELSE last_val[p]]
  BY DEF BackToVerilog, ClearPorts
<1>2. Counted'
  BY <1>1, CountedSame DEF ClockInv
<1>3. PortTypes'
  BY <1>1 DEF ClockInv, PortTypes
<1>4. Settled'
  <2> SUFFICES ASSUME NEW p \in Clock
               PROVE  last_val'[p] = settled'[p] /\ value'[p] = settled'[p]
    BY DEF Settled
  <2>1. last_val[p] = settled[p] /\ value[p] = settled[p]
    BY <1>1 DEF ClockInv, Settled
  <2>2. p \in Port
    BY SlotsAssumption
  <2>. QED BY <2>1, <2>2, <1>1
<1>. QED BY <1>2, <1>3, <1>4 DEF ClockInv

(* An edge of a list that is served, and no other, is one the threads of   *)
(* the list wait for                                                       *)
LEMMA FitsServed ==
  ASSUME NEW old, NEW new, NEW e \in Edges, e # "both"
  PROVE  Fits(EdgeOf(old, new), e) <=> e \in ServedLists(EdgeOf(old, new))
BY DEF Fits, EdgeOf, ServedLists, Edges

(* The end of a slot: what the edge of a clock does to the requests for it *)
(* and what the history says of it                                         *)
LEMMA ClockSlotEnds ==
  ASSUME TaskInv, ListInv, PlaceInv, ClockInv, SlotEnds PROVE ClockInv'
<1>1. /\ turn = "verilog" /\ turn' = "jeda" /\ UNCHANGED <<clocked_list, value>>
      /\ settled' = value
      /\ last_val' = [p \in Port |-> IF p \in Listing THEN value[p] ELSE last_val[p]]
      /\ wish' = [t \in Thread |->
                IF /\ wish[t].port # None /\ wish[t].passed <= wish[t].asked
                   /\ Waits(t, wish[t].port)
                   /\ Fits(EdgeOf(settled[wish[t].port], value[wish[t].port]), wish[t].edge)
                THEN [wish[t] EXCEPT !.passed = @ + 1] ELSE wish[t]]
  BY DEF SlotEnds, ServeAll, ServePorts
<1>2. PortTypes
  BY DEF ClockInv
<1>3. ASSUME NEW p \in Clock
      PROVE  /\ p \in Port /\ p # None /\ last_val[p] = settled[p]
             /\ p \notin Listing => value[p] = settled[p]
  <2>1. p \in Port /\ p # None
    BY NoneNoClock DEF NoClock
  <2>. QED BY <1>1, <2>1 DEF ClockInv, Settled, Listing
<1>4. Settled'
  BY <1>1, <1>3 DEF Settled
<1> DEFINE passes(t) == /\ wish[t].port # None /\ wish[t].passed <= wish[t].asked
                        /\ Waits(t, wish[t].port)
                        /\ Fits(EdgeOf(settled[wish[t].port], value[wish[t].port]), wish[t].edge)
<1>5. ASSUME NEW t \in Thread
      PROVE  /\ wish'[t] \in Wishes /\ wish'[t].port = wish[t].port /\ wish'[t].edge = wish[t].edge
             /\ wish'[t].asked = wish[t].asked
             /\ wish'[t].passed = IF passes(t) THEN wish[t].passed + 1 ELSE wish[t].passed
             /\ wish[t].asked \in Nat /\ wish[t].passed \in Nat
  <2>1. wish[t] \in Wishes
    BY <1>2 DEF PortTypes
  <2>2. wish'[t] = IF passes(t) THEN [wish[t] EXCEPT !.passed = @ + 1] ELSE wish[t]
    BY <1>1
  <2> HIDE DEF passes
  <2>. QED BY <2>1, <2>2 DEF Wishes
<1>6. PortTypes'
  <2>1. wish' \in [Thread -> Wishes]
    BY <1>1, <1>5
  <2>2. last_val' \in [Port -> Value \cup {"x"}] /\ settled' \in [Port -> Value \cup {"x"}]
    BY <1>1, <1>2 DEF PortTypes
  <2>. QED BY <2>1, <2>2, <1>1, <1>2 DEF PortTypes
<1>7. \A p \in Port, e \in Edges :
              IF p \in Listing /\ e \in ServedLists(NewEdge(p))
                 THEN \A r : r \in Range(requests'[p][e]) <=>
                        \E q \in Range(requests[p][e]) : q.num_cycle # 0 /\ r = LeftOf(q)
                 ELSE requests'[p][e] = requests[p][e]
  BY RequestsLeft DEF PlaceInv
(* Whether a request for a clock is one edge nearer *)
<1>8. ASSUME NEW p \in Port, NEW e \in Edges, NEW q \in Range(requests[p][e])
      PROVE  /\ q \in Request /\ q.thread \in Thread /\ AsWished(p, e, q) /\ Waits(q.thread, p)
             /\ LeftOf(q).thread = q.thread /\ LeftOf(q).num_cycle = q.num_cycle - 1
             /\ p \in Clock /\ e # "both" =>
                  (passes(q.thread) <=> p \in Listing /\ e \in ServedLists(NewEdge(p)))
  <2>1. q \in Request
    BY InRange DEF PlaceInv, PlaceTypes
  <2>2. /\ q.thread \in Thread /\ q.num_cycle \in Nat
        /\ LeftOf(q).thread = q.thread /\ LeftOf(q).num_cycle = q.num_cycle - 1
    BY <2>1 DEF LeftOf, Request
  <2>3. AsWished(p, e, q) /\ Waits(q.thread, p)
    BY DEF ClockInv, Counted, Waits
  <2>4. ASSUME p \in Clock, e # "both"
        PROVE  passes(q.thread) <=> p \in Listing /\ e \in ServedLists(NewEdge(p))
    <3> DEFINE w == wish[q.thread]
    <3>1. w.port = p /\ w.edge = e /\ w.passed + q.num_cycle + 1 = w.asked
      BY <2>3, <2>4 DEF AsWished, InStep
    <3>2. w.passed \in Nat /\ w.asked \in Nat
      BY <1>5, <2>2
    <3> HIDE DEF w
    <3>3. w.passed <= w.asked
      BY <3>1, <3>2, <2>2
    <3>4. passes(q.thread) <=> Fits(EdgeOf(settled[p], value[p]), e)
      BY <3>1, <3>3, <2>3, <2>4, <1>3 DEF w
    <3>5. NewEdge(p) = EdgeOf(settled[p], value[p])
      BY <1>3, <2>4 DEF NewEdge
    <3>6. p \notin Listing => EdgeOf(settled[p], value[p]) = "none"
      BY <1>3, <2>4 DEF EdgeOf
    <3>7. Fits(EdgeOf(settled[p], value[p]), e) <=> e \in ServedLists(NewEdge(p))
      BY <3>5, <2>4, FitsServed
    <3>8. p \notin Listing => e \notin ServedLists(NewEdge(p))
      BY <3>5, <3>6 DEF ServedLists
    <3>. QED BY <3>4, <3>7, <3>8
  <2>. QED BY <2>1, <2>2, <2>3, <2>4
<1> HIDE DEF passes
<1>9. ASSUME NEW p \in Port, NEW e \in Edges, NEW r \in Range(requests'[p][e])
      PROVE  AsWished(p, e, r)'
  <2>1. CASE p \in Listing /\ e \in ServedLists(NewEdge(p))
    <3>1. PICK q \in Range(requests[p][e]) : q.num_cycle # 0 /\ r = LeftOf(q)
      BY <2>1, <1>7
    <3>2. /\ r.thread = q.thread /\ r.num_cycle = q.num_cycle - 1 /\ q.thread \in Thread
          /\ AsWished(p, e, q) /\ q.num_cycle \in Nat
      BY <3>1, <1>8 DEF Request
    <3>3. p \in Clock /\ e # "both" => passes(q.thread)
      BY <2>1, <1>8
    <3>. QED BY <3>2, <3>3, <1>5 DEF AsWished, InStep
  <2>2. CASE ~(p \in Listing /\ e \in ServedLists(NewEdge(p)))
    <3>1. r \in Range(requests[p][e])
      BY <2>2, <1>7
    <3>2. r.thread \in Thread /\ AsWished(p, e, r)
      BY <3>1, <1>8
    <3>3. p \in Clock /\ e # "both" => ~passes(r.thread)
      BY <2>2, <3>1, <1>8
    <3>. QED BY <3>2, <3>3, <1>5 DEF AsWished, InStep
  <2>. QED BY <2>1, <2>2
<1>10. ASSUME NEW t \in Thread, wish[t].port \in Clock, wish[t].edge # "both",
              ~Waits(t, wish[t].port)'
       PROVE  wish'[t].passed = wish[t].asked
  <2> DEFINE p == wish[t].port
             e == wish[t].edge
  <2>1. p \in Clock /\ p \in Port
    BY <1>3, <1>10
  <2>2. CASE Waits(t, p)
    <3>1. PICK f \in Edges : \E r \in Range(requests[p][f]) : r.thread = t
      BY <2>2 DEF Waits
    <3>2. PICK q \in Range(requests[p][f]) : q.thread = t
      BY <3>1
    <3>3. f = e /\ AsWished(p, e, q)
      BY <2>1, <3>2, <1>8 DEF AsWished
    <3>4. p \in Listing /\ e \in ServedLists(NewEdge(p)) /\ q.num_cycle = 0
      <4>1. \A r : r \in Range(requests'[p][e]) => r.thread # t
        <5>1. \A r \in Range(requests'[wish[t].port][f]) : r.thread # t
          <6>1. wish'[t].port = wish[t].port
            BY <1>5
          <6>. QED BY <6>1, <1>10 DEF Waits
        <5>. QED BY <5>1, <3>3
      <4>2. p \in Listing /\ e \in ServedLists(NewEdge(p))
        BY <4>1, <2>1, <3>2, <3>3, <1>7
      <4>3. q.num_cycle = 0
        <5>1. q.num_cycle # 0 => LeftOf(q) \in Range(requests'[p][e])
          BY <4>2, <2>1, <3>2, <3>3, <1>7
        <5>2. LeftOf(q).thread = t
          BY <2>1, <3>2, <3>3, <1>8
        <5>. QED BY <5>1, <5>2, <4>1
      <4>. QED BY <4>2, <4>3
    <3>5. passes(t)
      BY <2>1, <3>2, <3>3, <3>4, <1>8, <1>10
    <3>6. wish[t].passed + 1 = wish[t].asked
      <4>1. wish[t].passed + q.num_cycle + 1 = wish[t].asked
        BY <2>1, <3>2, <3>3, <1>10 DEF AsWished, InStep
      <4>. QED BY <4>1, <3>4, <1>5
    <3>. QED BY <3>5, <3>6, <1>5
  <2>3. CASE ~Waits(t, p)
    <3>1. Satisfied(t)
      BY DEF ClockInv, Counted
    <3>2. ~passes(t)
      BY <2>3 DEF passes
    <3>. QED BY <2>3, <3>1, <3>2, <1>5, <1>10 DEF Satisfied
  <2>. QED BY <2>2, <2>3
<1>11. ASSUME NEW t \in Thread PROVE Satisfied(t)'
  BY <1>5, <1>10 DEF Satisfied
<1>12. Counted'
  BY <1>9, <1>11 DEF Counted
<1>. QED BY <1>4, <1>6, <1>12 DEF ClockInv

LEMMA ClockInductive == AllInv /\ MonInv /\ ClockInv /\ [Next]_vars => ClockInv'
<1> SUFFICES ASSUME AllInv, MonInv, ClockInv, [Next]_vars PROVE ClockInv'
  OBVIOUS
<1> DEFINE Same == UNCHANGED <<turn, clocked_list, portVars>>
<1>1. ASSUME UNCHANGED <<turn, clocked_list, value, last_val, settled>>, Counted',
             wish' \in [Thread -> Wishes]
      PROVE  ClockInv'
  BY <1>1, SettledSame DEF ClockInv, PortTypes
<1>2. ASSUME Same PROVE ClockInv'
  BY <1>2, SettledSame, CountedSame DEF ClockInv, PortTypes, portVars
<1>3. ASSUME NEW t \in Thread, Suspends(t) \/ DriveAClock(t) PROVE ClockInv'
  <2>1. CASE WaitForEdge(t)
    BY <2>1, CountedWaitForEdge DEF AllInv
  <2>2. CASE CallTask(t) \/ DelayItself(t)
    <3>1. /\ Sleeps(t) /\ Forget(t)
          /\ UNCHANGED <<value, last_val, requests, settled>>
      BY <2>2, Zenon DEF CallTask, DelayItself, VeriTaskCall, UnitDelay
    <3>2. UNCHANGED <<turn, clocked_list>>
      BY <3>1 DEF Sleeps
    <3>3. Counted' /\ wish' \in [Thread -> Wishes]
      BY <3>1, CountedForget DEF AllInv, ClockInv
    <3>. QED BY <3>1, <3>2, <3>3, <1>1
  <2>3. CASE DriveAClock(t)
    <3>1. Same
      BY <2>3, Zenon DEF DriveAClock, DriveClock, StopClock, slotVars
    <3>. QED BY <3>1, <1>2
  <2>. QED BY <2>1, <2>2, <2>3, <1>3 DEF Suspends
<1>4. CASE PortChanges
  BY <1>4, ClockPortChanges DEF AllInv
<1>5. CASE TaskFinishes
  <2>1. Same
    BY <1>5 DEF TaskFinishes, TaskEnds
  <2>. QED BY <2>1, <1>2
<1>6. CASE DelayEnds
  <2>1. Same
    BY <1>6 DEF DelayEnds, Reactivate, UnitDelayEnd, DriveClockSeq, slotVars
  <2>. QED BY <2>1, <1>2
<1>7. CASE NextTime
  <2>1. Same
    BY <1>7 DEF NextTime, TimePasses, slotVars
  <2>. QED BY <2>1, <1>2
<1>8. CASE SlotEnds
  BY <1>8, ClockSlotEnds DEF AllInv
<1>9. CASE BackToVerilog
  BY <1>9, ClockBackToVerilog DEF AllInv
<1>10. CASE UNCHANGED vars
  <2>1. Same
    BY <1>10 DEF vars, slotVars
  <2>. QED BY <2>1, <1>2
<1>. QED BY <1>3, <1>4, <1>5, <1>6, <1>7, <1>8, <1>9, <1>10, Zenon DEF Next

LEMMA CountedIsExact == ASSUME PlaceInv, ClockInv PROVE ClockEdgesCounted
<1> SUFFICES ASSUME NEW t \in Thread, wish[t].port \in Clock, wish[t].edge # "both"
             PROVE  IF Waits(t, wish[t].port) THEN wish[t].passed < wish[t].asked
                                              ELSE wish[t].passed = wish[t].asked
  BY Zenon DEF ClockEdgesCounted
<1>1. wish[t].passed \in Nat /\ wish[t].asked \in Nat /\ wish[t].port \in Port
  BY NoneNoClock DEF ClockInv, PortTypes, Wishes, NoClock
<1>2. ASSUME Waits(t, wish[t].port) PROVE wish[t].passed < wish[t].asked
  <2>1. PICK e \in Edges : \E r \in Range(requests[wish[t].port][e]) : r.thread = t
    BY <1>2 DEF Waits
  <2>2. PICK q \in Range(requests[wish[t].port][e]) : q.thread = t
    BY <2>1
  <2>3. q.num_cycle \in Nat
    <3>1. q \in Request
      BY <1>1, InRange DEF PlaceInv, PlaceTypes
    <3>. QED BY <3>1 DEF Request
  <2>4. wish[t].passed + q.num_cycle + 1 = wish[t].asked
    BY <1>1, <2>2 DEF ClockInv, Counted, AsWished, InStep
  <2>. QED BY <2>3, <2>4, <1>1
<1>3. ASSUME ~Waits(t, wish[t].port) PROVE wish[t].passed = wish[t].asked
  BY <1>3 DEF ClockInv, Counted, Satisfied
<1>. QED BY <1>2, <1>3

(* Whatever happens to the queues of the slot, whoever else waits for the  *)
(* clock and however often it toggles between two slots, a thread sleeps   *)
(* through n - 1 edges it waits for and is woken by the nth:               *)
(* JD_sync_on_port, gen_ref_clock_edge and process_req_sync agree.         *)
THEOREM EdgesCounted == Spec => []ClockEdgesCounted
<1>1. Init => AllInv /\ MonInv /\ ClockInv
  BY AllInitial, MonInitial, ClockInitial
<1>2. AllInv /\ MonInv /\ ClockInv /\ [Next]_vars => AllInv' /\ MonInv' /\ ClockInv'
  BY AllInductive, MonInductive, ClockInductive
<1>3. AllInv /\ ClockInv => ClockEdgesCounted
  BY CountedIsExact DEF AllInv
<1>. QED BY <1>1, <1>2, <1>3, PTL DEF Spec
-----------------------------------------------------------------------------
(* What DelaysSpec ensures holds of the interface, which implements it:     *)
(* a call for the end of a delay finds its entry first                     *)
THEOREM DelaysEndInOrder == Spec => []DelaysInOrder
  BY DelaysImplemented, DelaysAreInOrder, PTL

(* A port that is driven has one entry in the queue, and no other has one   *)
THEOREM OneDriverPerPort == Spec => []OneDriver
  BY DelaysImplemented, PortsHaveOneDriver, PTL
=============================================================================
