--------------------------- MODULE CollectorProofs ---------------------------
(***************************************************************************)
(* Proofs about Collector, for any blocks of cells, variables, thresholds  *)
(* and ages: as long as the arrays are small enough for the cells that a   *)
(* collection makes room for, no array ages while it is allocated, every   *)
(* cell is in one list, once, and no cell that can be reached is free.     *)
(***************************************************************************)
EXTENDS Collector, Recursion

Link == Cell \cup {NULL}

At(s, i) == IF i \in 1 .. Len(s) THEN s[i] ELSE NULL

(***************************************************************************)
(* The cells s are linked by gen, the first is c                           *)
(***************************************************************************)
IsList(gen, c, s) ==
  /\ s \in Seq(Cell) /\ IsInjective(s)
  /\ c = At(s, 1)
  /\ \A i \in 1 .. Len(s) : gen[s[i]] = At(s, i + 1)

LEMMA NullNoCell == NULL \notin Cell
  BY BlocksAssumption

LEMMA InList ==
  ASSUME NEW s \in Seq(Cell)
  PROVE  /\ Len(s) \in Nat /\ DOMAIN s = 1 .. Len(s)
         /\ \A i \in 1 .. Len(s) : s[i] \in Cell /\ s[i] \in Range(s)
         /\ Range(s) \subseteq Cell
         /\ \A x \in Range(s) : \E i \in 1 .. Len(s) : s[i] = x
         /\ s = <<>> <=> Len(s) = 0
         /\ s = <<>> <=> Range(s) = {}
<1>1. /\ Len(s) \in Nat /\ DOMAIN s = 1 .. Len(s)
      /\ \A i \in 1 .. Len(s) : s[i] \in Cell
      /\ s = <<>> <=> Len(s) = 0
  OBVIOUS
<1>2. Range(s) = {s[i] : i \in 1 .. Len(s)}
  BY <1>1, Zenon DEF Range
<1>3. \A i \in 1 .. Len(s) : s[i] \in Range(s)
  BY <1>2, Zenon
<1>4. \A x \in Range(s) : \E i \in 1 .. Len(s) : s[i] = x
  BY <1>2, Zenon
<1>5. Range(s) \subseteq Cell
  BY <1>1, <1>4
<1>6. s = <<>> <=> Range(s) = {}
  <2>1. ASSUME s # <<>> PROVE s[1] \in Range(s)
    BY <2>1, <1>1, <1>3
  <2>2. ASSUME s = <<>> PROVE 1 .. Len(s) = {}
    BY <2>2, <1>1
  <2>. QED BY <2>1, <2>2, <1>2, Zenon
<1>. QED BY <1>1, <1>3, <1>4, <1>5, <1>6, Zenon

(* Only the links of its cells make a list *)
LEMMA ListKept ==
  ASSUME NEW g, NEW c, NEW s, IsList(g, c, s),
         NEW h, \A x \in Range(s) : h[x] = g[x]
  PROVE  IsList(h, c, s)
<1>1. \A i \in 1 .. Len(s) : s[i] \in Range(s)
  BY InList DEF IsList
<1>. QED BY <1>1, Zenon DEF IsList

LEMMA EmptyList == ASSUME NEW g PROVE IsList(g, NULL, <<>>) /\ Range(<<>>) = {}
<1>1. <<>> \in Seq(Cell) /\ Len(<<>>) = 0 /\ DOMAIN <<>> = {}
  OBVIOUS
<1>2. Range(<<>>) = {} /\ IsInjective(<<>>)
  BY <1>1, Zenon DEF Range, IsInjective
<1>. QED BY <1>1, <1>2 DEF IsList, At

LEMMA FirstOfList ==
  ASSUME NEW g, NEW c, NEW s, IsList(g, c, s)
  PROVE  /\ c = NULL <=> s = <<>>
         /\ c # NULL => c \in Range(s) /\ c = s[1] /\ c \in Cell
<1>1. s \in Seq(Cell) /\ c = At(s, 1)
  BY DEF IsList
<1>. QED BY <1>1, InList, NullNoCell DEF At

(* A cell put before a list *)
Before(x, s) == <<x>> \o s

LEMMA BeforeFacts ==
  ASSUME NEW x \in Cell, NEW s \in Seq(Cell)
  PROVE  /\ Before(x, s) \in Seq(Cell) /\ Len(Before(x, s)) = Len(s) + 1
         /\ \A i \in 1 .. Len(s) + 1 : Before(x, s)[i] = IF i = 1 THEN x ELSE s[i - 1]
         /\ Range(Before(x, s)) = {x} \cup Range(s)
<1> DEFINE one == <<x>>
<1>1. one \in Seq(Cell) /\ Len(one) = 1 /\ one[1] = x /\ DOMAIN one = {1}
  OBVIOUS
<1>2. one \in Seq(Cell)
  BY <1>1
<1>3. Before(x, s) = one \o s
  BY Zenon DEF Before
<1> HIDE DEF one
<1>4. /\ one \o s \in Seq(Cell) /\ Len(one \o s) = Len(one) + Len(s)
      /\ \A i \in 1 .. Len(one) + Len(s) :
           (one \o s)[i] = IF i <= Len(one) THEN one[i] ELSE s[i - Len(one)]
  BY <1>2, ConcatProperties, SMT
<1>5. Range(one) = {x}
  BY <1>1, Zenon DEF Range
<1>6. Range(one \o s) = Range(one) \cup Range(s)
  BY <1>2, JoinedRange, SMT
<1>7. \A i \in 1 .. Len(s) + 1 : (one \o s)[i] = IF i = 1 THEN x ELSE s[i - 1]
  BY <1>1, <1>4
<1>. QED BY <1>1, <1>3, <1>4, <1>5, <1>6, <1>7

LEMMA ListPushed ==
  ASSUME NEW g, NEW c, NEW s, IsList(g, c, s), NEW x \in Cell, x \notin Range(s),
         NEW h, h[x] = c, \A y \in Range(s) : h[y] = g[y]
  PROVE  IsList(h, x, Before(x, s)) /\ Range(Before(x, s)) = {x} \cup Range(s)
<1>1. s \in Seq(Cell) /\ IsInjective(s)
  BY DEF IsList
<1> DEFINE b == Before(x, s)
<1>2. /\ b \in Seq(Cell) /\ Len(b) = Len(s) + 1
      /\ \A i \in 1 .. Len(s) + 1 : b[i] = IF i = 1 THEN x ELSE s[i - 1]
      /\ Range(b) = {x} \cup Range(s)
  BY <1>1, BeforeFacts
<1>3. Len(s) \in Nat /\ \A i \in 1 .. Len(s) : s[i] \in Range(s)
  BY <1>1, InList
<1> HIDE DEF b
<1>4. IsInjective(b)
  BY <1>1, <1>2, <1>3 DEF IsInjective
<1>5. \A i \in 2 .. Len(b) : At(b, i) = At(s, i - 1)
  BY <1>2, <1>3 DEF At
<1>6. \A i \in 1 .. Len(b) : At(b, i + 1) = At(s, i)
  BY <1>2, <1>3 DEF At
<1>7. At(b, 1) = x
  BY <1>2, <1>3 DEF At
<1>8. ASSUME NEW i \in 1 .. Len(b) PROVE h[b[i]] = At(b, i + 1)
  <2>1. CASE i = 1
    BY <2>1, <1>2, <1>3, <1>6 DEF IsList
  <2>2. CASE i # 1
    <3>1. i - 1 \in 1 .. Len(s) /\ b[i] = s[i - 1] /\ (i - 1) + 1 = i
      BY <2>2, <1>2, <1>3
    <3>2. g[s[i - 1]] = At(s, (i - 1) + 1)
      BY <3>1 DEF IsList
    <3>. QED BY <3>1, <3>2, <1>3, <1>6
  <2>. QED BY <2>1, <2>2
<1>9. IsList(h, x, b)
  BY <1>2, <1>4, <1>7, <1>8 DEF IsList
<1>. QED BY <1>2, <1>9 DEF b

(* The first cell taken from a list *)
LEMMA ListPopped ==
  ASSUME NEW g, NEW c, NEW s, IsList(g, c, s), s # <<>>
  PROVE  /\ IsList(g, g[c], Tail(s)) /\ c \in Range(s) /\ c = s[1] /\ c \in Cell
         /\ Range(Tail(s)) = Range(s) \ {c}
         /\ Len(Tail(s)) = Len(s) - 1
<1>1. s \in Seq(Cell) /\ IsInjective(s) /\ c = At(s, 1)
  BY DEF IsList
<1>2. Len(s) \in Nat /\ Len(s) > 0 /\ DOMAIN s = 1 .. Len(s)
  BY <1>1, InList
<1>3. c = s[1] /\ c \in Range(s) /\ c \in Cell
  BY <1>1, <1>2, InList DEF At
<1> DEFINE t == Tail(s)
<1>4. /\ t \in Seq(Cell) /\ Len(t) = Len(s) - 1 /\ DOMAIN t = 1 .. Len(s) - 1
      /\ \A i \in 1 .. Len(s) - 1 : t[i] = s[i + 1]
  BY <1>1, <1>2
<1> HIDE DEF t
<1>5. IsInjective(t)
  BY <1>1, <1>2, <1>4 DEF IsInjective
<1>6. \A i \in 1 .. Len(s) : At(t, i) = At(s, i + 1)
  BY <1>2, <1>4 DEF At
<1>7. \A i \in 1 .. Len(t) : g[t[i]] = At(t, i + 1)
  <2> SUFFICES ASSUME NEW i \in 1 .. Len(t) PROVE g[t[i]] = At(t, i + 1)
    OBVIOUS
  <2>1. i + 1 \in 1 .. Len(s) /\ t[i] = s[i + 1]
    BY <1>2, <1>4
  <2>2. g[s[i + 1]] = At(s, (i + 1) + 1)
    BY <2>1 DEF IsList
  <2>. QED BY <2>1, <2>2, <1>6
<1>8. g[c] = At(t, 1)
  BY <1>2, <1>3, <1>6 DEF IsList
<1>9. Range(t) = Range(s) \ {c}
  <2>1. \A i \in 1 .. Len(t) : t[i] \in Range(s) \ {c}
    BY <1>1, <1>2, <1>3, <1>4 DEF IsInjective, Range
  <2>2. ASSUME NEW x \in Range(s) \ {c} PROVE x \in Range(t)
    <3>1. PICK i \in 1 .. Len(s) : s[i] = x
      BY <1>1, InList
    <3>2. i - 1 \in 1 .. Len(t) /\ t[i - 1] = x
      BY <3>1, <1>2, <1>3, <1>4
    <3>. QED BY <3>2, <1>4 DEF Range
  <2>. QED BY <2>1, <2>2, <1>4 DEF Range
<1>10. IsList(g, g[c], t)
  BY <1>4, <1>5, <1>7, <1>8 DEF IsList
<1>. QED BY <1>3, <1>4, <1>9, <1>10 DEF t

LEMMA LastOfList ==
  ASSUME NEW g, NEW c, NEW s, IsList(g, c, s), s # <<>>
  PROVE  /\ Last(s) \in Range(s) /\ Last(s) \in Cell /\ Last(s) = s[Len(s)]
         /\ g[Last(s)] = NULL
         /\ \A i \in 1 .. Len(s) - 1 : s[i] \in Range(s) \ {Last(s)}
<1>1. s \in Seq(Cell) /\ Len(s) \in Nat /\ Len(s) > 0 /\ DOMAIN s = 1 .. Len(s) /\ IsInjective(s)
  BY InList DEF IsList
<1>2. Last(s) = s[Len(s)] /\ Len(s) \in 1 .. Len(s)
  BY <1>1 DEF Last
<1>3. Last(s) \in Range(s) /\ Last(s) \in Cell
  BY <1>1, <1>2, InList
<1>4. g[Last(s)] = NULL
  BY <1>1, <1>2 DEF IsList, At
<1>5. \A i \in 1 .. Len(s) - 1 : s[i] \in Range(s) \ {Last(s)}
  <2> SUFFICES ASSUME NEW i \in 1 .. Len(s) - 1 PROVE s[i] \in Range(s) \ {Last(s)}
    OBVIOUS
  <2>0. Len(s) \in Nat
    BY <1>1
  <2>1. i \in 1 .. Len(s) /\ i # Len(s)
    BY <2>0
  <2>2. s[i] # s[Len(s)]
    BY <2>1, <1>1, <1>2 DEF IsInjective
  <2>. QED BY <2>1, <2>2, <1>1, <1>2, InList
<1>. QED BY <1>2, <1>3, <1>4, <1>5

(* h has the links of g within s, and then one to d *)
Continues(g, h, s, d) == h[Last(s)] = d /\ \A y \in Range(s) \ {Last(s)} : h[y] = g[y]

(* A list linked behind another *)
LEMMA ListJoined ==
  ASSUME NEW g, NEW c, NEW s, IsList(g, c, s), s # <<>>,
         NEW h, NEW d, NEW b, IsList(h, d, b), Range(s) \cap Range(b) = {},
         Continues(g, h, s, d)
  PROVE  IsList(h, c, s \o b) /\ Range(s \o b) = Range(s) \cup Range(b)
<1>1. /\ s \in Seq(Cell) /\ IsInjective(s) /\ c = At(s, 1)
      /\ b \in Seq(Cell) /\ IsInjective(b) /\ d = At(b, 1)
      /\ \A i \in 1 .. Len(s) : g[s[i]] = At(s, i + 1)
      /\ \A i \in 1 .. Len(b) : h[b[i]] = At(b, i + 1)
  BY DEF IsList
<1>2. Len(s) \in Nat /\ Len(b) \in Nat /\ Len(s) > 0
  BY <1>1, InList
<1>3. s \o b \in Seq(Cell) /\ IsInjective(s \o b) /\ Range(s \o b) = Range(s) \cup Range(b)
  BY <1>1, JoinedRange, JoinedOnce
<1> DEFINE a == s \o b
<1>4. /\ Len(a) = Len(s) + Len(b)
      /\ \A i \in 1 .. Len(s) + Len(b) : a[i] = IF i <= Len(s) THEN s[i] ELSE b[i - Len(s)]
  BY <1>1, ConcatProperties
<1> HIDE DEF a
<1>5. \A i \in 1 .. Len(s) : At(a, i) = At(s, i) /\ a[i] = s[i]
  BY <1>2, <1>4 DEF At
<1>6. \A i \in 1 .. Len(b) + 1 : At(a, Len(s) + i) = At(b, i)
  BY <1>2, <1>4 DEF At
<1>7. \A i \in 1 .. Len(b) : a[Len(s) + i] = b[i]
  BY <1>2, <1>4
<1>8. ASSUME NEW i \in 1 .. Len(a) PROVE h[a[i]] = At(a, i + 1)
  <2>1. CASE i < Len(s)
    <3>1. i \in 1 .. Len(s) /\ i \in 1 .. Len(s) - 1 /\ i + 1 \in 1 .. Len(s)
      BY <2>1, <1>2
    <3>2. h[s[i]] = g[s[i]]
      BY <3>1, LastOfList DEF Continues
    <3>. QED BY <3>1, <3>2, <1>1, <1>5
  <2>2. CASE i = Len(s)
    <3>1. a[i] = Last(s)
      BY <2>2, <1>2, <1>5, LastOfList
    <3>2. At(a, Len(s) + 1) = At(b, 1)
      BY <1>2, <1>6
    <3>. QED BY <2>2, <3>1, <3>2, <1>1 DEF Continues
  <2>3. CASE i > Len(s)
    <3> DEFINE j == i - Len(s)
    <3>1. j \in 1 .. Len(b) /\ i = Len(s) + j /\ i + 1 = Len(s) + (j + 1) /\ j + 1 \in 1 .. Len(b) + 1
      BY <2>3, <1>2, <1>4
    <3> HIDE DEF j
    <3>2. a[i] = b[j] /\ At(a, i + 1) = At(b, j + 1)
      BY <3>1, <1>6, <1>7
    <3>. QED BY <3>1, <3>2, <1>1
  <2>. QED BY <2>1, <2>2, <2>3, <1>2
<1>9. c = At(a, 1)
  BY <1>1, <1>2, <1>5
<1>10. IsList(h, c, a)
  BY <1>3, <1>8, <1>9 DEF IsList, a
<1>. QED BY <1>3, <1>10 DEF a

(* One cell is a list if it links to none *)
LEMMA SingleList ==
  ASSUME NEW x \in Cell, NEW h, h[x] = NULL
  PROVE  IsList(h, x, <<x>>) /\ Range(<<x>>) = {x} /\ Last(<<x>>) = x
<1>1. <<x>> \in Seq(Cell) /\ Len(<<x>>) = 1 /\ <<x>>[1] = x /\ DOMAIN <<x>> = {1}
  OBVIOUS
<1>2. Range(<<x>>) = {x} /\ Last(<<x>>) = x
  BY <1>1 DEF Range, Last
<1>3. IsInjective(<<x>>)
  BY <1>1 DEF IsInjective
<1>4. At(<<x>>, 1) = x /\ At(<<x>>, 2) = NULL
  BY <1>1 DEF At
<1>. QED BY <1>1, <1>2, <1>3, <1>4 DEF IsList

(* A cell at the end of a list *)
LEMMA ListGrown ==
  ASSUME NEW g, NEW c, NEW s, IsList(g, c, s), s # <<>>,
         NEW x \in Cell, x \notin Range(s),
         NEW h, Continues(g, h, s, x), h[x] = NULL
  PROVE  /\ IsList(h, c, Append(s, x)) /\ Range(Append(s, x)) = Range(s) \cup {x}
         /\ Last(Append(s, x)) = x /\ Append(s, x) # <<>>
<1> DEFINE b == <<x>>
<1>1. IsList(h, x, b) /\ Range(b) = {x}
  BY SingleList
<1> HIDE DEF b
<1>2. IsList(h, c, s \o b) /\ Range(s \o b) = Range(s) \cup {x}
  <2>1. Range(s) \cap Range(b) = {}
    BY <1>1
  <2>. QED BY <1>1, <2>1, ListJoined
<1>3. s \in Seq(Cell)
  BY DEF IsList
<1>4. Append(s, x) = s \o b
  BY <1>3, AppendIsConcat, Zenon DEF b
<1>5. Len(Append(s, x)) = Len(s) + 1 /\ Append(s, x)[Len(s) + 1] = x /\ Append(s, x) # <<>>
  BY <1>3
<1>. QED BY <1>2, <1>4, <1>5 DEF Last
-----------------------------------------------------------------------------
(***************************************************************************)
(* Chain finds the cells of a list                                         *)
(***************************************************************************)
IsChain(chain, gen, c) ==
  chain = [n \in Nat |-> IF n = 0 THEN <<>> ELSE Longer(gen, c, chain[n - 1])]

LEMMA LongerType ==
  ASSUME NEW gen \in [Cell -> Link], NEW c \in Link, NEW list \in Seq(Cell)
  PROVE  Longer(gen, c, list) \in Seq(Cell)
<1> DEFINE next == IF list = <<>> THEN c ELSE gen[Last(list)]
<1>1. list # <<>> => Last(list) \in Cell
  BY DEF Last
<1>2. next \in Link
  BY <1>1
<1>3. Longer(gen, c, list) = IF next = NULL THEN list ELSE Append(list, next)
  BY DEF Longer
<1> HIDE DEF next
<1>. QED BY <1>2, <1>3 DEF Link

LEMMA ChainFunction ==
  ASSUME NEW gen \in [Cell -> Link], NEW c \in Link
  PROVE  \E chain \in [Nat -> Seq(Cell)] :
           IsChain(chain, gen, c) /\ Chain(gen, c) = chain[Cardinality(Cell)]
<1> DEFINE X == Seq(Cell)
           chain == CHOOSE chain : IsChain(chain, gen, c)
           step == [p \in Nat \X X |-> Longer(gen, c, p[2])]
<1>1. Chain(gen, c) = chain[Cardinality(Cell)]
  BY DEF Chain, IsChain
<1>2. <<>> \in X
  OBVIOUS
<1>3. IsStep(step, X)
  <2>1. ASSUME NEW p \in Nat \X X PROVE Longer(gen, c, p[2]) \in X
    BY LongerType
  <2> HIDE DEF X
  <2>. QED BY <2>1 DEF IsStep
<1>4. PICK f \in [Nat -> X] : SolvesNat(f, <<>>, step)
  <2> HIDE DEF X, step
  <2>. QED BY <1>2, <1>3, NatRecursion
<1>5. ASSUME NEW n \in Nat
      PROVE  f[n] = IF n = 0 THEN <<>> ELSE Longer(gen, c, f[n - 1])
  <2>1. f[n] = IF n = 0 THEN <<>> ELSE step[<<n, f[n - 1]>>]
    BY <1>4 DEF SolvesNat
  <2>2. n # 0 => <<n, f[n - 1]>> \in Nat \X X
    <3> HIDE DEF X, step
    <3>. QED BY <1>4
  <2> HIDE DEF X
  <2>. QED BY <2>1, <2>2
<1>6. IsChain(f, gen, c)
  <2> HIDE DEF X, step
  <2>. QED BY <1>4, <1>5 DEF IsChain
<1>7. IsChain(chain, gen, c)
  BY <1>6
<1>8. ASSUME NEW n \in Nat
      PROVE  chain[n] = IF n = 0 THEN <<>> ELSE Longer(gen, c, chain[n - 1])
  <2> HIDE DEF chain
  <2>. QED BY <1>7 DEF IsChain
<1>9. chain \in [Nat -> Seq(Cell)]
  <2> HIDE DEF chain, X, step
  <2> DEFINE T == {n \in Nat : chain[n] \in Seq(Cell)}
  <2>1. 0 \in T
    <3>1. chain[0] = <<>>
      BY <1>8
    <3>2. 0 \in Nat /\ <<>> \in Seq(Cell)
      OBVIOUS
    <3>. QED BY <3>1, <3>2, Zenon
  <2>2. ASSUME NEW n \in T PROVE n + 1 \in T
    <3>1. n \in Nat /\ n + 1 \in Nat /\ n + 1 # 0 /\ (n + 1) - 1 = n /\ chain[n] \in Seq(Cell)
      OBVIOUS
    <3>2. chain[n + 1] = Longer(gen, c, chain[n])
      BY <3>1, <1>8
    <3>. QED BY <3>1, <3>2, LongerType
  <2> HIDE DEF T
  <2>3. T \in SUBSET Nat
    BY DEF T
  <2>4. T = Nat
    BY <2>1, <2>2, <2>3, AllNumbers
  <2>5. \A n \in Nat : chain[n] \in Seq(Cell)
    BY <2>4 DEF T
  <2>6. chain = [n \in Nat |-> IF n = 0 THEN <<>> ELSE Longer(gen, c, chain[n - 1])]
    BY <1>7 DEF IsChain
  <2>. QED BY <2>5, <2>6
<1> HIDE DEF chain
<1>. QED BY <1>1, <1>7, <1>9

(* The first n cells of a list *)
IsFront(f, s, n) ==
  /\ f \in Seq(Cell) /\ Len(f) = (IF n <= Len(s) THEN n ELSE Len(s))
  /\ \A i \in 1 .. Len(f) : f[i] = s[i]

LEMMA FrontLonger ==
  ASSUME NEW gen \in [Cell -> Link], NEW c \in Link, NEW s, IsList(gen, c, s),
         NEW n \in Nat, NEW f, IsFront(f, s, n)
  PROVE  IsFront(Longer(gen, c, f), s, n + 1)
<1>1. /\ s \in Seq(Cell) /\ c = At(s, 1)
      /\ \A i \in 1 .. Len(s) : gen[s[i]] = At(s, i + 1)
  BY DEF IsList
<1>2. Len(s) \in Nat /\ \A i \in 1 .. Len(s) : s[i] \in Cell
  BY <1>1
<1>3. f \in Seq(Cell) /\ Len(f) \in Nat /\ Len(f) <= Len(s) /\ \A i \in 1 .. Len(f) : f[i] = s[i]
  BY <1>2 DEF IsFront
<1> DEFINE next == IF f = <<>> THEN c ELSE gen[Last(f)]
<1>4. next = At(s, Len(f) + 1)
  <2>1. CASE f = <<>>
    <3>1. Len(f) = 0
      BY <2>1
    <3>. QED BY <2>1, <3>1, <1>1
  <2>2. CASE f # <<>>
    <3>1. Len(f) \in 1 .. Len(f) /\ Len(f) \in 1 .. Len(s)
      BY <2>2, <1>2, <1>3
    <3>2. Last(f) = s[Len(f)]
      BY <3>1, <1>3 DEF Last
    <3>. QED BY <2>2, <3>1, <3>2, <1>1
  <2>. QED BY <2>1, <2>2
<1>5. Longer(gen, c, f) = IF next = NULL THEN f ELSE Append(f, next)
  BY DEF Longer
<1> HIDE DEF next
<1>6. CASE Len(f) = Len(s)
  <2>1. next = NULL
    BY <1>2, <1>4, <1>6 DEF At
  <2>2. Longer(gen, c, f) = f
    BY <2>1, <1>5
  <2>3. n >= Len(s)
    BY <1>2, <1>3, <1>6 DEF IsFront
  <2>. QED BY <2>2, <2>3, <1>2, <1>3, <1>6 DEF IsFront
<1>7. CASE Len(f) # Len(s)
  <2>1. Len(f) = n /\ n < Len(s)
    BY <1>2, <1>3, <1>7 DEF IsFront
  <2>2. next = s[n + 1] /\ next \in Cell /\ next # NULL
    BY <2>1, <1>2, <1>4, NullNoCell DEF At
  <2>3. Longer(gen, c, f) = Append(f, next)
    BY <2>2, <1>5
  <2>4. /\ Append(f, next) \in Seq(Cell) /\ Len(Append(f, next)) = n + 1
        /\ \A i \in 1 .. n : Append(f, next)[i] = f[i]
        /\ Append(f, next)[n + 1] = next
    BY <2>1, <2>2, <1>3
  <2>5. \A i \in 1 .. n + 1 : Append(f, next)[i] = s[i]
    BY <2>1, <2>2, <2>4, <1>3
  <2>. QED BY <2>1, <2>3, <2>4, <2>5, <1>2 DEF IsFront
<1>. QED BY <1>6, <1>7

LEMMA CellsCounted == IsFiniteSet(Cell) /\ Cardinality(Cell) \in Nat
  BY BlocksAssumption, FS_CardinalityType

LEMMA ListFits ==
  ASSUME NEW s \in Seq(Cell), IsInjective(s)
  PROVE  Len(s) \in Nat /\ Len(s) <= Cardinality(Cell)
<1>1. IsFiniteSet(Range(s)) /\ Cardinality(Range(s)) = Len(s) /\ Len(s) \in Nat
  BY OnceCounted
<1>2. Range(s) \subseteq Cell
  BY InList
<1>3. Cardinality(Range(s)) <= Cardinality(Cell)
  BY <1>2, CellsCounted, FS_Subset
<1>. QED BY <1>1, <1>3

LEMMA ChainIsList ==
  ASSUME NEW gen \in [Cell -> Link], NEW c \in Link, NEW s, IsList(gen, c, s)
  PROVE  Chain(gen, c) = s
<1>1. PICK chain \in [Nat -> Seq(Cell)] :
        IsChain(chain, gen, c) /\ Chain(gen, c) = chain[Cardinality(Cell)]
  BY ChainFunction
<1>2. ASSUME NEW n \in Nat
      PROVE  chain[n] = IF n = 0 THEN <<>> ELSE Longer(gen, c, chain[n - 1])
  BY <1>1 DEF IsChain
<1>3. s \in Seq(Cell) /\ Len(s) \in Nat /\ Len(s) <= Cardinality(Cell)
  BY ListFits DEF IsList
<1> DEFINE T == {n \in Nat : IsFront(chain[n], s, n)}
<1>4. 0 \in T
  <2>1. chain[0] = <<>>
    BY <1>2
  <2>. QED BY <2>1, <1>3 DEF IsFront
<1>5. ASSUME NEW n \in T PROVE n + 1 \in T
  <2>1. n \in Nat /\ n + 1 \in Nat /\ n + 1 # 0 /\ (n + 1) - 1 = n /\ IsFront(chain[n], s, n)
    OBVIOUS
  <2>2. chain[n + 1] = Longer(gen, c, chain[n])
    BY <2>1, <1>2
  <2> DEFINE f == chain[n]
  <2> HIDE DEF f
  <2>3. IsFront(Longer(gen, c, f), s, n + 1)
    BY <2>1, FrontLonger DEF f
  <2>. QED BY <2>1, <2>2, <2>3 DEF f
<1>6. T \in SUBSET Nat
  OBVIOUS
<1> HIDE DEF T
<1>7. T = Nat
  BY <1>4, <1>5, <1>6, AllNumbers
<1> DEFINE n == Cardinality(Cell)
           f == chain[n]
<1>8. IsFront(f, s, n) /\ n \in Nat /\ Len(s) <= n
  BY <1>3, <1>7, CellsCounted DEF T
<1> HIDE DEF n, f
<1>9. f \in Seq(Cell) /\ Len(f) = Len(s) /\ \A i \in 1 .. Len(f) : f[i] = s[i]
  <2>1. Len(f) = Len(s)
    BY <1>3, <1>8 DEF IsFront
  <2>. QED BY <2>1, <1>8 DEF IsFront
<1>10. f = s
  BY <1>3, <1>9, SeqEqual
<1>. QED BY <1>1, <1>10 DEF f, n
-----------------------------------------------------------------------------
(***************************************************************************)
(* Reached: the smallest set that holds the cells it begins with and what  *)
(* its cells refer to                                                      *)
(***************************************************************************)
IsReach(reached, h, cells) ==
  reached = [n \in Nat |-> IF n = 0 THEN cells ELSE OneFurther(h, reached[n - 1])]

RefTypes(h) == h.refs \in [Cell -> Seq(Cell)]

Closed(h, S) == \A c \in S : Range(h.refs[c]) \subseteq S

LEMMA FurtherFacts ==
  ASSUME NEW h, RefTypes(h), NEW S \in SUBSET Cell
  PROVE  /\ OneFurther(h, S) \in SUBSET Cell /\ S \subseteq OneFurther(h, S)
         /\ Closed(h, S) <=> OneFurther(h, S) = S
         /\ \A U : S \subseteq U /\ Closed(h, U) => OneFurther(h, S) \subseteq U
<1>1. \A c \in S : Range(h.refs[c]) \subseteq Cell
  BY InList DEF RefTypes
<1>. QED BY <1>1 DEF OneFurther, Closed

LEMMA ReachFunction ==
  ASSUME NEW h, RefTypes(h), NEW cells \in SUBSET Cell
  PROVE  \E reached \in [Nat -> SUBSET Cell] :
           /\ IsReach(reached, h, cells)
           /\ Reached(h, cells) = reached[Cardinality(Cell)]
<1> DEFINE X == SUBSET Cell
           reached == CHOOSE reached : IsReach(reached, h, cells)
           step == [p \in Nat \X X |-> OneFurther(h, p[2])]
<1>1. Reached(h, cells) = reached[Cardinality(Cell)]
  BY DEF Reached, IsReach
<1>2. cells \in X
  OBVIOUS
<1>3. IsStep(step, X)
  <2>1. ASSUME NEW p \in Nat \X X PROVE OneFurther(h, p[2]) \in X
    <3>1. p[2] \in SUBSET Cell
      OBVIOUS
    <3>. QED BY <3>1, FurtherFacts
  <2> HIDE DEF X
  <2>. QED BY <2>1 DEF IsStep
<1>4. PICK f \in [Nat -> X] : SolvesNat(f, cells, step)
  <2> HIDE DEF X, step
  <2>. QED BY <1>2, <1>3, NatRecursion
<1>5. ASSUME NEW n \in Nat
      PROVE  f[n] = IF n = 0 THEN cells ELSE OneFurther(h, f[n - 1])
  <2>1. f[n] = IF n = 0 THEN cells ELSE step[<<n, f[n - 1]>>]
    BY <1>4 DEF SolvesNat
  <2>2. n # 0 => <<n, f[n - 1]>> \in Nat \X X
    <3> HIDE DEF X, step
    <3>. QED BY <1>4
  <2> HIDE DEF X
  <2>. QED BY <2>1, <2>2
<1>6. IsReach(f, h, cells)
  <2> HIDE DEF X, step
  <2>. QED BY <1>4, <1>5 DEF IsReach
<1>7. IsReach(reached, h, cells)
  BY <1>6
<1> HIDE DEF reached, X, step
<1>8. ASSUME NEW n \in Nat
      PROVE  reached[n] = IF n = 0 THEN cells ELSE OneFurther(h, reached[n - 1])
  BY <1>7 DEF IsReach
<1> DEFINE T == {n \in Nat : reached[n] \in SUBSET Cell}
<1>9. 0 \in T
  <2>1. reached[0] = cells /\ 0 \in Nat
    BY <1>8
  <2>. QED BY <2>1, Zenon
<1>10. ASSUME NEW n \in T PROVE n + 1 \in T
  <2>1. n \in Nat /\ n + 1 \in Nat /\ n + 1 # 0 /\ (n + 1) - 1 = n /\ reached[n] \in SUBSET Cell
    OBVIOUS
  <2>2. reached[n + 1] = OneFurther(h, reached[n])
    BY <2>1, <1>8
  <2>. QED BY <2>1, <2>2, FurtherFacts
<1>11. T \in SUBSET Nat
  OBVIOUS
<1> HIDE DEF T
<1>12. T = Nat
  BY <1>9, <1>10, <1>11, AllNumbers
<1>13. \A n \in Nat : reached[n] \in SUBSET Cell
  BY <1>12 DEF T
<1>14. reached = [n \in Nat |-> IF n = 0 THEN cells ELSE OneFurther(h, reached[n - 1])]
  BY <1>7 DEF IsReach
<1>. QED BY <1>1, <1>7, <1>13, <1>14

(* Nothing outside of a closed set is reached from it *)
LEMMA ReachedWithin ==
  ASSUME NEW h, RefTypes(h), NEW cells \in SUBSET Cell,
         NEW S, cells \subseteq S, Closed(h, S)
  PROVE  Reached(h, cells) \subseteq S
<1>1. PICK r \in [Nat -> SUBSET Cell] :
        IsReach(r, h, cells) /\ Reached(h, cells) = r[Cardinality(Cell)]
  BY ReachFunction
<1>2. ASSUME NEW n \in Nat
      PROVE  r[n] = IF n = 0 THEN cells ELSE OneFurther(h, r[n - 1])
  BY <1>1 DEF IsReach
<1> DEFINE T == {n \in Nat : r[n] \subseteq S}
<1>3. 0 \in T
  BY <1>2
<1>4. ASSUME NEW n \in T PROVE n + 1 \in T
  <2>1. n \in Nat /\ n + 1 \in Nat /\ n + 1 # 0 /\ (n + 1) - 1 = n /\ r[n] \subseteq S
    OBVIOUS
  <2>2. r[n + 1] = OneFurther(h, r[n])
    BY <2>1, <1>2
  <2>3. r[n] \in SUBSET Cell
    BY <2>1
  <2>. QED BY <2>1, <2>2, <2>3, FurtherFacts
<1>5. T \in SUBSET Nat
  OBVIOUS
<1> HIDE DEF T
<1>6. T = Nat
  BY <1>3, <1>4, <1>5, AllNumbers
<1>. QED BY <1>1, <1>6, CellsCounted DEF T

(* What is reached is closed: the set grows until it is, at most to all     *)
LEMMA ReachedClosed ==
  ASSUME NEW h, RefTypes(h), NEW cells \in SUBSET Cell
  PROVE  /\ Reached(h, cells) \in SUBSET Cell /\ cells \subseteq Reached(h, cells)
         /\ Closed(h, Reached(h, cells))
<1>1. PICK r \in [Nat -> SUBSET Cell] :
        IsReach(r, h, cells) /\ Reached(h, cells) = r[Cardinality(Cell)]
  BY ReachFunction
<1>2. ASSUME NEW n \in Nat
      PROVE  r[n] = IF n = 0 THEN cells ELSE OneFurther(h, r[n - 1])
  BY <1>1 DEF IsReach
<1> DEFINE Grown(n) == /\ cells \subseteq r[n]
                       /\ Closed(h, r[n]) \/ Cardinality(r[n]) >= n
           T == {n \in Nat : Grown(n)}
<1>3. \A n \in Nat : IsFiniteSet(r[n]) /\ Cardinality(r[n]) \in Nat
  <2> SUFFICES ASSUME NEW n \in Nat PROVE IsFiniteSet(r[n]) /\ Cardinality(r[n]) \in Nat
    OBVIOUS
  <2>1. IsFiniteSet(r[n])
    BY CellsCounted, FS_Subset
  <2>. QED BY <2>1, FS_CardinalityType
<1>4. 0 \in T
  <2>1. r[0] = cells
    BY <1>2
  <2>. QED BY <2>1, <1>3
<1>5. ASSUME NEW n \in T PROVE n + 1 \in T
  <2>1. n \in Nat /\ n + 1 \in Nat /\ n + 1 # 0 /\ (n + 1) - 1 = n /\ Grown(n)
    OBVIOUS
  <2>2. r[n + 1] = OneFurther(h, r[n]) /\ r[n] \in SUBSET Cell
    BY <2>1, <1>2
  <2>3. r[n] \subseteq r[n + 1] /\ (Closed(h, r[n]) <=> r[n + 1] = r[n])
    BY <2>2, FurtherFacts
  <2>4. CASE Closed(h, r[n])
    BY <2>1, <2>3, <2>4
  <2>5. CASE ~Closed(h, r[n])
    <3>1. Cardinality(r[n]) >= n /\ r[n] # r[n + 1]
      BY <2>1, <2>3, <2>5
    <3>2. Cardinality(r[n]) < Cardinality(r[n + 1])
      <4> DEFINE A == r[n]
                 B == r[n + 1]
      <4>1. /\ IsFiniteSet(B) /\ A \in SUBSET B /\ A # B
            /\ Cardinality(A) \in Nat /\ Cardinality(B) \in Nat
        BY <2>1, <2>3, <3>1, <1>3
      <4> HIDE DEF A, B
      <4>2. Cardinality(A) < Cardinality(B)
        BY <4>1, FS_Subset
      <4>. QED BY <4>2 DEF A, B
    <3>3. Cardinality(r[n + 1]) >= n + 1
      BY <2>1, <3>1, <3>2, <1>3
    <3>. QED BY <2>1, <2>3, <3>3
  <2>. QED BY <2>4, <2>5
<1>6. T \in SUBSET Nat
  OBVIOUS
<1> HIDE DEF T
<1>7. T = Nat
  BY <1>4, <1>5, <1>6, AllNumbers
<1> DEFINE all == r[Cardinality(Cell)]
<1>8. /\ cells \subseteq all /\ all \in SUBSET Cell
      /\ Closed(h, all) \/ Cardinality(all) >= Cardinality(Cell)
  BY <1>7, CellsCounted DEF T
<1> HIDE DEF all
<1>9. CASE Cardinality(all) >= Cardinality(Cell)
  <2>1. all = Cell
    <3>1. /\ IsFiniteSet(all) /\ Cardinality(all) <= Cardinality(Cell)
          /\ Cardinality(Cell) = Cardinality(all) => Cell = all
      BY <1>8, CellsCounted, FS_Subset
    <3>2. Cardinality(all) \in Nat
      BY <3>1, FS_CardinalityType
    <3>3. Cardinality(Cell) = Cardinality(all)
      BY <3>1, <3>2, <1>9, CellsCounted
    <3>. QED BY <3>1, <3>3
  <2>2. Closed(h, Cell)
    BY InList DEF Closed, RefTypes
  <2>. QED BY <1>1, <1>8, <2>1, <2>2 DEF all
<1>10. CASE Closed(h, all)
  BY <1>1, <1>8, <1>10 DEF all
<1>. QED BY <1>8, <1>9, <1>10
-----------------------------------------------------------------------------
(***************************************************************************)
(* What the steps of the scan do to the fields of a heap                   *)
(***************************************************************************)
Kinds == {"unknown", "single", "list", "array"}

HeapSet ==
  [generation : [Cell -> Link], free_data_top : Link, generation0 : Link, generation1 : Link,
   last_generation0 : Link, marked : SUBSET Cell, allocating : SUBSET Cell,
   life : [Cell -> Nat], kind : [Cell -> Kinds], refs : [Cell -> Seq(Cell)],
   data_count : Nat, blocks : 1 .. Len(Blocks), pdata : Link]

LEMMA HeapFields ==
  ASSUME NEW h \in HeapSet
  PROVE  /\ h.generation \in [Cell -> Link] /\ h.free_data_top \in Link
         /\ h.generation0 \in Link /\ h.generation1 \in Link /\ h.last_generation0 \in Link
         /\ h.marked \in SUBSET Cell /\ h.allocating \in SUBSET Cell
         /\ h.life \in [Cell -> Nat] /\ h.kind \in [Cell -> Kinds]
         /\ h.refs \in [Cell -> Seq(Cell)] /\ h.data_count \in Nat
         /\ h.blocks \in 1 .. Len(Blocks) /\ h.pdata \in Link
  BY DEF HeapSet

IsFreed(j, h, c) ==
  /\ j.generation = [h.generation EXCEPT ![c] = h.free_data_top]
  /\ j.free_data_top = c /\ j.generation0 = h.generation0
  /\ j.generation1 = h.generation1 /\ j.last_generation0 = h.last_generation0
  /\ j.marked = h.marked \ {c} /\ j.allocating = h.allocating \ {c}
  /\ j.life = [h.life EXCEPT ![c] = 0] /\ j.kind = [h.kind EXCEPT ![c] = "unknown"]
  /\ j.refs = [h.refs EXCEPT ![c] = <<>>] /\ j.data_count = h.data_count + 1
  /\ j.blocks = h.blocks /\ j.pdata = h.pdata

LEMMA FreedFields ==
  ASSUME NEW h \in HeapSet, NEW c \in Cell, NEW j, j = Freed(h, c)
  PROVE  j \in HeapSet /\ IsFreed(j, h, c)
<1> DEFINE life == [h.life EXCEPT ![c] = 0]
           kind == [h.kind EXCEPT ![c] = "unknown"]
           refs == [h.refs EXCEPT ![c] = <<>>]
           generation == [h.generation EXCEPT ![c] = h.free_data_top]
<1>1. j = [generation |-> generation, free_data_top |-> c,
           generation0 |-> h.generation0, generation1 |-> h.generation1,
           last_generation0 |-> h.last_generation0,
           marked |-> h.marked \ {c}, allocating |-> h.allocating \ {c},
           life |-> life, kind |-> kind, refs |-> refs,
           data_count |-> h.data_count + 1, blocks |-> h.blocks, pdata |-> h.pdata]
  BY DEF Freed, HeapSet
<1>2. /\ life \in [Cell -> Nat] /\ kind \in [Cell -> Kinds] /\ refs \in [Cell -> Seq(Cell)]
      /\ generation \in [Cell -> Link] /\ c \in Link
  BY HeapFields DEF Kinds, Link
<1> HIDE DEF life, kind, refs, generation
<1>3. j \in HeapSet
  BY <1>1, <1>2, HeapFields DEF HeapSet
<1>. QED BY <1>1, <1>3 DEF IsFreed, life, kind, refs, generation

IsPromoted(j, h, c) ==
  /\ j.generation = [h.generation EXCEPT ![c] = h.generation1]
  /\ j.free_data_top = h.free_data_top /\ j.generation0 = h.generation0
  /\ j.generation1 = c /\ j.last_generation0 = h.last_generation0
  /\ j.marked = h.marked \ {c} /\ j.allocating = h.allocating
  /\ j.life = [h.life EXCEPT ![c] = 0] /\ j.kind = h.kind
  /\ j.refs = h.refs /\ j.data_count = h.data_count
  /\ j.blocks = h.blocks /\ j.pdata = h.pdata

LEMMA PromotedFields ==
  ASSUME NEW h \in HeapSet, NEW c \in Cell, NEW j, j = Unflagged(ToGeneration1(h, c), c)
  PROVE  j \in HeapSet /\ IsPromoted(j, h, c)
  BY HeapFields DEF IsPromoted, Unflagged, ToGeneration1, HeapSet, Link

IsKept(j, h, c) ==
  /\ j.generation = IF h.pdata = NULL THEN [h.generation EXCEPT ![c] = NULL]
                    ELSE [h.generation EXCEPT ![h.pdata] = c, ![c] = NULL]
  /\ j.free_data_top = h.free_data_top
  /\ j.generation0 = IF h.pdata = NULL THEN c ELSE h.generation0
  /\ j.generation1 = h.generation1 /\ j.last_generation0 = c
  /\ j.marked = h.marked \ {c} /\ j.allocating = h.allocating
  /\ j.life = [h.life EXCEPT ![c] = (h.life[c] + 1) % Lives] /\ j.kind = h.kind
  /\ j.refs = h.refs /\ j.data_count = h.data_count
  /\ j.blocks = h.blocks /\ j.pdata = c

LEMMA KeptFields ==
  ASSUME NEW h \in HeapSet, NEW c \in Cell, NEW j, j = Kept(h, c)
  PROVE  j \in HeapSet /\ IsKept(j, h, c)
<1> DEFINE life == [h.life EXCEPT ![c] = (h.life[c] + 1) % Lives]
           generation == IF h.pdata = NULL THEN [h.generation EXCEPT ![c] = NULL]
                         ELSE [h.generation EXCEPT ![h.pdata] = c, ![c] = NULL]
           first == IF h.pdata = NULL THEN c ELSE h.generation0
<1>1. j = [generation |-> generation, free_data_top |-> h.free_data_top,
           generation0 |-> first, generation1 |-> h.generation1, last_generation0 |-> c,
           marked |-> h.marked \ {c}, allocating |-> h.allocating,
           life |-> life, kind |-> h.kind, refs |-> h.refs,
           data_count |-> h.data_count, blocks |-> h.blocks, pdata |-> c]
  <2>1. CASE h.pdata = NULL
    <3>1. SetLink(h, c) = [h EXCEPT !.generation0 = c]
      BY <2>1 DEF SetLink
    <3>. QED BY <2>1, <3>1 DEF Kept, HeapSet
  <2>2. CASE h.pdata # NULL
    <3>1. SetLink(h, c) = [h EXCEPT !.generation[h.pdata] = c]
      BY <2>2 DEF SetLink
    <3>. QED BY <2>2, <3>1 DEF Kept, HeapSet
  <2>. QED BY <2>1, <2>2
<1>2. /\ life \in [Cell -> Nat] /\ generation \in [Cell -> Link]
      /\ first \in Link /\ c \in Link
  <2>1. (h.life[c] + 1) % Lives \in Nat
    BY HeapFields, CollectorAssumption
  <2>2. life \in [Cell -> Nat]
    BY <2>1, HeapFields
  <2>. QED BY <2>2, HeapFields DEF Link
<1> HIDE DEF life, generation, first
<1>3. j \in HeapSet
  BY <1>1, <1>2, HeapFields DEF HeapSet
<1>. QED BY <1>1, <1>3 DEF IsKept, life, generation, first
-----------------------------------------------------------------------------
(***************************************************************************)
(* The lists while generation0 is scanned: f are the free cells, k those   *)
(* that were kept, r the rest, from the cursor d, and o generation1        *)
(***************************************************************************)
Pool(n) == UNION {Range(Blocks[i]) : i \in 1 .. n}

Apart(F, K, R, O) ==
  /\ F \cap K = {} /\ F \cap R = {} /\ F \cap O = {}
  /\ K \cap R = {} /\ K \cap O = {} /\ R \cap O = {}

KeptList(h, k) ==
  /\ k \in Seq(Cell)
  /\ h.last_generation0 = h.pdata
  /\ k = <<>> => h.pdata = NULL
  /\ k # <<>> => IsList(h.generation, h.generation0, k) /\ h.pdata = Last(k)

ScanLists(h, d, f, k, r, o) ==
  /\ IsList(h.generation, h.free_data_top, f)
  /\ KeptList(h, k)
  /\ IsList(h.generation, d, r)
  /\ IsList(h.generation, h.generation1, o)
  /\ Apart(Range(f), Range(k), Range(r), Range(o))
  /\ Range(f) \cup Range(k) \cup Range(r) \cup Range(o) = Pool(h.blocks)
  /\ \A c \in Cell \ Pool(h.blocks) : h.generation[c] = NULL

SameKept(j, h, k) ==
  /\ j.pdata = h.pdata /\ j.last_generation0 = h.last_generation0
  /\ j.generation0 = h.generation0
  /\ \A x \in Range(k) : j.generation[x] = h.generation[x]

LEMMA KeptListKept ==
  ASSUME NEW h, NEW k, KeptList(h, k), NEW j, SameKept(j, h, k)
  PROVE  KeptList(j, k)
<1>1. k # <<>> => IsList(j.generation, j.generation0, k)
  BY ListKept DEF KeptList, SameKept
<1>. QED BY <1>1 DEF KeptList, SameKept

LEMMA NextScanned ==
  ASSUME NEW h \in HeapSet, NEW d, NEW f, NEW k, NEW r, NEW o, ScanLists(h, d, f, k, r, o),
         r # <<>>
  PROVE  /\ IsList(h.generation, h.generation[d], Tail(r))
         /\ d \in Cell /\ d \in Range(r) /\ d \in Pool(h.blocks)
         /\ Range(Tail(r)) = Range(r) \ {d} /\ Len(Tail(r)) = Len(r) - 1
         /\ d \notin Range(f) \cup Range(k) \cup Range(o)
<1>1. IsList(h.generation, d, r)
  BY DEF ScanLists
<1>2. /\ IsList(h.generation, h.generation[d], Tail(r)) /\ d \in Range(r) /\ d \in Cell
      /\ Range(Tail(r)) = Range(r) \ {d} /\ Len(Tail(r)) = Len(r) - 1
  BY <1>1, ListPopped
<1>. QED BY <1>2 DEF ScanLists, Apart

LEMMA FreedLists ==
  ASSUME NEW h \in HeapSet, NEW d, NEW f, NEW k, NEW r, NEW o, ScanLists(h, d, f, k, r, o),
         r # <<>>
  PROVE  /\ ScanLists(Freed(h, d), h.generation[d], Before(d, f), k, Tail(r), o)
         /\ Range(Before(d, f)) = {d} \cup Range(f)
<1> DEFINE j == Freed(h, d)
           e == h.generation[d]
           b == Before(d, f)
           t == Tail(r)
<1>1. /\ IsList(h.generation, e, t) /\ d \in Cell /\ d \in Range(r) /\ d \in Pool(h.blocks)
      /\ Range(t) = Range(r) \ {d} /\ d \notin Range(f) \cup Range(k) \cup Range(o)
  BY NextScanned
<1>2. /\ j.generation = [h.generation EXCEPT ![d] = h.free_data_top] /\ j.free_data_top = d
      /\ j.generation0 = h.generation0 /\ j.generation1 = h.generation1
      /\ j.last_generation0 = h.last_generation0 /\ j.blocks = h.blocks /\ j.pdata = h.pdata
  <2>1. IsFreed(j, h, d)
    BY <1>1, FreedFields
  <2> HIDE DEF j
  <2>. QED BY <2>1 DEF IsFreed
<1>3. h.generation \in [Cell -> Link]
  BY HeapFields
<1>4. /\ j.generation[d] = h.free_data_top
      /\ \A x \in Cell : x # d => j.generation[x] = h.generation[x]
  BY <1>1, <1>2, <1>3
<1> HIDE DEF j, e, b, t
<1>5. /\ IsList(h.generation, h.free_data_top, f) /\ KeptList(h, k)
      /\ IsList(h.generation, h.generation1, o)
      /\ Range(f) \subseteq Cell /\ Range(k) \subseteq Cell /\ Range(o) \subseteq Cell
      /\ Range(r) \subseteq Cell
  BY InList DEF ScanLists, IsList, KeptList
<1>6. IsList(j.generation, d, b) /\ Range(b) = {d} \cup Range(f)
  <2>1. \A y \in Range(f) : j.generation[y] = h.generation[y]
    BY <1>1, <1>4, <1>5
  <2>. QED BY <2>1, <1>1, <1>4, <1>5, ListPushed DEF b
<1>7. KeptList(j, k)
  <2>1. SameKept(j, h, k)
    BY <1>1, <1>2, <1>4, <1>5 DEF SameKept
  <2>. QED BY <2>1, <1>5, KeptListKept
<1>8. IsList(j.generation, e, t)
  <2>1. \A x \in Range(t) : j.generation[x] = h.generation[x]
    BY <1>1, <1>4, <1>5
  <2>. QED BY <2>1, <1>1, ListKept
<1>9. IsList(j.generation, j.generation1, o)
  <2>1. \A x \in Range(o) : j.generation[x] = h.generation[x]
    BY <1>1, <1>4, <1>5
  <2>2. IsList(j.generation, h.generation1, o)
    BY <2>1, <1>5, ListKept
  <2>. QED BY <2>2, <1>2
<1>10. ScanLists(j, e, b, k, t, o)
  <2>1. Apart(Range(b), Range(k), Range(t), Range(o))
    BY <1>1, <1>6 DEF ScanLists, Apart
  <2>2. Range(b) \cup Range(k) \cup Range(t) \cup Range(o) = Pool(j.blocks)
    BY <1>1, <1>2, <1>6 DEF ScanLists
  <2>3. \A c \in Cell \ Pool(j.blocks) : j.generation[c] = NULL
    BY <1>1, <1>2, <1>4 DEF ScanLists
  <2>. QED BY <2>1, <2>2, <2>3, <1>2, <1>6, <1>7, <1>8, <1>9 DEF ScanLists
<1>. QED BY <1>6, <1>10 DEF j, e, b, t

LEMMA PromotedLists ==
  ASSUME NEW h \in HeapSet, NEW d, NEW f, NEW k, NEW r, NEW o, ScanLists(h, d, f, k, r, o),
         r # <<>>
  PROVE  /\ ScanLists(Unflagged(ToGeneration1(h, d), d), h.generation[d],
                      f, k, Tail(r), Before(d, o))
         /\ Range(Before(d, o)) = {d} \cup Range(o)
<1> DEFINE j == Unflagged(ToGeneration1(h, d), d)
           e == h.generation[d]
           b == Before(d, o)
           t == Tail(r)
<1>1. /\ IsList(h.generation, e, t) /\ d \in Cell /\ d \in Range(r) /\ d \in Pool(h.blocks)
      /\ Range(t) = Range(r) \ {d} /\ d \notin Range(f) \cup Range(k) \cup Range(o)
  BY NextScanned
<1>2. /\ j.generation = [h.generation EXCEPT ![d] = h.generation1] /\ j.generation1 = d
      /\ j.free_data_top = h.free_data_top /\ j.generation0 = h.generation0
      /\ j.last_generation0 = h.last_generation0 /\ j.blocks = h.blocks /\ j.pdata = h.pdata
  <2>1. IsPromoted(j, h, d)
    BY <1>1, PromotedFields
  <2> HIDE DEF j
  <2>. QED BY <2>1 DEF IsPromoted
<1>3. h.generation \in [Cell -> Link]
  BY HeapFields
<1>4. /\ j.generation[d] = h.generation1
      /\ \A x \in Cell : x # d => j.generation[x] = h.generation[x]
  BY <1>1, <1>2, <1>3
<1> HIDE DEF j, e, b, t
<1>5. /\ IsList(h.generation, h.free_data_top, f) /\ KeptList(h, k)
      /\ IsList(h.generation, h.generation1, o)
      /\ Range(f) \subseteq Cell /\ Range(k) \subseteq Cell /\ Range(o) \subseteq Cell
      /\ Range(r) \subseteq Cell
  BY InList DEF ScanLists, IsList, KeptList
<1>6. IsList(j.generation, d, b) /\ Range(b) = {d} \cup Range(o)
  <2>1. \A y \in Range(o) : j.generation[y] = h.generation[y]
    BY <1>1, <1>4, <1>5
  <2>. QED BY <2>1, <1>1, <1>4, <1>5, ListPushed DEF b
<1>7. KeptList(j, k)
  <2>1. SameKept(j, h, k)
    BY <1>1, <1>2, <1>4, <1>5 DEF SameKept
  <2>. QED BY <2>1, <1>5, KeptListKept
<1>8. IsList(j.generation, e, t)
  <2>1. \A x \in Range(t) : j.generation[x] = h.generation[x]
    BY <1>1, <1>4, <1>5
  <2>. QED BY <2>1, <1>1, ListKept
<1>9. IsList(j.generation, j.free_data_top, f)
  <2>1. \A x \in Range(f) : j.generation[x] = h.generation[x]
    BY <1>1, <1>4, <1>5
  <2>2. IsList(j.generation, h.free_data_top, f)
    BY <2>1, <1>5, ListKept
  <2>. QED BY <2>2, <1>2
<1>10. ScanLists(j, e, f, k, t, b)
  <2>1. Apart(Range(f), Range(k), Range(t), Range(b))
    BY <1>1, <1>6 DEF ScanLists, Apart
  <2>2. Range(f) \cup Range(k) \cup Range(t) \cup Range(b) = Pool(j.blocks)
    BY <1>1, <1>2, <1>6 DEF ScanLists
  <2>3. \A c \in Cell \ Pool(j.blocks) : j.generation[c] = NULL
    BY <1>1, <1>2, <1>4 DEF ScanLists
  <2>. QED BY <2>1, <2>2, <2>3, <1>2, <1>6, <1>7, <1>8, <1>9 DEF ScanLists
<1>. QED BY <1>6, <1>10 DEF j, e, b, t

LEMMA KeptLists ==
  ASSUME NEW h \in HeapSet, NEW d, NEW f, NEW k, NEW r, NEW o, ScanLists(h, d, f, k, r, o),
         r # <<>>
  PROVE  /\ ScanLists(Kept(h, d), h.generation[d], f, Append(k, d), Tail(r), o)
         /\ Range(Append(k, d)) = Range(k) \cup {d}
<1> DEFINE j == Kept(h, d)
           e == h.generation[d]
           b == Append(k, d)
           t == Tail(r)
<1>1. /\ IsList(h.generation, e, t) /\ d \in Cell /\ d \in Range(r) /\ d \in Pool(h.blocks)
      /\ Range(t) = Range(r) \ {d} /\ d \notin Range(f) \cup Range(k) \cup Range(o)
  BY NextScanned
<1>2. IsKept(j, h, d)
  BY <1>1, KeptFields
<1>3. h.generation \in [Cell -> Link] /\ h.pdata \in Link
  BY HeapFields
<1> HIDE DEF j, e, t
<1>4. /\ IsList(h.generation, h.free_data_top, f) /\ KeptList(h, k)
      /\ IsList(h.generation, h.generation1, o)
      /\ Range(f) \subseteq Cell /\ Range(k) \subseteq Cell /\ Range(o) \subseteq Cell
      /\ Range(r) \subseteq Cell
  BY InList DEF ScanLists, IsList, KeptList
<1>5. /\ h.pdata # NULL => k # <<>> /\ h.pdata = Last(k) /\ h.pdata \in Range(k)
      /\ k # <<>> => h.pdata \in Cell /\ h.pdata # NULL
  <2>1. ASSUME k # <<>> PROVE Last(k) \in Range(k) /\ Last(k) \in Cell /\ h.pdata = Last(k)
    BY <2>1, <1>4, LastOfList DEF KeptList
  <2>. QED BY <2>1, <1>4, NullNoCell DEF KeptList
<1>6. /\ j.generation[d] = NULL
      /\ \A x \in Cell : x # d /\ x # h.pdata => j.generation[x] = h.generation[x]
      /\ h.pdata # NULL => j.generation[h.pdata] = d
  BY <1>1, <1>2, <1>3, <1>5 DEF IsKept, Link
<1>7. /\ k \in Seq(Cell) /\ b \in Seq(Cell) /\ b # <<>> /\ Last(b) = d
      /\ Range(b) = Range(k) \cup {d}
  <2>1. k \in Seq(Cell)
    BY <1>4 DEF KeptList
  <2>2. Range(b) = Range(k) \cup {d} /\ b \in Seq(Cell)
    BY <2>1, <1>1, AppendRange
  <2>3. Len(b) = Len(k) + 1 /\ b[Len(k) + 1] = d /\ b # <<>>
    BY <2>1, <1>1
  <2>. QED BY <2>1, <2>2, <2>3 DEF Last
<1>8. IsList(j.generation, j.generation0, b)
  <2>1. CASE k = <<>>
    <3>1. b = <<d>> /\ j.generation0 = d
      BY <2>1, <1>2, <1>4 DEF IsKept, KeptList
    <3>2. IsList(j.generation, d, <<d>>)
      BY <1>1, <1>6, SingleList
    <3>. QED BY <3>1, <3>2
  <2>2. CASE k # <<>>
    <3>1. IsList(h.generation, h.generation0, k) /\ h.pdata = Last(k) /\ h.pdata # NULL
      BY <2>2, <1>4, <1>5 DEF KeptList
    <3>2. Continues(h.generation, j.generation, k, d)
      BY <3>1, <1>1, <1>4, <1>6 DEF Continues
    <3>3. IsList(j.generation, h.generation0, Append(k, d))
      BY <2>2, <3>1, <3>2, <1>1, <1>6, ListGrown
    <3>4. j.generation0 = h.generation0
      BY <3>1, <1>2 DEF IsKept
    <3>. QED BY <3>3, <3>4
  <2>. QED BY <2>1, <2>2
<1> HIDE DEF b
<1>9. KeptList(j, b)
  BY <1>2, <1>7, <1>8 DEF KeptList, IsKept
<1>10. \A x \in Range(f) \cup Range(t) \cup Range(o) : j.generation[x] = h.generation[x]
  <2>1. \A x \in Range(f) \cup Range(t) \cup Range(o) : x \in Cell /\ x # d /\ x # h.pdata
    BY <1>1, <1>4, <1>5, NullNoCell DEF ScanLists, Apart
  <2>. QED BY <2>1, <1>6
<1>11. IsList(j.generation, h.free_data_top, f)
  BY <1>4, <1>10, ListKept
<1>12. IsList(j.generation, e, t)
  BY <1>1, <1>10, ListKept
<1>13. IsList(j.generation, h.generation1, o)
  BY <1>4, <1>10, ListKept
<1>14. ScanLists(j, e, f, b, t, o)
  <2>1. Apart(Range(f), Range(b), Range(t), Range(o))
    BY <1>1, <1>7 DEF ScanLists, Apart
  <2>2. Range(f) \cup Range(b) \cup Range(t) \cup Range(o) = Pool(h.blocks)
    BY <1>1, <1>7 DEF ScanLists
  <2>3. \A c \in Cell \ Pool(h.blocks) : j.generation[c] = NULL
    <3>1. h.pdata # NULL => h.pdata \in Pool(h.blocks)
      BY <1>5 DEF ScanLists
    <3>. QED BY <3>1, <1>1, <1>6, NullNoCell DEF ScanLists
  <2>. QED BY <2>1, <2>2, <2>3, <1>2, <1>9, <1>11, <1>12, <1>13 DEF ScanLists, IsKept
<1>. QED BY <1>7, <1>14 DEF j, e, b, t
-----------------------------------------------------------------------------
(***************************************************************************)
(* The contents of the cells while a heap, which was s when the scan       *)
(* began, is scanned: K are the kept cells, R the rest, O generation1      *)
(***************************************************************************)
Singles(h) == \A c \in Cell : h.kind[c] = "single" => h.refs[c] = <<>>

(* No array that is being allocated is old enough for generation1 *)
AllocatingYoung(h) ==
  \A c \in h.allocating : c \in h.marked /\ h.kind[c] = "array" /\ h.life[c] + 1 <= GO_GEN1

Scannable(s) ==
  /\ s \in HeapSet /\ Closed(s, s.marked) /\ Singles(s) /\ AllocatingYoung(s)
  /\ VSTACK \in s.marked /\ s.kind[VSTACK] = "single" /\ s.life[VSTACK] = 0

ScanData(h, s, K, R, O) ==
  /\ h \in HeapSet /\ h.allocating = s.allocating /\ h.blocks = s.blocks
  /\ s.marked \subseteq K \cup R \cup O /\ K \subseteq s.marked
  /\ \A c \in R : c \in h.marked <=> c \in s.marked
  /\ h.marked \subseteq R \cup O
  /\ \A c \in K \cup R \cup O : h.refs[c] = s.refs[c] /\ h.kind[c] = s.kind[c]
  /\ \A c \in O : h.refs[c] = <<>> /\ h.kind[c] = "single"
  /\ \A c \in Cell \ (K \cup R \cup O) : h.refs[c] = <<>> /\ h.life[c] = 0
  /\ \A c \in R : h.life[c] = s.life[c]
  /\ \A c \in K \cap s.allocating : h.life[c] <= s.life[c] + 1
  /\ s.allocating \cup {VSTACK} \subseteq K \cup R

LEMMA FreedData ==
  ASSUME NEW s, Scannable(s), NEW K \in SUBSET Cell, NEW R \in SUBSET Cell,
         NEW O \in SUBSET Cell, NEW h, ScanData(h, s, K, R, O),
         NEW c \in R, c \notin K \cup O, c \notin h.marked, NEW j, j \in HeapSet, IsFreed(j, h, c)
  PROVE  ScanData(j, s, K, R \ {c}, O)
<1>1. c \in Cell /\ c \notin s.marked /\ c \notin s.allocating /\ c # VSTACK
  BY DEF ScanData, Scannable, AllocatingYoung
<1>2. /\ h.refs \in [Cell -> Seq(Cell)] /\ h.kind \in [Cell -> Kinds]
      /\ h.life \in [Cell -> Nat]
  BY HeapFields DEF ScanData
<1>3. /\ \A x \in Cell \ {c} : j.refs[x] = h.refs[x] /\ j.kind[x] = h.kind[x] /\ j.life[x] = h.life[x]
      /\ j.refs[c] = <<>> /\ j.life[c] = 0
  BY <1>1, <1>2 DEF IsFreed
<1>4. /\ j.marked = h.marked \ {c} /\ j.allocating = h.allocating \ {c} /\ j.blocks = h.blocks
  BY DEF IsFreed
<1>. QED BY <1>1, <1>3, <1>4 DEF ScanData

LEMMA PromotedData ==
  ASSUME NEW s, Scannable(s), NEW K \in SUBSET Cell, NEW R \in SUBSET Cell,
         NEW O \in SUBSET Cell, NEW h, ScanData(h, s, K, R, O),
         NEW c \in R, c \notin K \cup O, c \in h.marked, GoesToGeneration1(h, c),
         NEW j, j \in HeapSet, IsPromoted(j, h, c)
  PROVE  ScanData(j, s, K, R \ {c}, O \cup {c})
<1>1. c \in Cell /\ h.kind[c] = "single" /\ s.kind[c] = "single" /\ h.refs[c] = <<>>
  BY DEF ScanData, Scannable, Singles, GoesToGeneration1
<1>2. c \notin s.allocating
  BY <1>1 DEF Scannable, AllocatingYoung
<1>3. c # VSTACK
  <2>1. 0 + 1 <= GO_GEN1
    BY CollectorAssumption
  <2>. QED BY <2>1, CollectorAssumption DEF ScanData, Scannable, GoesToGeneration1
<1>4. h.life \in [Cell -> Nat]
  BY HeapFields DEF ScanData
<1>5. /\ \A x \in Cell \ {c} : j.life[x] = h.life[x]
      /\ j.refs = h.refs /\ j.kind = h.kind
  BY <1>1, <1>4 DEF IsPromoted
<1>6. /\ j.marked = h.marked \ {c} /\ j.allocating = h.allocating /\ j.blocks = h.blocks
  BY DEF IsPromoted
<1>. QED BY <1>1, <1>2, <1>3, <1>5, <1>6 DEF ScanData

LEMMA KeptData ==
  ASSUME NEW s, Scannable(s), NEW K \in SUBSET Cell, NEW R \in SUBSET Cell,
         NEW O \in SUBSET Cell, NEW h, ScanData(h, s, K, R, O),
         NEW c \in R, c \notin K \cup O, c \in h.marked,
         NEW j, j \in HeapSet, IsKept(j, h, c)
  PROVE  ScanData(j, s, K \cup {c}, R \ {c}, O)
<1>1. c \in Cell /\ c \in s.marked /\ h.life[c] = s.life[c]
  BY DEF ScanData
<1>2. h.life \in [Cell -> Nat]
  BY HeapFields DEF ScanData
<1>3. (h.life[c] + 1) % Lives <= h.life[c] + 1
  <2> DEFINE n == h.life[c] + 1
  <2>1. n \in Nat /\ Lives \in Nat /\ Lives > 0
    BY <1>1, <1>2, CollectorAssumption
  <2> HIDE DEF n
  <2>2. n % Lives <= n
    BY <2>1
  <2>. QED BY <2>2 DEF n
<1>4. /\ \A x \in Cell \ {c} : j.life[x] = h.life[x]
      /\ j.life[c] <= s.life[c] + 1
      /\ j.refs = h.refs /\ j.kind = h.kind
  BY <1>1, <1>2, <1>3 DEF IsKept
<1>5. /\ j.marked = h.marked \ {c} /\ j.allocating = h.allocating /\ j.blocks = h.blocks
  BY DEF IsKept
<1>. QED BY <1>1, <1>4, <1>5 DEF ScanData
-----------------------------------------------------------------------------
(***************************************************************************)
(* The scan: a step takes the first cell of the rest                       *)
(***************************************************************************)
InScan(h, s, d, f, k, r, o) ==
  /\ ScanLists(h, d, f, k, r, o)
  /\ ScanData(h, s, Range(k), Range(r), Range(o))
  /\ h.data_count = Len(f)

LEMMA ScannedOne ==
  ASSUME NEW s, Scannable(s), NEW h, NEW d, NEW f, NEW k, NEW r, NEW o,
         InScan(h, s, d, f, k, r, o), r # <<>>
  PROVE  \E f2, k2, o2 : InScan(Scanned(h, d), s, h.generation[d], f2, k2, Tail(r), o2)
<1> DEFINE j == Scanned(h, d)
           e == h.generation[d]
           t == Tail(r)
<1>1. /\ h \in HeapSet /\ ScanLists(h, d, f, k, r, o)
      /\ ScanData(h, s, Range(k), Range(r), Range(o)) /\ h.data_count = Len(f)
  BY DEF InScan, ScanData
<1>2. /\ d \in Cell /\ d \in Range(r) /\ Range(t) = Range(r) \ {d}
      /\ d \notin Range(k) \cup Range(o)
  BY <1>1, NextScanned
<1>3. /\ Range(k) \in SUBSET Cell /\ Range(r) \in SUBSET Cell /\ Range(o) \in SUBSET Cell
      /\ f \in Seq(Cell)
  BY <1>1, InList DEF ScanLists, IsList, KeptList
<1>4. CASE d \notin h.marked
  <2> DEFINE g == Freed(h, d)
             b == Before(d, f)
  <2>1. j = g
    BY <1>4 DEF Scanned
  <2>2. g \in HeapSet /\ IsFreed(g, h, d)
    BY <1>1, <1>2, FreedFields
  <2>3. ScanLists(g, e, b, k, t, o)
    BY <1>1, FreedLists
  <2>4. Len(b) = Len(f) + 1
    BY <1>2, <1>3, BeforeFacts
  <2> HIDE DEF g, b, e, j, t
  <2>5. ScanData(g, s, Range(k), Range(r) \ {d}, Range(o))
    BY <1>1, <1>2, <1>3, <1>4, <2>2, FreedData
  <2>6. InScan(g, s, e, b, k, t, o)
    BY <1>1, <1>2, <2>2, <2>3, <2>4, <2>5 DEF InScan, IsFreed
  <2>7. InScan(j, s, e, b, k, t, o)
    BY <2>1, <2>6
  <2>. QED BY <2>7, Zenon DEF j, e, t
<1>5. CASE d \in h.marked /\ GoesToGeneration1(h, d)
  <2> DEFINE g == Unflagged(ToGeneration1(h, d), d)
             b == Before(d, o)
  <2>1. j = g
    BY <1>5 DEF Scanned
  <2>2. g \in HeapSet /\ IsPromoted(g, h, d)
    BY <1>1, <1>2, PromotedFields
  <2>3. ScanLists(g, e, f, k, t, b) /\ Range(b) = {d} \cup Range(o)
    BY <1>1, PromotedLists
  <2> HIDE DEF g, b, e, j, t
  <2>4. ScanData(g, s, Range(k), Range(r) \ {d}, Range(o) \cup {d})
    BY <1>1, <1>2, <1>3, <1>5, <2>2, PromotedData
  <2>5. Range(o) \cup {d} = Range(b)
    BY <2>3
  <2>6. InScan(g, s, e, f, k, t, b)
    BY <1>1, <1>2, <2>2, <2>3, <2>4, <2>5 DEF InScan, IsPromoted
  <2>7. InScan(j, s, e, f, k, t, b)
    BY <2>1, <2>6
  <2>. QED BY <2>7, Zenon DEF j, e, t
<1>6. CASE d \in h.marked /\ ~GoesToGeneration1(h, d)
  <2> DEFINE g == Kept(h, d)
             b == Append(k, d)
  <2>1. ~ArrayGoesToGeneration1(h, d)
    <3>1. d \in h.allocating => h.life[d] + 1 <= GO_GEN1
      BY <1>1, <1>2 DEF ScanData, Scannable, AllocatingYoung
    <3>2. h.life[d] \in Nat /\ GO_GEN1 \in Nat
      BY <1>1, <1>2, HeapFields, CollectorAssumption
    <3>. QED BY <3>1, <3>2 DEF ArrayGoesToGeneration1
  <2>2. j = g
    BY <1>6, <2>1 DEF Scanned
  <2>3. g \in HeapSet /\ IsKept(g, h, d)
    BY <1>1, <1>2, KeptFields
  <2>4. ScanLists(g, e, f, b, t, o) /\ Range(b) = Range(k) \cup {d}
    BY <1>1, KeptLists
  <2> HIDE DEF g, b, e, j, t
  <2>5. ScanData(g, s, Range(k) \cup {d}, Range(r) \ {d}, Range(o))
    BY <1>1, <1>2, <1>3, <1>6, <2>3, KeptData
  <2>6. InScan(g, s, e, f, b, t, o)
    BY <1>1, <1>2, <2>3, <2>4, <2>5 DEF InScan, IsKept
  <2>7. InScan(j, s, e, f, b, t, o)
    BY <2>2, <2>6
  <2>. QED BY <2>7, Zenon DEF j, e, t
<1>. QED BY <1>4, <1>5, <1>6

IsScan(scan, h, c) ==
  scan = [n \in Nat |-> IF n = 0 THEN [heap |-> h, data |-> c] ELSE Advanced(scan[n - 1])]

(* n cells of the list first are done at least, or all *)
ScanAfter(t, s, first, n) ==
  \E f, k, r, o : /\ InScan(t.heap, s, t.data, f, k, r, o)
                  /\ r = <<>> \/ Len(r) + n <= Len(first)

ScanStates(s, first) ==
  {t \in [heap : HeapSet, data : Link] : ScanAfter(t, s, first, 0)}

LEMMA AdvancedScan ==
  ASSUME NEW s, Scannable(s), NEW first \in Seq(Cell), NEW n \in Nat,
         NEW t \in [heap : HeapSet, data : Link], ScanAfter(t, s, first, n)
  PROVE  /\ Advanced(t) \in [heap : HeapSet, data : Link]
         /\ ScanAfter(Advanced(t), s, first, n + 1)
<1> DEFINE h == t.heap
           d == t.data
<1>1. PICK f, k, r, o : InScan(h, s, d, f, k, r, o) /\ (r = <<>> \/ Len(r) + n <= Len(first))
  BY DEF ScanAfter
<1>2. IsList(h.generation, d, r) /\ r \in Seq(Cell) /\ Len(r) \in Nat /\ Len(first) \in Nat
  BY <1>1 DEF InScan, ScanLists, IsList
<1>3. d = NULL <=> r = <<>>
  BY <1>2, FirstOfList
<1>4. CASE r = <<>>
  <2>1. Advanced(t) = t
    BY <1>3, <1>4 DEF Advanced
  <2>. QED BY <2>1, <1>1, <1>4 DEF ScanAfter
<1>5. CASE r # <<>>
  <2> DEFINE j == Scanned(h, d)
             e == h.generation[d]
             u == [heap |-> j, data |-> e]
             q == Tail(r)
  <2>1. Advanced(t) = u
    BY <1>3, <1>5 DEF Advanced
  <2>2. IsList(h.generation, e, q) /\ Len(q) = Len(r) - 1
    BY <1>2, <1>5, ListPopped
  <2> HIDE DEF h, d
  <2>3. PICK f2, k2, o2 : InScan(j, s, e, f2, k2, q, o2)
    BY <1>1, <1>5, ScannedOne
  <2>4. u.heap = j /\ u.data = e
    OBVIOUS
  <2> HIDE DEF j, e, u, q
  <2>5. j \in HeapSet
    BY <2>3 DEF InScan, ScanData
  <2>6. e \in Link
    BY <2>2, FirstOfList DEF Link
  <2>7. u \in [heap : HeapSet, data : Link]
    BY <2>5, <2>6 DEF u
  <2>8. Len(q) + (n + 1) <= Len(first)
    BY <2>2, <1>1, <1>2, <1>5
  <2>9. ScanAfter(u, s, first, n + 1)
    BY <2>3, <2>4, <2>8 DEF ScanAfter
  <2>. QED BY <2>1, <2>7, <2>9
<1>. QED BY <1>4, <1>5

LEMMA ScanAfterNone ==
  ASSUME NEW s, NEW first \in Seq(Cell), NEW n \in Nat, NEW t, ScanAfter(t, s, first, n)
  PROVE  ScanAfter(t, s, first, 0)
<1>1. PICK f, k, r, o : /\ InScan(t.heap, s, t.data, f, k, r, o)
                        /\ r = <<>> \/ Len(r) + n <= Len(first)
  BY DEF ScanAfter
<1>2. Len(r) \in Nat /\ Len(first) \in Nat
  BY <1>1 DEF InScan, ScanLists, IsList
<1>3. r = <<>> \/ Len(r) + 0 <= Len(first)
  BY <1>1, <1>2
<1>. QED BY <1>1, <1>3 DEF ScanAfter

LEMMA ScanEnds ==
  ASSUME NEW s, Scannable(s), NEW c \in Link, NEW f0, NEW k0, NEW first \in Seq(Cell), NEW o0,
         InScan(s, s, c, f0, k0, first, o0)
  PROVE  \E f, k, o : InScan(Scan(s, c), s, NULL, f, k, <<>>, o)
<1> DEFINE X == ScanStates(s, first)
           start == [heap |-> s, data |-> c]
           scan == CHOOSE scan : IsScan(scan, s, c)
           step == [p \in Nat \X X |-> Advanced(p[2])]
           all == 2 * Cardinality(Cell)
<1>1. Scan(s, c) = scan[all].heap
  BY DEF Scan, IsScan
<1>2. ScanAfter(start, s, first, 0) /\ start \in [heap : HeapSet, data : Link]
  <2>1. start.heap = s /\ start.data = c
    OBVIOUS
  <2>2. s \in HeapSet
    BY DEF Scannable
  <2>3. start \in [heap : HeapSet, data : Link]
    BY <2>2
  <2>4. Len(first) + 0 <= Len(first)
    OBVIOUS
  <2> HIDE DEF start
  <2>. QED BY <2>1, <2>3, <2>4 DEF ScanAfter
<1>3. start \in X
  <2> HIDE DEF start
  <2>. QED BY <1>2 DEF ScanStates
<1>4. ASSUME NEW t \in X PROVE Advanced(t) \in X
  <2>1. t \in [heap : HeapSet, data : Link] /\ ScanAfter(t, s, first, 0)
    BY DEF ScanStates
  <2>2. /\ Advanced(t) \in [heap : HeapSet, data : Link]
        /\ ScanAfter(Advanced(t), s, first, 0 + 1)
    BY <2>1, AdvancedScan
  <2>3. ScanAfter(Advanced(t), s, first, 0)
    BY <2>2, ScanAfterNone
  <2>. QED BY <2>2, <2>3 DEF ScanStates
<1> HIDE DEF X, start
<1>5. IsStep(step, X)
  BY <1>4 DEF IsStep
<1>6. PICK f \in [Nat -> X] : SolvesNat(f, start, step)
  <2> HIDE DEF step
  <2>. QED BY <1>3, <1>5, NatRecursion
<1>7. ASSUME NEW n \in Nat PROVE f[n] = IF n = 0 THEN start ELSE Advanced(f[n - 1])
  <2>1. f[n] = IF n = 0 THEN start ELSE step[<<n, f[n - 1]>>]
    BY <1>6 DEF SolvesNat
  <2>2. n # 0 => <<n, f[n - 1]>> \in Nat \X X
    <3> HIDE DEF step
    <3>. QED BY <1>6
  <2>. QED BY <2>1, <2>2
<1> HIDE DEF step
<1>8. IsScan(f, s, c)
  BY <1>6, <1>7 DEF IsScan, start
<1>9. IsScan(scan, s, c)
  BY <1>8
<1> HIDE DEF scan
<1>10. ASSUME NEW n \in Nat PROVE scan[n] = IF n = 0 THEN start ELSE Advanced(scan[n - 1])
  BY <1>9 DEF IsScan, start
<1> DEFINE Good(n) == /\ scan[n] \in [heap : HeapSet, data : Link]
                      /\ ScanAfter(scan[n], s, first, n)
           T == {n \in Nat : Good(n)}
<1>11. 0 \in T
  BY <1>2, <1>10
<1>12. ASSUME NEW n \in T PROVE n + 1 \in T
  <2>1. n \in Nat /\ n + 1 \in Nat /\ n + 1 # 0 /\ (n + 1) - 1 = n /\ Good(n)
    OBVIOUS
  <2>2. scan[n + 1] = Advanced(scan[n])
    BY <2>1, <1>10
  <2> DEFINE t == scan[n]
  <2>3. t \in [heap : HeapSet, data : Link] /\ ScanAfter(t, s, first, n)
    BY <2>1
  <2> HIDE DEF t
  <2>4. /\ Advanced(t) \in [heap : HeapSet, data : Link]
        /\ ScanAfter(Advanced(t), s, first, n + 1)
    BY <2>1, <2>3, AdvancedScan
  <2>. QED BY <2>1, <2>2, <2>4 DEF t
<1>13. T \in SUBSET Nat
  OBVIOUS
<1> HIDE DEF T
<1>14. T = Nat
  BY <1>11, <1>12, <1>13, AllNumbers
<1>15. all \in Nat /\ Len(first) <= all
  <2>1. IsInjective(first)
    BY DEF InScan, ScanLists, IsList
  <2>. QED BY <2>1, ListFits, CellsCounted
<1>16. ScanAfter(scan[all], s, first, all)
  BY <1>14, <1>15 DEF T
<1> HIDE DEF all
<1>17. PICK f1, k, r, o : /\ InScan(scan[all].heap, s, scan[all].data, f1, k, r, o)
                          /\ r = <<>> \/ Len(r) + all <= Len(first)
  BY <1>16 DEF ScanAfter
<1>18. r \in Seq(Cell) /\ IsList(scan[all].heap.generation, scan[all].data, r)
  BY <1>17 DEF InScan, ScanLists, IsList
<1>19. r = <<>>
  <2>1. Len(r) \in Nat /\ Len(first) \in Nat
    BY <1>18
  <2>2. r = <<>> \/ Len(r) = 0
    BY <2>1, <1>15, <1>17
  <2>. QED BY <2>2, <1>18, InList
<1>20. scan[all].data = NULL
  BY <1>18, <1>19, FirstOfList
<1>. QED BY <1>1, <1>17, <1>19, <1>20
-----------------------------------------------------------------------------
(***************************************************************************)
(* A heap between two steps of the program: f are the free cells, y those  *)
(* of generation0, and o those of generation1                              *)
(***************************************************************************)
HeapLists(h, f, y, o) ==
  /\ IsList(h.generation, h.free_data_top, f)
  /\ IsList(h.generation, h.generation0, y)
  /\ IsList(h.generation, h.generation1, o)
  /\ h.last_generation0 = Last(y)
  /\ Apart(Range(f), {}, Range(y), Range(o))
  /\ Range(f) \cup Range(y) \cup Range(o) = Pool(h.blocks)
  /\ \A c \in Cell \ Pool(h.blocks) : h.generation[c] = NULL

(* Y is the set of the cells in generation0, O of those in generation1: all *)
(* that is used; an old cell refers to none and may still be marked         *)
HeapData(h, Y, O) ==
  /\ h \in HeapSet /\ Singles(h) /\ Closed(h, Y \cup O)
  /\ \A c \in O : h.kind[c] = "single"
  /\ \A c \in Cell \ (Y \cup O) : h.refs[c] = <<>> /\ h.life[c] = 0
  /\ h.marked \subseteq O
  /\ VSTACK \in Y /\ h.kind[VSTACK] = "single"
  /\ \A c \in h.allocating : c \in Y /\ h.kind[c] = "array"

(* The program holds no cell that is not used *)
Rooted(U) == TMP_DT \in U \cup {NULL} /\ \A x \in Slot : stack[x] \in U \cup {NULL}

(* What a collection begins with *)
ScanStart(h) == [Marked(h) EXCEPT !.data_count = 0, !.pdata = NULL, !.last_generation0 = NULL]

LEMMA FirstCell == VSTACK \in Cell /\ 1 \in DOMAIN Blocks /\ Blocks[1] \in Seq(Cell)
<1>1. 1 \in DOMAIN Blocks /\ Blocks[1] \in Seq(Cell) /\ Blocks[1] # <<>>
  BY BlocksAssumption
<1>2. Blocks[1][1] \in Cell
  BY <1>1
<1>. QED BY <1>1, <1>2 DEF VSTACK

IsScanStart(s, h) ==
  /\ s.generation = h.generation /\ s.free_data_top = h.free_data_top
  /\ s.generation0 = h.generation0 /\ s.generation1 = h.generation1
  /\ s.last_generation0 = NULL
  /\ s.marked = h.marked \cup Reached(h, Roots(h)) \cup {VSTACK}
  /\ s.allocating = h.allocating
  /\ s.life = [h.life EXCEPT ![VSTACK] = 0] /\ s.kind = h.kind /\ s.refs = h.refs
  /\ s.data_count = 0 /\ s.blocks = h.blocks /\ s.pdata = NULL

LEMMA StartFields ==
  ASSUME NEW h \in HeapSet, Roots(h) \in SUBSET Cell, NEW s, s = ScanStart(h)
  PROVE  s \in HeapSet /\ IsScanStart(s, h)
<1> DEFINE life == [h.life EXCEPT ![VSTACK] = 0]
           marked == h.marked \cup Reached(h, Roots(h)) \cup {VSTACK}
<1>1. s = [generation |-> h.generation, free_data_top |-> h.free_data_top,
           generation0 |-> h.generation0, generation1 |-> h.generation1,
           last_generation0 |-> NULL, marked |-> marked, allocating |-> h.allocating,
           life |-> life, kind |-> h.kind, refs |-> h.refs,
           data_count |-> 0, blocks |-> h.blocks, pdata |-> NULL]
  BY DEF ScanStart, Marked, HeapSet
<1>2. Reached(h, Roots(h)) \in SUBSET Cell
  BY HeapFields, ReachedClosed DEF RefTypes
<1>3. life \in [Cell -> Nat] /\ marked \in SUBSET Cell /\ NULL \in Link
  BY <1>2, FirstCell, HeapFields DEF Link
<1> HIDE DEF life, marked
<1>4. s \in HeapSet
  BY <1>1, <1>3, HeapFields DEF HeapSet
<1>. QED BY <1>1, <1>4 DEF IsScanStart, life, marked

IsUnflagged(j, h, c) ==
  /\ j.generation = h.generation /\ j.free_data_top = h.free_data_top
  /\ j.generation0 = h.generation0 /\ j.generation1 = h.generation1
  /\ j.last_generation0 = h.last_generation0
  /\ j.marked = h.marked \ {c} /\ j.allocating = h.allocating
  /\ j.life = [h.life EXCEPT ![c] = 0] /\ j.kind = h.kind /\ j.refs = h.refs
  /\ j.data_count = h.data_count /\ j.blocks = h.blocks /\ j.pdata = h.pdata

LEMMA UnflaggedFields ==
  ASSUME NEW h \in HeapSet, NEW c \in Cell, NEW j, j = Unflagged(h, c)
  PROVE  j \in HeapSet /\ IsUnflagged(j, h, c)
  BY HeapFields DEF IsUnflagged, Unflagged, HeapSet

(* The array that is allocated is not too old for one more collection *)
YoungEnough(h) == \A c \in h.allocating : c = TMP_DT /\ h.life[c] + 1 <= GO_GEN1

LEMMA ScanBegins ==
  ASSUME NEW h, NEW y, NEW o, HeapLists(h, <<>>, y, o), HeapData(h, Range(y), Range(o)),
         Rooted(Range(y) \cup Range(o)), YoungEnough(h),
         NEW s, s = ScanStart(h)
  PROVE  /\ Scannable(s) /\ IsScanStart(s, h) /\ Rooted(s.marked)
         /\ InScan(s, s, h.generation0, <<>>, <<>>, y, o)
<1> DEFINE Y == Range(y)
           O == Range(o)
           reached == Reached(h, Roots(h))
<1>1. /\ h \in HeapSet /\ Singles(h) /\ Closed(h, Y \cup O) /\ h.marked \subseteq O
      /\ VSTACK \in Y /\ h.kind[VSTACK] = "single"
  BY DEF HeapData
<1>2. Y \in SUBSET Cell /\ O \in SUBSET Cell /\ NULL \notin Cell
  BY InList, NullNoCell DEF HeapLists, IsList
<1> HIDE DEF Y, O
<1>3. Roots(h) \subseteq Y \cup O /\ Roots(h) \in SUBSET Cell
  <2>1. Rooted(Y \cup O)
    BY DEF Y, O
  <2>. QED BY <2>1, <1>2 DEF Roots, Rooted
<1>4. RefTypes(h) /\ \A c \in O \cup {VSTACK} : h.refs[c] = <<>>
  <2>1. \A c \in O \cup {VSTACK} : c \in Cell /\ h.kind[c] = "single"
    BY <1>1, <1>2 DEF HeapData, O
  <2>. QED BY <2>1, <1>1, HeapFields DEF RefTypes, Singles
<1>5. /\ reached \in SUBSET Cell /\ Roots(h) \subseteq reached /\ Closed(h, reached)
      /\ reached \subseteq Y \cup O
  <2>1. reached \in SUBSET Cell /\ Roots(h) \subseteq reached /\ Closed(h, reached)
    BY <1>3, <1>4, ReachedClosed
  <2> DEFINE U == Y \cup O
  <2>2. Roots(h) \subseteq U /\ Closed(h, U)
    BY <1>1, <1>3
  <2> HIDE DEF U
  <2>3. reached \subseteq U
    BY <2>2, <1>3, <1>4, ReachedWithin
  <2>. QED BY <2>1, <2>3 DEF U
<1> HIDE DEF reached
<1>6. s \in HeapSet /\ IsScanStart(s, h)
  BY <1>1, <1>3, StartFields
<1>7. s.marked = h.marked \cup reached \cup {VSTACK} /\ s.refs = h.refs /\ s.kind = h.kind
  BY <1>6 DEF IsScanStart, reached
<1>8. Closed(s, s.marked)
  <2>1. \A c \in O \cup {VSTACK} : Range(h.refs[c]) = {}
    BY <1>4, EmptyList
  <2>. QED BY <2>1, <1>1, <1>5, <1>7 DEF Closed
<1>9. Rooted(s.marked)
  <2>1. \A x \in Slot : stack[x] \in h.marked \cup {NULL} \cup Roots(h)
    BY DEF Roots
  <2>2. TMP_DT \in {NULL} \cup Roots(h)
    BY DEF Roots
  <2>. QED BY <2>1, <2>2, <1>5, <1>7 DEF Rooted
<1>10. s.life = [h.life EXCEPT ![VSTACK] = 0] /\ h.life \in [Cell -> Nat] /\ VSTACK \in Cell
  BY <1>1, <1>6, HeapFields, FirstCell DEF IsScanStart
<1>11. AllocatingYoung(s)
  <2> SUFFICES ASSUME NEW c \in s.allocating
               PROVE  c \in s.marked /\ s.kind[c] = "array" /\ s.life[c] + 1 <= GO_GEN1
    BY DEF AllocatingYoung
  <2>1. c \in h.allocating
    BY <1>6 DEF IsScanStart
  <2>2. c = TMP_DT /\ h.life[c] + 1 <= GO_GEN1 /\ c \in Y /\ h.kind[c] = "array"
    BY <2>1 DEF YoungEnough, HeapData, Y
  <2>3. c \in Cell /\ c # NULL /\ c # VSTACK
    BY <2>2, <1>1, <1>2
  <2>4. s.life[c] = h.life[c]
    BY <2>3, <1>10
  <2>. QED BY <2>2, <2>3, <2>4, <1>7, <1>9 DEF Rooted
<1>12. Scannable(s)
  <2>1. s.life[VSTACK] = 0
    BY <1>10
  <2>. QED BY <2>1, <1>1, <1>6, <1>7, <1>8, <1>11 DEF Scannable, Singles
<1>13. ScanLists(s, h.generation0, <<>>, <<>>, y, o)
  <2>1. <<>> \in Seq(Cell) /\ Range(<<>>) = {}
    BY EmptyList
  <2>2. KeptList(s, <<>>)
    BY <2>1, <1>6 DEF KeptList, IsScanStart
  <2>3. Apart({}, {}, Range(y), Range(o))
    BY <2>1 DEF HeapLists
  <2>. QED BY <2>1, <2>2, <2>3, <1>6 DEF ScanLists, HeapLists, IsScanStart
<1>14. ScanData(s, s, {}, Y, O)
  <2>1. s.allocating \subseteq Y /\ s.blocks = h.blocks /\ \A c \in O : s.kind[c] = "single"
    BY <1>6, <1>7 DEF IsScanStart, HeapData, Y, O
  <2>2. \A c \in Cell \ (Y \cup O) : s.refs[c] = <<>> /\ s.life[c] = 0
    BY <1>1, <1>7, <1>10 DEF HeapData, Y, O
  <2>. QED BY <2>1, <2>2, <1>1, <1>4, <1>5, <1>6, <1>7 DEF ScanData
<1>15. s.data_count = 0 /\ Len(<<>>) = 0
  BY <1>6 DEF IsScanStart
<1>16. InScan(s, s, h.generation0, <<>>, <<>>, y, o)
  <2>1. ScanData(s, s, Range(<<>>), Range(y), Range(o))
    BY <1>14, EmptyList DEF Y, O
  <2>. QED BY <2>1, <1>13, <1>15 DEF InScan
<1>. QED BY <1>6, <1>9, <1>12, <1>16

(* What a program finds of h in g, where the cells U are used *)
SameProgram(g, h, U) ==
  /\ g.allocating = h.allocating
  /\ \A c \in U : g.refs[c] = h.refs[c] /\ g.kind[c] = h.kind[c]
  /\ \A c \in h.allocating : g.life[c] <= h.life[c] + 1

HeapAfter(g, h, f, y, o) ==
  /\ HeapLists(g, f, y, o) /\ HeapData(g, Range(y), Range(o))
  /\ Rooted(Range(y) \cup Range(o)) /\ SameProgram(g, h, Range(y) \cup Range(o))

LEMMA CollectedHeap ==
  ASSUME NEW h, NEW y, NEW o, HeapLists(h, <<>>, y, o), HeapData(h, Range(y), Range(o)),
         Rooted(Range(y) \cup Range(o)), YoungEnough(h),
         NEW g, g = Collected(h)
  PROVE  \E f2, y2, o2 : HeapAfter(g, h, f2, y2, o2) /\ g.data_count = Len(f2) /\ g.blocks = h.blocks
<1> DEFINE s == ScanStart(h)
           e == Scan(s, h.generation0)
<1>1. g = Unflagged(e, VSTACK)
  BY Zenon DEF Collected, ScanStart
<1>2. /\ Scannable(s) /\ IsScanStart(s, h) /\ Rooted(s.marked)
      /\ InScan(s, s, h.generation0, <<>>, <<>>, y, o)
  <2>1. s = ScanStart(h)
    OBVIOUS
  <2> HIDE DEF s
  <2>. QED BY <2>1, ScanBegins
<1>3. h.generation0 \in Link /\ y \in Seq(Cell)
  BY HeapFields DEF HeapData, HeapLists, IsList
<1> HIDE DEF s
<1>4. PICK f, k, p : InScan(e, s, NULL, f, k, <<>>, p)
  BY <1>2, <1>3, ScanEnds
<1> HIDE DEF e
<1> DEFINE K == Range(k)
           P == Range(p)
<1>5. /\ ScanLists(e, NULL, f, k, <<>>, p) /\ ScanData(e, s, K, {}, P)
      /\ e.data_count = Len(f)
  BY <1>4, EmptyList DEF InScan
<1>6. K \in SUBSET Cell /\ P \in SUBSET Cell
  BY <1>5, InList DEF ScanLists, IsList, KeptList
<1> HIDE DEF K, P
<1>7. /\ s.allocating = h.allocating /\ s.life = [h.life EXCEPT ![VSTACK] = 0]
      /\ s.kind = h.kind /\ s.refs = h.refs /\ s.blocks = h.blocks
  BY <1>2 DEF IsScanStart
<1>8. g \in HeapSet /\ IsUnflagged(g, e, VSTACK)
  <2>1. e \in HeapSet
    BY <1>5 DEF ScanData
  <2>. QED BY <2>1, <1>1, FirstCell, UnflaggedFields
<1>9. VSTACK \in K /\ k # <<>>
  <2>1. VSTACK \in K
    BY <1>5 DEF ScanData
  <2>. QED BY <2>1, EmptyList DEF K
<1>10. HeapLists(g, f, k, p)
  <2>1. Apart(Range(f), Range(k), {}, Range(p)) /\ Range(<<>>) = {}
    BY <1>5, EmptyList DEF ScanLists
  <2>2. Apart(Range(f), {}, Range(k), Range(p))
    BY <2>1 DEF Apart
  <2>. QED BY <2>1, <2>2, <1>5, <1>8, <1>9 DEF HeapLists, ScanLists, KeptList, IsUnflagged
<1>11. /\ s.marked \subseteq K \cup P /\ K \subseteq s.marked /\ e.marked \subseteq P
       /\ \A c \in K \cup P : g.refs[c] = h.refs[c] /\ g.kind[c] = h.kind[c]
       /\ \A c \in P : g.refs[c] = <<>> /\ g.kind[c] = "single"
       /\ g.kind = e.kind /\ g.refs = e.refs
  BY <1>5, <1>7, <1>8 DEF ScanData, IsUnflagged
<1>12. /\ e.life \in [Cell -> Nat] /\ g.life = [e.life EXCEPT ![VSTACK] = 0]
       /\ g.allocating = h.allocating /\ VSTACK \in Cell
  BY <1>5, <1>7, <1>8, HeapFields, FirstCell DEF ScanData, IsUnflagged
<1>13. \A c \in Cell \ (K \cup P) : g.refs[c] = <<>> /\ g.life[c] = 0
  BY <1>5, <1>8, <1>12 DEF ScanData, IsUnflagged
<1>14. Singles(g)
  <2>1. \A c \in Cell : c \in K \cup P => (g.kind[c] = "single" => g.refs[c] = <<>>)
    BY <1>11 DEF HeapData, Singles
  <2>. QED BY <2>1, <1>13 DEF Singles
<1>15. Closed(g, K \cup P)
  <2>1. \A c \in K : Range(g.refs[c]) \subseteq s.marked
    BY <1>2, <1>7, <1>11 DEF Scannable, Closed
  <2>2. \A c \in P : Range(g.refs[c]) = {}
    BY <1>11, EmptyList
  <2>. QED BY <2>1, <2>2, <1>11 DEF Closed
<1>16. \A c \in h.allocating : c \in K /\ g.kind[c] = "array" /\ g.life[c] <= h.life[c] + 1
  <2> SUFFICES ASSUME NEW c \in h.allocating
               PROVE  c \in K /\ g.kind[c] = "array" /\ g.life[c] <= h.life[c] + 1
    OBVIOUS
  <2>1. c \in K
    BY <1>5, <1>7 DEF ScanData
  <2>2. h.kind[c] = "array" /\ h.kind[VSTACK] = "single"
    BY DEF HeapData
  <2>3. c # VSTACK /\ c \in Cell
    BY <2>1, <2>2, <1>6
  <2>4. e.life[c] <= s.life[c] + 1 /\ s.life[c] = h.life[c]
    <3>1. h.life \in [Cell -> Nat]
      BY HeapFields DEF HeapData
    <3>. QED BY <3>1, <2>1, <2>3, <1>5, <1>7 DEF ScanData
  <2>. QED BY <2>1, <2>2, <2>3, <2>4, <1>11, <1>12
<1>17. HeapData(g, K, P)
  <2>1. g.marked \subseteq P
    BY <1>8, <1>11 DEF IsUnflagged
  <2>2. g.kind[VSTACK] = "single"
    BY <1>9, <1>11 DEF HeapData
  <2>. QED BY <2>1, <2>2, <1>8, <1>9, <1>11, <1>12, <1>13, <1>14, <1>15, <1>16 DEF HeapData
<1>18. Rooted(K \cup P)
  BY <1>2, <1>11 DEF Rooted
<1>19. SameProgram(g, h, K \cup P)
  BY <1>11, <1>12, <1>16 DEF SameProgram
<1>20. HeapAfter(g, h, f, k, p)
  BY <1>10, <1>17, <1>18, <1>19 DEF HeapAfter, K, P
<1>21. g.data_count = Len(f) /\ g.blocks = h.blocks
  BY <1>5, <1>7, <1>8 DEF IsUnflagged, ScanData
<1>. QED BY <1>20, <1>21
-----------------------------------------------------------------------------
(***************************************************************************)
(* A new block behind the free cells                                       *)
(***************************************************************************)
LEMMA LinkedList ==
  ASSUME NEW gen \in [Cell -> Link], NEW block \in Seq(Cell), block # <<>>, IsInjective(block),
         gen[Last(block)] = NULL
  PROVE  /\ Linked(gen, block) \in [Cell -> Link]
         /\ IsList(Linked(gen, block), Head(block), block)
         /\ \A c \in Cell \ Range(block) : Linked(gen, block)[c] = gen[c]
<1> DEFINE at(c) == CHOOSE i \in DOMAIN block : block[i] = c
           j == Linked(gen, block)
           n == Len(block)
<1>1. n \in Nat /\ n > 0 /\ DOMAIN block = 1 .. n /\ \A i \in 1 .. n : block[i] \in Cell /\ block[i] \in Range(block)
  BY InList
<1>2. j = [c \in Cell |-> IF c \notin Range(block) \/ c = Last(block) THEN gen[c] ELSE block[1 + at(c)]]
  BY DEF Linked
<1>3. \A i \in 1 .. n : at(block[i]) = i
  <2> SUFFICES ASSUME NEW i \in 1 .. n PROVE at(block[i]) = i
    OBVIOUS
  <2>1. at(block[i]) \in 1 .. n /\ block[at(block[i])] = block[i]
    BY <1>1
  <2> HIDE DEF at
  <2>. QED BY <2>1, <1>1 DEF IsInjective
<1>4. Last(block) = block[n] /\ n = Len(block)
  BY DEF Last
<1> HIDE DEF at, j, n
<1>5. ASSUME NEW i \in 1 .. n PROVE j[block[i]] = At(block, i + 1)
  <2>1. CASE i = n
    <3>1. j[block[i]] = gen[Last(block)]
      BY <2>1, <1>1, <1>2, <1>4
    <3>. QED BY <3>1, <2>1, <1>1, <1>4 DEF At
  <2>2. CASE i # n
    <3>1. i + 1 \in 1 .. n /\ i # n
      BY <2>2, <1>1
    <3>2. block[i] # Last(block)
      <4>1. i \in DOMAIN block /\ n \in DOMAIN block
        BY <1>1
      <4>2. \A a, b \in DOMAIN block : block[a] = block[b] => a = b
        BY DEF IsInjective
      <4>. QED BY <4>1, <4>2, <3>1, <1>4
    <3>3. j[block[i]] = block[1 + i]
      BY <3>2, <1>1, <1>2, <1>3
    <3>4. 1 + i = i + 1 /\ At(block, i + 1) = block[i + 1]
      BY <3>1, <1>4 DEF At
    <3>. QED BY <3>3, <3>4
  <2>. QED BY <2>1, <2>2
<1>6. j \in [Cell -> Link]
  <2> SUFFICES ASSUME NEW c \in Cell, c \in Range(block), c # Last(block)
               PROVE  block[1 + at(c)] \in Link
    BY <1>2
  <2>1. PICK i \in 1 .. n : block[i] = c
    BY <1>4, InList
  <2>2. i # n /\ at(c) = i
    BY <2>1, <1>3, <1>4
  <2>3. 1 + i \in 1 .. n
    BY <2>2, <1>1
  <2>. QED BY <2>2, <2>3, <1>1 DEF Link
<1>7. Head(block) = At(block, 1)
  BY <1>1, <1>4 DEF At
<1>8. IsList(j, Head(block), block)
  BY <1>4, <1>5, <1>7 DEF IsList
<1>9. \A c \in Cell \ Range(block) : j[c] = gen[c]
  BY <1>2
<1>. QED BY <1>6, <1>8, <1>9 DEF j

LEMMA NextBlock ==
  ASSUME NEW n \in 1 .. Len(Blocks), n < Len(Blocks)
  PROVE  /\ Blocks[n + 1] \in Seq(Cell) /\ Blocks[n + 1] # <<>> /\ IsInjective(Blocks[n + 1])
         /\ n + 1 \in 1 .. Len(Blocks)
         /\ Pool(n + 1) = Pool(n) \cup Range(Blocks[n + 1])
         /\ Pool(n) \cap Range(Blocks[n + 1]) = {}
<1>1. Len(Blocks) \in Nat /\ DOMAIN Blocks = 1 .. Len(Blocks)
  BY BlocksAssumption
<1>2. n + 1 \in 1 .. Len(Blocks) /\ 1 .. n + 1 = (1 .. n) \cup {n + 1} /\ 1 .. n \subseteq 1 .. Len(Blocks)
      /\ n + 1 \notin 1 .. n
  BY <1>1
<1>3. /\ Blocks[n + 1] \in Seq(Cell) /\ Blocks[n + 1] # <<>> /\ IsInjective(Blocks[n + 1])
  <2>1. Blocks[n + 1] \in Seq(Cell)
    BY <1>2, BlocksAssumption
  <2>2. n + 1 \in DOMAIN Blocks
    BY <1>1, <1>2
  <2>. QED BY <2>1, <2>2, BlocksAssumption
<1>4. Pool(n + 1) = Pool(n) \cup Range(Blocks[n + 1])
  BY <1>2 DEF Pool
<1>5. \A i \in 1 .. n : Range(Blocks[i]) \cap Range(Blocks[n + 1]) = {}
  BY <1>1, <1>2, BlocksAssumption
<1>6. Pool(n) \cap Range(Blocks[n + 1]) = {}
  BY <1>5 DEF Pool
<1>. QED BY <1>2, <1>3, <1>4, <1>6

(* The links before the new block is linked *)
Hooked(h, f, block) ==
  IF f = <<>> THEN h.generation ELSE [h.generation EXCEPT ![Last(f)] = Head(block)]

IsExtended(j, h, f, block) ==
  /\ j.generation = Linked(Hooked(h, f, block), block)
  /\ j.free_data_top = IF f = <<>> THEN Head(block) ELSE h.free_data_top
  /\ j.blocks = h.blocks + 1
  /\ j.generation0 = h.generation0 /\ j.generation1 = h.generation1
  /\ j.last_generation0 = h.last_generation0 /\ j.marked = h.marked
  /\ j.allocating = h.allocating /\ j.life = h.life /\ j.kind = h.kind /\ j.refs = h.refs

LEMMA HookedLinks ==
  ASSUME NEW h \in HeapSet, NEW f, IsList(h.generation, h.free_data_top, f),
         NEW block \in Seq(Cell), block # <<>>
  PROVE  /\ Hooked(h, f, block) \in [Cell -> Link] /\ Head(block) \in Cell
         /\ \A c \in Cell : f = <<>> \/ c # Last(f) => Hooked(h, f, block)[c] = h.generation[c]
         /\ f # <<>> => Hooked(h, f, block)[Last(f)] = Head(block)
<1>1. h.generation \in [Cell -> Link] /\ Head(block) \in Cell /\ Head(block) \in Link
  BY HeapFields DEF Link
<1>2. f # <<>> => Last(f) \in Cell
  BY LastOfList
<1>. QED BY <1>1, <1>2 DEF Hooked

LEMMA ExtendedFields ==
  ASSUME NEW h \in HeapSet, NEW f, IsList(h.generation, h.free_data_top, f),
         h.blocks < Len(Blocks), NEW block, block = Blocks[h.blocks + 1],
         Linked(Hooked(h, f, block), block) \in [Cell -> Link], Head(block) \in Link,
         NEW j, j = Extended(h)
  PROVE  j \in HeapSet /\ IsExtended(j, h, f, block)
<1> DEFINE generation == Linked(Hooked(h, f, block), block)
           top == IF f = <<>> THEN Head(block) ELSE h.free_data_top
<1>1. Chain(h.generation, h.free_data_top) = f
  BY HeapFields, ChainIsList
<1>2. j = [h EXCEPT !.blocks = @ + 1, !.generation = generation,
                    !.free_data_top = IF f = <<>> THEN Head(block) ELSE @]
  BY <1>1, Zenon DEF Extended, Hooked
<1>3. generation \in [Cell -> Link] /\ top \in Link /\ h.blocks + 1 \in 1 .. Len(Blocks)
  <2>1. h.blocks \in 1 .. Len(Blocks) /\ Len(Blocks) \in Nat
    BY HeapFields, BlocksAssumption
  <2>2. h.blocks + 1 \in 1 .. Len(Blocks)
    BY <2>1
  <2>3. generation \in [Cell -> Link]
    OBVIOUS
  <2> HIDE DEF generation
  <2>. QED BY <2>2, <2>3, HeapFields
<1> HIDE DEF generation
<1>4. j = [h EXCEPT !.blocks = h.blocks + 1, !.generation = generation, !.free_data_top = top]
  BY <1>2 DEF HeapSet
<1> HIDE DEF top
<1>5. j \in HeapSet
  BY <1>3, <1>4, HeapFields DEF HeapSet
<1>. QED BY <1>4, <1>5 DEF IsExtended, HeapSet, generation, top

LEMMA ExtendedHeap ==
  ASSUME NEW h, NEW f, NEW y, NEW o, HeapLists(h, f, y, o), HeapData(h, Range(y), Range(o)),
         h.blocks < Len(Blocks), NEW j, j = Extended(h)
  PROVE  \E b : /\ HeapLists(j, b, y, o) /\ HeapData(j, Range(y), Range(o))
                /\ Len(b) = Len(f) + Len(Blocks[h.blocks + 1])
                /\ j.allocating = h.allocating /\ j.life = h.life
                /\ j.kind = h.kind /\ j.refs = h.refs
<1> DEFINE block == Blocks[h.blocks + 1]
           hook == Hooked(h, f, block)
           gen == Linked(hook, block)
<1>1. /\ h \in HeapSet /\ IsList(h.generation, h.free_data_top, f)
      /\ IsList(h.generation, h.generation0, y) /\ IsList(h.generation, h.generation1, o)
      /\ Apart(Range(f), {}, Range(y), Range(o))
      /\ Range(f) \cup Range(y) \cup Range(o) = Pool(h.blocks)
      /\ \A c \in Cell \ Pool(h.blocks) : h.generation[c] = NULL
  BY DEF HeapLists, HeapData
<1>2. h.blocks \in 1 .. Len(Blocks)
  BY <1>1, HeapFields
<1>3. /\ block \in Seq(Cell) /\ block # <<>> /\ IsInjective(block)
      /\ Pool(h.blocks + 1) = Pool(h.blocks) \cup Range(block)
      /\ Pool(h.blocks) \cap Range(block) = {}
  BY <1>2, NextBlock
<1> HIDE DEF block
<1>4. /\ hook \in [Cell -> Link] /\ Head(block) \in Cell
      /\ \A c \in Cell : f = <<>> \/ c # Last(f) => hook[c] = h.generation[c]
      /\ f # <<>> => hook[Last(f)] = Head(block)
  BY <1>1, <1>3, HookedLinks
<1>5. f # <<>> => Last(f) \in Range(f) /\ Last(f) \in Cell
  BY <1>1, LastOfList
<1>6. Last(block) \in Range(block) /\ Last(block) \in Cell
  <2>1. Len(block) \in 1 .. Len(block)
    BY <1>3
  <2>. QED BY <2>1, <1>3, InList DEF Last
<1>7. Range(f) \subseteq Cell /\ Range(y) \subseteq Cell /\ Range(o) \subseteq Cell
      /\ Range(block) \subseteq Cell /\ f \in Seq(Cell)
  BY <1>1, <1>3, InList DEF IsList
<1> HIDE DEF hook
<1>8. hook[Last(block)] = NULL
  <2>1. f # <<>> => Last(block) # Last(f)
    BY <1>1, <1>3, <1>5, <1>6
  <2>. QED BY <2>1, <1>1, <1>3, <1>4, <1>6
<1>9. /\ gen \in [Cell -> Link] /\ IsList(gen, Head(block), block)
      /\ \A c \in Cell \ Range(block) : gen[c] = hook[c]
  BY <1>3, <1>4, <1>8, LinkedList
<1>10. j \in HeapSet /\ IsExtended(j, h, f, block)
  <2>1. Linked(Hooked(h, f, block), block) \in [Cell -> Link] /\ Head(block) \in Link
    BY <1>4, <1>9 DEF hook, Link
  <2>. QED BY <2>1, <1>1, ExtendedFields DEF block
<1>11. j.generation = gen /\ j.blocks = h.blocks + 1
  BY <1>10 DEF IsExtended, hook
<1> HIDE DEF gen
<1>12. \A x \in Range(y) \cup Range(o) : gen[x] = h.generation[x]
  <2>1. \A x \in Range(y) \cup Range(o) :
          x \in Cell \ Range(block) /\ (f = <<>> \/ x # Last(f))
    BY <1>1, <1>3, <1>5, <1>7 DEF Apart
  <2>. QED BY <2>1, <1>4, <1>9
<1>13. IsList(gen, h.generation0, y) /\ IsList(gen, h.generation1, o)
  BY <1>1, <1>12, ListKept
<1> DEFINE b == f \o block
<1>14. IsList(gen, j.free_data_top, b) /\ Range(b) = Range(f) \cup Range(block)
  <2>1. CASE f = <<>>
    <3>1. b = block
      BY <2>1, <1>3
    <3>2. j.free_data_top = Head(block)
      BY <2>1, <1>10 DEF IsExtended
    <3>3. Range(f) = {}
      BY <2>1, EmptyList
    <3>. QED BY <3>1, <3>2, <3>3, <1>9
  <2>2. CASE f # <<>>
    <3>1. j.free_data_top = h.free_data_top
      BY <2>2, <1>10 DEF IsExtended
    <3>2. Range(f) \cap Range(block) = {}
      BY <1>1, <1>3
    <3>3. Continues(h.generation, gen, f, Head(block))
      BY <2>2, <3>2, <1>4, <1>5, <1>7, <1>9 DEF Continues
    <3>4. IsList(gen, h.free_data_top, f \o block) /\ Range(f \o block) = Range(f) \cup Range(block)
      BY <2>2, <3>2, <3>3, <1>1, <1>9, ListJoined
    <3>. QED BY <3>1, <3>4
  <2>. QED BY <2>1, <2>2
<1>15. Len(b) = Len(f) + Len(block)
  BY <1>3, <1>7
<1> HIDE DEF b
<1>16. HeapLists(j, b, y, o)
  <2>1. Apart(Range(b), {}, Range(y), Range(o))
    BY <1>1, <1>3, <1>14 DEF Apart
  <2>2. Range(b) \cup Range(y) \cup Range(o) = Pool(j.blocks)
    BY <1>1, <1>3, <1>11, <1>14
  <2>3. \A c \in Cell \ Pool(j.blocks) : j.generation[c] = NULL
    <3>1. \A c \in Cell \ Pool(j.blocks) :
            c \in Cell \ Range(block) /\ c \in Cell \ Pool(h.blocks) /\ (f = <<>> \/ c # Last(f))
      BY <1>1, <1>3, <1>5, <1>11
    <3>. QED BY <3>1, <1>1, <1>4, <1>9, <1>11
  <2>4. j.generation0 = h.generation0 /\ j.generation1 = h.generation1
        /\ j.last_generation0 = h.last_generation0
    BY <1>10 DEF IsExtended
  <2>. QED BY <2>1, <2>2, <2>3, <2>4, <1>11, <1>13, <1>14 DEF HeapLists
<1>17. /\ j.marked = h.marked /\ j.allocating = h.allocating /\ j.life = h.life
       /\ j.kind = h.kind /\ j.refs = h.refs
  BY <1>10 DEF IsExtended
<1>18. HeapData(j, Range(y), Range(o))
  BY <1>10, <1>17 DEF HeapData, Singles, Closed
<1>. QED BY <1>15, <1>16, <1>17, <1>18 DEF block
-----------------------------------------------------------------------------
(***************************************************************************)
(* The heap that is ready for an allocation                                *)
(***************************************************************************)
Reset(h) == [h EXCEPT !.pdata = NULL, !.data_count = 0]

LEMMA ResetHeap ==
  ASSUME NEW h, NEW f, NEW y, NEW o, HeapLists(h, f, y, o), HeapData(h, Range(y), Range(o)),
         NEW j, j = Reset(h)
  PROVE  /\ HeapLists(j, f, y, o) /\ HeapData(j, Range(y), Range(o))
         /\ j.allocating = h.allocating /\ j.life = h.life /\ j.kind = h.kind /\ j.refs = h.refs
<1>1. h \in HeapSet
  BY DEF HeapData
<1>2. j \in HeapSet
  BY <1>1, HeapFields DEF Reset, HeapSet, Link
<1>3. /\ j.generation = h.generation /\ j.free_data_top = h.free_data_top
      /\ j.generation0 = h.generation0 /\ j.generation1 = h.generation1
      /\ j.last_generation0 = h.last_generation0 /\ j.marked = h.marked
      /\ j.allocating = h.allocating /\ j.life = h.life /\ j.kind = h.kind /\ j.refs = h.refs
      /\ j.blocks = h.blocks
  BY <1>1 DEF Reset, HeapSet
<1>4. HeapLists(j, f, y, o)
  BY <1>3 DEF HeapLists
<1>5. HeapData(j, Range(y), Range(o))
  BY <1>2, <1>3 DEF HeapData, Singles, Closed
<1>. QED BY <1>3, <1>4, <1>5

(* A collection makes room for m cells at least, or a new block does *)
MakesRoom(m) ==
  m \in Nat \ {0} /\ m <= EXTEND_THRESHOLD /\ \A i \in DOMAIN Blocks : m <= Len(Blocks[i])

LEMMA PreparedHeap ==
  ASSUME NEW h, NEW f, NEW y, NEW o, HeapLists(h, f, y, o), HeapData(h, Range(y), Range(o)),
         Rooted(Range(y) \cup Range(o)), HasMemory(h), f = <<>> => YoungEnough(h),
         NEW m, MakesRoom(m), NEW g, g = Prepared(h)
  PROVE  \E f2, y2, o2 : /\ HeapAfter(g, h, f2, y2, o2) /\ f2 # <<>>
                         /\ f = <<>> => m <= Len(f2)
                         /\ f # <<>> => f2 = f /\ g = h
<1>1. h.free_data_top = NULL <=> f = <<>>
  BY FirstOfList DEF HeapLists
<1>2. CASE f # <<>>
  <2>1. g = h
    BY <1>1, <1>2 DEF Prepared
  <2>2. \A c \in h.allocating : h.life[c] <= h.life[c] + 1
    <3>1. h.life \in [Cell -> Nat] /\ h.allocating \in SUBSET Cell
      BY HeapFields DEF HeapData
    <3>. QED BY <3>1
  <2>3. HeapAfter(h, h, f, y, o)
    BY <2>2 DEF HeapAfter, SameProgram
  <2>. QED BY <2>1, <2>3, <1>2
<1>3. CASE f = <<>>
  <2> DEFINE c == Collected(h)
  <2>1. PICK f1, y1, o1 : HeapAfter(c, h, f1, y1, o1) /\ c.data_count = Len(f1) /\ c.blocks = h.blocks
    <3>1. c = Collected(h) /\ HeapLists(h, <<>>, y, o)
      BY <1>3
    <3> HIDE DEF c
    <3>. QED BY <3>1, <1>3, CollectedHeap
  <2>2. g = IF MustExtend(c) THEN Reset(Extended(c)) ELSE Reset(c)
    BY <1>1, <1>3 DEF Prepared, Reset
  <2>3. MustExtend(c) => h.blocks < Len(Blocks)
    BY <1>1, <1>3 DEF HasMemory
  <2> HIDE DEF c
  <2>4. /\ HeapLists(c, f1, y1, o1) /\ HeapData(c, Range(y1), Range(o1))
        /\ Rooted(Range(y1) \cup Range(o1)) /\ SameProgram(c, h, Range(y1) \cup Range(o1))
    BY <2>1 DEF HeapAfter
  <2>5. Len(f1) \in Nat /\ f1 \in Seq(Cell)
    BY <2>4 DEF HeapLists, IsList
  <2>6. m \in Nat \ {0} /\ m <= EXTEND_THRESHOLD /\ EXTEND_THRESHOLD \in Nat
    BY CollectorAssumption DEF MakesRoom
  <2>7. CASE MustExtend(c)
    <3> DEFINE e == Extended(c)
               j == Reset(e)
    <3>1. PICK b : /\ HeapLists(e, b, y1, o1) /\ HeapData(e, Range(y1), Range(o1))
                   /\ Len(b) = Len(f1) + Len(Blocks[c.blocks + 1])
                   /\ e.allocating = c.allocating /\ e.life = c.life
                   /\ e.kind = c.kind /\ e.refs = c.refs
      <4>1. e = Extended(c) /\ c.blocks < Len(Blocks)
        BY <2>1, <2>3, <2>7
      <4> HIDE DEF e
      <4>. QED BY <4>1, <2>4, ExtendedHeap
    <3>2. j = Reset(e)
      OBVIOUS
    <3> HIDE DEF e, j
    <3>3. /\ HeapLists(j, b, y1, o1) /\ HeapData(j, Range(y1), Range(o1))
          /\ j.allocating = c.allocating /\ j.life = c.life /\ j.kind = c.kind /\ j.refs = c.refs
      BY <3>1, <3>2, ResetHeap
    <3>4. m <= Len(b) /\ b # <<>>
      <4>1. c.blocks + 1 \in DOMAIN Blocks
        <5>1. Len(Blocks) \in Nat /\ DOMAIN Blocks = 1 .. Len(Blocks)
          BY BlocksAssumption
        <5>2. c.blocks \in 1 .. Len(Blocks)
          BY <2>4, HeapFields DEF HeapData
        <5>. QED BY <5>1, <5>2, <2>1, <2>3, <2>7
      <4>2. m <= Len(Blocks[c.blocks + 1]) /\ Len(Blocks[c.blocks + 1]) \in Nat
        BY <4>1, BlocksAssumption DEF MakesRoom
      <4>3. m <= Len(b) /\ Len(b) > 0
        BY <4>2, <3>1, <2>5, <2>6
      <4>. QED BY <4>3
    <3>5. HeapAfter(j, h, b, y1, o1)
      BY <3>3, <2>4 DEF HeapAfter, SameProgram
    <3>6. g = j
      BY <2>2, <2>7 DEF e, j
    <3>. QED BY <3>4, <3>5, <3>6, <1>3
  <2>8. CASE ~MustExtend(c)
    <3> DEFINE j == Reset(c)
    <3>1. j = Reset(c)
      OBVIOUS
    <3> HIDE DEF j
    <3>2. /\ HeapLists(j, f1, y1, o1) /\ HeapData(j, Range(y1), Range(o1))
          /\ j.allocating = c.allocating /\ j.life = c.life /\ j.kind = c.kind /\ j.refs = c.refs
      BY <2>4, <3>1, ResetHeap
    <3>3. m <= Len(f1) /\ f1 # <<>>
      <4>1. m <= Len(f1) /\ Len(f1) > 0
        BY <2>1, <2>5, <2>6, <2>8 DEF MustExtend
      <4>. QED BY <4>1
    <3>4. HeapAfter(j, h, f1, y1, o1)
      BY <3>2, <2>4 DEF HeapAfter, SameProgram
    <3>5. g = j
      BY <2>2, <2>8 DEF j
    <3>. QED BY <3>3, <3>4, <3>5, <1>3
  <2>. QED BY <2>7, <2>8
<1>. QED BY <1>2, <1>3
-----------------------------------------------------------------------------
(***************************************************************************)
(* The allocation of a cell                                                *)
(***************************************************************************)
Relinked(h, c) ==
  [d \in Cell |-> IF d = c THEN NULL ELSE IF d = h.last_generation0 THEN c ELSE h.generation[d]]

IsAllocated(j, h, kind) ==
  LET c == NewCell(h) IN
  /\ j.generation = Relinked(h, c) /\ j.free_data_top = h.generation[c]
  /\ j.generation0 = (IF h.generation0 = NULL THEN c ELSE h.generation0)
  /\ j.generation1 = h.generation1 /\ j.last_generation0 = c
  /\ j.marked = h.marked /\ j.allocating = h.allocating /\ j.life = h.life
  /\ j.kind = [h.kind EXCEPT ![c] = kind] /\ j.refs = h.refs /\ j.blocks = h.blocks

LEMMA AllocatedFields ==
  ASSUME NEW h \in HeapSet, NewCell(h) \in Cell, NEW kind \in Kinds,
         NEW j, j = Allocated(h, kind)
  PROVE  j \in HeapSet /\ IsAllocated(j, h, kind)
<1> DEFINE c == NewCell(h)
           generation == Relinked(h, c)
           first == IF h.generation0 = NULL THEN c ELSE h.generation0
           kinds == [h.kind EXCEPT ![c] = kind]
<1>1. j = [generation |-> generation, free_data_top |-> h.generation[c],
           generation0 |-> first, generation1 |-> h.generation1, last_generation0 |-> c,
           marked |-> h.marked, allocating |-> h.allocating, life |-> h.life,
           kind |-> kinds, refs |-> h.refs,
           data_count |-> h.data_count, blocks |-> h.blocks, pdata |-> h.pdata]
  BY DEF Allocated, Relinked, HeapSet
<1>2. c \in Cell
  OBVIOUS
<1> HIDE DEF c
<1>3. /\ generation \in [Cell -> Link] /\ first \in Link /\ kinds \in [Cell -> Kinds]
      /\ c \in Link /\ h.generation[c] \in Link
  BY <1>2, HeapFields DEF Relinked, Link
<1> HIDE DEF generation, first, kinds
<1>4. j \in HeapSet
  BY <1>1, <1>3, HeapFields DEF HeapSet
<1>. QED BY <1>1, <1>4 DEF IsAllocated, generation, first, kinds, c

(* j is g with c in use: f and y are the lists before, t and b after it     *)
NewHeap(j, g, kind, c, f, y, o, t, b) ==
  /\ HeapLists(j, t, b, o) /\ HeapData(j, Range(b), Range(o))
  /\ Range(b) = Range(y) \cup {c} /\ Len(t) = Len(f) - 1
  /\ c \in Cell /\ c \notin Range(y) \cup Range(o)
  /\ j.refs = g.refs /\ j.life = g.life /\ j.allocating = g.allocating
  /\ j.kind = [g.kind EXCEPT ![c] = kind]
  /\ j.refs[c] = <<>> /\ j.life[c] = 0

LEMMA AllocatedHeap ==
  ASSUME NEW h, NEW f, NEW y, NEW o, HeapLists(h, f, y, o), HeapData(h, Range(y), Range(o)),
         f # <<>>, NEW kind \in {"single", "list", "array"}, NEW j, j = Allocated(h, kind),
         NEW c, c = NewCell(h)
  PROVE  NewHeap(j, h, kind, c, f, y, o, Tail(f), Append(y, c))
<1> DEFINE e == h.generation[c]
           t == Tail(f)
           b == Append(y, c)
           last == h.last_generation0
<1>1. /\ h \in HeapSet /\ IsList(h.generation, c, f)
      /\ IsList(h.generation, h.generation0, y) /\ IsList(h.generation, h.generation1, o)
      /\ last = Last(y) /\ Apart(Range(f), {}, Range(y), Range(o))
      /\ Range(f) \cup Range(y) \cup Range(o) = Pool(h.blocks)
      /\ \A x \in Cell \ Pool(h.blocks) : h.generation[x] = NULL
      /\ VSTACK \in Range(y)
  BY DEF HeapLists, HeapData, NewCell
<1>2. /\ IsList(h.generation, e, t) /\ c \in Range(f) /\ c \in Cell
      /\ Range(t) = Range(f) \ {c} /\ Len(t) = Len(f) - 1
  BY <1>1, ListPopped
<1>3. j \in HeapSet /\ IsAllocated(j, h, kind)
  <2>1. NewCell(h) \in Cell /\ kind \in Kinds
    BY <1>2 DEF Kinds
  <2>. QED BY <2>1, <1>1, AllocatedFields
<1>4. /\ j.generation = Relinked(h, c) /\ j.free_data_top = e
      /\ j.generation0 = (IF h.generation0 = NULL THEN c ELSE h.generation0)
      /\ j.generation1 = h.generation1 /\ j.last_generation0 = c
      /\ j.marked = h.marked /\ j.allocating = h.allocating /\ j.life = h.life
      /\ j.kind = [h.kind EXCEPT ![c] = kind] /\ j.refs = h.refs /\ j.blocks = h.blocks
  BY <1>3 DEF IsAllocated
<1> HIDE DEF e, t, b, last
<1>5. Range(f) \subseteq Cell /\ Range(y) \subseteq Cell /\ Range(o) \subseteq Cell
      /\ y \in Seq(Cell) /\ f \in Seq(Cell)
  BY <1>1, InList DEF IsList
<1>6. y # <<>> /\ h.generation0 # NULL /\ last \in Range(y)
  <2>1. y # <<>>
    BY <1>1, EmptyList
  <2>. QED BY <2>1, <1>1, FirstOfList, LastOfList
<1>7. c \notin Range(y) \cup Range(o) /\ last # c
  BY <1>1, <1>2, <1>6 DEF Apart
<1>8. /\ j.generation[c] = NULL /\ j.generation[last] = c
      /\ \A x \in Cell : x # c /\ x # last => j.generation[x] = h.generation[x]
  BY <1>2, <1>4, <1>5, <1>6, <1>7 DEF Relinked, last
<1>9. /\ IsList(j.generation, h.generation0, b) /\ Range(b) = Range(y) \cup {c}
      /\ Last(b) = c
  <2>1. Continues(h.generation, j.generation, y, c)
    BY <1>1, <1>5, <1>7, <1>8 DEF Continues
  <2>. QED BY <2>1, <1>1, <1>2, <1>6, <1>7, <1>8, ListGrown DEF b
<1>10. \A x \in Range(t) \cup Range(o) : j.generation[x] = h.generation[x]
  <2>1. \A x \in Range(t) \cup Range(o) : x \in Cell /\ x # c /\ x # last
    BY <1>1, <1>2, <1>5, <1>6, <1>7 DEF Apart
  <2>. QED BY <2>1, <1>8
<1>11. IsList(j.generation, e, t) /\ IsList(j.generation, h.generation1, o)
  BY <1>1, <1>2, <1>10, ListKept
<1>12. HeapLists(j, t, b, o)
  <2>1. Apart(Range(t), {}, Range(b), Range(o))
    BY <1>1, <1>2, <1>7, <1>9 DEF Apart
  <2>2. Range(t) \cup Range(b) \cup Range(o) = Pool(j.blocks)
    BY <1>1, <1>2, <1>4, <1>9
  <2>3. \A x \in Cell \ Pool(j.blocks) : j.generation[x] = NULL
    <3>1. \A x \in Cell \ Pool(j.blocks) : x # c /\ x # last /\ h.generation[x] = NULL
      BY <1>1, <1>2, <1>4, <1>6
    <3>. QED BY <3>1, <1>8
  <2>. QED BY <2>1, <2>2, <2>3, <1>4, <1>6, <1>9, <1>11 DEF HeapLists
<1>13. j.refs[c] = <<>> /\ j.life[c] = 0
  BY <1>2, <1>4, <1>7 DEF HeapData
<1>14. HeapData(j, Range(b), Range(o))
  <2>1. h.kind \in [Cell -> Kinds] /\ \A x \in Cell \ {c} : j.kind[x] = h.kind[x]
    BY <1>1, <1>4, HeapFields
  <2>2. Singles(j)
    BY <2>1, <1>4, <1>13 DEF HeapData, Singles
  <2>3. Closed(j, Range(b) \cup Range(o))
    <3>1. Range(j.refs[c]) = {}
      BY <1>13, EmptyList
    <3>. QED BY <3>1, <1>4, <1>9 DEF HeapData, Closed
  <2>4. \A x \in Range(o) : j.kind[x] = "single"
    BY <2>1, <1>5, <1>7 DEF HeapData
  <2>5. \A x \in Cell \ (Range(b) \cup Range(o)) : j.refs[x] = <<>> /\ j.life[x] = 0
    BY <1>4, <1>9 DEF HeapData
  <2>6. VSTACK \in Range(b) /\ j.kind[VSTACK] = "single"
    BY <2>1, <1>1, <1>5, <1>7, <1>9 DEF HeapData
  <2>7. \A x \in j.allocating : x \in Range(b) /\ j.kind[x] = "array"
    BY <2>1, <1>4, <1>5, <1>7, <1>9 DEF HeapData
  <2>. QED BY <2>2, <2>3, <2>4, <2>5, <2>6, <2>7, <1>3, <1>4 DEF HeapData
<1>. QED BY <1>2, <1>4, <1>7, <1>9, <1>12, <1>13, <1>14 DEF NewHeap, t, b

WithRefs(h, p, r) == [h EXCEPT !.refs[p] = r]

RefsChanged(j, h, f, y, o, p, r) ==
  /\ HeapLists(j, f, y, o) /\ HeapData(j, Range(y), Range(o))
  /\ j.allocating = h.allocating /\ j.life = h.life /\ j.kind = h.kind
  /\ j.refs = [h.refs EXCEPT ![p] = r]

(* Elements come to a list or an array, or leave it *)
LEMMA RefsHeap ==
  ASSUME NEW h, NEW f, NEW y, NEW o, HeapLists(h, f, y, o), HeapData(h, Range(y), Range(o)),
         NEW p \in Range(y) \cup Range(o), h.kind[p] # "single",
         NEW r \in Seq(Cell), Range(r) \subseteq Range(y) \cup Range(o),
         NEW j, j = WithRefs(h, p, r)
  PROVE  RefsChanged(j, h, f, y, o, p, r)
<1>1. h \in HeapSet
  BY DEF HeapData
<1>2. h.refs \in [Cell -> Seq(Cell)]
  BY <1>1, HeapFields
<1>3. p \in Cell /\ Range(y) \subseteq Cell /\ Range(o) \subseteq Cell
  BY InList DEF HeapLists, IsList
<1> DEFINE refs == [h.refs EXCEPT ![p] = r]
<1>4. /\ refs \in [Cell -> Seq(Cell)]
      /\ refs[p] = r /\ \A c \in Cell \ {p} : refs[c] = h.refs[c]
  BY <1>2, <1>3
<1>5. j = [h EXCEPT !.refs = refs]
  BY <1>1 DEF HeapSet, WithRefs
<1> HIDE DEF refs
<1>6. /\ j \in HeapSet /\ j.refs = refs
      /\ j.generation = h.generation /\ j.free_data_top = h.free_data_top
      /\ j.generation0 = h.generation0 /\ j.generation1 = h.generation1
      /\ j.last_generation0 = h.last_generation0 /\ j.marked = h.marked
      /\ j.allocating = h.allocating /\ j.life = h.life /\ j.kind = h.kind
      /\ j.blocks = h.blocks
  BY <1>1, <1>4, <1>5 DEF HeapSet
<1>7. HeapLists(j, f, y, o)
  BY <1>6 DEF HeapLists
<1>8. Singles(j)
  BY <1>4, <1>6 DEF HeapData, Singles
<1>9. Closed(j, Range(y) \cup Range(o))
  BY <1>3, <1>4, <1>6 DEF HeapData, Closed
<1>10. HeapData(j, Range(y), Range(o))
  <2>1. \A c \in Cell \ (Range(y) \cup Range(o)) : j.refs[c] = <<>> /\ j.life[c] = 0
    BY <1>4, <1>6 DEF HeapData
  <2>2. /\ \A c \in Range(o) : j.kind[c] = "single"
        /\ j.marked \subseteq Range(o)
        /\ VSTACK \in Range(y) /\ j.kind[VSTACK] = "single"
        /\ \A c \in j.allocating : c \in Range(y) /\ j.kind[c] = "array"
    BY <1>6 DEF HeapData
  <2>. QED BY <2>1, <2>2, <1>6, <1>8, <1>9 DEF HeapData
<1>. QED BY <1>6, <1>7, <1>10 DEF RefsChanged, refs

WithAllocating(h, A) == [h EXCEPT !.allocating = A]

AllocatingChanged(j, h, f, y, o, A) ==
  /\ HeapLists(j, f, y, o) /\ HeapData(j, Range(y), Range(o))
  /\ j.allocating = A /\ j.life = h.life /\ j.kind = h.kind /\ j.refs = h.refs

(* The allocation of an array begins or ends *)
LEMMA AllocatingHeap ==
  ASSUME NEW h, NEW f, NEW y, NEW o, HeapLists(h, f, y, o), HeapData(h, Range(y), Range(o)),
         NEW A, \A c \in A : c \in Range(y) /\ h.kind[c] = "array",
         NEW j, j = WithAllocating(h, A)
  PROVE  AllocatingChanged(j, h, f, y, o, A)
<1>1. h \in HeapSet
  BY DEF HeapData
<1>2. A \in SUBSET Cell
  BY InList DEF HeapLists, IsList
<1>3. /\ j \in HeapSet /\ j.allocating = A
      /\ j.generation = h.generation /\ j.free_data_top = h.free_data_top
      /\ j.generation0 = h.generation0 /\ j.generation1 = h.generation1
      /\ j.last_generation0 = h.last_generation0 /\ j.marked = h.marked
      /\ j.life = h.life /\ j.kind = h.kind /\ j.refs = h.refs /\ j.blocks = h.blocks
  BY <1>1, <1>2 DEF HeapSet, WithAllocating
<1>4. HeapLists(j, f, y, o)
  BY <1>3 DEF HeapLists
<1>5. HeapData(j, Range(y), Range(o))
  BY <1>3 DEF HeapData, Singles, Closed
<1>. QED BY <1>3, <1>4, <1>5 DEF AllocatingChanged
-----------------------------------------------------------------------------
(***************************************************************************)
(* The invariant: the three lists hold the cells, and the array that is    *)
(* allocated ages slowly, since m cells at least are allocated between two *)
(* collections                                                             *)
(***************************************************************************)
SmallArrays(m) == MakesRoom(m) /\ ARRAY_SIZE <= GO_GEN1 * m

Aging(m, h, f) == h.life[TMP_DT] * m <= (ARRAY_SIZE - left) + Len(f)

HeapIs(f, y, o) ==
  /\ HeapLists(heap, f, y, o) /\ HeapData(heap, Range(y), Range(o))
  /\ Rooted(Range(y) \cup Range(o)) /\ stack \in [Slot -> Link]

ArrayIs(m, f) ==
  /\ left \in 0 .. ARRAY_SIZE
  /\ heap.allocating = (IF Busy THEN {TMP_DT} ELSE {})
  /\ Busy => Aging(m, heap, f)

CollectorInv(m) == \E f, y, o : HeapIs(f, y, o) /\ ArrayIs(m, f)

LEMMA YoungArray ==
  ASSUME NEW m, SmallArrays(m), NEW y, NEW o, HeapIs(<<>>, y, o), ArrayIs(m, <<>>)
  PROVE  YoungEnough(heap)
<1> SUFFICES ASSUME NEW c \in heap.allocating
             PROVE  c = TMP_DT /\ heap.life[c] + 1 <= GO_GEN1
  BY DEF YoungEnough
<1>1. left > 0 /\ c = TMP_DT /\ Aging(m, heap, <<>>)
  BY DEF ArrayIs, Busy
<1> DEFINE n == heap.life[c]
<1>2. n \in Nat
  <2>1. heap.life \in [Cell -> Nat] /\ heap.allocating \in SUBSET Cell
    BY HeapFields DEF HeapIs, HeapData
  <2>. QED BY <2>1
<1>3. /\ m \in Nat /\ m > 0 /\ GO_GEN1 \in Nat /\ ARRAY_SIZE \in Nat /\ left \in Nat
      /\ ARRAY_SIZE <= GO_GEN1 * m
  BY CollectorAssumption DEF SmallArrays, MakesRoom, ArrayIs
<1>4. n * m <= ARRAY_SIZE - left
  BY <1>1, <1>3 DEF Aging
<1> HIDE DEF n
<1>5. ASSUME n >= GO_GEN1 PROVE FALSE
  <2>1. n * m >= GO_GEN1 * m
    BY <1>2, <1>3, <1>5
  <2>2. n * m \in Nat /\ GO_GEN1 * m \in Nat
    BY <1>2, <1>3
  <2>. QED BY <2>1, <2>2, <1>1, <1>3, <1>4
<1>. QED BY <1>1, <1>2, <1>3, <1>5 DEF n

LEMMA PreparedState ==
  ASSUME NEW m, SmallArrays(m), CollectorInv(m), HasMemory(heap), NEW g, g = Prepared(heap)
  PROVE  \E f, y, o : HeapAfter(g, heap, f, y, o) /\ f # <<>> /\ (Busy => Aging(m, g, f))
<1>1. PICK f, y, o : HeapIs(f, y, o) /\ ArrayIs(m, f)
  BY DEF CollectorInv
<1>2. f = <<>> => YoungEnough(heap)
  BY <1>1, YoungArray
<1>3. PICK f2, y2, o2 : /\ HeapAfter(g, heap, f2, y2, o2) /\ f2 # <<>>
                        /\ f = <<>> => m <= Len(f2)
                        /\ f # <<>> => f2 = f /\ g = heap
  BY <1>1, <1>2, PreparedHeap DEF HeapIs, SmallArrays
<1>4. ASSUME Busy PROVE Aging(m, g, f2)
  <2>1. CASE f # <<>>
    BY <2>1, <1>1, <1>3, <1>4 DEF ArrayIs
  <2>2. CASE f = <<>>
    <3> DEFINE n == heap.life[TMP_DT]
               n2 == g.life[TMP_DT]
    <3>1. TMP_DT \in heap.allocating /\ n * m <= ARRAY_SIZE - left
      BY <2>2, <1>1, <1>4, CollectorAssumption DEF ArrayIs, Aging
    <3>2. n2 <= n + 1
      BY <3>1, <1>3 DEF HeapAfter, SameProgram
    <3>3. n \in Nat /\ n2 \in Nat
      <4>1. heap.life \in [Cell -> Nat] /\ heap.allocating \in SUBSET Cell
        BY <1>1, HeapFields DEF HeapIs, HeapData
      <4>2. g.life \in [Cell -> Nat]
        BY <1>3, HeapFields DEF HeapAfter, HeapData
      <4>. QED BY <4>1, <4>2, <3>1
    <3>4. m \in Nat /\ m <= Len(f2) /\ Len(f2) \in Nat
      BY <2>2, <1>3 DEF SmallArrays, MakesRoom, HeapAfter, HeapLists, IsList
    <3>5. left \in Nat /\ ARRAY_SIZE \in Nat
      BY <1>1, CollectorAssumption DEF ArrayIs
    <3> HIDE DEF n, n2
    <3>6. n2 * m <= n * m + m
      <4>1. n2 * m <= (n + 1) * m
        BY <3>2, <3>3, <3>4
      <4>2. (n + 1) * m = n * m + m
        BY <3>3, <3>4
      <4>. QED BY <4>1, <4>2
    <3>7. n * m \in Nat /\ n2 * m \in Nat
      BY <3>3, <3>4
    <3>8. n2 * m <= (ARRAY_SIZE - left) + Len(f2)
      BY <3>1, <3>4, <3>5, <3>6, <3>7
    <3>. QED BY <3>8 DEF Aging, n2
  <2>. QED BY <2>1, <2>2
<1>. QED BY <1>3, <1>4

(* c was allocated, on the prepared heap, and nothing refers to it yet      *)
NewState(m, kind, h, c, f, y, o) ==
  /\ HeapLists(h, f, y, o) /\ HeapData(h, Range(y), Range(o))
  /\ c \in Range(y) /\ c \in Cell /\ Rooted((Range(y) \cup Range(o)) \ {c})
  /\ h.kind[c] = kind /\ h.refs[c] = <<>> /\ h.life[c] = 0
  /\ h.allocating = heap.allocating
  /\ \A x \in (Range(y) \cup Range(o)) \ {c} :
        h.kind[x] = heap.kind[x] /\ h.refs[x] = heap.refs[x]
  /\ Busy => h.life[TMP_DT] * m <= (ARRAY_SIZE - left) + (Len(f) + 1)

LEMMA AllocatedState ==
  ASSUME NEW m, SmallArrays(m), CollectorInv(m), HasMemory(heap),
         NEW kind \in {"single", "list", "array"},
         NEW h, h = Allocated(Prepared(heap), kind), NEW c, c = NewCell(Prepared(heap))
  PROVE  \E f, y, o : NewState(m, kind, h, c, f, y, o)
<1> DEFINE g == Prepared(heap)
<1>1. g = Prepared(heap) /\ h = Allocated(g, kind) /\ c = NewCell(g)
  OBVIOUS
<1> HIDE DEF g
<1>2. PICK f, y, o : HeapAfter(g, heap, f, y, o) /\ f # <<>> /\ (Busy => Aging(m, g, f))
  BY <1>1, PreparedState
<1>3. /\ HeapLists(g, f, y, o) /\ HeapData(g, Range(y), Range(o))
      /\ Rooted(Range(y) \cup Range(o)) /\ SameProgram(g, heap, Range(y) \cup Range(o))
  BY <1>2 DEF HeapAfter
<1> DEFINE t == Tail(f)
           b == Append(y, c)
<1>4. /\ HeapLists(h, t, b, o) /\ HeapData(h, Range(b), Range(o))
      /\ Range(b) = Range(y) \cup {c} /\ Len(t) = Len(f) - 1
      /\ c \in Cell /\ c \notin Range(y) \cup Range(o)
      /\ h.refs = g.refs /\ h.life = g.life /\ h.allocating = g.allocating
      /\ h.kind = [g.kind EXCEPT ![c] = kind]
      /\ h.refs[c] = <<>> /\ h.life[c] = 0
  <2>1. NewHeap(h, g, kind, c, f, y, o, t, b)
    BY <1>1, <1>2, <1>3, AllocatedHeap
  <2> HIDE DEF t, b
  <2>. QED BY <2>1 DEF NewHeap
<1>5. Len(f) \in Nat
  BY <1>3 DEF HeapLists, IsList
<1> HIDE DEF t, b
<1>6. g.kind \in [Cell -> Kinds] /\ Range(y) \subseteq Cell /\ Range(o) \subseteq Cell
  BY <1>3, HeapFields, InList DEF HeapData, HeapLists, IsList
<1>7. h.kind[c] = kind /\ \A x \in Cell \ {c} : h.kind[x] = g.kind[x]
  BY <1>4, <1>6
<1>8. (Range(b) \cup Range(o)) \ {c} = Range(y) \cup Range(o)
  BY <1>4
<1>9. \A x \in (Range(b) \cup Range(o)) \ {c} :
        h.kind[x] = heap.kind[x] /\ h.refs[x] = heap.refs[x]
  BY <1>3, <1>4, <1>6, <1>7, <1>8 DEF SameProgram
<1>10. Busy => h.life[TMP_DT] * m <= (ARRAY_SIZE - left) + (Len(t) + 1)
  <2>1. Len(t) + 1 = Len(f)
    BY <1>4, <1>5
  <2>. QED BY <2>1, <1>2, <1>4 DEF Aging
<1>11. h.allocating = heap.allocating
  BY <1>3, <1>4 DEF SameProgram
<1>12. NewState(m, kind, h, c, t, b, o)
  BY <1>3, <1>4, <1>7, <1>8, <1>9, <1>10, <1>11 DEF NewState
<1>. QED BY <1>12
-----------------------------------------------------------------------------
LEMMA InitInv ==
  ASSUME NEW m, SmallArrays(m), Init
  PROVE  CollectorInv(m)
<1> DEFINE first == Blocks[1]
           empty == [c \in Cell |-> NULL]
           gen == Linked(empty, first)
           life == [c \in Cell |-> 0]
           kind == [c \in Cell |-> "unknown"]
           refs == [c \in Cell |-> <<>>]
           fresh == [generation |-> gen, free_data_top |-> first[1],
                     generation0 |-> NULL, generation1 |-> NULL, last_generation0 |-> NULL,
                     marked |-> {}, allocating |-> {}, life |-> life, kind |-> kind, refs |-> refs,
                     data_count |-> 0, blocks |-> 1, pdata |-> NULL]
           h == Allocated(fresh, "single")
           t == Tail(first)
           y == <<VSTACK>>
<1>1. heap = h /\ stack = [x \in Slot |-> NULL] /\ TMP_DT = NULL /\ left = 0
  BY DEF Init
<1>2. /\ first \in Seq(Cell) /\ first # <<>> /\ IsInjective(first) /\ first[1] = VSTACK
      /\ VSTACK \in Cell /\ 1 \in 1 .. Len(Blocks)
  <2>1. 1 \in DOMAIN Blocks /\ DOMAIN Blocks = 1 .. Len(Blocks)
    BY FirstCell, BlocksAssumption
  <2>. QED BY <2>1, FirstCell, BlocksAssumption DEF VSTACK
<1>3. empty \in [Cell -> Link] /\ empty[Last(first)] = NULL
  <2>1. Len(first) \in 1 .. Len(first)
    BY <1>2
  <2>2. Last(first) \in Cell
    BY <2>1, <1>2 DEF Last
  <2>. QED BY <2>2 DEF Link
<1> HIDE DEF first, empty
<1>4. /\ gen \in [Cell -> Link] /\ IsList(gen, VSTACK, first)
      /\ \A c \in Cell \ Range(first) : gen[c] = NULL
  <2>1. Head(first) = VSTACK
    BY <1>2
  <2>2. gen \in [Cell -> Link] /\ IsList(gen, Head(first), first)
        /\ \A c \in Cell \ Range(first) : gen[c] = empty[c]
    BY <1>2, <1>3, LinkedList
  <2>. QED BY <2>1, <2>2 DEF empty
<1> HIDE DEF gen
<1>5. /\ IsList(gen, gen[VSTACK], t) /\ Range(t) = Range(first) \ {VSTACK}
      /\ VSTACK \in Range(first)
  BY <1>2, <1>4, ListPopped
<1>6. /\ life \in [Cell -> Nat] /\ kind \in [Cell -> Kinds] /\ refs \in [Cell -> Seq(Cell)]
      /\ NULL \in Link /\ VSTACK \in Link
  BY <1>2 DEF Kinds, Link
<1>7. /\ \A c \in Cell : life[c] = 0 /\ kind[c] = "unknown" /\ refs[c] = <<>>
  OBVIOUS
<1> HIDE DEF life, kind, refs
<1>8. /\ fresh \in HeapSet /\ fresh.generation = gen /\ fresh.free_data_top = VSTACK
      /\ fresh.generation0 = NULL /\ fresh.generation1 = NULL /\ fresh.last_generation0 = NULL
      /\ fresh.marked = {} /\ fresh.allocating = {} /\ fresh.life = life /\ fresh.kind = kind
      /\ fresh.refs = refs /\ fresh.blocks = 1
  BY <1>2, <1>4, <1>6 DEF HeapSet
<1> HIDE DEF fresh
<1>9. NewCell(fresh) = VSTACK
  BY <1>8 DEF NewCell
<1>10. h \in HeapSet /\ IsAllocated(h, fresh, "single")
  <2>1. "single" \in Kinds
    BY DEF Kinds
  <2>. QED BY <2>1, <1>2, <1>8, <1>9, AllocatedFields
<1> HIDE DEF h
<1>11. /\ h.generation = Relinked(fresh, VSTACK) /\ h.free_data_top = gen[VSTACK]
       /\ h.generation0 = VSTACK /\ h.generation1 = NULL /\ h.last_generation0 = VSTACK
       /\ h.marked = {} /\ h.allocating = {} /\ h.life = life
       /\ h.kind = [kind EXCEPT ![VSTACK] = "single"] /\ h.refs = refs /\ h.blocks = 1
  BY <1>8, <1>9, <1>10 DEF IsAllocated
<1>12. /\ h.generation[VSTACK] = NULL
       /\ \A c \in Cell \ {VSTACK} : h.generation[c] = gen[c]
  BY <1>2, <1>8, <1>11, NullNoCell DEF Relinked
<1>13. /\ IsList(h.generation, VSTACK, y) /\ Range(y) = {VSTACK} /\ Last(y) = VSTACK
  BY <1>2, <1>12, SingleList
<1> HIDE DEF y, t
<1>14. IsList(h.generation, gen[VSTACK], t)
  <2>1. \A x \in Range(t) : h.generation[x] = gen[x]
    BY <1>2, <1>5, <1>12, InList
  <2>. QED BY <2>1, <1>5, ListKept
<1>15. HeapLists(h, t, y, <<>>)
  <2>1. Range(<<>>) = {} /\ IsList(h.generation, NULL, <<>>)
    BY EmptyList
  <2>2. Apart(Range(t), {}, Range(y), {})
    BY <1>5, <1>13 DEF Apart
  <2>3. Pool(1) = Range(first)
    BY DEF Pool, first
  <2>4. Range(t) \cup Range(y) \cup {} = Pool(h.blocks)
    BY <2>3, <1>5, <1>11, <1>13
  <2>5. \A c \in Cell \ Pool(h.blocks) : h.generation[c] = NULL
    BY <2>3, <1>4, <1>11, <1>12
  <2>. QED BY <2>1, <2>2, <2>4, <2>5, <1>11, <1>13, <1>14 DEF HeapLists
<1>16. HeapData(h, Range(y), Range(<<>>))
  <2>1. Range(<<>>) = {}
    BY EmptyList
  <2>2. h.kind[VSTACK] = "single"
    BY <1>2, <1>6, <1>11
  <2>3. Singles(h)
    BY <1>7, <1>11 DEF Singles
  <2>4. Closed(h, Range(y) \cup {})
    BY <2>1, <1>2, <1>7, <1>11, <1>13 DEF Closed
  <2>. QED BY <2>1, <2>2, <2>3, <2>4, <1>7, <1>10, <1>11, <1>13 DEF HeapData
<1>17. HeapIs(t, y, <<>>)
  BY <1>1, <1>6, <1>15, <1>16 DEF HeapIs, Rooted
<1>18. ArrayIs(m, t)
  BY <1>1, <1>11, CollectorAssumption DEF ArrayIs, Busy
<1>. QED BY <1>17, <1>18 DEF CollectorInv

(* The program holds no more than before, or c as well *)
LEMMA RootedNext ==
  ASSUME NEW U, NEW V, V \subseteq U, Rooted(V),
         TMP_DT' \in U \cup {NULL} \/ TMP_DT' = TMP_DT,
         \A x \in Slot : stack'[x] \in U \cup {NULL} \/ stack'[x] = stack[x]
  PROVE  Rooted(U)'
  BY DEF Rooted

LEMMA CreateInv ==
  ASSUME NEW m, SmallArrays(m), CollectorInv(m), NEW x \in Slot,
         NEW kind \in {"single", "list"}, Create(x, kind)
  PROVE  CollectorInv(m)'
<1> DEFINE g == Prepared(heap)
           c == NewCell(g)
           h == Allocated(g, kind)
<1>1. /\ ~Busy /\ HasMemory(heap) /\ heap' = h /\ stack' = [stack EXCEPT ![x] = c]
      /\ UNCHANGED <<TMP_DT, left>>
  BY DEF Create
<1>2. PICK f, y, o : NewState(m, kind, h, c, f, y, o)
  BY <1>1, AllocatedState
<1> HIDE DEF g, c, h
<1>3. stack \in [Slot -> Link] /\ left = 0 /\ left \in 0 .. ARRAY_SIZE /\ heap.allocating = {}
  BY <1>1, CollectorAssumption DEF CollectorInv, HeapIs, ArrayIs, Busy
<1> DEFINE U == Range(y) \cup Range(o)
           V == U \ {c}
<1>4. c \in U /\ c \in Link /\ V \subseteq U /\ Rooted(V)
  BY <1>2 DEF NewState, Link
<1>5. Rooted(U)'
  <2>1. \A z \in Slot : stack'[z] = c \/ stack'[z] = stack[z]
    BY <1>1, <1>3
  <2> HIDE DEF U, V
  <2>. QED BY <2>1, <1>1, <1>4, RootedNext
<1>6. stack' \in [Slot -> Link]
  BY <1>1, <1>3, <1>4
<1>7. HeapIs(f, y, o)'
  BY <1>1, <1>2, <1>5, <1>6 DEF HeapIs, NewState
<1>8. ArrayIs(m, f)'
  BY <1>1, <1>2, <1>3 DEF ArrayIs, NewState, Busy
<1>. QED BY <1>7, <1>8 DEF CollectorInv

LEMMA DropInv ==
  ASSUME NEW m, SmallArrays(m), CollectorInv(m), NEW x \in Slot, Drop(x)
  PROVE  CollectorInv(m)'
<1>1. PICK f, y, o : HeapIs(f, y, o) /\ ArrayIs(m, f)
  BY DEF CollectorInv
<1>2. stack' = [stack EXCEPT ![x] = NULL] /\ UNCHANGED <<heap, TMP_DT, left>>
  BY DEF Drop
<1>3. HeapIs(f, y, o)'
  BY <1>1, <1>2 DEF HeapIs, Rooted, Link
<1>4. ArrayIs(m, f)'
  BY <1>1, <1>2 DEF ArrayIs, Busy, Aging
<1>. QED BY <1>3, <1>4 DEF CollectorInv

LEMMA PushInv ==
  ASSUME NEW m, SmallArrays(m), CollectorInv(m), NEW x \in Slot, Push(x)
  PROVE  CollectorInv(m)'
<1> DEFINE g == Prepared(heap)
           c == NewCell(g)
           h == Allocated(g, "single")
           p == stack[x]
           r == Append(h.refs[p], c)
           j == WithRefs(h, p, r)
<1>1. /\ ~Busy /\ HasMemory(heap) /\ p # NULL /\ heap.kind[p] = "list"
      /\ UNCHANGED <<stack, TMP_DT, left>>
  BY DEF Push
<1>2. PICK f, y, o : NewState(m, "single", h, c, f, y, o)
  BY <1>1, AllocatedState
<1>3. heap' = [h EXCEPT !.refs[p] = Append(@, c)]
  BY Zenon DEF Push
<1>4. heap' = j
  BY <1>3, <1>2 DEF NewState, HeapData, HeapSet, WithRefs
<1> HIDE DEF g, c, h
<1>5. stack \in [Slot -> Link] /\ left = 0 /\ left \in 0 .. ARRAY_SIZE /\ heap.allocating = {}
  BY <1>1, CollectorAssumption DEF CollectorInv, HeapIs, ArrayIs, Busy
<1> DEFINE U == Range(y) \cup Range(o)
           V == U \ {c}
<1>6. c \in U /\ V \subseteq U /\ Rooted(V) /\ p \in V
  BY <1>1, <1>2 DEF NewState, Rooted
<1>7. h.kind[p] = "list" /\ p \in U
  BY <1>1, <1>2, <1>6 DEF NewState
<1>8. /\ HeapLists(h, f, y, o) /\ HeapData(h, Range(y), Range(o)) /\ Closed(h, U)
      /\ h \in HeapSet /\ c \in Cell
  BY <1>2 DEF NewState, HeapData
<1>9. U \subseteq Cell
  BY <1>8, InList DEF HeapLists, IsList
<1>10. r \in Seq(Cell) /\ Range(r) \subseteq U
  <2>1. h.refs[p] \in Seq(Cell) /\ Range(h.refs[p]) \subseteq U
    BY <1>7, <1>8, <1>9, HeapFields DEF Closed
  <2> DEFINE q == h.refs[p]
  <2>2. Range(Append(q, c)) = Range(q) \cup {c} /\ Append(q, c) \in Seq(Cell)
    <3> HIDE DEF q
    <3>. QED BY <2>1, <1>8, AppendRange DEF q
  <2>. QED BY <2>1, <2>2, <1>6
<1> HIDE DEF p, r, j
<1>11. /\ HeapLists(j, f, y, o) /\ HeapData(j, Range(y), Range(o))
       /\ j.allocating = h.allocating
  <2>1. p \in Range(y) \cup Range(o) /\ Range(r) \subseteq Range(y) \cup Range(o) /\ h.kind[p] # "single"
    BY <1>7, <1>10
  <2>2. j = WithRefs(h, p, r)
    BY DEF j
  <2>3. RefsChanged(j, h, f, y, o, p, r)
    BY <2>1, <2>2, <1>8, <1>10, RefsHeap
  <2>. QED BY <2>3 DEF RefsChanged
<1>12. Rooted(U)'
  <2> HIDE DEF U, V
  <2>. QED BY <1>1, <1>6, RootedNext
<1>13. HeapIs(f, y, o)'
  BY <1>1, <1>4, <1>5, <1>11, <1>12 DEF HeapIs
<1>14. ArrayIs(m, f)'
  BY <1>1, <1>2, <1>4, <1>5, <1>11 DEF ArrayIs, NewState, Busy
<1>. QED BY <1>13, <1>14 DEF CollectorInv

LEMMA PopInv ==
  ASSUME NEW m, SmallArrays(m), CollectorInv(m), NEW x \in Slot, NEW z \in Slot, Pop(x, z)
  PROVE  CollectorInv(m)'
<1>1. PICK f, y, o : HeapIs(f, y, o) /\ ArrayIs(m, f)
  BY DEF CollectorInv
<1> DEFINE p == stack[x]
           q == heap.refs[p]
           j == WithRefs(heap, p, Tail(q))
           U == Range(y) \cup Range(o)
<1>2. /\ p # NULL /\ q # <<>> /\ heap.kind[p] = "list" /\ ~Busy
      /\ stack' = [stack EXCEPT ![z] = Head(q)] /\ UNCHANGED <<TMP_DT, left>>
      /\ heap' = [heap EXCEPT !.refs[p] = Tail(@)]
  BY DEF Pop
<1>3. /\ HeapLists(heap, f, y, o) /\ HeapData(heap, Range(y), Range(o)) /\ Closed(heap, U)
      /\ heap \in HeapSet /\ Rooted(U) /\ stack \in [Slot -> Link]
  BY <1>1 DEF HeapIs, HeapData
<1>4. heap' = j
  BY <1>2, <1>3 DEF HeapSet, WithRefs
<1>5. p \in U /\ U \subseteq Cell
  BY <1>2, <1>3, InList DEF Rooted, HeapLists, IsList
<1>6. q \in Seq(Cell) /\ Range(q) \subseteq U
  BY <1>3, <1>5, HeapFields DEF Closed
<1> HIDE DEF p, q, U
<1>7. Head(q) \in U /\ Tail(q) \in Seq(Cell) /\ Range(Tail(q)) \subseteq U
  <2>1. /\ Len(q) \in Nat /\ Len(q) > 0 /\ DOMAIN q = 1 .. Len(q) /\ Head(q) = q[1]
        /\ Tail(q) \in Seq(Cell) /\ DOMAIN Tail(q) = 1 .. Len(q) - 1
        /\ \A i \in 1 .. Len(q) - 1 : Tail(q)[i] = q[i + 1]
    BY <1>2, <1>6
  <2>2. \A i \in 1 .. Len(q) : q[i] \in Range(q)
    BY <2>1 DEF Range
  <2>3. Head(q) \in Range(q)
    BY <2>1, <2>2
  <2>4. \A i \in 1 .. Len(q) - 1 : i + 1 \in 1 .. Len(q)
    BY <2>1
  <2>5. \A i \in DOMAIN Tail(q) : Tail(q)[i] \in Range(q)
    BY <2>1, <2>2, <2>4
  <2>6. Range(Tail(q)) \subseteq Range(q)
    BY <2>5 DEF Range
  <2>. QED BY <2>1, <2>3, <2>6, <1>6
<1> HIDE DEF j
<1>8. /\ HeapLists(j, f, y, o) /\ HeapData(j, Range(y), Range(o))
      /\ j.allocating = heap.allocating
  <2> DEFINE r == Tail(q)
  <2>1. /\ p \in Range(y) \cup Range(o) /\ r \in Seq(Cell)
        /\ Range(r) \subseteq Range(y) \cup Range(o) /\ heap.kind[p] # "single"
        /\ j = WithRefs(heap, p, r)
    BY <1>2, <1>5, <1>7 DEF U, j
  <2> HIDE DEF r
  <2>2. RefsChanged(j, heap, f, y, o, p, r)
    BY <2>1, <1>3, RefsHeap
  <2>. QED BY <2>2 DEF RefsChanged
<1>9. Rooted(U)'
  <2>1. \A v \in Slot : stack'[v] = Head(q) \/ stack'[v] = stack[v]
    BY <1>2, <1>3
  <2>. QED BY <2>1, <1>2, <1>3, <1>7, RootedNext
<1>10. stack' \in [Slot -> Link]
  BY <1>2, <1>3, <1>5, <1>7 DEF Link
<1>11. HeapIs(f, y, o)'
  BY <1>4, <1>8, <1>9, <1>10 DEF HeapIs, U
<1>12. ArrayIs(m, f)'
  BY <1>1, <1>2, <1>4, <1>8 DEF ArrayIs, Busy
<1>. QED BY <1>11, <1>12 DEF CollectorInv

LEMMA BeginArrayInv ==
  ASSUME NEW m, SmallArrays(m), CollectorInv(m), BeginArray
  PROVE  CollectorInv(m)'
<1> DEFINE g == Prepared(heap)
           c == NewCell(g)
           h == Allocated(g, "array")
           j == WithAllocating(h, {c})
<1>1. /\ ~Busy /\ HasMemory(heap) /\ TMP_DT' = c /\ left' = ARRAY_SIZE /\ UNCHANGED stack
      /\ heap' = [h EXCEPT !.allocating = @ \cup {c}]
  BY DEF BeginArray
<1>2. PICK f, y, o : NewState(m, "array", h, c, f, y, o)
  BY <1>1, AllocatedState
<1>3. stack \in [Slot -> Link] /\ heap.allocating = {} /\ ARRAY_SIZE \in Nat /\ ARRAY_SIZE > 0
  BY <1>1, CollectorAssumption DEF CollectorInv, HeapIs, ArrayIs
<1>4. heap' = j
  <2>1. h \in HeapSet /\ h.allocating = {}
    BY <1>2, <1>3 DEF NewState, HeapData
  <2> HIDE DEF h, c
  <2>. QED BY <2>1, <1>1 DEF HeapSet, WithAllocating
<1> HIDE DEF g, c, h, j
<1>5. AllocatingChanged(j, h, f, y, o, {c})
  <2> DEFINE A == {c}
  <2>1. /\ \A a \in A : a \in Range(y) /\ h.kind[a] = "array"
        /\ HeapLists(h, f, y, o) /\ HeapData(h, Range(y), Range(o))
    BY <1>2 DEF NewState
  <2>2. j = WithAllocating(h, A)
    BY DEF j
  <2> HIDE DEF A
  <2>3. AllocatingChanged(j, h, f, y, o, A)
    BY <2>1, <2>2, AllocatingHeap
  <2>. QED BY <2>3 DEF A
<1> DEFINE U == Range(y) \cup Range(o)
           V == U \ {c}
<1>6. c \in U /\ V \subseteq U /\ Rooted(V)
  BY <1>2 DEF NewState
<1>7. Rooted(U)'
  <2> HIDE DEF U, V
  <2>. QED BY <1>1, <1>6, RootedNext
<1>8. HeapIs(f, y, o)'
  BY <1>1, <1>3, <1>4, <1>5, <1>7 DEF HeapIs, AllocatingChanged
<1>9. ArrayIs(m, f)'
  <2>1. heap'.life[TMP_DT'] = 0 /\ heap'.allocating = {TMP_DT'}
    BY <1>1, <1>2, <1>4, <1>5 DEF NewState, AllocatingChanged
  <2>2. Len(f) \in Nat
    BY <1>2 DEF NewState, HeapLists, IsList
  <2>3. m \in Nat
    BY DEF SmallArrays, MakesRoom
  <2>4. Aging(m, heap, f)'
    BY <2>1, <2>2, <2>3, <1>1, <1>3 DEF Aging
  <2>. QED BY <2>1, <2>4, <1>1, <1>3 DEF ArrayIs, Busy
<1>. QED BY <1>8, <1>9 DEF CollectorInv

LEMMA AddElementInv ==
  ASSUME NEW m, SmallArrays(m), CollectorInv(m), NEW x \in Slot, AddElement(x)
  PROVE  CollectorInv(m)'
<1> DEFINE g == Prepared(heap)
           c == NewCell(g)
           h == Allocated(g, "single")
           r == Append(h.refs[TMP_DT], c)
           more == WithRefs(h, TMP_DT, r)
           A == {}
           last == WithAllocating(more, A)
<1>1. /\ Busy /\ HasMemory(heap) /\ TMP_DT' = TMP_DT /\ left' = left - 1
  BY DEF AddElement
<1>2. PICK f, y, o : NewState(m, "single", h, c, f, y, o)
  BY <1>1, AllocatedState
<1>3. /\ HeapLists(h, f, y, o) /\ HeapData(h, Range(y), Range(o)) /\ h \in HeapSet /\ c \in Cell
      /\ h.allocating = heap.allocating
  BY <1>2 DEF NewState, HeapData
<1>4. /\ stack \in [Slot -> Link] /\ left \in 0 .. ARRAY_SIZE /\ left > 0 /\ ARRAY_SIZE \in Nat
      /\ heap.allocating = {TMP_DT}
  BY <1>1, CollectorAssumption DEF CollectorInv, HeapIs, ArrayIs, Busy
<1>5. TMP_DT \in Range(y) /\ h.kind[TMP_DT] = "array" /\ TMP_DT \in Cell
  <2>1. TMP_DT \in Range(y) /\ h.kind[TMP_DT] = "array"
    BY <1>3, <1>4 DEF HeapData
  <2>. QED BY <2>1, <1>3, InList DEF HeapLists, IsList
<1>6. \/ /\ left > 1 /\ heap' = more /\ UNCHANGED stack
      \/ /\ left <= 1 /\ heap' = last /\ stack' = [stack EXCEPT ![x] = TMP_DT]
  <2>1. [h EXCEPT !.refs[TMP_DT] = Append(@, c)] = more
    <3> HIDE DEF h, c
    <3>. QED BY <1>3 DEF HeapSet, WithRefs
  <2>2. more.allocating \ {TMP_DT} = {}
    <3>1. more.allocating = h.allocating
      <4> HIDE DEF h, r
      <4>. QED BY <1>3 DEF HeapSet, WithRefs
    <3> HIDE DEF more, h
    <3>. QED BY <3>1, <1>3, <1>4
  <2>3. \/ /\ left > 1 /\ heap' = more /\ UNCHANGED stack
        \/ /\ ~(left > 1) /\ heap' = [more EXCEPT !.allocating = @ \ {TMP_DT}]
           /\ stack' = [stack EXCEPT ![x] = TMP_DT]
    <3> DEFINE big == [h EXCEPT !.refs[TMP_DT] = Append(@, c)]
    <3>1. \/ /\ left > 1 /\ heap' = big /\ UNCHANGED stack
          \/ /\ ~(left > 1) /\ heap' = [big EXCEPT !.allocating = @ \ {TMP_DT}]
             /\ stack' = [stack EXCEPT ![x] = TMP_DT]
      BY Zenon DEF AddElement
    <3>2. big = more
      BY <2>1
    <3> HIDE DEF big, more
    <3>. QED BY <3>1, <3>2
  <2>4. more \in HeapSet => [more EXCEPT !.allocating = @ \ {TMP_DT}] = last
    <3> HIDE DEF more
    <3>. QED BY <2>2 DEF HeapSet, WithAllocating
  <2>5. h.refs[TMP_DT] \in Seq(Cell)
    <3> HIDE DEF h
    <3>. QED BY <1>3, <1>5, HeapFields
  <2>6. r \in Seq(Cell)
    <3> DEFINE q == h.refs[TMP_DT]
    <3>1. q \in Seq(Cell)
      BY <2>5
    <3> HIDE DEF q, c
    <3>2. Append(q, c) \in Seq(Cell)
      BY <3>1, <1>3
    <3>. QED BY <3>2 DEF q
  <2>7. more \in HeapSet
    <3> HIDE DEF h, r
    <3>1. [h.refs EXCEPT ![TMP_DT] = r] \in [Cell -> Seq(Cell)]
      BY <2>6, <1>3, <1>5, HeapFields
    <3>2. more = [h EXCEPT !.refs = [h.refs EXCEPT ![TMP_DT] = r]]
      BY <1>3 DEF HeapSet, WithRefs
    <3>. QED BY <3>1, <3>2, <1>3 DEF HeapSet
  <2> HIDE DEF more, last
  <2>. QED BY <2>3, <2>4, <2>7, <1>4
<1> HIDE DEF g, c, h
<1> DEFINE U == Range(y) \cup Range(o)
           V == U \ {c}
<1>7. c \in U /\ V \subseteq U /\ Rooted(V) /\ TMP_DT \in U
  BY <1>2, <1>5 DEF NewState
<1>8. r \in Seq(Cell) /\ Range(r) \subseteq U
  <2> DEFINE q == h.refs[TMP_DT]
  <2>1. q \in Seq(Cell) /\ Range(q) \subseteq U
    BY <1>3, <1>5, <1>7, HeapFields DEF HeapData, Closed
  <2>2. Range(Append(q, c)) = Range(q) \cup {c} /\ Append(q, c) \in Seq(Cell)
    <3> HIDE DEF q
    <3>. QED BY <2>1, <1>3, AppendRange
  <2>. QED BY <2>1, <2>2, <1>7
<1> HIDE DEF r, more, A
<1>9. RefsChanged(more, h, f, y, o, TMP_DT, r)
  <2>1. TMP_DT \in Range(y) \cup Range(o) /\ Range(r) \subseteq Range(y) \cup Range(o)
        /\ h.kind[TMP_DT] # "single"
    BY <1>5, <1>8
  <2>2. more = WithRefs(h, TMP_DT, r)
    BY DEF more
  <2>. QED BY <2>1, <2>2, <1>3, <1>8, RefsHeap
<1>10. AllocatingChanged(last, more, f, y, o, A)
  <2>1. HeapLists(more, f, y, o) /\ HeapData(more, Range(y), Range(o))
    BY <1>9 DEF RefsChanged
  <2>2. \A a \in A : a \in Range(y) /\ more.kind[a] = "array"
    BY DEF A
  <2>3. last = WithAllocating(more, A)
    OBVIOUS
  <2> HIDE DEF last
  <2>. QED BY <2>1, <2>2, <2>3, AllocatingHeap
<1> HIDE DEF last
<1>11. Rooted(U)'
  <2>1. \A z \in Slot : stack'[z] = TMP_DT \/ stack'[z] = stack[z]
    BY <1>4, <1>6
  <2> HIDE DEF U, V
  <2>. QED BY <2>1, <1>1, <1>7, RootedNext
<1>12. stack' \in [Slot -> Link]
  BY <1>4, <1>5, <1>6 DEF Link
<1>13. heap'.life = h.life /\ HeapLists(heap', f, y, o) /\ HeapData(heap', Range(y), Range(o))
       /\ heap'.allocating = IF left > 1 THEN {TMP_DT} ELSE {}
  <2>1. CASE heap' = more /\ left > 1
    BY <2>1, <1>3, <1>4, <1>9 DEF RefsChanged
  <2>2. CASE heap' = last /\ left <= 1
    BY <2>2, <1>4, <1>9, <1>10 DEF RefsChanged, AllocatingChanged, A
  <2>. QED BY <2>1, <2>2, <1>6
<1>14. HeapIs(f, y, o)'
  BY <1>11, <1>12, <1>13 DEF HeapIs
<1>15. Aging(m, heap, f)'
  <2>1. Len(f) \in Nat
    BY <1>3 DEF HeapLists, IsList
  <2>2. heap'.life[TMP_DT'] * m <= (ARRAY_SIZE - left) + (Len(f) + 1)
    BY <1>1, <1>2, <1>13 DEF NewState
  <2>3. (ARRAY_SIZE - left) + (Len(f) + 1) = (ARRAY_SIZE - left') + Len(f)
    BY <2>1, <1>1, <1>4
  <2>. QED BY <2>2, <2>3 DEF Aging
<1>16. ArrayIs(m, f)'
  <2>1. left' \in 0 .. ARRAY_SIZE /\ (left' > 0 <=> left > 1)
    BY <1>1, <1>4
  <2>. QED BY <2>1, <1>1, <1>13, <1>15 DEF ArrayIs, Busy
<1>. QED BY <1>14, <1>16 DEF CollectorInv
-----------------------------------------------------------------------------
LEMMA NextInv ==
  ASSUME NEW m, SmallArrays(m), CollectorInv(m), [Next]_vars
  PROVE  CollectorInv(m)'
<1>1. ASSUME NEW x \in Slot, NEW kind \in {"single", "list"}, Create(x, kind)
      PROVE  CollectorInv(m)'
  BY <1>1, CreateInv
<1>2. ASSUME NEW x \in Slot, Drop(x) PROVE CollectorInv(m)'
  BY <1>2, DropInv
<1>3. ASSUME NEW x \in Slot, Push(x) PROVE CollectorInv(m)'
  BY <1>3, PushInv
<1>4. ASSUME NEW x \in Slot, AddElement(x) PROVE CollectorInv(m)'
  BY <1>4, AddElementInv
<1>5. ASSUME NEW x \in Slot, NEW y \in Slot, Pop(x, y) PROVE CollectorInv(m)'
  BY <1>5, PopInv
<1>6. CASE BeginArray
  BY <1>6, BeginArrayInv
<1>7. CASE UNCHANGED vars
  BY <1>7 DEF vars, CollectorInv, HeapIs, ArrayIs, Aging, Busy, Rooted
<1>. QED BY <1>1, <1>2, <1>3, <1>4, <1>5, <1>6, <1>7 DEF Next

(* At every moment the heap consists of three lists that share no cell; the *)
(* array that is being allocated is in generation0 and has not aged more    *)
(* than the allocations since it began account for                          *)
LEMMA CollectorInvHolds ==
  ASSUME NEW m, SmallArrays(m)
  PROVE  Spec => []CollectorInv(m)
<1>1. Init => CollectorInv(m)
  BY InitInv
<1>2. CollectorInv(m) /\ [Next]_vars => CollectorInv(m)'
  BY NextInv
<1>. QED BY <1>1, <1>2, PTL DEF Spec

(* The chains that the properties follow are the lists of the invariant *)
LEMMA ListsFound ==
  ASSUME NEW f, NEW y, NEW o, HeapIs(f, y, o)
  PROVE  Free = f /\ Young = y /\ Old = o
<1>1. /\ IsList(heap.generation, heap.free_data_top, f)
      /\ IsList(heap.generation, heap.generation0, y)
      /\ IsList(heap.generation, heap.generation1, o)
      /\ heap.generation \in [Cell -> Link] /\ heap.free_data_top \in Link
      /\ heap.generation0 \in Link /\ heap.generation1 \in Link
  BY HeapFields DEF HeapIs, HeapLists, HeapData
<1>. QED BY <1>1, ChainIsList DEF Free, Young, Old

LEMMA InvOneList ==
  ASSUME NEW m, CollectorInv(m)
  PROVE  OneList
<1>1. PICK f, y, o : HeapIs(f, y, o)
  BY DEF CollectorInv
<1>2. /\ f \in Seq(Cell) /\ y \in Seq(Cell) /\ o \in Seq(Cell)
      /\ IsInjective(f) /\ IsInjective(y) /\ IsInjective(o)
      /\ Apart(Range(f), {}, Range(y), Range(o))
      /\ Range(f) \cup Range(y) \cup Range(o) = Pool(heap.blocks)
  BY <1>1 DEF HeapIs, HeapLists, IsList
<1> DEFINE q == f \o y
<1>3. q \in Seq(Cell) /\ Range(q) = Range(f) \cup Range(y)
  BY <1>2, JoinedRange
<1>4. IsInjective(q)
  <2>1. Range(f) \cap Range(y) = {}
    BY <1>2 DEF Apart
  <2>. QED BY <2>1, <1>2, JoinedOnce
<1> DEFINE all == q \o o
<1>5. Free \o Young \o Old = all
  BY <1>1, ListsFound
<1> HIDE DEF q
<1>6. Range(all) = Range(q) \cup Range(o)
  BY <1>2, <1>3, JoinedRange
<1>7. IsInjective(all)
  <2>1. Range(q) \cap Range(o) = {}
    BY <1>2, <1>3 DEF Apart
  <2>. QED BY <2>1, <1>2, <1>3, <1>4, JoinedOnce
<1>8. Range(all) = UNION {Range(Blocks[i]) : i \in 1 .. heap.blocks}
  BY <1>2, <1>3, <1>6 DEF Pool
<1> HIDE DEF all
<1>. QED BY <1>5, <1>7, <1>8, Zenon DEF OneList

LEMMA InvNoLiveFreed ==
  ASSUME NEW m, CollectorInv(m)
  PROVE  NoLiveFreed
<1>1. PICK f, y, o : HeapIs(f, y, o)
  BY DEF CollectorInv
<1> DEFINE U == Range(y) \cup Range(o)
           roots == ({stack[x] : x \in Slot} \cup {TMP_DT, VSTACK}) \ {NULL}
<1>2. /\ Closed(heap, U) /\ Rooted(U) /\ VSTACK \in U /\ Range(f) \cap U = {}
      /\ RefTypes(heap)
  BY <1>1, HeapFields DEF HeapIs, HeapLists, HeapData, Apart, RefTypes
<1>3. U \subseteq Cell
  BY <1>1, InList DEF HeapIs, HeapLists, IsList
<1> HIDE DEF U
<1>4. roots \subseteq U /\ roots \in SUBSET Cell
  BY <1>2, <1>3 DEF Rooted
<1>5. Live = Reached(heap, roots)
  BY DEF Live
<1> HIDE DEF roots
<1>6. Reached(heap, roots) \subseteq U
  BY <1>2, <1>4, ReachedWithin
<1>7. Free = f
  BY <1>1, ListsFound
<1>. QED BY <1>2, <1>5, <1>6, <1>7 DEF NoLiveFreed

LEMMA InvAllocatingStays ==
  ASSUME NEW m, CollectorInv(m)
  PROVE  AllocatingStays
<1>1. PICK f, y, o : HeapIs(f, y, o) /\ ArrayIs(m, f)
  BY DEF CollectorInv
<1>2. Young = y
  BY <1>1, ListsFound
<1>3. Busy => TMP_DT \in Range(y)
  BY <1>1 DEF HeapIs, HeapData, ArrayIs
<1>. QED BY <1>2, <1>3 DEF AllocatingStays

(***************************************************************************)
(* The results.  m is the number of cells a collection makes room for: the *)
(* threshold below which memory is extended, or the size of a new block.   *)
(* An array of up to GO_GEN1 * m elements cannot be in more than GO_GEN1   *)
(* collections before it is complete.                                      *)
(***************************************************************************)

(* Every cell is in one list, once: free, in generation0 or in generation1 *)
THEOREM CellsInOneList ==
  ASSUME NEW m, SmallArrays(m)
  PROVE  Spec => []OneList
<1>1. Spec => []CollectorInv(m)
  BY CollectorInvHolds
<1>2. CollectorInv(m) => OneList
  BY InvOneList
<1>. QED BY <1>1, <1>2, PTL

(* No cell that the program can still reach is free *)
THEOREM LiveCellsKept ==
  ASSUME NEW m, SmallArrays(m)
  PROVE  Spec => []NoLiveFreed
<1>1. Spec => []CollectorInv(m)
  BY CollectorInvHolds
<1>2. CollectorInv(m) => NoLiveFreed
  BY InvNoLiveFreed
<1>. QED BY <1>1, <1>2, PTL

(* The array that is being allocated is not moved to generation1 *)
THEOREM ArrayStaysYoung ==
  ASSUME NEW m, SmallArrays(m)
  PROVE  Spec => []AllocatingStays
<1>1. Spec => []CollectorInv(m)
  BY CollectorInvHolds
<1>2. CollectorInv(m) => AllocatingStays
  BY InvAllocatingStays
<1>. QED BY <1>1, <1>2, PTL
=============================================================================
