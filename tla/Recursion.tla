----------------------------- MODULE Recursion ------------------------------
(***************************************************************************)
(* Facts about recursive functions that the proofs about sequences, sums   *)
(* and linked lists rest on.  A function that is defined by recursion is a *)
(* chosen solution of its equation: it has the values one expects of it    *)
(* only if there is a solution.  The lemmas show that there is exactly one *)
(* when every value follows from that of one argument that is smaller by   *)
(* some measure; induction is made with the least counterexample.          *)
(***************************************************************************)
EXTENDS Lists, FiniteSets, FiniteSetsExt, Functions, FiniteSetTheorems,
        SequenceTheorems, WellFoundedInduction, TLAPS

(* A set of numbers that is not empty has a least one *)
LEMMA LeastNumber == ASSUME NEW T \in SUBSET Nat, T # {} PROVE \E x \in T : \A y \in T : x <= y
<1>1. PICK x \in T : \A y \in T : ~ (<<y, x>> \in OpToRel(<, Nat))
  BY NatLessThanWellFounded, WFMin, Zenon
<1>2. \A y \in T : y < x => <<y, x>> \in OpToRel(<, Nat)
  BY DEF OpToRel
<1>3. \A y \in T : ~(y < x)
  BY <1>1, <1>2, Zenon
<1>4. ASSUME NEW y \in T PROVE x <= y
  <2>1. y \in Nat /\ x \in Nat
    OBVIOUS
  <2>2. ~(y < x)
    BY <1>3, Zenon
  <2>3. QED
    BY <2>1, <2>2, Z3
<1>5. QED
  BY <1>4, Zenon

(* A set of numbers that holds 0 and the successors of its members holds    *)
(* all numbers                                                              *)
LEMMA AllNumbers ==
  ASSUME NEW T \in SUBSET Nat, 0 \in T, \A n \in T : n + 1 \in T
  PROVE  T = Nat
<1> SUFFICES ASSUME Nat \ T # {} PROVE FALSE
  OBVIOUS
<1>1. PICK x \in Nat \ T : \A y \in Nat \ T : x <= y
  BY LeastNumber
<1>2. x - 1 \in Nat /\ x - 1 \in T
  BY <1>1
<1>. QED BY <1>1, <1>2

(* On A the value of f is b, or follows from its value at pred[d] *)
Solves(f, A, b, step, pred, measure) ==
  \A d \in A : f[d] = IF measure[d] = 0 THEN b ELSE step[<<d, f[pred[d]]>>]

(* A recursion over D with values in X *)
IsRecursion(D, X, b, step, pred, measure) ==
  /\ b \in X /\ step \in [D \X X -> X]
  /\ pred \in [D -> D] /\ measure \in [D -> Nat]
  /\ \A d \in D : measure[d] # 0 => measure[pred[d]] < measure[d]

(* Two functions that solve a recursion on a set it does not leave agree *)
LEMMA SolutionsAgree ==
  ASSUME NEW D, NEW X, NEW b, NEW step, NEW pred, NEW measure,
         IsRecursion(D, X, b, step, pred, measure),
         NEW A \in SUBSET D, \A d \in A : measure[d] # 0 => pred[d] \in A,
         NEW f, Solves(f, A, b, step, pred, measure),
         NEW g, Solves(g, A, b, step, pred, measure)
  PROVE  \A d \in A : f[d] = g[d]
<1> DEFINE Bad == {n \in Nat : \E d \in A : measure[d] = n /\ f[d] # g[d]}
<1> SUFFICES Bad = {}
  <2> SUFFICES ASSUME NEW d \in A PROVE f[d] = g[d]
    OBVIOUS
  <2>1. measure[d] \in Nat /\ measure[d] \notin Bad
    BY DEF IsRecursion
  <2>. QED BY <2>1
<1> SUFFICES ASSUME Bad # {} PROVE FALSE
  OBVIOUS
<1>1. PICK n \in Bad : \A m \in Bad : n <= m
  BY LeastNumber
<1>2. PICK d \in A : measure[d] = n /\ f[d] # g[d]
  BY <1>1
<1>3. /\ f[d] = IF measure[d] = 0 THEN b ELSE step[<<d, f[pred[d]]>>]
      /\ g[d] = IF measure[d] = 0 THEN b ELSE step[<<d, g[pred[d]]>>]
  BY DEF Solves
<1>4. measure[d] # 0
  BY <1>2, <1>3
<1>5. pred[d] \in A /\ measure[pred[d]] \in Nat /\ measure[pred[d]] < n
  BY <1>2, <1>4 DEF IsRecursion
<1>6. measure[pred[d]] \notin Bad
  BY <1>1, <1>5
<1>7. f[pred[d]] = g[pred[d]]
  BY <1>5, <1>6
<1>. QED BY <1>2, <1>3, <1>7

(* The arguments of measure at most n *)
UpTo(D, measure, n) == {d \in D : measure[d] <= n}

(* There is a solution up to every measure *)
LEMMA SolutionUpTo ==
  ASSUME NEW D, NEW X, NEW b, NEW step, NEW pred, NEW measure,
         IsRecursion(D, X, b, step, pred, measure), NEW n \in Nat
  PROVE  \E f \in [UpTo(D, measure, n) -> X] :
           Solves(f, UpTo(D, measure, n), b, step, pred, measure)
<1> DEFINE Low(m) == UpTo(D, measure, m)
           Solved == {m \in Nat : \E f \in [Low(m) -> X] : Solves(f, Low(m), b, step, pred, measure)}
<1>1. 0 \in Solved
  <2> DEFINE f == [d \in Low(0) |-> b]
  <2>1. f \in [Low(0) -> X]
    BY DEF IsRecursion
  <2>2. \A d \in Low(0) : measure[d] = 0
    BY DEF IsRecursion, UpTo
  <2>3. Solves(f, Low(0), b, step, pred, measure)
    BY <2>2 DEF Solves
  <2>. QED BY <2>1, <2>3
<1>2. ASSUME NEW m \in Solved PROVE m + 1 \in Solved
  <2>1. PICK g \in [Low(m) -> X] : Solves(g, Low(m), b, step, pred, measure)
    OBVIOUS
  <2> DEFINE f == [d \in Low(m + 1) |-> IF measure[d] = 0 THEN b ELSE step[<<d, g[pred[d]]>>]]
  <2>2. \A d \in Low(m + 1) : measure[d] # 0 => pred[d] \in Low(m) /\ pred[d] \in Low(m + 1)
    BY DEF IsRecursion, UpTo
  <2>3. ASSUME NEW d \in Low(m + 1) PROVE f[d] \in X
    <3>1. d \in D
      BY DEF UpTo
    <3>2. CASE measure[d] = 0
      BY <3>2 DEF IsRecursion
    <3>3. CASE measure[d] # 0
      <4>1. <<d, g[pred[d]]>> \in D \X X
        BY <2>1, <2>2, <3>1, <3>3
      <4>. QED BY <3>3, <4>1 DEF IsRecursion
    <3>. QED BY <3>2, <3>3
  <2>4. \A d \in Low(m) : d \in Low(m + 1) /\ f[d] = g[d]
    BY <2>1 DEF Solves, UpTo, IsRecursion
  <2>5. \A d \in Low(m + 1) : f[d] = IF measure[d] = 0 THEN b ELSE step[<<d, f[pred[d]]>>]
    BY <2>2, <2>4
  <2>6. f \in [Low(m + 1) -> X]
    BY <2>3
  <2>7. Solves(f, Low(m + 1), b, step, pred, measure)
    BY <2>5 DEF Solves
  <2>8. m + 1 \in Nat
    OBVIOUS
  <2> HIDE DEF f, Low
  <2>. QED BY <2>6, <2>7, <2>8
<1> HIDE DEF Low
<1>3. Solved = Nat
  <2> HIDE DEF Solved
  <2>. QED BY <1>1, <1>2, AllNumbers DEF Solved
<1>. QED BY <1>3 DEF Low

(* A recursion has a solution *)
LEMMA Solution ==
  ASSUME NEW D, NEW X, NEW b, NEW step, NEW pred, NEW measure,
         IsRecursion(D, X, b, step, pred, measure)
  PROVE  \E f \in [D -> X] : Solves(f, D, b, step, pred, measure)
<1> DEFINE Low(n) == UpTo(D, measure, n)
           sol == [n \in Nat |-> CHOOSE g \in [Low(n) -> X] :
                                    Solves(g, Low(n), b, step, pred, measure)]
           f == [d \in D |-> sol[measure[d]][d]]
<1>1. ASSUME NEW n \in Nat
      PROVE  sol[n] \in [Low(n) -> X] /\ Solves(sol[n], Low(n), b, step, pred, measure)
  BY SolutionUpTo
<1>2. ASSUME NEW d \in D
      PROVE  /\ measure[d] \in Nat /\ pred[d] \in D /\ measure[pred[d]] \in Nat
             /\ d \in Low(measure[d]) /\ pred[d] \in Low(measure[pred[d]])
             /\ measure[d] # 0 => measure[pred[d]] < measure[d]
  BY DEF IsRecursion, UpTo
<1>3. ASSUME NEW m \in Nat, NEW n \in Nat, m <= n, NEW d \in Low(m)
      PROVE  sol[m][d] = sol[n][d]
  <2>1. Low(m) \subseteq Low(n) /\ Low(m) \in SUBSET D
    BY <1>3 DEF IsRecursion, UpTo
  <2>2. \A x \in Low(m) : measure[x] # 0 => pred[x] \in Low(m)
    BY DEF IsRecursion, UpTo
  <2>3. /\ Solves(sol[m], Low(m), b, step, pred, measure)
        /\ Solves(sol[n], Low(m), b, step, pred, measure)
    BY <1>1, <2>1 DEF Solves
  <2> HIDE DEF Low, sol
  <2>4. \A x \in Low(m) : sol[m][x] = sol[n][x]
    BY <2>1, <2>2, <2>3, SolutionsAgree
  <2>. QED BY <2>4, <1>3
<1> HIDE DEF Low, sol
<1>4. f \in [D -> X]
  BY <1>1, <1>2
<1>5. ASSUME NEW d \in D
      PROVE  f[d] = IF measure[d] = 0 THEN b ELSE step[<<d, f[pred[d]]>>]
  <2>1. sol[measure[d]][d] = IF measure[d] = 0 THEN b
                             ELSE step[<<d, sol[measure[d]][pred[d]]>>]
    BY <1>1, <1>2 DEF Solves
  <2>2. measure[d] # 0 => sol[measure[pred[d]]][pred[d]] = sol[measure[d]][pred[d]]
    BY <1>2, <1>3
  <2>. QED BY <2>1, <2>2, <1>2
<1>6. Solves(f, D, b, step, pred, measure)
  BY <1>5 DEF Solves
<1>. QED BY <1>4, <1>6
-----------------------------------------------------------------------------
(* Sums over a finite set *)

(* The iteration that SumFunctionOnSet( f, S ) evaluates *)
IsIteration(iter, f, S) ==
  iter = [A \in SUBSET S |->
            IF A = {} THEN 0
            ELSE f[CHOOSE x \in A : TRUE] + iter[A \ {CHOOSE x \in A : TRUE}]]

(* One is left out of a finite set *)
LEMMA OneLess ==
  ASSUME NEW S, IsFiniteSet(S), NEW A \in SUBSET S
  PROVE  /\ IsFiniteSet(A) /\ Cardinality(A) \in Nat
         /\ Cardinality(A) = 0 <=> A = {}
         /\ \A x \in A : Cardinality(A \ {x}) = Cardinality(A) - 1
<1>1. IsFiniteSet(A)
  BY FS_Subset
<1>. QED BY <1>1, FS_CardinalityType, FS_EmptySet, FS_RemoveElement

(* A finite set of numbers that is not empty has a greatest one *)
LEMMA GreatestOne ==
  ASSUME NEW S \in SUBSET Int, IsFiniteSet(S), S # {}
  PROVE  Max(S) \in S /\ \A x \in S : x <= Max(S)
<1> DEFINE Greatest(A, x) == x \in A /\ \A y \in A : x >= y
           Bad == {n \in Nat : \E A \in SUBSET S :
                      Cardinality(A) = n /\ A # {} /\ ~(\E x \in A : Greatest(A, x))}
<1>1. Bad = {}
  <2> SUFFICES ASSUME Bad # {} PROVE FALSE
    OBVIOUS
  <2>1. PICK n \in Bad : \A m \in Bad : n <= m
    BY LeastNumber
  <2>2. PICK A \in SUBSET S : Cardinality(A) = n /\ A # {} /\ ~(\E x \in A : Greatest(A, x))
    BY <2>1
  <2>3. PICK x \in A : TRUE
    BY <2>2
  <2>4. Cardinality(A \ {x}) = n - 1 /\ n \in Nat /\ n - 1 \in Nat
    <3>1. Cardinality(A) \in Nat /\ Cardinality(A) # 0 /\ Cardinality(A \ {x}) = Cardinality(A) - 1
      BY <2>2, <2>3, OneLess
    <3>. QED BY <2>2, <3>1
  <2>5. n - 1 \notin Bad
    <3> HIDE DEF Bad
    <3>. QED BY <2>1, <2>4
  <2>6. A \ {x} = {} \/ \E m \in A \ {x} : Greatest(A \ {x}, m)
    BY <2>4, <2>5
  <2>7. x \in Int /\ A \subseteq Int
    BY <2>2, <2>3
  <2>8. CASE A \ {x} = {}
    BY <2>2, <2>3, <2>7, <2>8
  <2>9. CASE \E m \in A \ {x} : Greatest(A \ {x}, m)
    <3>1. PICK m \in A \ {x} : Greatest(A \ {x}, m)
      BY <2>9
    <3>2. m \in A /\ m \in Int /\ \A y \in A : y = x \/ m >= y
      BY <2>7, <3>1
    <3>3. Greatest(A, m) \/ Greatest(A, x)
      BY <2>3, <2>7, <3>2
    <3>. QED BY <2>2, <2>3, <3>2, <3>3
  <2>. QED BY <2>6, <2>8, <2>9
<1>2. Cardinality(S) \in Nat /\ Cardinality(S) \notin Bad
  BY <1>1, OneLess
<1>3. \E x \in S : Greatest(S, x)
  BY <1>2
<1>. QED BY <1>3 DEF Max

LEMMA IterationExists ==
  ASSUME NEW S, IsFiniteSet(S), NEW f \in [S -> Int]
  PROVE  \E iter : IsIteration(iter, f, S) /\ iter \in [SUBSET S -> Int]
<1> DEFINE first(A) == CHOOSE x \in A : TRUE
           D == SUBSET S
           pred == [A \in D |-> A \ {first(A)}]
           measure == [A \in D |-> Cardinality(A)]
           step == [p \in D \X Int |-> IF p[1] = {} THEN 0 ELSE f[first(p[1])] + p[2]]
<1>1. ASSUME NEW A \in D
      PROVE  /\ measure[A] \in Nat /\ measure[A] = 0 <=> A = {}
             /\ A # {} => first(A) \in A /\ first(A) \in S
             /\ measure[A] # 0 => measure[pred[A]] < measure[A]
  <2>1. A # {} => first(A) \in A
    OBVIOUS
  <2> HIDE DEF first
  <2>. QED BY <2>1, OneLess
<1>2. IsRecursion(D, Int, 0, step, pred, measure)
  <2>1. ASSUME NEW p \in D \X Int
        PROVE  (IF p[1] = {} THEN 0 ELSE f[first(p[1])] + p[2]) \in Int
    <3>1. p[1] \in D /\ p[2] \in Int
      OBVIOUS
    <3>2. p[1] # {} => first(p[1]) \in S
      BY <1>1, <3>1
    <3> HIDE DEF first, D
    <3>. QED BY <3>1, <3>2
  <2>2. step \in [D \X Int -> Int]
    <3> HIDE DEF first, D
    <3>. QED BY <2>1
  <2>3. ASSUME NEW A \in D PROVE A \ {first(A)} \in D
    OBVIOUS
  <2>4. pred \in [D -> D] /\ measure \in [D -> Nat]
    <3>1. \A A \in D : Cardinality(A) \in Nat
      BY OneLess
    <3> HIDE DEF first, D
    <3>. QED BY <2>3, <3>1
  <2>5. \A A \in D : measure[A] # 0 => measure[pred[A]] < measure[A]
    BY <1>1
  <2> HIDE DEF D, pred, measure, step
  <2>. QED BY <2>2, <2>4, <2>5 DEF IsRecursion
<1>3. PICK g \in [D -> Int] : Solves(g, D, 0, step, pred, measure)
  <2> HIDE DEF D, pred, measure, step
  <2>. QED BY <1>2, Solution
<1>4. ASSUME NEW A \in D
      PROVE  g[A] = IF A = {} THEN 0 ELSE f[first(A)] + g[A \ {first(A)}]
  <2>1. g[A] = IF measure[A] = 0 THEN 0 ELSE step[<<A, g[pred[A]]>>]
    BY <1>3 DEF Solves
  <2>2. A \ {first(A)} \in D
    OBVIOUS
  <2>3. step[<<A, g[pred[A]]>>] = IF A = {} THEN 0 ELSE f[first(A)] + g[pred[A]]
    <3> HIDE DEF first
    <3>. QED BY <2>2
  <2> HIDE DEF first, step, measure
  <2>. QED BY <1>1, <2>1, <2>3
<1>5. g = [A \in D |-> IF A = {} THEN 0 ELSE f[first(A)] + g[A \ {first(A)}]]
  <2> HIDE DEF first, D
  <2>. QED BY <1>3, <1>4
<1>. QED BY <1>3, <1>5 DEF IsIteration

(* Every iteration of f over S and over a subset agree *)
LEMMA IterationsAgree ==
  ASSUME NEW S, IsFiniteSet(S), NEW R \in SUBSET S, NEW f, NEW i, NEW j,
         IsIteration(i, f, S), IsIteration(j, f, R)
  PROVE  \A A \in SUBSET R : i[A] = j[A]
<1> DEFINE Bad == {n \in Nat : \E A \in SUBSET R : Cardinality(A) = n /\ i[A] # j[A]}
<1> SUFFICES Bad = {}
  BY OneLess
<1> SUFFICES ASSUME Bad # {} PROVE FALSE
  OBVIOUS
<1>1. PICK n \in Bad : \A m \in Bad : n <= m
  BY LeastNumber
<1>2. PICK A \in SUBSET R : Cardinality(A) = n /\ i[A] # j[A]
  BY <1>1
<1> DEFINE x == CHOOSE x \in A : TRUE
<1>3. /\ i[A] = IF A = {} THEN 0 ELSE f[x] + i[A \ {x}]
      /\ j[A] = IF A = {} THEN 0 ELSE f[x] + j[A \ {x}]
  BY DEF IsIteration
<1>4. A # {}
  BY <1>2, <1>3
<1>5. x \in A
  BY <1>4
<1> HIDE DEF x
<1>6. A \ {x} \in SUBSET R /\ Cardinality(A \ {x}) = n - 1 /\ n \in Nat /\ n - 1 \in Nat
  BY <1>2, <1>5, OneLess
<1>7. n - 1 \notin Bad
  BY <1>1, <1>6
<1>. QED BY <1>2, <1>3, <1>6, <1>7

LEMMA SumIteration ==
  ASSUME NEW S, IsFiniteSet(S), NEW f \in [S -> Int], NEW R \in SUBSET S
  PROVE  \E iter : /\ IsIteration(iter, f, R) /\ SumFunctionOnSet(f, R) = iter[R]
                   /\ iter[R] \in Int
<1> DEFINE i == CHOOSE i : IsIteration(i, f, R)
<1>1. SumFunctionOnSet(f, R) = i[R]
  BY DEF SumFunctionOnSet, FoldFunctionOnSet, MapThenFoldSet, IsIteration
<1>2. PICK g : IsIteration(g, [x \in R |-> f[x]], R) /\ g \in [SUBSET R -> Int]
  BY IterationExists, OneLess
<1>3. IsIteration(g, f, R)
  <2>1. ASSUME NEW A \in SUBSET R, A # {}
        PROVE  [x \in R |-> f[x]][CHOOSE x \in A : TRUE] = f[CHOOSE x \in A : TRUE]
    BY <2>1
  <2>. QED BY <1>2, <2>1 DEF IsIteration
<1>4. IsIteration(i, f, R)
  BY <1>3
<1>5. i[R] = g[R]
  BY <1>3, <1>4, OneLess, IterationsAgree
<1>. QED BY <1>1, <1>2, <1>4, <1>5

(* A sum is a number; the sum over no element is 0 *)
LEMMA SumType ==
  ASSUME NEW S, IsFiniteSet(S), NEW f \in [S -> Int], NEW R \in SUBSET S
  PROVE  SumFunctionOnSet(f, R) \in Int
  BY SumIteration

LEMMA SumEmpty ==
  ASSUME NEW S, IsFiniteSet(S), NEW f \in [S -> Int]
  PROVE  SumFunctionOnSet(f, {}) = 0
<1>1. PICK i : IsIteration(i, f, {}) /\ SumFunctionOnSet(f, {}) = i[{}]
  BY SumIteration
<1>. QED BY <1>1 DEF IsIteration

(* The element that the sum takes first can be taken out *)
LEMMA SumFirst ==
  ASSUME NEW S, IsFiniteSet(S), NEW f \in [S -> Int], NEW R \in SUBSET S, R # {}
  PROVE  LET x == CHOOSE x \in R : TRUE IN
         SumFunctionOnSet(f, R) = f[x] + SumFunctionOnSet(f, R \ {x})
<1> DEFINE x == CHOOSE x \in R : TRUE
<1>1. PICK i : IsIteration(i, f, R) /\ SumFunctionOnSet(f, R) = i[R]
  BY SumIteration
<1>2. PICK j : IsIteration(j, f, R \ {x}) /\ SumFunctionOnSet(f, R \ {x}) = j[R \ {x}]
  <2> HIDE DEF x
  <2>1. R \ {x} \in SUBSET S
    OBVIOUS
  <2>. QED BY <2>1, SumIteration
<1>3. i[R] = f[x] + i[R \ {x}]
  BY <1>1 DEF IsIteration
<1>4. i[R \ {x}] = j[R \ {x}]
  <2> HIDE DEF x
  <2>1. IsFiniteSet(R) /\ R \ {x} \in SUBSET R
    BY OneLess
  <2>. QED BY <1>1, <1>2, <2>1, IterationsAgree
<1>. QED BY <1>1, <1>2, <1>3, <1>4

(* Any element can be taken out *)
LEMMA SumTakeOut ==
  ASSUME NEW S, IsFiniteSet(S), NEW f \in [S -> Int]
  PROVE  \A R \in SUBSET S : \A x \in R :
           SumFunctionOnSet(f, R) = f[x] + SumFunctionOnSet(f, R \ {x})
<1> DEFINE Sum(R) == SumFunctionOnSet(f, R)
           Bad == {n \in Nat : \E R \in SUBSET S : \E x \in R :
                     Cardinality(R) = n /\ Sum(R) # f[x] + Sum(R \ {x})}
<1> SUFFICES Bad = {}
  <2>1. ASSUME NEW R \in SUBSET S, NEW x \in R PROVE Sum(R) = f[x] + Sum(R \ {x})
    <3>1. Cardinality(R) \in Nat /\ Cardinality(R) \notin Bad
      BY OneLess
    <3> HIDE DEF Sum
    <3>. QED BY <3>1
  <2>. QED BY <2>1
<1> SUFFICES ASSUME Bad # {} PROVE FALSE
  OBVIOUS
<1>1. PICK n \in Bad : \A m \in Bad : n <= m
  BY LeastNumber
<1>2. PICK R \in SUBSET S : \E x \in R : Cardinality(R) = n /\ Sum(R) # f[x] + Sum(R \ {x})
  BY <1>1
<1>2a. PICK x \in R : Cardinality(R) = n /\ Sum(R) # f[x] + Sum(R \ {x})
  BY <1>2
<1> DEFINE c == CHOOSE c \in R : TRUE
<1>3. c \in R /\ Sum(R) = f[c] + Sum(R \ {c})
  BY SumFirst
<1> HIDE DEF c
<1>4. c # x
  BY <1>2a, <1>3
<1>5. /\ R \ {c} \in SUBSET S /\ x \in R \ {c} /\ Cardinality(R \ {c}) = n - 1
      /\ R \ {x} \in SUBSET S /\ c \in R \ {x} /\ Cardinality(R \ {x}) = n - 1
      /\ n \in Nat /\ n - 1 \in Nat
  <2>1. Cardinality(R) \in Nat /\ Cardinality(R) # 0
    BY OneLess
  <2>. QED BY <1>2a, <1>3, <1>4, <2>1, OneLess
<1>6. n - 1 \notin Bad
  <2> HIDE DEF Bad
  <2>. QED BY <1>1, <1>5
<1> HIDE DEF Sum
<1>7. Sum(R \ {c}) = f[x] + Sum((R \ {c}) \ {x})
  BY <1>5, <1>6
<1>8. Sum(R \ {x}) = f[c] + Sum((R \ {x}) \ {c})
  BY <1>5, <1>6
<1>9. (R \ {c}) \ {x} = (R \ {x}) \ {c}
  OBVIOUS
<1>10. /\ Sum((R \ {x}) \ {c}) \in Int /\ f[x] \in Int /\ f[c] \in Int
  BY <1>3, <1>2a, <1>5, SumType DEF Sum
<1>. QED BY <1>2a, <1>3, <1>7, <1>8, <1>9, <1>10

(* A sum of zeros *)
LEMMA SumOfZeros ==
  ASSUME NEW S, IsFiniteSet(S) PROVE SumFunction([x \in S |-> 0]) = 0
<1> DEFINE f == [x \in S |-> 0]
           Bad == {n \in Nat : \E R \in SUBSET S :
                     Cardinality(R) = n /\ SumFunctionOnSet(f, R) # 0}
<1>1. f \in [S -> Int] /\ DOMAIN f = S /\ \A x \in S : f[x] = 0
  OBVIOUS
<1> HIDE DEF f
<1>2. Bad = {}
  <2> SUFFICES ASSUME Bad # {} PROVE FALSE
    OBVIOUS
  <2>1. PICK n \in Bad : \A m \in Bad : n <= m
    BY LeastNumber
  <2>2. PICK R \in SUBSET S : Cardinality(R) = n /\ SumFunctionOnSet(f, R) # 0
    BY <2>1
  <2>3. R # {}
    BY <1>1, <2>2, SumEmpty
  <2>4. PICK x \in R : TRUE
    BY <2>3
  <2>5. SumFunctionOnSet(f, R) = f[x] + SumFunctionOnSet(f, R \ {x})
    BY <1>1, SumTakeOut
  <2>6. R \ {x} \in SUBSET S /\ Cardinality(R \ {x}) = n - 1 /\ n \in Nat /\ n - 1 \in Nat
    <3>1. Cardinality(R) \in Nat /\ Cardinality(R) # 0 /\ Cardinality(R \ {x}) = Cardinality(R) - 1
      BY <2>3, OneLess
    <3>. QED BY <2>2, <3>1
  <2>7. n - 1 \notin Bad
    <3> HIDE DEF Bad
    <3>. QED BY <2>1, <2>6
  <2>8. SumFunctionOnSet(f, R \ {x}) = 0
    BY <2>6, <2>7
  <2>. QED BY <1>1, <2>2, <2>5, <2>8
<1>3. SumFunctionOnSet(f, S) = 0
  <2>1. Cardinality(S) \in Nat /\ S \in SUBSET S
    BY OneLess
  <2>. QED BY <1>2, <2>1
<1>. QED BY <1>1, <1>3 DEF SumFunction, f

(* h is f with g added on the members of M *)
AddsOn(h, f, g, M, S) ==
  \A x \in S : h[x] = f[x] + (IF x \in M THEN g[x] ELSE 0)

(* Adding g to f on the members of M adds the sum of g over M *)
LEMMA SumMoved ==
  ASSUME NEW S, IsFiniteSet(S), NEW f \in [S -> Int], NEW g \in [S -> Int], NEW M \in SUBSET S,
         NEW h \in [S -> Int], AddsOn(h, f, g, M, S)
  PROVE  \A R \in SUBSET S :
           SumFunctionOnSet(h, R) = SumFunctionOnSet(f, R) + SumFunctionOnSet(g, R \cap M)
<1> DEFINE F(R) == SumFunctionOnSet(f, R)
           G(R) == SumFunctionOnSet(g, R \cap M)
           H(R) == SumFunctionOnSet(h, R)
           Bad == {n \in Nat : \E R \in SUBSET S : Cardinality(R) = n /\ H(R) # F(R) + G(R)}
<1>1. /\ h \in [S -> Int]
      /\ \A x \in S : h[x] = f[x] + (IF x \in M THEN g[x] ELSE 0)
  BY DEF AddsOn
<1> SUFFICES Bad = {}
  <2>1. ASSUME NEW R \in SUBSET S PROVE H(R) = F(R) + G(R)
    <3>1. Cardinality(R) \in Nat /\ Cardinality(R) \notin Bad
      BY OneLess
    <3> HIDE DEF F, G, H
    <3>. QED BY <3>1
  <2>. QED BY <2>1
<1> SUFFICES ASSUME Bad # {} PROVE FALSE
  OBVIOUS
<1>2. PICK n \in Bad : \A m \in Bad : n <= m
  BY LeastNumber
<1>3. PICK R \in SUBSET S : Cardinality(R) = n /\ H(R) # F(R) + G(R)
  BY <1>2
<1>4. R # {}
  <2> SUFFICES ASSUME R = {} PROVE FALSE
    OBVIOUS
  <2>1. R \cap M = {}
    OBVIOUS
  <2>2. F(R) = 0 /\ G(R) = 0 /\ H(R) = 0
    BY <1>1, <2>1, SumEmpty
  <2> HIDE DEF F, G, H
  <2>. QED BY <1>3, <2>2
<1>5. PICK x \in R : TRUE
  BY <1>4
<1>6. /\ R \ {x} \in SUBSET S /\ n \in Nat /\ n - 1 \in Nat /\ Cardinality(R \ {x}) = n - 1
  BY <1>3, <1>4, <1>5, OneLess
<1>7. n - 1 \notin Bad
  <2> HIDE DEF Bad
  <2>. QED BY <1>2, <1>6
<1>8. H(R \ {x}) = F(R \ {x}) + G(R \ {x})
  <2> HIDE DEF F, G, H
  <2>. QED BY <1>6, <1>7
<1>9. F(R) = f[x] + F(R \ {x}) /\ H(R) = h[x] + H(R \ {x})
  BY <1>1, <1>5, SumTakeOut
<1>10. G(R) = (IF x \in M THEN g[x] ELSE 0) + G(R \ {x})
  <2>1. CASE x \in M
    <3>1. /\ R \cap M \in SUBSET S /\ x \in R \cap M
          /\ (R \cap M) \ {x} = (R \ {x}) \cap M
      BY <2>1
    <3>2. SumFunctionOnSet(g, R \cap M) = g[x] + SumFunctionOnSet(g, (R \cap M) \ {x})
      BY <3>1, SumTakeOut
    <3>. QED BY <2>1, <3>1, <3>2
  <2>2. CASE x \notin M
    <3>1. (R \ {x}) \cap M = R \cap M /\ R \cap M \in SUBSET S
      BY <2>2
    <3>2. G(R) \in Int
      BY <3>1, SumType
    <3>3. G(R \ {x}) = G(R)
      BY <3>1
    <3> HIDE DEF G
    <3>. QED BY <2>2, <3>2, <3>3
  <2>. QED BY <2>1, <2>2
<1>11. /\ F(R \ {x}) \in Int /\ G(R \ {x}) \in Int /\ f[x] \in Int /\ x \in S
       /\ x \in M => g[x] \in Int
  <2>1. (R \ {x}) \cap M \in SUBSET S /\ R \ {x} \in SUBSET S
    OBVIOUS
  <2>. QED BY <2>1, SumType
<1> HIDE DEF F, G, H
<1>. QED BY <1>1, <1>3, <1>8, <1>9, <1>10, <1>11
-----------------------------------------------------------------------------
(* A function on the numbers that is defined by recursion *)
IsStep(step, X) == step \in [Nat \X X -> X]

SolvesNat(f, b, step) ==
  \A n \in Nat : f[n] = IF n = 0 THEN b ELSE step[<<n, f[n - 1]>>]

LEMMA NatRecursion ==
  ASSUME NEW X, NEW b \in X, NEW step, IsStep(step, X)
  PROVE  \E f \in [Nat -> X] : SolvesNat(f, b, step)
<1> DEFINE pred == [n \in Nat |-> IF n = 0 THEN 0 ELSE n - 1]
           measure == [n \in Nat |-> n]
<1>1. IsRecursion(Nat, X, b, step, pred, measure)
  BY DEF IsRecursion, IsStep
<1>2. PICK f \in [Nat -> X] : Solves(f, Nat, b, step, pred, measure)
  <2> HIDE DEF pred, measure
  <2>. QED BY <1>1, Solution
<1>. QED BY <1>2 DEF Solves, SolvesNat

-----------------------------------------------------------------------------
(* Lists that grow *)

LEMMA AppendRange ==
  ASSUME NEW X, NEW s \in Seq(X), NEW x \in X
  PROVE  Append(s, x) \in Seq(X) /\ Range(Append(s, x)) = Range(s) \cup {x}
<1>1. /\ Append(s, x) \in Seq(X) /\ DOMAIN Append(s, x) = 1 .. Len(s) + 1
      /\ \A i \in 1 .. Len(s) : Append(s, x)[i] = s[i]
      /\ Append(s, x)[Len(s) + 1] = x /\ DOMAIN s = 1 .. Len(s) /\ Len(s) \in Nat
  BY AppendProperties
<1>2. 1 .. Len(s) + 1 = (1 .. Len(s)) \cup {Len(s) + 1}
  BY <1>1
<1>. QED BY <1>1, <1>2 DEF Range

LEMMA AppendInjects ==
  ASSUME NEW X, NEW s \in Seq(X), NEW x \in X, IsInjective(s), x \notin Range(s)
  PROVE  IsInjective(Append(s, x))
<1>1. /\ DOMAIN Append(s, x) = 1 .. Len(s) + 1
      /\ \A i \in 1 .. Len(s) : Append(s, x)[i] = s[i]
      /\ Append(s, x)[Len(s) + 1] = x /\ DOMAIN s = 1 .. Len(s) /\ Len(s) \in Nat
  BY AppendProperties
<1>. QED BY <1>1 DEF IsInjective, Range

-----------------------------------------------------------------------------
(* Those( list, S ) *)

(* The elements left of the first n *)
IsLeft(left, list, S) ==
  left = [n \in Nat |-> IF n = 0 THEN <<>>
                        ELSE IF list[n] \in S THEN Append(left[n - 1], list[n]) ELSE left[n - 1]]

LEMMA ThoseLeft ==
  ASSUME NEW X, NEW list \in Seq(X), NEW S
  PROVE  \E left : IsLeft(left, list, S) /\ Those(list, S) = left[Len(list)]
<1> DEFINE left == CHOOSE left : IsLeft(left, list, S)
           Y == Seq(X \cup {list[n] : n \in Nat})
           step == [p \in Nat \X Y |-> IF list[p[1]] \in S THEN Append(p[2], list[p[1]]) ELSE p[2]]
<1>1. Those(list, S) = left[Len(list)]
  BY DEF Those, IsLeft
<1>2. <<>> \in Y
  OBVIOUS
<1>3. IsStep(step, Y)
  <2>1. ASSUME NEW p \in Nat \X Y
        PROVE  (IF list[p[1]] \in S THEN Append(p[2], list[p[1]]) ELSE p[2]) \in Y
    <3>1. p[1] \in Nat /\ p[2] \in Y /\ list[p[1]] \in X \cup {list[n] : n \in Nat}
      OBVIOUS
    <3>. QED BY <3>1, AppendProperties
  <2> HIDE DEF Y
  <2>. QED BY <2>1 DEF IsStep
<1>4. PICK f \in [Nat -> Y] : SolvesNat(f, <<>>, step)
  <2> HIDE DEF Y, step
  <2>. QED BY <1>2, <1>3, NatRecursion
<1>5. ASSUME NEW n \in Nat
      PROVE  f[n] = IF n = 0 THEN <<>>
                    ELSE IF list[n] \in S THEN Append(f[n - 1], list[n]) ELSE f[n - 1]
  <2>1. f[n] = IF n = 0 THEN <<>> ELSE step[<<n, f[n - 1]>>]
    BY <1>4 DEF SolvesNat
  <2>2. n # 0 => <<n, f[n - 1]>> \in Nat \X Y
    <3> HIDE DEF Y, step
    <3>. QED BY <1>4
  <2> HIDE DEF Y
  <2>. QED BY <2>1, <2>2
<1>6. IsLeft(f, list, S)
  <2> HIDE DEF Y, step
  <2>. QED BY <1>4, <1>5 DEF IsLeft
<1>7. IsLeft(left, list, S)
  BY <1>6
<1>. QED BY <1>1, <1>7

NextLeft(left, list, S, n) ==
  left[n + 1] = IF list[n + 1] \in S THEN Append(left[n], list[n + 1]) ELSE left[n]

LEMMA LeftStep ==
  ASSUME NEW list, NEW S, NEW left, IsLeft(left, list, S)
  PROVE  left[0] = <<>> /\ \A n \in Nat : NextLeft(left, list, S, n)
<1>1. left[0] = <<>>
  BY DEF IsLeft
<1>2. ASSUME NEW n \in Nat PROVE NextLeft(left, list, S, n)
  <2>1. n + 1 \in Nat /\ n + 1 # 0 /\ (n + 1) - 1 = n
    OBVIOUS
  <2>2. \A m \in Nat : left[m] = IF m = 0 THEN <<>>
                        ELSE IF list[m] \in S THEN Append(left[m - 1], list[m]) ELSE left[m - 1]
    BY DEF IsLeft
  <2>3. left[n + 1] = IF list[n + 1] \in S THEN Append(left[(n + 1) - 1], list[n + 1])
                                          ELSE left[(n + 1) - 1]
    BY <2>1, <2>2, Zenon
  <2>. QED BY <2>1, <2>3 DEF NextLeft
<1>. QED BY <1>1, <1>2

(* The first n elements leave a list of those of them that are in S *)
LeavesThose(left, list, S, X, n) ==
  /\ left[n] \in Seq(X)
  /\ \A x : x \in Range(left[n]) <=> x \in S /\ \E i \in 1 .. n : x = list[i]

LEMMA LeftTypes ==
  ASSUME NEW X, NEW list \in Seq(X), NEW S, NEW left, IsLeft(left, list, S)
  PROVE  \A n \in 0 .. Len(list) : LeavesThose(left, list, S, X, n)
<1> USE DEF LeavesThose
<1> DEFINE Good(n) == LeavesThose(left, list, S, X, n)
           T == {n \in Nat : n <= Len(list) => Good(n)}
<1>1. 0 \in T
  <2>1. left[0] = <<>>
    BY LeftStep
  <2>2. Good(0)
    BY <2>1 DEF Range
  <2>. QED BY <2>2
<1>2. ASSUME NEW n \in T PROVE n + 1 \in T
  <2>0. n \in Nat /\ IsLeft(left, list, S)
    OBVIOUS
  <2> SUFFICES ASSUME n + 1 <= Len(list) PROVE Good(n + 1)
    OBVIOUS
  <2>1. Good(n) /\ list[n + 1] \in X /\ n \in Nat
    OBVIOUS
  <2>2. /\ list[n + 1] \in S => left[n + 1] = Append(left[n], list[n + 1])
        /\ list[n + 1] \notin S => left[n + 1] = left[n]
    <3>1. NextLeft(left, list, S, n)
      <4> HIDE DEF T, Good
      <4>. QED BY <2>0, LeftStep
    <3>. QED BY <3>1 DEF NextLeft
  <2>3. ASSUME NEW x
        PROVE  (\E i \in 1 .. n + 1 : x = list[i])
                  <=> (\E i \in 1 .. n : x = list[i]) \/ x = list[n + 1]
    OBVIOUS
  <2>4. CASE list[n + 1] \in S
    <3>1. left[n + 1] \in Seq(X) /\ Range(left[n + 1]) = Range(left[n]) \cup {list[n + 1]}
      <4>1. left[n] \in Seq(X) /\ list[n + 1] \in X
        BY <2>1
      <4>2. left[n + 1] = Append(left[n], list[n + 1])
        BY <2>2, <2>4
      <4> HIDE DEF T, Good
      <4>. QED BY <4>1, <4>2, AppendRange
    <3>. QED BY <2>1, <2>3, <2>4, <3>1
  <2>5. CASE list[n + 1] \notin S
    BY <2>1, <2>2, <2>3, <2>5
  <2>. QED BY <2>4, <2>5
<1>3. T = Nat
  <2>1. T \in SUBSET Nat
    OBVIOUS
  <2> HIDE DEF T
  <2>. QED BY <2>1, <1>1, <1>2, AllNumbers
<1>4. ASSUME NEW n \in 0 .. Len(list) PROVE Good(n)
  <2>1. n \in Nat /\ n <= Len(list)
    OBVIOUS
  <2>2. n \in T
    <3> HIDE DEF T
    <3>. QED BY <1>3, <2>1
  <2> HIDE DEF Good, LeavesThose
  <2>. QED BY <2>1, <2>2
<1>. QED BY <1>4

(* The list of those is a list of the same elements, without the others *)
LEMMA ThoseRange ==
  ASSUME NEW X, NEW list \in Seq(X), NEW S
  PROVE  Those(list, S) \in Seq(X) /\ Range(Those(list, S)) = Range(list) \cap S
<1>1. PICK left : IsLeft(left, list, S) /\ Those(list, S) = left[Len(list)]
  BY ThoseLeft
<1>2. Len(list) \in 0 .. Len(list)
  OBVIOUS
<1>3. LeavesThose(left, list, S, X, Len(list))
  BY <1>1, <1>2, LeftTypes
<1>4. \A x : x \in Range(list) <=> \E i \in 1 .. Len(list) : x = list[i]
  BY DEF Range
<1>. QED BY <1>1, <1>3, <1>4 DEF LeavesThose

(* Without repetitions it stays without repetitions *)
LEMMA ThoseOnce ==
  ASSUME NEW X, NEW list \in Seq(X), NEW S, IsInjective(list)
  PROVE  IsInjective(Those(list, S))
<1>1. PICK left : IsLeft(left, list, S) /\ Those(list, S) = left[Len(list)]
  BY ThoseLeft
<1> DEFINE T == {n \in Nat : n <= Len(list) => IsInjective(left[n])}
<1>2. 0 \in T
  BY <1>1, LeftStep DEF IsInjective
<1>3. ASSUME NEW n \in T PROVE n + 1 \in T
  <2>0. n \in Nat
    OBVIOUS
  <2> SUFFICES ASSUME n + 1 <= Len(list) PROVE IsInjective(left[n + 1])
    OBVIOUS
  <2>1. IsInjective(left[n]) /\ list[n + 1] \in X /\ LeavesThose(left, list, S, X, n)
    <3>1. n \in 0 .. Len(list)
      OBVIOUS
    <3>. QED BY <1>1, <3>1, LeftTypes
  <2>2. /\ list[n + 1] \in S => left[n + 1] = Append(left[n], list[n + 1])
        /\ list[n + 1] \notin S => left[n + 1] = left[n]
    <3>1. NextLeft(left, list, S, n)
      <4> HIDE DEF T
      <4>. QED BY <2>0, <1>1, LeftStep
    <3>. QED BY <3>1 DEF NextLeft
  <2>3. \A i \in 1 .. n : list[i] # list[n + 1]
    BY DEF IsInjective
  <2>4. list[n + 1] \notin Range(left[n])
    BY <2>1, <2>3 DEF LeavesThose
  <2>5. IsInjective(Append(left[n], list[n + 1]))
    BY <2>1, <2>4, AppendInjects DEF LeavesThose
  <2>. QED BY <2>1, <2>2, <2>5
<1>4. T = Nat
  <2>1. T \in SUBSET Nat
    OBVIOUS
  <2> HIDE DEF T
  <2>. QED BY <2>1, <1>2, <1>3, AllNumbers
<1>. QED BY <1>1, <1>4

(* When the first k elements go and the others stay, those are the rest *)
LEMMA ThoseRest ==
  ASSUME NEW X, NEW list \in Seq(X), NEW S, NEW k \in 0 .. Len(list),
         \A i \in 1 .. k : list[i] \notin S,
         \A i \in k + 1 .. Len(list) : list[i] \in S
  PROVE  Those(list, S) = SubSeq(list, k + 1, Len(list))
<1>1. PICK left : IsLeft(left, list, S) /\ Those(list, S) = left[Len(list)]
  BY ThoseLeft
<1> DEFINE T == {n \in Nat : n <= Len(list) => left[n] = SubSeq(list, k + 1, n)}
<1>2. 0 \in T
  <2>1. left[0] = <<>> /\ SubSeq(list, k + 1, 0) = <<>>
    BY <1>1, LeftStep, SubSeqEmpty
  <2>. QED BY <2>1
<1>3. ASSUME NEW n \in T PROVE n + 1 \in T
  <2>0. n \in Nat
    OBVIOUS
  <2> SUFFICES ASSUME n + 1 <= Len(list) PROVE left[n + 1] = SubSeq(list, k + 1, n + 1)
    OBVIOUS
  <2>1. left[n] = SubSeq(list, k + 1, n)
    OBVIOUS
  <2> HIDE DEF T
  <2>2. /\ list[n + 1] \in S => left[n + 1] = Append(left[n], list[n + 1])
        /\ list[n + 1] \notin S => left[n + 1] = left[n]
    <3>1. NextLeft(left, list, S, n)
      <4> HIDE DEF T
      <4>. QED BY <2>0, <1>1, LeftStep
    <3>. QED BY <3>1 DEF NextLeft
  <2>3. CASE n + 1 <= k
    <3>1. left[n + 1] = left[n]
      BY <2>0, <2>2, <2>3
    <3>2. SubSeq(list, k + 1, n) = <<>> /\ SubSeq(list, k + 1, n + 1) = <<>>
      BY <2>0, <2>3, SubSeqEmpty
    <3>. QED BY <2>1, <3>1, <3>2
  <2>4. CASE n + 1 > k
    <3>1. left[n + 1] = Append(left[n], list[n + 1])
      BY <2>0, <2>2, <2>4
    <3>2. SubSeq(list, k + 1, n + 1) = SubSeq(list, k + 1, n) \o <<list[n + 1]>>
      <4>1. k + 1 \in 1 .. Len(list) /\ n + 1 \in k + 1 .. Len(list) /\ (n + 1) - 1 = n
        BY <2>0, <2>4
      <4>. QED BY <4>1, SubSeqRecursiveSecond, Zenon
    <3>3. SubSeq(list, k + 1, n) \in Seq(X) /\ list[n + 1] \in X
      BY <2>0, <2>4, SubSeqProperties
    <3>4. Append(SubSeq(list, k + 1, n), list[n + 1])
            = SubSeq(list, k + 1, n) \o <<list[n + 1]>>
      BY <3>3, AppendIsConcat, Zenon
    <3>. QED BY <2>1, <3>1, <3>2, <3>4, Zenon
  <2>. QED BY <2>0, <2>3, <2>4
<1>4. T = Nat
  <2>1. T \in SUBSET Nat
    OBVIOUS
  <2> HIDE DEF T
  <2>. QED BY <2>1, <1>2, <1>3, AllNumbers
<1>. QED BY <1>1, <1>4

(* When all stay, the list stays *)
LEMMA ThoseAll ==
  ASSUME NEW X, NEW list \in Seq(X), NEW S, Range(list) \subseteq S
  PROVE  Those(list, S) = list
<1>1. Those(list, S) = SubSeq(list, 1, Len(list))
  <2>1. \A i \in 0 + 1 .. Len(list) : list[i] \in S
    BY DEF Range
  <2>2. 0 \in 0 .. Len(list) /\ \A i \in 1 .. 0 : list[i] \notin S
    OBVIOUS
  <2>3. Those(list, S) = SubSeq(list, 0 + 1, Len(list))
    BY ONLY <2>1, <2>2, list \in Seq(X), ThoseRest, Zenon
  <2>. QED BY <2>3
<1>. QED BY <1>1, SubSeqFull
(* The first n elements of list leave the first m[n] of b *)
LeavesFirst(m, list, S, b) ==
  /\ m \in [0 .. Len(list) -> 0 .. Len(b)]
  /\ m[0] = 0 /\ m[Len(list)] = Len(b)
  /\ \A n \in 1 .. Len(list) :
       IF list[n] \in S THEN m[n] = m[n - 1] + 1 /\ b[m[n]] = list[n]
                        ELSE m[n] = m[n - 1]

LEMMA ThoseAre ==
  ASSUME NEW X, NEW list \in Seq(X), NEW S, NEW b \in Seq(X), NEW m,
         LeavesFirst(m, list, S, b)
  PROVE  Those(list, S) = b
<1>1. PICK left : IsLeft(left, list, S) /\ Those(list, S) = left[Len(list)]
  BY ThoseLeft
<1> DEFINE T == {n \in Nat : n <= Len(list) => left[n] = SubSeq(b, 1, m[n])}
<1>2. 0 \in T
  <2>1. left[0] = <<>> /\ SubSeq(b, 1, 0) = <<>> /\ m[0] = 0
    BY <1>1, LeftStep, SubSeqEmpty DEF LeavesFirst
  <2>. QED BY <2>1
<1>3. ASSUME NEW n \in T PROVE n + 1 \in T
  <2>0. n \in Nat
    OBVIOUS
  <2> SUFFICES ASSUME n + 1 <= Len(list) PROVE left[n + 1] = SubSeq(b, 1, m[n + 1])
    OBVIOUS
  <2>1. left[n] = SubSeq(b, 1, m[n])
    OBVIOUS
  <2> HIDE DEF T
  <2>2. /\ list[n + 1] \in S => left[n + 1] = Append(left[n], list[n + 1])
        /\ list[n + 1] \notin S => left[n + 1] = left[n]
    <3>1. NextLeft(left, list, S, n)
      BY <2>0, <1>1, LeftStep
    <3>. QED BY <3>1 DEF NextLeft
  <2>3. /\ m[n] \in 0 .. Len(b) /\ m[n + 1] \in 0 .. Len(b)
        /\ list[n + 1] \in S => m[n + 1] = m[n] + 1 /\ b[m[n + 1]] = list[n + 1]
        /\ list[n + 1] \notin S => m[n + 1] = m[n]
    <3>1. n \in 0 .. Len(list) /\ n + 1 \in 0 .. Len(list) /\ n + 1 \in 1 .. Len(list)
          /\ (n + 1) - 1 = n
      BY <2>0
    <3>2. IF list[n + 1] \in S THEN m[n + 1] = m[(n + 1) - 1] + 1 /\ b[m[n + 1]] = list[n + 1]
                               ELSE m[n + 1] = m[(n + 1) - 1]
      BY <3>1 DEF LeavesFirst
    <3>. QED BY <3>1, <3>2 DEF LeavesFirst
  <2>4. CASE list[n + 1] \in S
    <3> DEFINE l == m[n + 1]
    <3>1. l \in 1 .. Len(b) /\ m[n] = l - 1 /\ b[l] = list[n + 1] /\ 1 \in 1 .. Len(b)
          /\ list[n + 1] \in X
      BY <2>0, <2>3, <2>4, SMTT(30)
    <3> HIDE DEF l
    <3>2. SubSeq(b, 1, l) = SubSeq(b, 1, l - 1) \o <<b[l]>>
      BY <3>1, SubSeqRecursiveSecond, Zenon
    <3>3. SubSeq(b, 1, l - 1) \in Seq(X) /\ b[l] \in X
      BY <3>1, SubSeqProperties
    <3>4. Append(SubSeq(b, 1, l - 1), b[l]) = SubSeq(b, 1, l - 1) \o <<b[l]>>
      BY <3>3, AppendIsConcat, Zenon
    <3>5. left[n + 1] = Append(SubSeq(b, 1, l - 1), b[l])
      BY <2>1, <2>2, <2>4, <3>1
    <3>. QED BY <3>2, <3>4, <3>5, Zenon DEF l
  <2>5. CASE list[n + 1] \notin S
    BY <2>1, <2>2, <2>3, <2>5
  <2>. QED BY <2>4, <2>5
<1>4. T = Nat
  <2>1. T \in SUBSET Nat
    OBVIOUS
  <2> HIDE DEF T
  <2>. QED BY <2>1, <1>2, <1>3, AllNumbers
<1>5. left[Len(list)] = SubSeq(b, 1, m[Len(list)])
  <2>1. Len(list) \in T /\ Len(list) <= Len(list)
    BY <1>4
  <2>. QED BY <2>1
<1>5a. m[Len(list)] = Len(b)
  BY DEF LeavesFirst
<1>6. SubSeq(b, 1, Len(b)) = b
  BY SubSeqFull
<1>. QED BY <1>1, <1>5, <1>5a, <1>6, Zenon

(* When the first k elements stay and the others go, those are the first *)
LEMMA ThoseFirst ==
  ASSUME NEW X, NEW list \in Seq(X), NEW S, NEW k \in 0 .. Len(list),
         \A i \in 1 .. k : list[i] \in S,
         \A i \in k + 1 .. Len(list) : list[i] \notin S
  PROVE  Those(list, S) = SubSeq(list, 1, k)
<1> DEFINE b == SubSeq(list, 1, k)
           m == [n \in 0 .. Len(list) |-> IF n <= k THEN n ELSE k]
<1>1. b \in Seq(X) /\ Len(b) = k /\ \A i \in 1 .. k : b[i] = list[i]
  BY SubSeqProperties
<1> HIDE DEF b
<1>2. m \in [0 .. Len(list) -> 0 .. Len(b)] /\ m[0] = 0 /\ m[Len(list)] = Len(b)
  BY <1>1
<1>3. ASSUME NEW n \in 1 .. Len(list)
      PROVE  IF list[n] \in S THEN m[n] = m[n - 1] + 1 /\ b[m[n]] = list[n]
                              ELSE m[n] = m[n - 1]
  <2>1. list[n] \in S <=> n <= k
    OBVIOUS
  <2>2. n <= k => m[n] = n /\ m[n - 1] = n - 1
    OBVIOUS
  <2>3. ~(n <= k) => m[n] = k /\ m[n - 1] = k
    OBVIOUS
  <2> HIDE DEF m
  <2>. QED BY <1>1, <2>1, <2>2, <2>3
<1> HIDE DEF m
<1>4. LeavesFirst(m, list, S, b)
  BY <1>2, <1>3 DEF LeavesFirst
<1>. QED BY <1>1, <1>4, ThoseAre DEF b

(* list without its kth element *)
WithoutPlace(list, k) ==
  [i \in 1 .. Len(list) - 1 |-> IF i < k THEN list[i] ELSE list[i + 1]]

LEMMA WithoutOne ==
  ASSUME NEW X, NEW list \in Seq(X), NEW k \in 1 .. Len(list)
  PROVE  /\ WithoutPlace(list, k) \in Seq(X) /\ Len(WithoutPlace(list, k)) = Len(list) - 1
         /\ DOMAIN WithoutPlace(list, k) = 1 .. Len(list) - 1
         /\ \A i \in 1 .. Len(list) - 1 :
              WithoutPlace(list, k)[i] = IF i < k THEN list[i] ELSE list[i + 1]
  BY DEF WithoutPlace

(* When one element goes, those are the list without it *)
LEMMA ThoseWithout ==
  ASSUME NEW X, NEW list \in Seq(X), NEW S, NEW k \in 1 .. Len(list), list[k] \notin S,
         \A i \in 1 .. Len(list) : i # k => list[i] \in S
  PROVE  Those(list, S) = WithoutPlace(list, k)
<1> DEFINE b == WithoutPlace(list, k)
           m == [n \in 0 .. Len(list) |-> IF n < k THEN n ELSE n - 1]
<1>1. b \in Seq(X) /\ Len(b) = Len(list) - 1
      /\ \A i \in 1 .. Len(list) - 1 : b[i] = IF i < k THEN list[i] ELSE list[i + 1]
  BY WithoutOne
<1> HIDE DEF b
<1>2. m \in [0 .. Len(list) -> 0 .. Len(b)] /\ m[0] = 0 /\ m[Len(list)] = Len(b)
  BY <1>1
<1>3. ASSUME NEW n \in 1 .. Len(list)
      PROVE  IF list[n] \in S THEN m[n] = m[n - 1] + 1 /\ b[m[n]] = list[n]
                              ELSE m[n] = m[n - 1]
  <2>1. list[n] \in S <=> n # k
    OBVIOUS
  <2>2. n < k => m[n] = n /\ m[n - 1] = n - 1
    OBVIOUS
  <2>3. n = k => m[n] = n - 1 /\ m[n - 1] = n - 1
    OBVIOUS
  <2>4. n > k => m[n] = n - 1 /\ m[n - 1] = n - 2 /\ ~(n - 1 < k) /\ n - 1 \in 1 .. Len(list) - 1
                 /\ (n - 1) + 1 = n
    OBVIOUS
  <2> HIDE DEF m
  <2>5. n > k => b[n - 1] = list[n]
    BY <1>1, <2>4
  <2>6. n < k => b[n] = list[n]
    BY <1>1
  <2>. QED BY <2>1, <2>2, <2>3, <2>4, <2>5, <2>6
<1> HIDE DEF m
<1>4. LeavesFirst(m, list, S, b)
  BY <1>2, <1>3 DEF LeavesFirst
<1>. QED BY <1>1, <1>4, ThoseAre DEF b
(* A sequence that repeats nothing is as long as the set of its elements *)
LEMMA OnceCounted ==
  ASSUME NEW S, NEW q \in Seq(S), IsInjective(q)
  PROVE  IsFiniteSet(Range(q)) /\ Cardinality(Range(q)) = Len(q) /\ Len(q) \in Nat
<1>1. Len(q) \in Nat /\ DOMAIN q = 1 .. Len(q)
  OBVIOUS
<1>2. q \in Bijection(1 .. Len(q), Range(q))
  BY <1>1 DEF Bijection, Injection, Surjection, IsInjective, Range
<1>3. IsFiniteSet(1 .. Len(q)) /\ Cardinality(1 .. Len(q)) = Len(q)
  BY <1>1, FS_Interval
<1>4. ExistsBijection(1 .. Len(q), Range(q))
  BY <1>2 DEF ExistsBijection
<1>. QED BY <1>1, <1>3, <1>4, FS_Bijection
-----------------------------------------------------------------------------
(***************************************************************************)
(* One sequence behind another                                             *)
(***************************************************************************)
LEMMA JoinedRange ==
  ASSUME NEW X, NEW r \in Seq(X), NEW s \in Seq(X)
  PROVE  r \o s \in Seq(X) /\ Range(r \o s) = Range(r) \cup Range(s)
<1>1. r \o s \in Seq(X) /\ Len(r \o s) = Len(r) + Len(s)
  OBVIOUS
<1>2. \A i \in 1 .. Len(r) : (r \o s)[i] = r[i]
  OBVIOUS
<1>3. \A i \in 1 .. Len(s) : (r \o s)[i + Len(r)] = s[i]
  OBVIOUS
<1>4. Range(r \o s) \subseteq Range(r) \cup Range(s)
  <2> SUFFICES ASSUME NEW i \in 1 .. Len(r) + Len(s)
               PROVE  (r \o s)[i] \in Range(r) \cup Range(s)
    BY <1>1 DEF Range
  <2>1. CASE i \in 1 .. Len(r)
    BY <2>1, <1>2 DEF Range
  <2>2. CASE i \notin 1 .. Len(r)
    <3>1. i - Len(r) \in 1 .. Len(s) /\ i = (i - Len(r)) + Len(r)
      BY <2>2
    <3>. QED BY <3>1, <1>3 DEF Range
  <2>. QED BY <2>1, <2>2
<1>5. Range(r) \subseteq Range(r \o s)
  BY <1>1, <1>2 DEF Range
<1>6. Range(s) \subseteq Range(r \o s)
  <2> SUFFICES ASSUME NEW i \in 1 .. Len(s)
               PROVE  s[i] \in Range(r \o s)
    BY SMTT(30) DEF Range
  <2>1. i + Len(r) \in 1 .. Len(r) + Len(s)
    OBVIOUS
  <2>. QED BY <2>1, <1>1, <1>3 DEF Range
<1>. QED BY <1>1, <1>4, <1>5, <1>6

LEMMA JoinedOnce ==
  ASSUME NEW X, NEW r \in Seq(X), NEW s \in Seq(X),
         IsInjective(r), IsInjective(s), Range(r) \cap Range(s) = {}
  PROVE  IsInjective(r \o s)
<1>1. DOMAIN (r \o s) = 1 .. Len(r) + Len(s) /\ Len(r) \in Nat /\ Len(s) \in Nat
  OBVIOUS
<1>2. \A i \in 1 .. Len(r) : (r \o s)[i] = r[i] /\ r[i] \in Range(r)
  BY DEF Range
<1>3. \A i \in 1 .. Len(r) + Len(s) : i > Len(r) =>
         /\ i - Len(r) \in 1 .. Len(s)
         /\ (r \o s)[i] = s[i - Len(r)] /\ s[i - Len(r)] \in Range(s)
  <2> SUFFICES ASSUME NEW i \in 1 .. Len(r) + Len(s), i > Len(r)
               PROVE  /\ i - Len(r) \in 1 .. Len(s)
                      /\ (r \o s)[i] = s[i - Len(r)] /\ s[i - Len(r)] \in Range(s)
    OBVIOUS
  <2>1. i - Len(r) \in 1 .. Len(s) /\ (r \o s)[i] = s[i - Len(r)]
    OBVIOUS
  <2>. QED BY <2>1 DEF Range
<1>4. SUFFICES ASSUME NEW i \in 1 .. Len(r) + Len(s), NEW j \in 1 .. Len(r) + Len(s),
                      (r \o s)[i] = (r \o s)[j]
               PROVE  i = j
  BY <1>1 DEF IsInjective
<1>5. CASE i <= Len(r) /\ j <= Len(r)
  <2>1. i \in 1 .. Len(r) /\ j \in 1 .. Len(r)
    BY <1>1, <1>5
  <2>2. r[i] = r[j]
    BY <2>1, <1>2, <1>4
  <2>. QED BY <2>1, <2>2 DEF IsInjective
<1>6. CASE i > Len(r) /\ j > Len(r)
  <2>1. i - Len(r) \in 1 .. Len(s) /\ j - Len(r) \in 1 .. Len(s)
    BY <1>3, <1>6
  <2>2. s[i - Len(r)] = s[j - Len(r)]
    BY <1>3, <1>4, <1>6
  <2>3. i - Len(r) = j - Len(r)
    BY <2>1, <2>2 DEF IsInjective
  <2>. QED BY <2>3, <1>1
<1>7. ASSUME NEW x \in 1 .. Len(r) + Len(s), NEW y \in 1 .. Len(r) + Len(s),
             x <= Len(r), y > Len(r)
      PROVE  (r \o s)[x] # (r \o s)[y]
  <2>1. x \in 1 .. Len(r)
    BY <1>1, <1>7
  <2>2. (r \o s)[x] \in Range(r) /\ (r \o s)[y] \in Range(s)
    BY <2>1, <1>2, <1>3, <1>7
  <2>. QED BY <2>2
<1>. QED BY <1>1, <1>4, <1>5, <1>6, <1>7
=============================================================================
