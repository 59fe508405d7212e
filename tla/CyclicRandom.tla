---------------------------- MODULE CyclicRandom ----------------------------
(***************************************************************************)
(* CYC(), the cyclic random generator (runtime/random.c, class sys_CYC).   *)
(* A Galois shift register steps through all its states but zero; its bits, *)
(* rotated by a random amount, are the value.  When the register is back at *)
(* its seed, seed and rotation are drawn anew.  Without ranges zero is      *)
(* slipped in after a state that was drawn with the seed; with ranges the   *)
(* value numbers an element of them.                                        *)
(*                                                                         *)
(* A register of unsigned words is the set of the positions of its ones:    *)
(* bit b is in word b \div WordBits.                                        *)
(***************************************************************************)
EXTENDS Naturals, Sequences, SequencesExt, FiniteSets, FiniteSetsExt

CONSTANTS
  WordBits,     \* the width of an int; 32 in the program
  Widths,       \* the widths a call can be compiled for
  primpoli,     \* the inner terms of a primitive polynomial of each degree
  Spans,        \* what the program can give as a range: <<lower bound, number>>
  MaxRanges,    \* the bound on the ranges of one generator
  Limits,       \* the arguments of limit=; 0 is none
  Conditions    \* what the conditions of a call can leave: sets of values

ASSUME WordAssumption == WordBits \in Nat \ {0}
ASSUME WidthAssumption == Widths \subseteq 1..(3 * WordBits)
ASSUME PolynomialAssumption ==
  \A w \in Widths : primpoli[w] \subseteq 0..(w - 1) \cap 0..(WordBits - 1)
ASSUME SpanAssumption == Spans \subseteq Nat \X (Nat \ {0})
ASSUME LimitAssumption == Limits \subseteq Nat /\ MaxRanges \in Nat

VARIABLES
  at,                                  \* where the generator is
  width, limit, range, num_element,    \* what new, limit= and the ranges set
  act_width,                           \* the length of the register; 0 at first
  data, sdata, zdata, pdata, next_zero, swap_point,
  left,                                \* the local limit of gen_random
  cond,                                \* the values the conditions leave
  tried, trials                        \* history: of this cycle

setupVars == <<width, limit, range, num_element>>
registers == <<data, sdata, zdata, pdata, next_zero, swap_point>>
history   == <<tried, trials>>
vars      == <<at, setupVars, act_width, registers, left, cond, history>>
-----------------------------------------------------------------------------
(* The register *)

Word(i)   == (i * WordBits)..(i * WordBits + WordBits - 1)
Number(r) == FoldSet(LAMBDA b, n : 2 ^ b + n, 0, r)

(* set_mask: the bits in use, and the one that an odd register gains *)
mdata == 0..(act_width - 1)
udata == {act_width - 1}

ShiftRight(r) == {b - 1 : b \in r \ {0}}

(* Mutant of Successor: the polynomial is left out *)
SuccessorShifted(r) == ShiftRight(r) \cup (IF 0 \in r THEN udata ELSE {})

(* The next state.  The polynomial is in the first word, so its bits do not *)
(* meet those that are handed down from the words above.                    *)
Successor(r) ==
  IF 0 \in r THEN ShiftRight(SymDiff(r, primpoli[act_width])) \cup udata
             ELSE ShiftRight(r)

(* One shift to the left of t[3], which are signed: t[i]>>31 is 0 or all    *)
(* ones, so a one in the top bit of a word fills the word above             *)
ShiftLeft(t) ==
  UNION {IF (b + 1) % WordBits # 0 THEN {b + 1} ELSE Word((b + 1) \div WordBits) : b \in t}

(* Rotated by s: the bits from s on are moved down, those below it up *)
Rotated(r, s) ==
  LET Left[k \in 0..act_width] == IF k = 0 THEN r ELSE ShiftLeft(Left[k - 1])
  IN  ({b - s : b \in {c \in r : c >= s}} \cup Left[act_width - s]) \cap mdata
-----------------------------------------------------------------------------
(* What the values are of *)

Element(e, v) == (e.lb + v - e.weight_s) % 2 ^ width

(* The values of the ranges, or of the width *)
Values == IF range = <<>> THEN 0..(2 ^ width - 1)
          ELSE UNION {{Element(e, v) : v \in e.weight_s..e.weight_e} : e \in Range(range)}
-----------------------------------------------------------------------------
(* The object is made and set up by the code at the head of the program     *)

Init == /\ at = "new"
        /\ width = 0 /\ limit = 0 /\ range = <<>> /\ num_element = 0
        /\ act_width = 0
        /\ data = {} /\ sdata = {} /\ zdata = {} /\ pdata = {}
        /\ next_zero = FALSE /\ swap_point = 0
        /\ left = 0 /\ cond = {}
        /\ tried = {} /\ trials = 0

New(w) == /\ at = "new"
          /\ at' = "setup" /\ width' = w
          /\ UNCHANGED <<limit, range, num_element, act_width, registers, left, cond, history>>

(* set_range_d: the range takes the next numbers of elements.  The width a  *)
(* call is compiled for is enough for its constants; ranges do not overlap. *)
SetRange(lb, n) ==
  /\ at = "setup" /\ limit = 0 /\ Len(range) < MaxRanges
  /\ lb + n <= 2 ^ width
  /\ range = <<>> \/ Values \cap lb..(lb + n - 1) = {}
  /\ range' = Append(range, [lb |-> lb, weight_s |-> num_element,
                             weight_e |-> num_element + n - 1])
  /\ num_element' = num_element + n
  /\ UNCHANGED <<at, width, limit, act_width, registers, left, cond, history>>

(* set_range_s expects three arguments and the compiler passes one          *)
(* (codegen.c:701): a single value ends the simulation                      *)
SetSingle ==
  /\ at = "setup" /\ limit = 0
  /\ at' = "fatal"
  /\ UNCHANGED <<setupVars, act_width, registers, left, cond, history>>

SetLimit(n) ==
  /\ at = "setup" /\ limit = 0 /\ n # 0
  /\ limit' = n
  /\ UNCHANGED <<at, width, range, num_element, act_width, registers, left, cond, history>>
-----------------------------------------------------------------------------
(* gen_random *)

(* Mutant of LengthFor: one more element than states *)
LengthForAll(n) == CHOOSE w \in 1..WordBits : 2 ^ w >= n /\ \A u \in 1..(w - 1) : 2 ^ u < n

(* The register has at least as many states, but zero, as there are elements *)
LengthFor(n) ==
  CHOOSE w \in 1..WordBits : 2 ^ w - 1 >= n /\ \A u \in 1..(w - 1) : 2 ^ u - 1 < n

(* Mutant of LoopStart: the state the cycle began with is kept *)
LoopStartKept == pdata

(* Where the loop without ranges begins, and ends when it comes back *)
LoopStart == IF num_element = 0 THEN data ELSE pdata

(* A call begins, with what its conditions leave *)
GenRandom(c) ==
  /\ at \in {"setup", "idle"}
  /\ at' = "gen" /\ cond' = c /\ left' = limit
  /\ act_width' = IF act_width # 0 THEN act_width
                  ELSE IF num_element # 0 THEN LengthFor(num_element) ELSE width
  /\ pdata' = LoopStart
  /\ UNCHANGED <<setupVars, data, sdata, zdata, next_zero, swap_point, history>>

(* The drawn value, if any, is given to the caller, or the loop goes on     *)
(* until its end or its limit; then the error ends the simulation           *)
Conclude(drawn, fresh, last) ==
  /\ tried' = drawn \cup IF fresh THEN {} ELSE tried
  /\ trials' = Cardinality(drawn) + IF fresh THEN 0 ELSE trials
  /\ IF drawn \cap cond # {}
     THEN at' = "idle" /\ left' = 0 /\ cond' = {}
     ELSE /\ at' = IF left = 1 \/ last THEN "fatal" ELSE "gen"
          /\ left' = IF left = 0 THEN 0 ELSE left - 1
          /\ UNCHANGED cond

(* set_acc_value for the range that has the element number v, if any *)
ElementsAt(v) ==
  {Element(e, v) : e \in {r \in Range(range) : v \in r.weight_s..r.weight_e}}

(* With ranges: the register steps, seeded before if it is back at its seed, *)
(* which may be zero here; numbers beyond the elements are passed over, but  *)
(* the first one, which is in no range and counts for the limit              *)
TryElement ==
  LET fresh == data = sdata
      v     == Number(Rotated(data', swap_point'))
  IN
  /\ at = "gen" /\ num_element # 0
  /\ IF fresh THEN sdata' \in SUBSET mdata /\ swap_point' \in 0..(act_width - 1)
              ELSE UNCHANGED <<sdata, swap_point>>
  /\ data' = Successor(IF fresh THEN sdata' ELSE data)
  /\ next_zero' = (next_zero \/ data' = zdata)
  /\ IF v = 0 \/ v - 1 > num_element
     THEN /\ tried' = IF fresh THEN {} ELSE tried
          /\ trials' = IF fresh THEN 0 ELSE trials
          /\ UNCHANGED <<at, left, cond>>
     ELSE Conclude(ElementsAt(v - 1), fresh, FALSE)
  /\ UNCHANGED <<setupVars, act_width, zdata, pdata>>

(* Mutant of NewCycle: the seed is drawn anew before the zero was given *)
NewCycleEarly == data = sdata

NewCycle == ~next_zero /\ data = sdata

(* Without ranges: a new seed and the state the zero follows, a step of the *)
(* register or the zero.  The loop ends with the state it began with.       *)
TryNumber ==
  LET fresh   == NewCycle
      nonzero == SUBSET mdata \ {{}}
  IN
  /\ at = "gen" /\ num_element = 0
  /\ IF fresh THEN /\ sdata' \in nonzero /\ zdata' \in nonzero
                   /\ swap_point' \in 0..(act_width - 1)
                   /\ pdata' = sdata'
              ELSE UNCHANGED <<sdata, zdata, swap_point, pdata>>
  /\ IF ~fresh /\ next_zero
     THEN UNCHANGED data /\ next_zero' = FALSE /\ Conclude({0}, FALSE, FALSE)
     ELSE /\ data' = Successor(IF fresh THEN sdata' ELSE data)
          /\ next_zero' = (data' = zdata')
          /\ Conclude({Number(Rotated(data', swap_point'))}, fresh, data' = pdata')
  /\ UNCHANGED <<setupVars, act_width>>

Try == TryElement \/ TryNumber

Next == \/ \E w \in Widths : New(w)
        \/ \E r \in Spans : SetRange(r[1], r[2])
        \/ SetSingle
        \/ \E n \in Limits : SetLimit(n)
        \/ \E c \in Conditions : GenRandom(c)
        \/ Try

Spec == Init /\ [][Next]_vars

(* A call executes to its end, and genrand() is not zero for ever *)
FairSpec == Spec /\ WF_vars(Try /\ data' # {})
-----------------------------------------------------------------------------
Promise == INSTANCE Cycle WITH values <- Values

(* The generator implements what CYC() promises: in a cycle every value of  *)
(* the width, or of the ranges, is drawn once, and all are before the next  *)
(* cycle begins.  (The register may be as wide as an int and one bit more.) *)
EachOnce == Promise!Spec

(* A call without a limit whose conditions leave a value gets one.  Without *)
(* ranges that is said of the values but zero: zero is not tried if it was  *)
(* to follow the seed and the loop ends there.                              *)
CallAnswered ==
  (at = "gen" /\ limit = 0 /\ cond \cap (IF range = <<>> THEN Values \ {0} ELSE Values) # {})
    ~> at = "idle"
=============================================================================
