------------------------------ MODULE Collector ------------------------------
(***************************************************************************)
(* Allocation and garbage collection (runtime/data.c).  Every cell is in a *)
(* list linked by its field generation: the free ones, generation0, which  *)
(* a collection scans, or generation1, which is never scanned again.  A    *)
(* cell without references goes there when it has survived GO_GEN1         *)
(* collections; its mark is not cleared any more.                          *)
(*                                                                         *)
(* The program here has variables that hold single data, lists that grow,  *)
(* and arrays, whose elements are allocated one by one.                    *)
(***************************************************************************)
EXTENDS Integers, SequencesExt

CONSTANTS
  Slot,               \* the variables on the stacks of the threads
  Blocks,             \* the cells of each calloc of the data allocation
  EXTEND_THRESHOLD,
  GO_GEN1,
  Lives,              \* the numbers JD_LIFE_MASK has room for
  ARRAY_SIZE,         \* the size of the arrays of the program
  NULL

Cell == UNION {Range(Blocks[i]) : i \in DOMAIN Blocks}

ASSUME CollectorAssumption ==
  /\ EXTEND_THRESHOLD \in Nat /\ GO_GEN1 \in Nat \ {0} /\ ARRAY_SIZE \in Nat \ {0}
  /\ Lives \in Nat /\ Lives > GO_GEN1 + 1

(* The cells a calloc returns are new ones *)
ASSUME BlocksAssumption ==
  /\ Blocks \in Seq(Seq(Cell)) /\ Blocks # <<>> /\ IsFiniteSet(Cell) /\ NULL \notin Cell
  /\ \A i \in DOMAIN Blocks : Blocks[i] # <<>> /\ IsInjective(Blocks[i])
  /\ \A i, j \in DOMAIN Blocks : i # j => Range(Blocks[i]) \cap Range(Blocks[j]) = {}

VARIABLES
  heap,      \* the lists, flags and contents of the cells
  stack,     \* the variables
  TMP_DT,    \* the array that is being allocated
  left       \* the elements it still lacks

vars == <<heap, stack, TMP_DT, left>>

(***************************************************************************)
(* A heap: generation links the cells of a list; flags_life is the set     *)
(* marked, the set allocating and the count life; refs are the elements of *)
(* a list or an array; pdata is the cell whose link the scan sets next,    *)
(* NULL for the head of generation0.                                       *)
(***************************************************************************)

(* Cell i of a block is linked to the next *)
Linked(gen, block) ==
  [c \in DOMAIN gen |-> IF c \notin Range(block) \/ c = Last(block) THEN gen[c]
                        ELSE block[1 + CHOOSE i \in DOMAIN block : block[i] = c]]

(* The list that begins with c, followed for one cell more *)
Longer(gen, c, list) ==
  LET next == IF list = <<>> THEN c ELSE gen[Last(list)]
  IN  IF next = NULL THEN list ELSE Append(list, next)

(* The cells of a list *)
Chain(gen, c) ==
  LET chain[n \in Nat] == IF n = 0 THEN <<>> ELSE Longer(gen, c, chain[n - 1])
  IN  chain[Cardinality(Cell)]

(* The single cell of VSTACK is the first one, and always in use *)
VSTACK == Blocks[1][1]
-----------------------------------------------------------------------------
(* gc_mark_data and its callers *)

(* What is reached from the cells of a set: an element is followed whether  *)
(* it is marked or not                                                      *)
OneFurther(h, cells) == cells \cup UNION {Range(h.refs[c]) : c \in cells}

Reached(h, cells) ==
  LET reached[n \in Nat] == IF n = 0 THEN cells ELSE OneFurther(h, reached[n - 1])
  IN  reached[Cardinality(Cell)]

(* Mutant of Roots: not the array that is being allocated *)
RootsOfStack(h) == {stack[x] : x \in {x \in Slot : stack[x] \notin h.marked \cup {NULL}}}

(* JD_gc_thread and JD_gc_vstack: where marking begins; a variable whose    *)
(* cell is marked is passed over                                            *)
Roots(h) == {stack[x] : x \in {x \in Slot : stack[x] \notin h.marked \cup {NULL}}}
              \cup ({TMP_DT} \ {NULL})

Marked(h) == [h EXCEPT !.marked = @ \cup Reached(h, Roots(h)) \cup {VSTACK},
                       !.life[VSTACK] = 0]
-----------------------------------------------------------------------------
(* scan_generation0 *)

(* *pdata = c *)
SetLink(h, c) ==
  IF h.pdata = NULL THEN [h EXCEPT !.generation0 = c] ELSE [h EXCEPT !.generation[h.pdata] = c]

Unflagged(h, c) == [h EXCEPT !.marked = @ \ {c}, !.life[c] = 0]

(* dealloc_data_field, and the cell to the free ones *)
Freed(h, c) ==
  [h EXCEPT !.marked = @ \ {c}, !.allocating = @ \ {c}, !.life[c] = 0,
            !.kind[c] = "unknown", !.refs[c] = <<>>,
            !.generation[c] = h.free_data_top, !.free_data_top = c, !.data_count = @ + 1]

ToGeneration1(h, c) == [h EXCEPT !.generation[c] = h.generation1, !.generation1 = c]

(* JD_move_data_to_gen1 *)
MoveToGeneration1(h, c) ==
  LET before == {d \in Range(Chain(h.generation, h.generation0)) : h.generation[d] = c}
  IN  IF h.generation0 = c
      THEN ToGeneration1([h EXCEPT !.generation0 = h.generation[c]], c)
      ELSE IF before = {} THEN h
      ELSE LET d == CHOOSE d \in before : TRUE
           IN  Unflagged(ToGeneration1([h EXCEPT !.generation[d] = h.generation[c],
                 !.last_generation0 = IF h.generation[c] = NULL THEN d ELSE @], c), c)

(* JD_move_array_data_to_gen1 *)
MoveArray(h, c) == FoldLeft(MoveToGeneration1, h, Append(h.refs[c], c))

(* Mutant of GoesToGeneration1: a list goes there too *)
GoesToGeneration1List(h, c) == h.kind[c] \in {"single", "list"} /\ h.life[c] + 1 > GO_GEN1

GoesToGeneration1(h, c) == h.kind[c] = "single" /\ h.life[c] + 1 > GO_GEN1

ArrayGoesToGeneration1(h, c) ==
  h.kind[c] = "array" /\ c \in h.allocating /\ h.life[c] + 1 > GO_GEN1

(* Mutant of Kept: "*pdata = last_generation0 = data" sets no link *)
KeptUnlinked(h, c) ==
  [h EXCEPT !.last_generation0 = c, !.marked = @ \ {c},
            !.life[c] = (@ + 1) % Lives, !.generation[c] = NULL, !.pdata = c]

Kept(h, c) ==
  [SetLink(h, c) EXCEPT !.last_generation0 = c, !.marked = @ \ {c},
                        !.life[c] = (@ + 1) % Lives, !.generation[c] = NULL, !.pdata = c]

(* What the scan does to one cell *)
Scanned(h, c) ==
  IF c \notin h.marked THEN Freed(h, c)
  ELSE IF GoesToGeneration1(h, c) THEN Unflagged(ToGeneration1(h, c), c)
  ELSE IF ArrayGoesToGeneration1(h, c)
       THEN MoveArray(Unflagged(ToGeneration1(SetLink(h, h.generation[c]), c), c), c)
  ELSE Kept(h, c)

(* "data = next", where next was the link before: s is the heap and data *)
Advanced(s) ==
  IF s.data = NULL THEN s
  ELSE [heap |-> Scanned(s.heap, s.data), data |-> s.heap.generation[s.data]]

(* A scan that strays into generation1 passes cells a second time *)
Scan(h, c) ==
  LET scan[n \in Nat] == IF n = 0 THEN [heap |-> h, data |-> c] ELSE Advanced(scan[n - 1])
  IN  scan[2 * Cardinality(Cell)].heap

(* JD_run_garbage_collection *)
Collected(h) ==
  LET start == [Marked(h) EXCEPT !.data_count = 0, !.pdata = NULL, !.last_generation0 = NULL]
  IN  Unflagged(Scan(start, h.generation0), VSTACK)
-----------------------------------------------------------------------------
(* extend_data_allocation: the next block behind the free cells *)
Extended(h) ==
  LET free == Chain(h.generation, h.free_data_top)
      block == Blocks[h.blocks + 1]
      first == IF free = <<>> THEN h.generation ELSE [h.generation EXCEPT ![Last(free)] = Head(block)]
  IN  [h EXCEPT !.blocks = @ + 1, !.generation = Linked(first, block),
                !.free_data_top = IF free = <<>> THEN Head(block) ELSE @]

MustExtend(h) == h.free_data_top = NULL \/ h.data_count < EXTEND_THRESHOLD

(* The heap in which there is a free cell, after a collection if need be;   *)
(* what the collection counted is not used again                            *)
Prepared(h) ==
  IF h.free_data_top # NULL THEN h
  ELSE LET c == Collected(h)
       IN  [IF MustExtend(c) THEN Extended(c) ELSE c EXCEPT !.pdata = NULL, !.data_count = 0]

(* There is memory for it: else the program ends *)
HasMemory(h) ==
  h.free_data_top = NULL /\ MustExtend(Collected(h)) => h.blocks < Len(Blocks)

(* JD_alloc_data_entry on a prepared heap: the cell and the heap after it *)
NewCell(h) == h.free_data_top

Allocated(h, kind) ==
  LET c == NewCell(h) IN
  [h EXCEPT !.free_data_top = h.generation[c],
            !.generation0 = IF @ = NULL THEN c ELSE @,
            !.last_generation0 = c,
            !.generation = [d \in Cell |-> IF d = c THEN NULL
                                           ELSE IF d = h.last_generation0 THEN c ELSE h.generation[d]],
            !.kind[c] = kind]
-----------------------------------------------------------------------------
Init ==
  LET first == Blocks[1]
      empty == [c \in Cell |-> NULL]
      fresh == [generation |-> Linked(empty, first), free_data_top |-> first[1],
                generation0 |-> NULL, generation1 |-> NULL, last_generation0 |-> NULL,
                marked |-> {}, allocating |-> {}, life |-> [c \in Cell |-> 0],
                kind |-> [c \in Cell |-> "unknown"], refs |-> [c \in Cell |-> <<>>],
                data_count |-> 0, blocks |-> 1, pdata |-> NULL]
  IN  /\ heap = Allocated(fresh, "single")       \* of VSTACK
      /\ stack = [x \in Slot |-> NULL]
      /\ TMP_DT = NULL /\ left = 0

Busy == left > 0

(* A variable gets new single data, or an empty list *)
Create(x, kind) ==
  /\ ~Busy /\ stack[x] = NULL /\ HasMemory(heap)
  /\ LET h == Prepared(heap) IN
     /\ heap' = Allocated(h, kind)
     /\ stack' = [stack EXCEPT ![x] = NewCell(h)]
  /\ UNCHANGED <<TMP_DT, left>>

(* The function that has the variable returns *)
Drop(x) ==
  /\ ~Busy /\ stack[x] # NULL
  /\ stack' = [stack EXCEPT ![x] = NULL]
  /\ UNCHANGED <<heap, TMP_DT, left>>

(* JD_sc_list_mf_push *)
Push(x) ==
  /\ ~Busy /\ stack[x] # NULL /\ heap.kind[stack[x]] = "list"
  /\ HasMemory(heap)
  /\ LET h == Prepared(heap) IN
     heap' = [Allocated(h, "single") EXCEPT !.refs[stack[x]] = Append(@, NewCell(h))]
  /\ UNCHANGED <<stack, TMP_DT, left>>

(* JD_sc_list_mf_pop: its element comes to another variable *)
Pop(x, y) ==
  /\ ~Busy /\ stack[x] # NULL /\ heap.refs[stack[x]] # <<>> /\ heap.kind[stack[x]] = "list"
  /\ stack[y] = NULL
  /\ stack' = [stack EXCEPT ![y] = Head(heap.refs[stack[x]])]
  /\ heap' = [heap EXCEPT !.refs[stack[x]] = Tail(@)]
  /\ UNCHANGED <<TMP_DT, left>>

(* JD_alloc_array_int: the array, then an element at a time, and in the end *)
(* the variable                                                             *)
BeginArray ==
  /\ ~Busy /\ (\E x \in Slot : stack[x] = NULL) /\ HasMemory(heap)
  /\ LET h == Prepared(heap) IN
     /\ heap' = [Allocated(h, "array") EXCEPT !.allocating = @ \cup {NewCell(h)}]
     /\ TMP_DT' = NewCell(h)
  /\ left' = ARRAY_SIZE
  /\ UNCHANGED stack

AddElement(x) ==
  /\ Busy /\ stack[x] = NULL /\ HasMemory(heap)
  /\ LET h == Prepared(heap)
         more == [Allocated(h, "single") EXCEPT !.refs[TMP_DT] = Append(@, NewCell(h))]
     IN  IF left > 1
         THEN heap' = more /\ UNCHANGED <<stack, TMP_DT>>
         ELSE /\ heap' = [more EXCEPT !.allocating = @ \ {TMP_DT}]
              /\ stack' = [stack EXCEPT ![x] = TMP_DT]
              /\ UNCHANGED TMP_DT
  /\ left' = left - 1

Next == \/ \E x \in Slot : \/ \E kind \in {"single", "list"} : Create(x, kind)
                           \/ Drop(x) \/ Push(x) \/ AddElement(x)
                           \/ \E y \in Slot : Pop(x, y)
        \/ BeginArray

Spec == Init /\ [][Next]_vars
-----------------------------------------------------------------------------
Live == Reached(heap, ({stack[x] : x \in Slot} \cup {TMP_DT, VSTACK}) \ {NULL})

Free == Chain(heap.generation, heap.free_data_top)
Young == Chain(heap.generation, heap.generation0)
Old == Chain(heap.generation, heap.generation1)

(* No cell that the program can still reach is free, whatever generation it *)
(* and the cells that refer to it have reached and whatever marks are left  *)
(* of earlier collections.                                                  *)
NoLiveFreed == Live \cap Range(Free) = {}

(* Every cell handed to the program is in one list, once: a scan that       *)
(* relinks one list while it moves cells to two others loses none.          *)
OneList ==
  LET all == Free \o Young \o Old
  IN  /\ IsInjective(all)
      /\ Range(all) = UNION {Range(Blocks[i]) : i \in 1 .. heap.blocks}

(* "This prevents from the array data being moved to gen1 (partially) while *)
(* it's being allocated"                                                    *)
AllocatingStays == Busy => TMP_DT \in Range(Young)
=============================================================================
