----------------------------- MODULE MCCollector -----------------------------
(* Instances of Collector for TLC *)
EXTENDS Collector, TLC

Symmetry == Permutations(Slot)

(* A first block for VSTACK and two more cells, then a block of two *)
TwoByTwo == << <<1, 2, 3>>, <<4, 5>> >>

(* More of them, for the longer array *)
ThreeByTwo == << <<1, 2, 3>>, <<4, 5>>, <<6, 7>> >>
=============================================================================
