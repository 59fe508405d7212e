--------------------------- MODULE MCCyclicRandom ---------------------------
(* Registers of one to three bits in words of three, with and without ranges *)
EXTENDS CyclicRandom

(* random.c:1462-1464 *)
FirstPolynomials == <<{0}, {1}, {1}>>

(* Together two, three and five elements; 3 and 7 are the numbers of states *)
MCSpans == {<<0, 2>>, <<2, 1>>, <<4, 3>>}

(* No condition, and two that leave little or, with some ranges, nothing    *)
MCConditions == {0..7, {0}, {6}}
=============================================================================
