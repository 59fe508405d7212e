----------------------------- MODULE MCInterface -----------------------------
(* Instances of Interface for TLC *)
EXTENDS Interface, TLC

Symmetry == Permutations(Thread)
=============================================================================
