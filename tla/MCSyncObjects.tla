--------------------------- MODULE MCSyncObjects ---------------------------
(* Instances of SyncObjects for TLC *)
EXTENDS SyncObjects

Symmetry == Permutations(Thread \ {Main}) \cup Permutations(Regions)
=============================================================================
