----------------------------- MODULE MCThreads -----------------------------
(* Instances of Threads for TLC *)
EXTENDS ThreadsInvariant, TLC

Symmetry == Permutations(Thread \ {Main})

(* JD_count_timeq goes on counting below zero when the top of the time-out  *)
(* queue was damaged; the model stops doing so at -2                        *)
CountBound == timeq.head # None => timeq.count[timeq.head] >= -2
=============================================================================
