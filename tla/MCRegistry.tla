----------------------------- MODULE MCRegistry -----------------------------
(* Registry for TLC: the addresses and the threads are interchangeable.     *)
EXTENDS Registry, TLC

MCPackIdxs == {-1, 0, 1}

Symmetry == Permutations(Ptr) \cup Permutations(Threads)
=============================================================================
