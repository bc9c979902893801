------------------------------- MODULE MCPages -------------------------------
(* Pages for TLC: the threads of a kind are interchangeable. *)
EXTENDS Pages, TLC

Symmetry == Permutations(KThread) \cup Permutations(Process)
=============================================================================
