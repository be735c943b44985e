----------------------- MODULE MCPreparationRegistry ------------------------
(* The registry with threads and owners as model values. *)
EXTENDS PreparationRegistry, TLC

Symmetry == Permutations(Threads) \cup Permutations(Owners)
=============================================================================
