------------------------------- MODULE MCTurn -------------------------------
(* Turn on small instances. *)
EXTENDS Turn, TLC

Symmetry == Permutations(Turns) \cup Permutations(Instances) \cup Permutations(Counts)
=============================================================================
