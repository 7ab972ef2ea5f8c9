----------------------------- MODULE MCAccount -----------------------------
(* Account on small instances. *)
EXTENDS Account, TLC

Symmetry == Permutations(Calls) \cup Permutations(Agents)
=============================================================================
