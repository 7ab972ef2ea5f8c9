-------------------------- MODULE MCDocumentIngest --------------------------
(* DocumentIngest on small instances. *)
EXTENDS DocumentIngest, TLC

Symmetry == Permutations(Writers) \cup Permutations(Ingests)
=============================================================================
