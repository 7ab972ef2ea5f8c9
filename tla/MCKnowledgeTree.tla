--------------------------- MODULE MCKnowledgeTree ---------------------------
(* KnowledgeTree on small instances. *)
EXTENDS KnowledgeTree

Symmetry == Permutations(Folders) \cup Permutations(Calls) \cup Permutations(Names)

\* Every small forest with document 1 in it, and document 2 beside it or yet to come.
MCInit == Init /\ parent[1] # None /\ parent[2] \in {parent[1], None}
MCSpec == MCInit /\ [][Next]_vars
=============================================================================
