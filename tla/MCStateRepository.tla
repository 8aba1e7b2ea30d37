------------------------- MODULE MCStateRepository -------------------------
(* StateRepository on small sets, one owner name for every worker.          *)
EXTENDS StateRepository, TLC

CONSTANTS service

MCOwnerOf == [w \in Workers |-> service]

Symmetry == Permutations(RunIds) \cup Permutations(Workers) \cup Permutations(Hashes)
=============================================================================
