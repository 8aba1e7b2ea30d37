----------------------------- MODULE MCRunQueue -----------------------------
(* RunQueue on small sets.  Every worker uses one owner name, as main.rs    *)
(* does, so only the epoch tells their leases apart.                       *)
EXTENDS RunQueue, TLC

CONSTANTS service

MCOwnerOf == [w \in Workers |-> service]

(* Run ids and workers are interchangeable.                                *)
Symmetry == Permutations(RunIds) \cup Permutations(Workers)
=============================================================================
