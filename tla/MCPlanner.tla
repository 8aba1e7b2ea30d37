----------------------------- MODULE MCPlanner -----------------------------
(* Planner on small sets.                                                    *)
EXTENDS Planner, TLC

(* Any entities, not yet related.                                           *)
MCInitialGraphs == {g \in Graph : g.relations = {}}

Symmetry == Permutations(Names) \cup Permutations(Types)
=============================================================================
