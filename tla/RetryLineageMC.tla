--------------------------- MODULE RetryLineageMC ---------------------------
(* The TLC instance of RetryLineage: all five callers of a retry.          *)
EXTENDS RetryLineage, TLC

AllKinds == {"manual", "replace", "failover", "quality", "kanban"}
Symmetry == Permutations(Requests) \cup Permutations(Agents)
=============================================================================
