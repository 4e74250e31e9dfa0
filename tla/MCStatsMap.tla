----------------------------- MODULE MCStatsMap -----------------------------
(* TLC instances of StatsMap. *)
EXTENDS StatsMap, TLC

Symmetry == Permutations(CPUs) \cup Permutations(Keys)
=============================================================================
