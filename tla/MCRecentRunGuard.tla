-------------------------- MODULE MCRecentRunGuard --------------------------
(* Small instance of RecentRunGuard for TLC. *)
EXTENDS RecentRunGuard, TLC

Symmetry == Permutations(Keys) \cup Permutations(Callers)
=============================================================================
