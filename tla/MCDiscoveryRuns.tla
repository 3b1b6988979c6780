-------------------------- MODULE MCDiscoveryRuns --------------------------
(* Model values and symmetry for checking DiscoveryRuns.                   *)
EXTENDS DiscoveryRuns, TLC

Symmetry == Permutations(Request) \cup Permutations(Worker)
=============================================================================
