------------------------- MODULE MCEntityDiscovery -------------------------
(* Symmetry of the executions, for the safety properties.                  *)
EXTENDS EntityDiscovery, TLC

Symmetry == Permutations(Run)
=============================================================================
