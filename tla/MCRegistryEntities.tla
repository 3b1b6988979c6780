------------------------- MODULE MCRegistryEntities -------------------------
(* Symmetry of the tabs and of the namespaces, for the safety properties.   *)
EXTENDS RegistryEntities, TLC

Symmetry == Permutations(Tab) \cup Permutations(Namespace)
=============================================================================
