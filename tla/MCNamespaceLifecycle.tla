------------------------ MODULE MCNamespaceLifecycle ------------------------
(* Symmetry of the administrators, for the safety properties.               *)
EXTENDS NamespaceLifecycle, TLC

Symmetry == Permutations(Admin)
=============================================================================
