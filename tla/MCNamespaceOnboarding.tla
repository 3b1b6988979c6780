----------------------- MODULE MCNamespaceOnboarding -----------------------
(* Two resources, one of which may be typed in two ways; symmetry of the    *)
(* wizards, for the safety properties.                                      *)
EXTENDS NamespaceOnboarding, TLC

CONSTANTS arm1, arm2, ARM1
Spellings == (ARM1 :> arm1) @@ (arm1 :> arm1) @@ (arm2 :> arm2)
Symmetry == Permutations(Wizard)
=============================================================================
