-------------------------- MODULE MCDiscoveryLock --------------------------
(* Symmetry of the requests, for the safety properties of DiscoveryLock.   *)
EXTENDS DiscoveryLock, TLC

Symmetry == Permutations(Request)
=============================================================================
