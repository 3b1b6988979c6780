------------------------- MODULE MCEntityCuration --------------------------
(* The owner of one of two services, and an administrator.                 *)
EXTENDS EntityCuration, TLC

CONSTANTS owner, admin, s1, s2
Owners == (owner :> {s1}) @@ (admin :> {})
=============================================================================
