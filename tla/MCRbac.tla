------------------------------- MODULE MCRbac -------------------------------
(***************************************************************************)
(* Rbac on a small instance: requests, replicas and role ids are each      *)
(* interchangeable.                                                        *)
(***************************************************************************)
EXTENDS Rbac, TLC

Symmetry == Permutations(Requests) \cup Permutations(Replicas) \cup Permutations(Roles)
=============================================================================
