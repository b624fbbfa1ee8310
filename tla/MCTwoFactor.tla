---------------------------- MODULE MCTwoFactor ----------------------------
(***************************************************************************)
(* TwoFactor on small instances: requests and challenges are               *)
(* interchangeable.                                                        *)
(***************************************************************************)
EXTENDS TwoFactor, TLC

Symmetry == Permutations(Requests) \cup Permutations(Challenges)
=============================================================================
