------------------------------ MODULE MCBridge ------------------------------
(***************************************************************************)
(* Bridge on a small instance; everybody is interchangeable.               *)
(***************************************************************************)
EXTENDS Bridge, TLC

Symmetry == Permutations(Users) \cup Permutations(Flows)
            \cup Permutations(Sessions) \cup Permutations(Requests)
=============================================================================
