----------------------------- MODULE MCSessions -----------------------------
(***************************************************************************)
(* Sessions on small instances: ids, tokens and requests are all           *)
(* interchangeable.                                                        *)
(***************************************************************************)
EXTENDS Sessions, TLC

Symmetry == Permutations(Sessions) \cup Permutations(Tokens) \cup Permutations(Requests)
=============================================================================
