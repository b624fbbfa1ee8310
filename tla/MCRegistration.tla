--------------------------- MODULE MCRegistration ---------------------------
(***************************************************************************)
(* Registration on a small instance: one client sends an Idempotency-Key   *)
(* and an address, the other neither, and both want the same name.         *)
(* Liveness is checked, so there is no symmetry.                           *)
(***************************************************************************)
EXTENDS Registration, TLC

CONSTANTS c1, c2, n1, m1

MCBody == (c1 :> [name |-> {n1}, mail |-> {m1}]) @@ (c2 :> [name |-> {n1}, mail |-> {}])
=============================================================================
