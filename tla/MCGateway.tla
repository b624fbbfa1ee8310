------------------------------ MODULE MCGateway -----------------------------
(***************************************************************************)
(* Gateway on a small instance: two tokens of one user, one of which may   *)
(* only read the profile, and one session that may be refreshed while it   *)
(* is revoked.  Liveness is checked, so there is no symmetry.              *)
(***************************************************************************)
EXTENDS Gateway, TLC

CONSTANTS u1, t1, t2

MCSubject == [t \in {t1, t2} |-> u1]
MCScope == (t1 :> Scopes) @@ (t2 :> {SCOPE_PROFILE})
=============================================================================
