--------------------------- MODULE MCCredentials ----------------------------
(***************************************************************************)
(* Credentials on a small instance.  Liveness is checked, so there is no   *)
(* symmetry.                                                               *)
(***************************************************************************)
EXTENDS Credentials
=============================================================================
