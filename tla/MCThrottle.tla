----------------------------- MODULE MCThrottle -----------------------------
(***************************************************************************)
(* Throttle on a small instance.  Liveness is checked, so there is no      *)
(* symmetry.                                                               *)
(***************************************************************************)
EXTENDS Throttle
=============================================================================
