----------------------------- MODULE MCAccounts -----------------------------
(***************************************************************************)
(* Accounts on small instances.  The requests are interchangeable, and so  *)
(* are the backup codes of an enrolment.                                   *)
(***************************************************************************)
EXTENDS Accounts, TLC

RequestSymmetry == Permutations(Requests) \cup Permutations(Codes)
=============================================================================
