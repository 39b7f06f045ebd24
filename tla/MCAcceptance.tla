---------------------------- MODULE MCAcceptance ----------------------------
(* Acceptance for TLC. *)
EXTENDS Acceptance
=============================================================================
