--------------------------- MODULE MCOwnedService ---------------------------
(* OwnedService for TLC. *)
EXTENDS OwnedService

CONSTANTS r1, r2, s1
=============================================================================
