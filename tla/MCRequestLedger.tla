-------------------------- MODULE MCRequestLedger --------------------------
(* Instances of RequestLedger for TLC. *)
EXTENDS RequestLedger, TLC

CONSTANTS c1, c2, r1, r2, q1, q2, v1, v2

(* Callers, requests and fingerprints are only compared with each other.    *)
Symmetry == Permutations(Callers) \cup Permutations(Requests) \cup Permutations(Values)
=============================================================================
