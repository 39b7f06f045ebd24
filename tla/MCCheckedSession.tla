-------------------------- MODULE MCCheckedSession --------------------------
(* CheckedSession for TLC: two tests, two planned cases, two checks,        *)
(* evidence of this invocation and of another one.                          *)
EXTENDS CheckedSession, TLC

CONSTANTS c1, c2, n1, n2, k1, k2, d1, this, other

Symmetry == Permutations({c1, c2}) \cup Permutations({n1, n2}) \cup Permutations({k1, k2})
=============================================================================
