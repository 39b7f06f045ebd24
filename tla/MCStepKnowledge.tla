-------------------------- MODULE MCStepKnowledge --------------------------
(* StepKnowledge over AttemptRunner for TLC. *)
EXTENDS StepKnowledge, TLC

CONSTANTS p1, p2, a

(* Promoters are only told apart. *)
Symmetry == Permutations(Promoters)
=============================================================================
