-------------------------- MODULE MCCommunityFeed --------------------------
(* CommunityFeed for TLC: two pages, two overlapping loads and one action   *)
(* each.                                                                    *)
EXTENDS CommunityFeed, TLC

CONSTANTS p1, p2

Symmetry == Permutations(Pages)
=============================================================================
