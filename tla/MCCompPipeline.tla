--------------------------- MODULE MCCompPipeline ---------------------------
(***************************************************************************)
(* Instances of CompPipeline for TLC.                                      *)
(***************************************************************************)
EXTENDS CompPipeline, TLC

CONSTANTS p1, p2, w1, w2, q1, q2

Swaps == Permutations(Listings) \cup Permutations(Workers) \cup Permutations(Retriers)

=============================================================================
