------------------------------ MODULE MCQueue ------------------------------
(* Instances of OpportunityQueue for TLC.                                  *)
EXTENDS OpportunityQueue, TLC

Swaps == Permutations(Items) \cup Permutations(Matchers) \cup Permutations(Deciders)

=============================================================================
