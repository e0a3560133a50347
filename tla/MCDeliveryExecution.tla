------------------------ MODULE MCDeliveryExecution ------------------------
(***************************************************************************)
(* Instances of DeliveryExecution for TLC.                                 *)
(***************************************************************************)
EXTENDS DeliveryExecution, TLC

CONSTANTS e1, e2, s1, s2, w1, w2

Mixed == [d \in Deliveries |-> IF d \in {s1, s2} THEN "SMS" ELSE "EMAIL"]
EmailOnly == [d \in Deliveries |-> "EMAIL"]

Swaps == Permutations(Deliveries) \cup Permutations(Workers)

=============================================================================
