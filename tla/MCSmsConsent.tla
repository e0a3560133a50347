---------------------------- MODULE MCSmsConsent ----------------------------
(***************************************************************************)
(* Instances of SmsConsent for TLC.                                        *)
(***************************************************************************)
EXTENDS SmsConsent, TLC

CONSTANTS k1, k2, k3, a, b

Swaps == Permutations(Messages) \cup Permutations(Mobiles)

=============================================================================
