---------------------------- MODULE MCEbayClient ----------------------------
(***************************************************************************)
(* An instance of EbayClient for TLC.                                      *)
(***************************************************************************)
EXTENDS EbayClient

CONSTANTS c1, c2, c3

=============================================================================
