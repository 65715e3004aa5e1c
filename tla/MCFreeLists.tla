---------------------------- MODULE MCFreeLists -----------------------------
(***************************************************************************)
(* Instance of FreeLists for TLC: red zones of one word, two lists (blocks *)
(* of 8 and of 16 bytes) and two blocks to a region, in memory for three   *)
(* regions.                                                                *)
(***************************************************************************)
EXTENDS FreeLists

MCBuilds == {[fastCheck |-> FALSE, ASANCheck |-> TRUE, useRegistration |-> TRUE]}

=============================================================================
