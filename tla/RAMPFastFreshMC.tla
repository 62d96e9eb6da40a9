-------------------------- MODULE RAMPFastFreshMC ---------------------------
(***************************************************************************)
(* Instances of RAMPFastFresh for TLC, over the keys and transactions of   *)
(* RAMPFastMC.                                                             *)
(***************************************************************************)
EXTENDS RAMPFastMC, RAMPFastFreshInv
=============================================================================
