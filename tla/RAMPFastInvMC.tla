--------------------------- MODULE RAMPFastInvMC ----------------------------
(***************************************************************************)
(* Instances of RAMPFastInv for TLC, over the keys and transactions of     *)
(* RAMPFastMC.                                                             *)
(***************************************************************************)
EXTENDS RAMPFastMC, RAMPFastInv, RAMPFastVisible
=============================================================================
