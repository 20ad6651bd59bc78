--------------------------- MODULE MCBurnPricing ---------------------------
(* Small widths that keep the order of the real ones: the two checked products can
   overflow, the unchecked ones cannot. *)
EXTENDS BurnPricing

CONSTANTS MaxMiners, MCUids, MCWeights

MCMiners == [uid: MCUids, weight: MCWeights]
MCMinerLists == UNION {[1..n -> MCMiners] : n \in 0..MaxMiners}
=============================================================================
