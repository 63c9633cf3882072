---------------------------- MODULE MCExploreIrq ----------------------------
(* Instances of ExploreIrq for TLC.                                        *)
EXTENDS ExploreIrq

CONSTANTS low, high
=============================================================================
