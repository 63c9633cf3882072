----------------------------- MODULE MCVmeAddr ------------------------------
(* Instances of VmeAddr for TLC.                                           *)
EXTENDS VmeAddr

CONSTANTS a, b
=============================================================================
