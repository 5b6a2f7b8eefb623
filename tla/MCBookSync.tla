----------------------------- MODULE MCBookSync -----------------------------
(***************************************************************************)
(* Instances of BookSync for TLC.                                          *)
(***************************************************************************)
EXTENDS BookSync, TLC

CONSTANTS a, b

MarketSymmetry == Permutations(Markets)
=============================================================================
