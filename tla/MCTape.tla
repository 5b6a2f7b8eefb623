------------------------------- MODULE MCTape -------------------------------
(***************************************************************************)
(* Instances of Tape for TLC.                                              *)
(***************************************************************************)
EXTENDS Tape, TLC

CONSTANTS a, b

MarketSymmetry == Permutations(Markets)
=============================================================================
