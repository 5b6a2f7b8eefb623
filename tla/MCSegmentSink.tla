--------------------------- MODULE MCSegmentSink ---------------------------
(***************************************************************************)
(* Instances of SegmentSink for TLC.                                       *)
(***************************************************************************)
EXTENDS SegmentSink
=============================================================================
