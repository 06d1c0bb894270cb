---------------------------- MODULE MCGapTracker ----------------------------
(***************************************************************************)
(* GapTracker for TLC: one flow, and a registry that knows one endpoint or *)
(* none.                                                                   *)
(***************************************************************************)
EXTENDS GapTracker, TLC

CONSTANTS e1

UpToOne == {<<>>, <<e1>>}
=============================================================================
