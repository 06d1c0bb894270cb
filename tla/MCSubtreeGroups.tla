--------------------------- MODULE MCSubtreeGroups ---------------------------
(***************************************************************************)
(* Instances of SubtreeGroups for TLC.                                     *)
(***************************************************************************)
EXTENDS SubtreeGroups, TLC

CONSTANTS l1, l2
=============================================================================
