---------------------------- MODULE MCGapRecovery ----------------------------
(* Instances of GapRecovery for TLC: one flow, up to three endpoints.       *)
EXTENDS GapRecovery, TLC

CONSTANTS e1, e2, e3

SomeHolders == {{}, {e2}, {e3}, {e1, e3}}
NoHolders == {{}}
FirstHolds == {{}, {e1}}
OnlyTwo == {<<e1, e2>>}
NoneOrThree == {<<>>, <<e1, e2, e3>>}
=============================================================================
