----------------------------- MODULE MCRunbooks -----------------------------
(* Instances of Runbooks for TLC.                                          *)
EXTENDS Runbooks, TLC

CONSTANTS row1, row2
MCAppliesTo == row1 :> {"U"} @@ row2 :> {}
MCRules     == {{}, {row1}, {row1, row2}}
=============================================================================
