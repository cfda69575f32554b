--------------------------- MODULE MCReviewQueues ---------------------------
(* Instances of ReviewQueues for TLC.                                      *)
EXTENDS ReviewQueues, TLC

MCSymmetry == Permutations(Operators) \cup Permutations(Replays \ AutoReplayed)
=============================================================================
