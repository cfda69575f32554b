-------------------------- MODULE SynthesisPolicy --------------------------
(* The confidence policy on a validated verdict (src/models/synthesis.py): *)
(* cap the confidence on an incomplete trace, then abstain if it is too    *)
(* low.  Confidences are integers, tenths say; a verdict may have none.    *)
EXTENDS Integers

CONSTANTS Threshold,   \* SYNTHESIS_CONFIDENCE_THRESHOLD; 0 disables abstention
          Ceiling      \* SYNTHESIS_GAP_CONFIDENCE_CEILING

ASSUME PolicyAssumption == Threshold \in Nat /\ Ceiling \in Nat

Unstated == -1   \* the model gave no confidence

(* The confidence supported by a trace with or without evidence gaps.      *)
Capped(c, gaps) == IF gaps /\ c > Ceiling THEN Ceiling ELSE c

(* Below this, route to manual review instead of acting.                   *)
Abstains(c) == Threshold > 0 /\ c # Unstated /\ c < Threshold

(* Mutated form: abstain on the stated confidence, then cap.               *)
AbstainThenCap(v, gaps) ==
    [v EXCEPT !.confidence = Capped(v.confidence, gaps),
              !.abstained = Abstains(v.confidence),
              !.action = IF Abstains(v.confidence) THEN "MANUAL_REVIEW" ELSE @]

ApplyPolicy(v, gaps) ==
    LET c == Capped(v.confidence, gaps) IN
    [v EXCEPT !.confidence = c,
              !.abstained = Abstains(c),
              !.action = IF Abstains(c) THEN "MANUAL_REVIEW" ELSE @]
=============================================================================
