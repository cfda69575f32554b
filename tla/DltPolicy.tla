----------------------------- MODULE DltPolicy -----------------------------
(* The pure decisions of the dead-letter flow: the class of a failure      *)
(* (src/dlt/classify.py), its corroboration by the logs (corroborate.py),  *)
(* the treatment it gets (reuse.py, canned.py), the confidence its         *)
(* evidence supports (src/models/dlt_synthesis.py) and the gate to an      *)
(* automatic replay (auto_replay.py).  Scores are integers in thousandths. *)
EXTENDS Integers

CONSTANTS
    ClassBCeiling, UnverifiedCeiling, ContradictedCeiling, RegistryMissCeiling,
    GapCeiling,          \* the highest score by kind of evidence
    ReuseDecay,          \* DLT_REUSE_DECAY, in hundredths
    ReuseEnabled,        \* DLT_REUSE_ENABLED
    CatalogClassifies,   \* DLT_REASON_CODE_CLASSIFY
    AutoReplayEnabled,   \* DLT_AUTO_REPLAY_ENABLED
    ReplayActions,       \* DLT_REPLAY_ACTIONS
    ReplayThreshold      \* DLT_REPLAY_CONFIDENCE_THRESHOLD

Scores == 0 .. 1000

ASSUME CeilingsAssumption ==
    {ClassBCeiling, UnverifiedCeiling, ContradictedCeiling, RegistryMissCeiling,
     GapCeiling} \subseteq Scores
ASSUME ReuseAssumption == ReuseDecay \in 0 .. 100 /\ ReuseEnabled \in BOOLEAN
ASSUME CatalogAssumption == CatalogClassifies \in BOOLEAN
ASSUME ReplayAssumption == AutoReplayEnabled \in BOOLEAN /\ ReplayThreshold \in Int

NoScore == -1   \* confidence None: no model produced the finding

Classes  == {"A", "B", "C", "U"}
Verdicts == {"CORROBORATED", "PARTIAL", "CONTRADICTED", "UNVERIFIABLE"}
Actions  == {"NEEDS_MANUAL_REVIEW", "ROUTE_TO_DEV", "REDRIVE_AFTER_RECOVERY",
             "DATA_FIX_REQUIRED", "NO_ACTION"}
Labels   == {"class", "unverifiable", "contradicted", "registry_miss", "evidence_gap",
             "reuse_decay"}

Findings == [action : Actions, confidence : Scores \cup {NoScore},
             discrepancy : BOOLEAN, ceilings : SUBSET Labels]

----------------------------------------------------------------------------
(* A failure is what the parsed trace and the catalog say: the exception   *)
(* at the root (business, mapped to a class, or other), an enumerated      *)
(* code, the class the catalog gives that code, and its description.       *)
Failures == [root : {"none", "business", "A", "B", "C", "other"}, code : BOOLEAN,
             catalog : {"none", "A", "C"}, described : BOOLEAN]

(* No headers: nothing to parse.                                           *)
Unparsed == [root |-> "none", code |-> FALSE, catalog |-> "none", described |-> FALSE]

(* The catalog moves a coded business failure from A to C, nothing else.   *)
ClassOf(f) ==
    LET coded == f.code /\ f.root \in {"none", "business"} IN
    IF coded /\ CatalogClassifies /\ f.catalog = "C" THEN "C"
    ELSE IF coded \/ f.root = "business" THEN "A"
    ELSE IF f.root \in {"A", "B", "C"} THEN f.root
    ELSE "U"

(* Only a business failure keeps its code, and only a code is looked up.   *)
RegistryHit(f) == f.code /\ f.described /\ f.root \in {"none", "business", "A"}

----------------------------------------------------------------------------
(* fetched_logs.txt: absent, a note that the fetch was skipped or failed,  *)
(* a note that it found no line, or lines: whether an error line names the *)
(* declared root, or another exception, and whether the trace is gapped.   *)
Logs == [kind : {"absent", "skipped", "empty", "lines"}, declared : BOOLEAN,
         others : BOOLEAN, gapped : BOOLEAN]

NoLogs(kind) == [kind |-> kind, declared |-> FALSE, others |-> FALSE, gapped |-> FALSE]

Corroborate(l) ==
    IF l.kind = "lines" /\ l.declared
    THEN IF l.others THEN "PARTIAL" ELSE "CORROBORATED"
    ELSE IF l.kind = "lines" /\ l.others THEN "CONTRADICTED"
    ELSE "UNVERIFIABLE"

Discrepant(verdict) == verdict \in {"CONTRADICTED", "PARTIAL"}

----------------------------------------------------------------------------
(* Only class A is worth a model, and not again for a known fingerprint,   *)
(* unless its logs contradict the trace.                                   *)
Decide(class, verdict, onFile) ==
    IF class # "A" THEN "CANNED"
    ELSE IF ReuseEnabled /\ onFile /\ ~Discrepant(verdict) THEN "REUSE_GROUP"
    ELSE "LLM_REQUIRED"

CannedAction(class) ==
    IF class = "C" THEN "REDRIVE_AFTER_RECOVERY"
    ELSE IF class = "B" THEN "ROUTE_TO_DEV"
    ELSE "NEEDS_MANUAL_REVIEW"

Canned(class, verdict) ==
    [action |-> CannedAction(class), confidence |-> NoScore,
     discrepancy |-> Discrepant(verdict), ceilings |-> {}]

(* The analysis lane broke the finding contract, repair included.          *)
FailedSynthesis == [action |-> "NEEDS_MANUAL_REVIEW", confidence |-> 0,
                    discrepancy |-> FALSE, ceilings |-> {}]

----------------------------------------------------------------------------
(* The ceilings that apply to a failure seen with these logs, by label.    *)
Applied(f, verdict, l) ==
    {label \in Labels :
        \/ label = "class" /\ ClassOf(f) \in {"B", "U"}
        \/ label = "unverifiable" /\ verdict = "UNVERIFIABLE"
        \/ label = "contradicted" /\ verdict = "CONTRADICTED"
        \/ label = "registry_miss" /\ ClassOf(f) = "A" /\ ~RegistryHit(f)
        \/ label = "evidence_gap" /\ l.gapped}

Limit == [label \in Labels |->
    CASE label = "class" -> ClassBCeiling
      [] label = "unverifiable" -> UnverifiedCeiling
      [] label = "contradicted" -> ContradictedCeiling
      [] label = "registry_miss" -> RegistryMissCeiling
      [] label = "evidence_gap" -> GapCeiling
      [] OTHER -> 1000]

Cap(score, label, labels) ==
    IF label \in labels /\ Limit[label] < score THEN Limit[label] ELSE score

(* Ceilings compose by taking the minimum.                                 *)
Capped(score, labels) ==
    Cap(Cap(Cap(Cap(Cap(score, "class", labels), "unverifiable", labels),
                "contradicted", labels), "registry_miss", labels), "evidence_gap", labels)

(* Mutated form: a cached finding was capped when it was made.             *)
ApplyToNewOnly(finding, f, verdict, l, reused) ==
    LET labels == Applied(f, verdict, l) IN
    [finding EXCEPT
        !.confidence = IF @ = NoScore THEN NoScore
                       ELSE IF reused THEN (@ * ReuseDecay) \div 100
                       ELSE Capped(@, labels),
        !.ceilings = labels \cup (IF reused THEN {"reuse_decay"} ELSE {})]

(* Decay a reused score, cap it, and route B and U whatever was proposed.  *)
ApplyPolicy(finding, f, verdict, l, reused) ==
    LET labels == Applied(f, verdict, l)
        scored == finding.confidence # NoScore
        score  == IF reused THEN (finding.confidence * ReuseDecay) \div 100
                            ELSE finding.confidence
    IN [finding EXCEPT
          !.confidence = IF scored THEN Capped(score, labels) ELSE NoScore,
          !.ceilings = labels \cup (IF reused /\ scored THEN {"reuse_decay"} ELSE {}),
          !.action = IF ClassOf(f) \in {"B", "U"} /\ @ # "ROUTE_TO_DEV"
                     THEN "NEEDS_MANUAL_REVIEW" ELSE @]

----------------------------------------------------------------------------
(* Whether a final finding is replayed without a human.                    *)
ShouldReplay(finding, identified) ==
    /\ AutoReplayEnabled /\ identified
    /\ finding.action \in ReplayActions
    /\ finding.confidence # NoScore /\ finding.confidence >= ReplayThreshold
=============================================================================
