-------------------------- MODULE AgentGraphProofs --------------------------
(* Proofs about AgentGraph: what an earlier run, a crash or a checkpoint   *)
(* left behind never passes for the result of the run that files a         *)
(* casebook.                                                               *)
EXTENDS AgentGraph, TLAPS

(* The confidence policy caps on gaps and acts only at the threshold.      *)
WithinPolicy(v, gaps) ==
    v.confidence # Unstated =>
        /\ gaps => v.confidence <= Ceiling
        /\ v.action # "MANUAL_REVIEW" /\ Threshold > 0 => v.confidence >= Threshold

Approved(c, r) ==
    /\ c.investigation.run = r
    /\ c.feedback = [reply |-> "approved", current |-> TRUE]

(* What holds of the channels of run r with k rejections, in memory and in *)
(* the checkpoint alike.                                                   *)
Past(c, r) ==
    /\ c.synthesis.run <= r
    /\ c.shadow_resolution.run <= r /\ c.shadow_comparison.run <= r
    /\ c.synthesis.by \notin {"synthesis", "runbook"} => c.synthesis.confidence = Unstated

OnTheWay(c, r, k) ==
    /\ c.next \in {"fetch_logs", "runbook_lookup", "filter_logs", "investigate", "review"}
          => c.retry_count < Enough /\ c.retry_count <= k
    /\ c.next = "escalate" => k = Enough
    /\ c.next = "review" => c.investigation.run = r
    /\ c.next = "synthesize" => Approved(c, r)
    /\ c.next \in {"filter_logs", "investigate", "review", "synthesize", "escalate"}
          => c.source = "agent"

AtTheEnd(c, r, k) ==
    /\ c.synthesis.by # "none" /\ c.synthesis.run = r =>
          /\ c.next = "end"
          /\ c.source = IF c.synthesis.by = "runbook" THEN "runbook" ELSE "agent"
          /\ c.synthesis.by = "escalate" => k = Enough
          /\ c.synthesis.by = "synthesis" =>
                Approved(c, r) /\ WithinPolicy(c.synthesis, c.logs = "gaps")
    /\ c.shadow_comparison.action # "none" /\ c.shadow_comparison.run = r =>
          /\ c.synthesis.by = "synthesis" /\ c.synthesis.run = r
          /\ c.shadow_comparison.agreed
                <=> c.shadow_comparison.action = c.synthesis.action

Sound(c, r, k) == Past(c, r) /\ OnTheWay(c, r, k) /\ AtTheEnd(c, r, k)

(* The inductive invariant.                                                *)
IInv ==
    /\ TypeOK
    /\ Sound(channels, runs, rejections) /\ Sound(saved, runs, rejections)
    /\ running /\ ~Active(channels) =>
          channels.synthesis.by # "none" /\ channels.synthesis.run = runs
    /\ EscalationEarned /\ VerdictOfThisRun /\ PolicyHeld /\ ShadowTruthful

USE DeploymentsAssumption, BoundsAssumption, ConfidencesAssumption, RunbookAssumption,
    PolicyAssumption

----------------------------------------------------------------------------
(* The policy, for any verdict and trace.                                  *)

(* apply_confidence_policy's result is within the policy, and abstaining   *)
(* is the only way it changes an action (src/models/synthesis.py).         *)
THEOREM PolicyApplied ==
    ASSUME NEW v \in Verdicts, NEW gaps \in BOOLEAN
    PROVE  LET w == ApplyPolicy(v, gaps) IN
           /\ WithinPolicy(w, gaps)
           /\ w.abstained => w.action = "MANUAL_REVIEW"
           /\ ~w.abstained => w.action = v.action
           /\ w.confidence = Unstated <=> v.confidence = Unstated
<1> DEFINE c == Capped(v.confidence, gaps)
           w == ApplyPolicy(v, gaps)
<1>1. v.confidence \in Nat \cup {Unstated}
  BY DEF Verdicts
<1>2. /\ c \in Nat \cup {Unstated}
      /\ gaps => c <= Ceiling
      /\ c = Unstated <=> v.confidence = Unstated
  BY <1>1 DEF Capped, Unstated
<1>3. /\ w.confidence = c /\ w.abstained = Abstains(c)
      /\ w.action = IF Abstains(c) THEN "MANUAL_REVIEW" ELSE v.action
  BY DEF ApplyPolicy, Verdicts
<1>4. Abstains(c) <=> Threshold > 0 /\ c # Unstated /\ c < Threshold
  BY DEF Abstains
<1> HIDE DEF c, w
<1>5. WithinPolicy(w, gaps)
  BY <1>2, <1>3, <1>4 DEF WithinPolicy, Unstated
<1>6. QED
  BY <1>2, <1>3, <1>5 DEF w

----------------------------------------------------------------------------
(* Lemmas about Sound, one per way the channels change.                    *)

LEMMA EnoughType ==
    Enough \in Nat /\ Enough >= 1 /\ Enough >= MaxRetries /\ 0 \in 0 .. Enough
  BY DEF Enough

LEMMA MoreRejections ==
    ASSUME NEW c \in Channels, NEW r \in Nat, NEW k \in 0 .. Enough, NEW l \in 0 .. Enough,
           k <= l, Sound(c, r, k)
    PROVE  Sound(c, r, l)
  BY EnoughType DEF Sound, Past, OnTheWay, AtTheEnd, Channels

LEMMA NothingYet ==
    ASSUME NEW r \in Nat, NEW k \in 0 .. Enough
    PROVE  Sound(NoChannels, r, k)
  BY DEF Sound, Past, OnTheWay, AtTheEnd, NoChannels, NoVerdict, NoShadow

LEMMA NextRun ==
    ASSUME NEW c \in Channels, NEW r \in Nat, NEW k \in 0 .. Enough,
           Sound(c, r, k), c.next = "end"
    PROVE  /\ Sound(c, r + 1, 0)
           /\ Sound([c EXCEPT !.next = "fetch_logs", !.retry_count = 0], r + 1, 0)
  BY EnoughType DEF Sound, Past, OnTheWay, AtTheEnd, Channels, Verdicts, Shadows, RunNumbers

LEMMA AfterFetch ==
    ASSUME NEW c \in Channels, NEW r \in Nat, NEW k \in 0 .. Enough, NEW logs \in Logs,
           Sound(c, r, k), c.next = "fetch_logs"
    PROVE  Sound([c EXCEPT !.logs = logs, !.next = "runbook_lookup"], r, k)
  BY DEF Sound, Past, OnTheWay, AtTheEnd, Channels

LEMMA AfterMiss ==
    ASSUME NEW c \in Channels, NEW r \in Nat, NEW k \in 0 .. Enough,
           NEW node \in {"filter_logs", "investigate"},
           Sound(c, r, k), c.next = "runbook_lookup"
    PROVE  Sound([c EXCEPT !.source = "agent", !.next = node], r, k)
  BY DEF Sound, Past, OnTheWay, AtTheEnd, Channels

LEMMA AfterServe ==
    ASSUME NEW c \in Channels, NEW r \in Nat, NEW k \in 0 .. Enough,
           NEW v \in Verdicts, v.by = "runbook", v.run = r,
           Sound(c, r, k), c.next = "runbook_lookup"
    PROVE  Sound([c EXCEPT !.source = "runbook", !.next = "end", !.synthesis = v], r, k)
  BY DEF Sound, Past, OnTheWay, AtTheEnd, Channels

LEMMA AfterShadow ==
    ASSUME NEW c \in Channels, NEW r \in Nat, NEW k \in 0 .. Enough,
           NEW node \in {"filter_logs", "investigate"},
           NEW s \in Shadows, s.run = r, Sound(c, r, k), c.next = "runbook_lookup"
    PROVE  Sound([c EXCEPT !.source = "agent", !.next = node, !.shadow_resolution = s],
                 r, k)
  BY DEF Sound, Past, OnTheWay, AtTheEnd, Channels

LEMMA AfterFilter ==
    ASSUME NEW c \in Channels, NEW r \in Nat, NEW k \in 0 .. Enough, NEW logs \in Logs,
           Sound(c, r, k), c.next = "filter_logs"
    PROVE  Sound([c EXCEPT !.logs = logs, !.next = "investigate"], r, k)
  BY DEF Sound, Past, OnTheWay, AtTheEnd, Channels

LEMMA AfterInvestigate ==
    ASSUME NEW c \in Channels, NEW r \in Nat, NEW k \in 0 .. Enough, NEW q \in RunNumbers,
           Sound(c, r, k), c.next = "investigate"
    PROVE  Sound([c EXCEPT !.investigation = [run |-> r, quotes |-> q],
                           !.feedback.current = FALSE, !.next = "review"], r, k)
  BY DEF Sound, Past, OnTheWay, AtTheEnd, Channels

(* The rejection is counted on both sides, so that the count that sends    *)
(* the packet to escalate is covered by rejections of this run.            *)
LEMMA AfterReview ==
    ASSUME NEW c \in Channels, NEW r \in Nat, NEW k \in 0 .. Enough, NEW reply \in Replies,
           Sound(c, r, k), c.next = "review"
    PROVE  LET l == IF reply = "approved" \/ k = Enough THEN k ELSE k + 1
               node == CheckApproval(reply, c.retry_count + 1)
           IN Sound([c EXCEPT !.feedback = [reply |-> reply, current |-> TRUE],
                              !.retry_count = @ + 1, !.next = node], r, l)
<1> DEFINE l == IF reply = "approved" \/ k = Enough THEN k ELSE k + 1
           node == CheckApproval(reply, c.retry_count + 1)
           d == [c EXCEPT !.feedback = [reply |-> reply, current |-> TRUE],
                          !.retry_count = @ + 1, !.next = node]
<1>1. /\ c.retry_count \in Nat
      /\ c.retry_count < Enough
      /\ c.retry_count <= k
      /\ c.investigation.run = r
      /\ c.source = "agent"
      /\ c.synthesis.run # r \/ c.synthesis.by = "none"
  BY DEF Sound, OnTheWay, AtTheEnd, Channels
<1>2. CASE reply = "approved"
  <2>1. node = "synthesize" /\ l = k
    BY <1>2 DEF CheckApproval, IsReviewerApproved
  <2>2. QED
    BY <1>1, <1>2, <2>1 DEF Sound, Past, OnTheWay, AtTheEnd, Approved, Channels
<1>3. CASE reply # "approved" /\ c.retry_count + 1 >= MaxRetries
  <2>1. node = "escalate" /\ l = Enough
    BY <1>1, <1>3, EnoughType DEF CheckApproval, IsReviewerApproved, Enough
  <2>2. QED
    BY <1>1, <2>1 DEF Sound, Past, OnTheWay, AtTheEnd, Channels
<1>4. CASE reply # "approved" /\ ~(c.retry_count + 1 >= MaxRetries)
  <2>1. node = "investigate"
    BY <1>4 DEF CheckApproval, IsReviewerApproved
  <2>2. c.retry_count + 1 < Enough /\ c.retry_count + 1 <= l
    BY <1>1, <1>4, EnoughType
  <2>3. QED
    BY <1>1, <2>1, <2>2 DEF Sound, Past, OnTheWay, AtTheEnd, Channels
<1>5. QED
  BY <1>2, <1>3, <1>4

LEMMA AfterEscalate ==
    ASSUME NEW c \in Channels, NEW r \in Nat, NEW k \in 0 .. Enough,
           NEW v \in Verdicts, v.by = "escalate", v.run = r, v.confidence = Unstated,
           v.action = "MANUAL_REVIEW", Sound(c, r, k), c.next = "escalate"
    PROVE  Sound([c EXCEPT !.synthesis = v, !.next = "end"], r, k)
  BY DEF Sound, Past, OnTheWay, AtTheEnd, Channels

(* The Synthesis node, with any verdict within the policy.                 *)
LEMMA AfterSynthesis ==
    ASSUME NEW c \in Channels, NEW r \in Nat, NEW k \in 0 .. Enough,
           NEW v \in Verdicts, v.by = "synthesis", v.run = r,
           WithinPolicy(v, c.logs = "gaps"),
           NEW s \in Shadows,
           \/ s = NoShadow
           \/ /\ s.run = c.shadow_resolution.run
              /\ s.agreed <=> s.action = v.action,
           Sound(c, r, k), c.next = "synthesize"
    PROVE  Sound([c EXCEPT !.synthesis = v, !.source = "agent", !.next = "end",
                           !.shadow_comparison = s], r, k)
  BY DEF Sound, Past, OnTheWay, AtTheEnd, Approved, Channels, NoShadow


----------------------------------------------------------------------------
(* The steps.                                                              *)

LEMMA VerdictShape ==
    ASSUME NEW by \in {"runbook", "synthesis", "escalate"},
           NEW action \in Actions \cup {"invalid"}, runs \in RunNumbers
    PROVE  LET v == Verdict(by, action) IN
           /\ v \in Verdicts /\ v.by = by /\ v.action = action /\ v.run = runs
           /\ v.confidence = Unstated
  BY DEF Verdict, Verdicts

(* A node's step, given what its new channels are like.                    *)
LEMMA StepKeeps ==
    ASSUME IInv, NEW node \in Nodes, NEW new \in Channels, Step(node, new),
           rejections' \in 0 .. Enough, rejections <= rejections',
           llm' \in {"first", "repair"}, artifact' \in Logs,
           acted' \in BOOLEAN,
           Sound(new, runs, rejections'),
           new.next = "end" => new.synthesis.by # "none" /\ new.synthesis.run = runs
    PROVE  IInv'
<1>1. /\ running /\ channels' = new /\ saved' \in {channels, new}
      /\ UNCHANGED <<deployment, running, handler, inProgress, casebook, runs>>
  BY DEF Step, fileVars
<1>2. runs \in Nat /\ rejections \in 0 .. Enough /\ channels \in Channels
  BY DEF IInv, TypeOK, RunNumbers
<1>3. TypeOK'
  BY <1>1, <1>2 DEF IInv, TypeOK
<1>4. Sound(channels, runs, rejections')
  BY <1>2, MoreRejections DEF IInv
<1>5. Sound(channels, runs, rejections)' /\ Sound(saved, runs, rejections)'
  BY <1>1, <1>4
<1>6. (running /\ ~Active(channels) =>
          channels.synthesis.by # "none" /\ channels.synthesis.run = runs)'
  BY <1>1 DEF Active
<1>7. EscalationEarned'
  BY <1>1, <1>2, EnoughType DEF IInv, EscalationEarned
<1>8. VerdictOfThisRun' /\ PolicyHeld' /\ ShadowTruthful'
  BY <1>1 DEF IInv, VerdictOfThisRun, PolicyHeld, ShadowTruthful
<1>9. QED
  BY <1>3, <1>5, <1>6, <1>7, <1>8 DEF IInv

(* Every step of a node keeps the invariant.                               *)
LEMMA NodesKeep ==
    ASSUME IInv, NodeEnds
    PROVE  IInv'
<1> USE DEF Nodes
<1>1. /\ runs \in Nat /\ runs \in RunNumbers /\ rejections \in 0 .. Enough
      /\ channels \in Channels /\ artifact \in Logs /\ acted \in BOOLEAN
      /\ llm \in {"first", "repair"}
      /\ Sound(channels, runs, rejections)
      /\ AgentsEntry \in {"filter_logs", "investigate"}
  BY DEF IInv, TypeOK, RunNumbers, AgentsEntry
<1>2. CASE FetchLogs
  <2>1. PICK logs \in Logs :
          /\ artifact' = logs
          /\ Step("fetch_logs", [channels EXCEPT !.logs = logs, !.next = "runbook_lookup"])
    BY <1>1, <1>2 DEF FetchLogs
  <2> DEFINE new == [channels EXCEPT !.logs = logs, !.next = "runbook_lookup"]
  <2>2. /\ Step("fetch_logs", new) /\ channels.next = "fetch_logs"
        /\ new \in Channels /\ new.next # "end"
    BY <1>1, <2>1 DEF Step, Channels
  <2>3. Sound(new, runs, rejections)
    BY <1>1, <2>2, AfterFetch
  <2>4. UNCHANGED <<llm, rejections, acted>>
    BY <1>2 DEF FetchLogs
  <2> HIDE DEF new
  <2>5. QED
    BY <1>1, <2>1, <2>2, <2>3, <2>4, StepKeeps
<1>3. CASE LookupMiss
  <2> DEFINE new == [channels EXCEPT !.source = "agent", !.next = AgentsEntry]
  <2>1. /\ Step("runbook_lookup", new) /\ UNCHANGED <<artifact, llm, rejections, acted>>
    BY <1>3 DEF LookupMiss
  <2>2. channels.next = "runbook_lookup" /\ new \in Channels /\ new.next # "end"
    BY <1>1, <2>1 DEF Step, Channels
  <2>3. Sound(new, runs, rejections)
    BY <1>1, <2>2, AfterMiss
  <2> HIDE DEF new
  <2>4. QED
    BY <1>1, <2>1, <2>2, <2>3, StepKeeps
<1>4. CASE LookupHit
  <2>1. PICK action \in RunbookActions, confidence \in Confidences \cup {Unstated} :
         \/ Step("runbook_lookup",
                 [channels EXCEPT !.source = "runbook", !.next = "end",
                                  !.synthesis = [Verdict("runbook", action) EXCEPT
                                                    !.confidence = confidence]])
         \/ Step("runbook_lookup",
                 [channels EXCEPT !.source = "agent", !.next = AgentsEntry,
                     !.shadow_resolution = [action |-> action, agreed |-> FALSE,
                                            run |-> runs]])
    BY <1>4 DEF LookupHit
  <2> DEFINE v == [Verdict("runbook", action) EXCEPT !.confidence = confidence]
             s == [action |-> action, agreed |-> FALSE, run |-> runs]
             served == [channels EXCEPT !.source = "runbook", !.next = "end", !.synthesis = v]
             shadowed == [channels EXCEPT !.source = "agent", !.next = AgentsEntry,
                                          !.shadow_resolution = s]
  <2>2. UNCHANGED <<artifact, llm, rejections, acted>>
    BY <1>4 DEF LookupHit
  <2>3. channels.next = "runbook_lookup"
    BY <2>1 DEF Step
  <2>4. /\ v \in Verdicts /\ v.by = "runbook" /\ v.run = runs
        /\ s \in Shadows /\ s.run = runs
    <3>1. /\ Verdict("runbook", action) \in Verdicts
          /\ Verdict("runbook", action).by = "runbook"
          /\ Verdict("runbook", action).run = runs
      BY <1>1, VerdictShape
    <3>2. QED
      BY <1>1, <3>1 DEF Verdicts, Shadows
  <2> HIDE DEF v, s
  <2>5. CASE Step("runbook_lookup", served)
    <3>1. served \in Channels /\ served.synthesis = v
      BY <1>1, <2>4 DEF Channels
    <3>2. Sound(served, runs, rejections)
      BY <1>1, <2>3, <2>4, AfterServe
    <3> HIDE DEF served
    <3>3. QED
      BY <1>1, <2>2, <2>4, <2>5, <3>1, <3>2, StepKeeps
  <2>6. CASE Step("runbook_lookup", shadowed)
    <3>1. shadowed \in Channels /\ shadowed.next # "end"
      BY <1>1, <2>4 DEF Channels
    <3>2. Sound(shadowed, runs, rejections)
      BY <1>1, <2>3, <2>4, AfterShadow
    <3> HIDE DEF shadowed
    <3>3. QED
      BY <1>1, <2>2, <2>6, <3>1, <3>2, StepKeeps
  <2>7. QED
    BY <2>1, <2>5, <2>6 DEF v, s
<1>5. CASE FilterLogs
  <2>1. PICK logs \in Logs :
          Step("filter_logs", [channels EXCEPT !.logs = logs, !.next = "investigate"])
    BY <1>1, <1>5 DEF FilterLogs, Channels, Logs
  <2> DEFINE new == [channels EXCEPT !.logs = logs, !.next = "investigate"]
  <2>2. /\ Step("filter_logs", new) /\ channels.next = "filter_logs"
        /\ new \in Channels /\ new.next # "end"
    BY <1>1, <2>1 DEF Step, Channels
  <2>3. Sound(new, runs, rejections)
    BY <1>1, <2>2, AfterFilter
  <2>4. UNCHANGED <<artifact, llm, rejections, acted>>
    BY <1>5 DEF FilterLogs
  <2> HIDE DEF new
  <2>5. QED
    BY <1>1, <2>1, <2>2, <2>3, <2>4, StepKeeps
<1>6. CASE Investigate
  <2> DEFINE q == IF channels.feedback.reply = "" THEN 0 ELSE channels.investigation.run
             new == [channels EXCEPT !.investigation = [run |-> runs, quotes |-> q],
                                     !.feedback.current = FALSE, !.next = "review"]
  <2>1. Step("investigate", new) /\ UNCHANGED <<artifact, llm, rejections, acted>>
    BY <1>6 DEF Investigate
  <2>2. channels.next = "investigate"
    BY <2>1 DEF Step
  <2>3. q \in RunNumbers
    <3>1. channels.investigation.run \in RunNumbers
      BY <1>1 DEF Channels, Investigations
    <3>2. 0 \in RunNumbers
      BY DEF RunNumbers
    <3>3. QED
      BY <3>1, <3>2
  <2> HIDE DEF q
  <2>4. new \in Channels /\ new.next # "end"
    BY <1>1, <2>3 DEF Channels, Investigations, Feedbacks
  <2>5. Sound(new, runs, rejections)
    BY <1>1, <2>2, <2>3, AfterInvestigate
  <2> HIDE DEF new
  <2>6. QED
    BY <1>1, <2>1, <2>4, <2>5, StepKeeps
<1>7. CASE Review
  <2>1. PICK reply \in Replies :
          /\ Step("review",
                  [channels EXCEPT
                      !.feedback = [reply |-> reply, current |-> TRUE],
                      !.retry_count = @ + 1,
                      !.next = CheckApproval(reply, channels.retry_count + 1)])
          /\ rejections' = IF reply = "approved" \/ rejections = Enough THEN rejections
                                                                        ELSE rejections + 1
    BY <1>7 DEF Review
  <2> DEFINE node == CheckApproval(reply, channels.retry_count + 1)
             new == [channels EXCEPT !.feedback = [reply |-> reply, current |-> TRUE],
                                     !.retry_count = @ + 1, !.next = node]
  <2>2. channels.next = "review" /\ Step("review", new)
    BY <2>1 DEF Step
  <2>3. UNCHANGED <<artifact, llm, acted>>
    BY <1>7 DEF Review
  <2>4. rejections' \in 0 .. Enough /\ rejections <= rejections'
    BY <1>1, <2>1, EnoughType
  <2>5. node \in {"synthesize", "escalate", "investigate"}
    BY DEF CheckApproval
  <2>6. channels.retry_count + 1 \in 0 .. Enough
    BY <1>1, <2>2, EnoughType DEF Sound, OnTheWay, Channels
  <2>7. Sound(new, runs, rejections')
    BY <1>1, <2>1, <2>2, AfterReview
  <2> HIDE DEF node
  <2>8. new \in Channels /\ new.next # "end"
    BY <1>1, <2>5, <2>6 DEF Channels, Feedbacks
  <2> HIDE DEF new
  <2>9. QED
    BY <1>1, <2>2, <2>3, <2>4, <2>7, <2>8, StepKeeps
<1>8. CASE Escalate
  <2> DEFINE v == Verdict("escalate", "MANUAL_REVIEW")
             new == [channels EXCEPT !.synthesis = v, !.next = "end"]
  <2>1. Step("escalate", new) /\ UNCHANGED <<artifact, llm, rejections, acted>>
    BY <1>8 DEF Escalate
  <2>2. channels.next = "escalate"
    BY <2>1 DEF Step
  <2>3. /\ v \in Verdicts /\ v.by = "escalate" /\ v.action = "MANUAL_REVIEW"
        /\ v.run = runs /\ v.confidence = Unstated
    BY <1>1, VerdictShape DEF Actions
  <2> HIDE DEF v
  <2>4. new \in Channels /\ new.synthesis = v
    BY <1>1, <2>3 DEF Channels
  <2>5. Sound(new, runs, rejections)
    BY <1>1, <2>2, <2>3, AfterEscalate
  <2> HIDE DEF new
  <2>6. QED
    BY <1>1, <2>1, <2>3, <2>4, <2>5, StepKeeps
<1>9. ASSUME NEW draft, NEW v \in Verdicts, SynthesisEnds(draft, v),
             v.by = "synthesis", v.run = runs,
             WithinPolicy(v, channels.logs = "gaps")
      PROVE  IInv'
  <2> DEFINE s == Compare(draft, v)
             new == [channels EXCEPT !.synthesis = v, !.source = "agent", !.next = "end",
                                     !.shadow_comparison = s]
  <2>1. /\ Step("synthesize", new) /\ UNCHANGED <<artifact, rejections, acted>>
        /\ llm' = NewConversation
    BY <1>9 DEF SynthesisEnds
  <2>2. channels.next = "synthesize"
    BY <2>1 DEF Step
  <2>3. /\ s \in Shadows
        /\ \/ s = NoShadow
           \/ /\ s.run = channels.shadow_resolution.run
              /\ s.agreed <=> s.action = v.action
    <3>1. NoShadow \in Shadows
      BY DEF NoShadow, Shadows, RunNumbers
    <3>2. channels.shadow_resolution \in Shadows
      BY <1>1 DEF Channels
    <3>3. QED
      BY <3>1, <3>2 DEF Compare, Shadows
  <2> HIDE DEF s
  <2>4. new \in Channels /\ new.synthesis = v
    BY <1>1, <2>3 DEF Channels
  <2>5. Sound(new, runs, rejections)
    BY <1>1, <1>9, <2>2, <2>3, AfterSynthesis
  <2>6. llm' \in {"first", "repair"}
    BY <2>1 DEF NewConversation
  <2> HIDE DEF new
  <2>7. QED
    BY <1>1, <1>9, <2>1, <2>4, <2>5, <2>6, StepKeeps
<1>10. CASE Synthesize
  <2>1. PICK action \in Actions, confidence \in Confidences :
          LET draft == [Verdict("synthesis", action) EXCEPT !.confidence = confidence]
          IN SynthesisEnds(draft, ApplyPolicy(draft, channels.logs = "gaps"))
    BY <1>10 DEF Synthesize, Actions
  <2> DEFINE draft == [Verdict("synthesis", action) EXCEPT !.confidence = confidence]
             v == ApplyPolicy(draft, channels.logs = "gaps")
  <2>2. /\ draft \in Verdicts /\ draft.by = "synthesis" /\ draft.run = runs
    BY <1>1 DEF Verdict, Verdicts
  <2> HIDE DEF draft
  <2>3. v \in Verdicts /\ v.by = "synthesis" /\ v.run = runs
    BY <2>2 DEF ApplyPolicy, Capped, Abstains, Verdicts, Actions
  <2>4. WithinPolicy(v, channels.logs = "gaps")
    BY <2>2, PolicyApplied
  <2>5. SynthesisEnds(draft, v)
    BY <2>1 DEF draft
  <2> HIDE DEF v
  <2>6. QED
    BY <1>9, <2>3, <2>4, <2>5
<1>11. CASE Unrepairable
  <2> DEFINE v == Verdict("synthesis", "MANUAL_REVIEW")
  <2>1. /\ v \in Verdicts /\ v.by = "synthesis" /\ v.action = "MANUAL_REVIEW"
        /\ v.run = runs /\ v.confidence = Unstated
    BY <1>1, VerdictShape DEF Actions
  <2>2. SynthesisEnds(v, v)
    BY <1>11 DEF Unrepairable
  <2> HIDE DEF v
  <2>3. QED
    BY <1>9, <2>1, <2>2 DEF WithinPolicy
<1>12. QED
  BY <1>2, <1>3, <1>4, <1>5, <1>6, <1>7, <1>8, <1>10, <1>11 DEF NodeEnds

(* Filing a verdict: what Sound says of the channels holds of the casebook.*)
LEMMA GraphEndsKeeps ==
    ASSUME IInv, GraphEnds
    PROVE  IInv'
<1>1. /\ running /\ channels.next = "end" 
      /\ channels.synthesis.by # "none" /\ channels.synthesis.run = runs
      /\ Sound(channels, runs, rejections)
  BY DEF IInv, GraphEnds, Active
<1> PICK parsed \in ParseOutcomes(channels.synthesis) : Answer(Filed(channels, parsed))
  BY DEF GraphEnds
<1>2. /\ channels \in Channels /\ casebook \in Casebooks /\ runs \in Nat
      /\ rejections \in 0 .. Enough
  BY DEF IInv, TypeOK, RunNumbers
<1>3. /\ running' = FALSE /\ handler' = "idle" /\ saved' = channels
      /\ llm' = NewConversation
      /\ UNCHANGED <<deployment, channels, artifact, runs, rejections, acted>>
      /\ \/ casebook' = Filed(channels, parsed) /\ inProgress' = FALSE
         \/ UNCHANGED <<casebook, inProgress>>
  BY DEF Answer, fileVars, historyVars
<1>4. Filed(channels, parsed) \in Casebooks
  BY <1>2 DEF Filed, Casebooks, Channels, Verdicts, Actions, Unstated
<1>5. TypeOK'
  BY <1>2, <1>3, <1>4 DEF IInv, TypeOK, NewConversation
<1>6. /\ Sound(channels, runs, rejections)' /\ Sound(saved, runs, rejections)'
      /\ (running /\ ~Active(channels) =>
            channels.synthesis.by # "none" /\ channels.synthesis.run = runs)'
  BY <1>1, <1>3
<1>7. CASE UNCHANGED casebook
  BY <1>3, <1>5, <1>6, <1>7
     DEF IInv, EscalationEarned, VerdictOfThisRun, PolicyHeld, ShadowTruthful
<1>8. CASE casebook' = Filed(channels, parsed)
  <2>1. EscalationEarned' /\ VerdictOfThisRun'
    BY <1>1, <1>2, <1>3, <1>8, EnoughType
       DEF Channels, Verdicts, Sound, AtTheEnd, Filed, EscalationEarned, VerdictOfThisRun
  <2>2. PolicyHeld'
    BY <1>1, <1>2, <1>3, <1>8
       DEF Channels, Verdicts, Sound, Past, AtTheEnd, WithinPolicy, Filed, PolicyHeld
  <2>3. ShadowTruthful'
    BY <1>1, <1>2, <1>3, <1>8
       DEF Sound, Past, AtTheEnd, Filed, ShadowTruthful
  <2>4. QED
    BY <1>5, <1>6, <2>1, <2>2, <2>3 DEF IInv
<1>9. QED
  BY <1>3, <1>7, <1>8

(* What leaves channels or replaces them by the checkpoint or by nothing.  *)
LEMMA OthersKeep ==
    ASSUME IInv,
           \/ Invoke \/ StubOverwritten \/ QueueForReplay \/ AskRepair \/ NodeRaises
           \/ TimesOut \/ ApiStops \/ PruneCasesheet \/ PruneCheckpoint
           \/ UNCHANGED vars
    PROVE  IInv'
<1> USE DEF fileVars, historyVars
<1>1. /\ runs \in Nat /\ rejections \in 0 .. Enough
      /\ channels \in Channels /\ saved \in Channels
      /\ Sound(channels, runs, rejections) /\ Sound(saved, runs, rejections)
  BY DEF IInv, TypeOK, RunNumbers
<1>2. Failed \in Casebooks /\ NoCasebook \in Casebooks /\ NoChannels \in Channels
  <2>1. NoVerdict \in Verdicts /\ NoShadow \in Shadows
    BY DEF NoVerdict, NoShadow, Verdicts, Shadows, RunNumbers
  <2>2. NoCasebook \in Casebooks
    BY <2>1 DEF NoCasebook, Casebooks
  <2>3. Failed \in Casebooks
    BY <2>2 DEF Failed, Casebooks
  <2>4. NoChannels \in Channels
    BY <2>1, EnoughType
       DEF NoChannels, Channels, Logs, Investigations, Feedbacks, Replies, RunNumbers
  <2>5. QED
    BY <2>2, <2>3, <2>4
<1>3. ASSUME UNCHANGED <<channels, saved, running, runs, rejections>>,
             casebook' \in {casebook, Failed, NoCasebook}, TypeOK'
      PROVE  IInv'
  BY <1>1, <1>3
     DEF IInv, EscalationEarned, VerdictOfThisRun, PolicyHeld, ShadowTruthful,
         Failed, NoCasebook, NoVerdict, NoShadow, Active
<1>4. ASSUME UNCHANGED <<runs, rejections>>, running' = FALSE,
             channels' \in {channels, saved, NoChannels}, saved' \in {channels, saved},
             casebook' \in {casebook, Failed}, TypeOK'
      PROVE  IInv'
  BY <1>1, <1>4, NothingYet
     DEF IInv, EscalationEarned, VerdictOfThisRun, PolicyHeld, ShadowTruthful,
         Failed, NoCasebook, NoVerdict, NoShadow
<1>5. CASE Invoke
  <2>1. /\ casebook = NoCasebook /\ casebook' = NoCasebook /\ saved' = saved
        /\ running' = TRUE
        /\ handler' = "awaiting" /\ inProgress' = TRUE
        /\ UNCHANGED <<deployment, llm, artifact>>
    BY <1>5 DEF Invoke
  <2>2. EscalationEarned' /\ VerdictOfThisRun' /\ PolicyHeld' /\ ShadowTruthful'
    BY <2>1 DEF EscalationEarned, VerdictOfThisRun, PolicyHeld, ShadowTruthful,
                NoCasebook, NoVerdict, NoShadow
  <2>3. CASE Active(saved)
    <3>1. channels' = saved /\ UNCHANGED <<runs, rejections, acted>>
      BY <1>5, <2>3 DEF Invoke, Resume
    <3>2. TypeOK'
      BY <1>1, <2>1, <3>1 DEF IInv, TypeOK
    <3>3. QED
      BY <1>1, <2>1, <2>2, <2>3, <3>1, <3>2 DEF IInv, Active
  <2>4. CASE ~Active(saved)
    <3> DEFINE new == [saved EXCEPT !.next = "fetch_logs", !.retry_count = 0]
    <3>1. /\ channels' = new /\ runs < MaxRuns /\ runs' = runs + 1
          /\ rejections' = 0 /\ acted' = FALSE
      BY <1>5, <2>4 DEF Invoke, Fresh
    <3>2. new \in Channels /\ new.next = "fetch_logs"
      <4>1. "fetch_logs" \in Nodes
        BY DEF Nodes
      <4>2. QED
        BY <1>1, <4>1, EnoughType DEF Channels
    <3>3. TypeOK'
      <4>1. runs + 1 \in RunNumbers
        BY <1>1, <3>1 DEF RunNumbers
      <4>2. QED
        BY <1>1, <2>1, <3>1, <3>2, <4>1, EnoughType DEF IInv, TypeOK
    <3>4. Sound(new, runs + 1, 0) /\ Sound(saved, runs + 1, 0)
      BY <1>1, <2>4, NextRun DEF Active
    <3> HIDE DEF new
    <3>5. QED
      BY <2>1, <2>2, <3>1, <3>2, <3>3, <3>4 DEF IInv, Active
  <2>5. QED
    BY <2>3, <2>4
<1>6. CASE StubOverwritten
  BY <1>3, <1>6 DEF StubOverwritten, IInv, TypeOK
<1>7. CASE QueueForReplay
  <2>1. llm' \in {"first", "repair"} /\ acted' \in BOOLEAN
    BY <1>7 DEF QueueForReplay, IInv, TypeOK
  <2>2. UNCHANGED <<deployment, channels, saved, running, handler, inProgress, casebook,
                    artifact, runs, rejections>>
    BY <1>7 DEF QueueForReplay
  <2>3. TypeOK'
    BY <2>1, <2>2 DEF IInv, TypeOK
  <2>4. QED
    BY <1>3, <2>2, <2>3
<1>8. CASE AskRepair
  <2>1. llm' \in {"first", "repair"}
    BY <1>8 DEF AskRepair
  <2>2. UNCHANGED <<deployment, channels, saved, running, handler, inProgress, casebook,
                    artifact, runs, rejections, acted>>
    BY <1>8 DEF AskRepair
  <2>3. TypeOK'
    BY <2>1, <2>2 DEF IInv, TypeOK
  <2>4. QED
    BY <1>3, <2>2, <2>3
<1>9. CASE NodeRaises
  <2>1. /\ casebook' \in {casebook, Failed} /\ inProgress' \in BOOLEAN
        /\ running' = FALSE /\ handler' = "idle" /\ saved' = channels
        /\ llm' = NewConversation
        /\ UNCHANGED <<deployment, channels, artifact, runs, rejections, acted>>
    BY <1>9 DEF NodeRaises, Answer, IInv, TypeOK
  <2>2. TypeOK'
    BY <1>1, <1>2, <2>1 DEF IInv, TypeOK, NewConversation
  <2>3. QED
    BY <1>4, <2>1, <2>2
<1>10. CASE TimesOut
  <2>1. TypeOK'
    BY <1>2, <1>10 DEF TimesOut, IInv, TypeOK
  <2>2. QED
    BY <1>3, <1>10, <2>1 DEF TimesOut
<1>11. CASE ApiStops
  <2>1. TypeOK'
    BY <1>2, <1>11 DEF ApiStops, IInv, TypeOK, NewConversation
  <2>2. QED
    BY <1>4, <1>11, <2>1 DEF ApiStops
<1>12. CASE PruneCasesheet
  <2>1. TypeOK'
    BY <1>2, <1>12 DEF PruneCasesheet, IInv, TypeOK, Logs
  <2>2. QED
    BY <1>3, <1>12, <2>1 DEF PruneCasesheet
<1>13. CASE PruneCheckpoint
  <2>1. /\ saved' = NoChannels
        /\ UNCHANGED <<deployment, channels, running, llm, handler, inProgress, casebook,
                       artifact, runs, rejections, acted>>
    BY <1>13 DEF PruneCheckpoint
  <2>2. TypeOK'
    BY <1>2, <2>1 DEF IInv, TypeOK
  <2>3. Sound(saved, runs, rejections)'
    BY <1>1, <2>1, NothingYet
  <2>4. QED
    BY <2>1, <2>2, <2>3
       DEF IInv, EscalationEarned, VerdictOfThisRun, PolicyHeld, ShadowTruthful,
           Active
<1>14. CASE UNCHANGED vars
  BY <1>3, <1>14 DEF vars, IInv, TypeOK
<1>15. QED
  BY <1>5, <1>6, <1>7, <1>8, <1>9, <1>10, <1>11, <1>12, <1>13, <1>14

----------------------------------------------------------------------------
(* Theorems.                                                               *)

(* IInv is an invariant: what Sound says of the channels survives retries, *)
(* crashes that lose a checkpoint, resumes, fresh runs and pruning.        *)
THEOREM Invariant == Spec => []IInv
<1>1. Init => IInv
  <2> SUFFICES ASSUME Init PROVE IInv
    OBVIOUS
  <2>1. NoVerdict \in Verdicts /\ NoShadow \in Shadows
    BY DEF NoVerdict, NoShadow, Verdicts, Shadows, RunNumbers
  <2>2. NoCasebook \in Casebooks
    BY <2>1 DEF NoCasebook, Casebooks
  <2>3. NoChannels \in Channels
    BY <2>1, EnoughType
       DEF NoChannels, Channels, Logs, Investigations, Feedbacks, Replies, RunNumbers
  <2>4. TypeOK
    <3>1. 0 \in RunNumbers /\ "none" \in Logs
      BY DEF RunNumbers, Logs
    <3>2. NewConversation \in {"first", "repair"}
      BY DEF NewConversation
    <3>3. QED
      BY <2>2, <2>3, <3>1, <3>2, EnoughType DEF Init, TypeOK
  <2>5. Sound(channels, runs, rejections) /\ Sound(saved, runs, rejections)
    BY NothingYet, EnoughType DEF Init
  <2>6. QED
    BY <2>4, <2>5 DEF Init, IInv, EscalationEarned, VerdictOfThisRun, PolicyHeld,
        ShadowTruthful, NoCasebook, NoVerdict, NoShadow
<1>2. IInv /\ [Next]_vars => IInv'
  BY NodesKeep, GraphEndsKeeps, OthersKeep DEF Next
<1>3. QED
  BY <1>1, <1>2, PTL DEF Spec

(* Channels, checkpoint, casebook and counters keep their types; the       *)
(* retry_count never passes max(1, MAX_INVESTIGATION_RETRIES).             *)
THEOREM TypeCorrect == Spec => []TypeOK
<1>1. IInv => TypeOK
  BY DEF IInv
<1>2. QED
  BY <1>1, Invariant, PTL

(* An escalated casebook follows as many rejections, in its own run, as    *)
(* check_approval demands, for every MAX_INVESTIGATION_RETRIES.            *)
THEOREM EscalationsEarned == Spec => []EscalationEarned
<1>1. IInv => EscalationEarned
  BY DEF IInv
<1>2. QED
  BY <1>1, Invariant, PTL

(* Only an investigation of this run, approved as it stands, is            *)
(* synthesized.                                                            *)
THEOREM SynthesisApproved == Spec => []OnlyApprovedWork
<1>1. IInv => OnlyApprovedWork
  BY DEF IInv, Sound, AtTheEnd, Approved, OnlyApprovedWork
<1>2. QED
  BY <1>1, Invariant, PTL

(* A casebook holds the verdict of its own run, under its own source.      *)
THEOREM CasebookTrustworthy == Spec => []VerdictOfThisRun
<1>1. IInv => VerdictOfThisRun
  BY DEF IInv
<1>2. QED
  BY <1>1, Invariant, PTL

(* What is filed has been through apply_confidence_policy.                 *)
THEOREM PolicyFiled == Spec => []PolicyHeld
<1>1. IInv => PolicyHeld
  BY DEF IInv
<1>2. QED
  BY <1>1, Invariant, PTL

(* A shadow comparison made in this run is with the action filed.          *)
THEOREM ComparisonsTruthful == Spec => []ShadowTruthful
<1>1. IInv => ShadowTruthful
  BY DEF IInv
<1>2. QED
  BY <1>1, Invariant, PTL

(* queue_for_replay is called only while the channels hold an approval of  *)
(* the investigation at hand.                                              *)
THEOREM ReplaysAreApproved == Spec => ReplaysApproved
<1> DEFINE A == acted' /\ ~acted =>
                   channels.feedback = [reply |-> "approved", current |-> TRUE]
<1>1. IInv /\ [Next]_vars => [A]_vars
  <2> SUFFICES ASSUME IInv, Next, acted', ~acted
               PROVE  channels.feedback = [reply |-> "approved", current |-> TRUE]
    OBVIOUS
  <2>1. QueueForReplay
    BY DEF Next, NodeEnds, FetchLogs, LookupMiss, LookupHit, FilterLogs, Investigate,
           Review, Escalate, Synthesize, Unrepairable, SynthesisEnds, AskRepair,
           NodeRaises, GraphEnds, Answer, Invoke, Fresh, Resume, StubOverwritten,
           TimesOut, ApiStops, PruneCasesheet, PruneCheckpoint, historyVars
  <2>2. QED
    BY <2>1 DEF QueueForReplay, Conversing, IInv, Sound, OnTheWay, Approved
<1> HIDE DEF A
<1>2. Spec => [][A]_vars
  BY <1>1, Invariant, PTL DEF Spec
<1>3. QED
  BY <1>2 DEF ReplaysApproved, A

(* Every node that ends, and nothing else while the graph runs, brings the *)
(* end of the run nearer: retry_count only grows there, and the Reviewer   *)
(* sends the packet back only while it is below the limit.                 *)
LEMMA Nearer ==
    ASSUME IInv, [Next]_vars, running, running'
    PROVE  \/ ~NodeEnds /\ UNCHANGED channels
           \/ StepsLeft(channels') < StepsLeft(channels)
<1> DEFINE Goal == StepsLeft(channels') < StepsLeft(channels)
<1>1. /\ channels \in Channels /\ Enough \in Nat
      /\ channels.retry_count \in 0 .. Enough
      /\ channels.next \in {"fetch_logs", "runbook_lookup", "filter_logs", "investigate",
                            "review"} => channels.retry_count < Enough
      /\ AgentsEntry \in {"filter_logs", "investigate"}
  BY EnoughType DEF IInv, TypeOK, Channels, Sound, OnTheWay, AgentsEntry
<1>2. ASSUME NodeEnds PROVE Goal
  <2>1. CASE FetchLogs
    <3>1. /\ channels.next = "fetch_logs" /\ channels'.next = "runbook_lookup"
          /\ channels'.retry_count = channels.retry_count
      BY <1>1, <2>1 DEF FetchLogs, Step, Channels
    <3>2. QED
      BY <1>1, <3>1 DEF StepsLeft
  <2>2. CASE LookupMiss \/ LookupHit
    <3>1. /\ channels.next = "runbook_lookup"
          /\ channels'.next \in {"end", "filter_logs", "investigate"}
          /\ channels'.retry_count = channels.retry_count
      BY <1>1, <2>2 DEF LookupMiss, LookupHit, Step, Channels
    <3>2. QED
      BY <1>1, <3>1 DEF StepsLeft
  <2>3. CASE FilterLogs
    <3>1. /\ channels.next = "filter_logs" /\ channels'.next = "investigate"
          /\ channels'.retry_count = channels.retry_count
      BY <1>1, <2>3 DEF FilterLogs, Step, Channels
    <3>2. QED
      BY <1>1, <3>1 DEF StepsLeft
  <2>4. CASE Investigate
    <3>1. /\ channels.next = "investigate" /\ channels'.next = "review"
          /\ channels'.retry_count = channels.retry_count
      BY <1>1, <2>4 DEF Investigate, Step, Channels
    <3>2. QED
      BY <1>1, <3>1 DEF StepsLeft
  <2>5. CASE Review
    <3>1. PICK reply \in Replies :
             /\ channels.next = "review"
             /\ channels' = [channels EXCEPT
                                !.feedback = [reply |-> reply, current |-> TRUE],
                                !.retry_count = channels.retry_count + 1,
                                !.next = CheckApproval(reply, channels.retry_count + 1)]
      BY <2>5 DEF Review, Step
    <3>2. /\ channels'.next = CheckApproval(reply, channels.retry_count + 1)
          /\ channels'.retry_count = channels.retry_count + 1
      BY <1>1, <3>1 DEF Channels
    <3>3. channels'.next \in {"synthesize", "escalate", "investigate"}
      BY <3>2 DEF CheckApproval
    <3>4. QED
      BY <1>1, <3>1, <3>2, <3>3 DEF StepsLeft
  <2>6. CASE Escalate
    <3>1. channels.next = "escalate" /\ channels'.next = "end"
      BY <1>1, <2>6 DEF Escalate, Step, Channels
    <3>2. QED
      BY <3>1 DEF StepsLeft
  <2>7. CASE Synthesize \/ Unrepairable
    <3>1. channels.next = "synthesize" /\ channels'.next = "end"
      BY <1>1, <2>7 DEF Synthesize, Unrepairable, SynthesisEnds, Step, Channels
    <3>2. QED
      BY <3>1 DEF StepsLeft
  <2>8. QED
    BY <1>2, <2>1, <2>2, <2>3, <2>4, <2>5, <2>6, <2>7 DEF NodeEnds
<1>3. ASSUME ~NodeEnds PROVE UNCHANGED channels
  BY <1>3 DEF Next, vars, QueueForReplay, AskRepair, NodeRaises, GraphEnds, Answer, Invoke,
              StubOverwritten, TimesOut, ApiStops, PruneCasesheet, PruneCheckpoint
<1>4. QED
  BY <1>2, <1>3

(* Every run ends: each node that ends leaves fewer of the at most         *)
(* 2 * max(1, MAX_INVESTIGATION_RETRIES) + 4 nodes a run can have, so that *)
(* RunsEnd needs of the scheduler only that a node's calls return.         *)
THEOREM RunsGetShorter == Spec => []LengthBounded /\ RunsShrink
<1>1. IInv => LengthBounded
  <2> SUFFICES ASSUME IInv PROVE LengthBounded
    OBVIOUS
  <2>1. /\ Enough \in Nat /\ Enough >= 1 /\ channels.retry_count \in 0 .. Enough
        /\ channels.next \in Nodes \cup {"end"}
    BY EnoughType DEF IInv, TypeOK, Channels
  <2>2. QED
    BY <2>1 DEF LengthBounded, StepsLeft, Nodes
<1> DEFINE A == running /\ running' =>
                   \/ ~NodeEnds /\ UNCHANGED channels
                   \/ StepsLeft(channels') < StepsLeft(channels)
<1>2. IInv /\ [Next]_vars => [A]_vars
  BY Nearer
<1> HIDE DEF A
<1>3. Spec => [][A]_vars
  BY <1>2, Invariant, PTL DEF Spec
<1>4. Spec => []LengthBounded
  BY <1>1, Invariant, PTL
<1>5. QED
  BY <1>3, <1>4 DEF RunsShrink, A
=============================================================================
