----------------------------- MODULE AgentGraph -----------------------------
(***************************************************************************)
(* The investigation of one packet: the LangGraph of                       *)
(* src/core/agent_orchestrator.py on the packet's thread_id, its channels  *)
(* and their checkpoint, the handler that awaits it and files its verdict  *)
(* in a casebook (src/api/routes.py), and the tools that prune both.       *)
(*                                                                         *)
(* A fresh invocation overwrites the channels payload and retry_count and  *)
(* no other: what an earlier run of the same packet left stays in them.    *)
(* A checkpoint is written in the background, so a crash may lose the last *)
(* one.  The LLM is an environment that may answer anything.  Overlapping *)
(* handlers of one packet are PacketLifecycle's subject: here one runs.    *)
(***************************************************************************)
EXTENDS SynthesisPolicy

CONSTANTS
    Deployments,   \* settings of RUNBOOK_MODE and ENABLE_LOG_FILTER_AGENT
    MaxRetries,    \* MAX_INVESTIGATION_RETRIES
    Confidences,   \* confidences the Synthesis agent may state
    RunbookActions,\* actions of the runbooks on file
    MaxRuns        \* bound on fresh invocations

(* runbook "serve" is RUNBOOK_MODE=serve and an allowlisted reason code.   *)
ASSUME DeploymentsAssumption ==
    Deployments \subseteq [runbook: {"off", "shadow", "serve"}, filter: BOOLEAN]
ASSUME BoundsAssumption == MaxRetries \in Nat /\ MaxRuns \in Nat
ASSUME ConfidencesAssumption == Confidences \subseteq Nat \cup {Unstated}

Actions == {"REPLAY", "OTHER", "MANUAL_REVIEW"}

(* get_runbook checks that a runbook's keys are there, not their values.   *)
ASSUME RunbookAssumption == RunbookActions \subseteq Actions \cup {"invalid"}

VARIABLES
    deployment,   \* the environment variables; they do not change
    \* the graph
    channels,     \* the GraphState of the run, and the node it is about to run
    saved,        \* the last checkpoint written
    running,      \* a graph thread runs
    llm,          \* the Synthesis agent: its "first" conversation, or the "repair"
    \* the handler and the packet's files
    handler,      \* _investigate_packet: "idle" or "awaiting" the graph
    inProgress,   \* status.json says IN_PROGRESS
    casebook,     \* casebook.json
    artifact,     \* fetched_logs.txt
    \* history
    runs,         \* fresh invocations so far: the number of the current run
    rejections,   \* the Reviewer's rejections in this run, up to Enough
    acted         \* queue_for_replay was called in this run

vars == <<deployment, channels, saved, running, llm, handler, inProgress, casebook,
          artifact, runs, rejections, acted>>

fileVars    == <<inProgress, casebook>>
historyVars == <<runs, rejections, acted>>

(* The rejections after which check_approval escalates.                    *)
Enough == IF MaxRetries > 1 THEN MaxRetries ELSE 1

Nodes    == {"fetch_logs", "runbook_lookup", "filter_logs", "investigate", "review",
             "synthesize", "escalate"}
Logs     == {"none", "complete", "gaps"}   \* "gaps": they open with the EVIDENCE GAPS banner
Replies  == {"", "approved", "not approved"}   \* a rejection may contain the word
RunNumbers == 0 .. MaxRuns

(* "none" and 0: the channel has no value.  `run` is history: the run that *)
(* wrote the value.                                                        *)
Verdicts == [by: {"none", "runbook", "synthesis", "escalate"},
             action: Actions \cup {"none", "invalid"},
             confidence: Confidences \cup {Unstated, Ceiling}, abstained: BOOLEAN,
             run: RunNumbers]
Shadows  == [action: Actions \cup {"none", "invalid"}, agreed: BOOLEAN, run: RunNumbers]
(* `quotes` is the run whose investigation the prompt quoted.              *)
Investigations == [run: RunNumbers, quotes: RunNumbers]
(* `current`: it judges the investigation the channel holds.               *)
Feedbacks == [reply: Replies, current: BOOLEAN]

Channels == [next: Nodes \cup {"end"}, logs: Logs, investigation: Investigations,
             feedback: Feedbacks, retry_count: 0 .. Enough, synthesis: Verdicts,
             source: {"none", "agent", "runbook"},
             shadow_resolution: Shadows, shadow_comparison: Shadows]

(* A handler that fails or runs out of time files no verdict.              *)
Casebooks == [status: {"absent", "failed", "NEEDS_MANUAL_REVIEW", "RESOLVED",
                       "FAILED_SYNTHESIS_PARSE"},
              gaps: BOOLEAN, verdict: Verdicts, source: {"none", "agent", "runbook"},
              shadow: Shadows]

NoVerdict == [by |-> "none", action |-> "none", confidence |-> Unstated,
              abstained |-> FALSE, run |-> 0]
NoShadow  == [action |-> "none", agreed |-> FALSE, run |-> 0]
NoChannels == [next |-> "end", logs |-> "none",
               investigation |-> [run |-> 0, quotes |-> 0],
               feedback |-> [reply |-> "", current |-> FALSE], retry_count |-> 0,
               synthesis |-> NoVerdict, source |-> "none",
               shadow_resolution |-> NoShadow, shadow_comparison |-> NoShadow]
NoCasebook == [status |-> "absent", gaps |-> FALSE, verdict |-> NoVerdict,
               source |-> "none", shadow |-> NoShadow]
Failed == [NoCasebook EXCEPT !.status = "failed"]
NewConversation == "first"

TypeOK ==
    /\ deployment \in Deployments
    /\ channels \in Channels /\ saved \in Channels
    /\ running \in BOOLEAN /\ handler \in {"idle", "awaiting"}
    /\ llm \in {"first", "repair"}
    /\ inProgress \in BOOLEAN /\ casebook \in Casebooks /\ artifact \in Logs
    /\ runs \in RunNumbers /\ rejections \in 0 .. Enough /\ acted \in BOOLEAN

Init ==
    /\ deployment \in Deployments
    /\ channels = NoChannels /\ saved = NoChannels
    /\ running = FALSE /\ llm = NewConversation
    /\ handler = "idle" /\ inProgress = FALSE /\ casebook = NoCasebook
    /\ artifact = "none"
    /\ runs = 0 /\ rejections = 0 /\ acted = FALSE

----------------------------------------------------------------------------
(* Invocation.                                                             *)

Active(c) == c.next # "end"

(* Mutated form: retry_count is not reset.                                 *)
FreshKeepsCount ==
    /\ channels' = [saved EXCEPT !.next = "fetch_logs"]
    /\ runs < MaxRuns /\ runs' = runs + 1 /\ rejections' = 0 /\ acted' = FALSE

(* No active checkpoint: the input is the payload and retry_count 0.       *)
Fresh ==
    /\ channels' = [saved EXCEPT !.next = "fetch_logs", !.retry_count = 0]
    /\ runs < MaxRuns /\ runs' = runs + 1 /\ rejections' = 0 /\ acted' = FALSE

(* An active checkpoint: the input is None.                                *)
Resume == channels' = saved /\ UNCHANGED historyVars

(* A packet with a casebook is done; one IN_PROGRESS is left alone unless  *)
(* its stub is stale (here: time passes) and no checkpoint is active.      *)
Invoke ==
    /\ ~running /\ handler = "idle" /\ casebook = NoCasebook
    /\ inProgress => ~Active(saved)
    /\ IF Active(saved) THEN Resume ELSE Fresh
    /\ running' = TRUE /\ handler' = "awaiting" /\ inProgress' = TRUE
    /\ UNCHANGED <<deployment, saved, llm, casebook, artifact>>

(* A late POST /fetch-logs overwrites the stub (PacketLifecycle).  While   *)
(* the graph runs, nobody would notice.                                    *)
StubOverwritten ==
    /\ inProgress /\ ~running /\ inProgress' = FALSE
    /\ UNCHANGED <<deployment, channels, saved, running, llm, handler, casebook,
                   artifact, historyVars>>
----------------------------------------------------------------------------
(* The nodes.  A node's edge is taken in the step that ends it.            *)

(* The channels after `node` wrote its updates and the edge chose `next`.  *)
(* By then the checkpoint before it is written, and this one perhaps.      *)
Step(node, new) ==
    /\ running /\ channels.next = node
    /\ channels' = new
    /\ saved' \in {channels, new}
    /\ UNCHANGED <<deployment, running, handler, fileVars, runs>>

(* Cache first; a live fetch that fails returns None and is not persisted. *)
FetchLogs ==
    /\ \E logs \in IF artifact = "none" THEN Logs ELSE {artifact} :
          /\ artifact' = logs
          /\ Step("fetch_logs",
                  [channels EXCEPT !.logs = logs, !.next = "runbook_lookup"])
    /\ UNCHANGED <<llm, rejections, acted>>

(* check_runbook_hit, for a packet the agents must investigate.            *)
AgentsEntry == IF deployment.filter THEN "filter_logs" ELSE "investigate"

(* The verdict a node writes, with no confidence stated.                   *)
Verdict(by, action) == [by |-> by, action |-> action, confidence |-> Unstated,
                        abstained |-> FALSE, run |-> runs]

(* Mutated form: a miss returns no update.                                 *)
LookupMissSilently ==
    /\ Step("runbook_lookup",
            [channels EXCEPT !.next = IF channels.source = "runbook" THEN "end"
                                                                     ELSE AgentsEntry])
    /\ UNCHANGED <<artifact, llm, rejections, acted>>

(* RUNBOOK_MODE=off, no runbook, another rule's fingerprint, an exception. *)
LookupMiss ==
    /\ Step("runbook_lookup",
            [channels EXCEPT !.source = "agent", !.next = AgentsEntry])
    /\ UNCHANGED <<artifact, llm, rejections, acted>>

(* A runbook the rule lookup did not contradict, served or shadowed.  Its  *)
(* resolution is passed on as it is, with a confidence if it states one.   *)
LookupHit ==
    /\ \E action \in RunbookActions, confidence \in Confidences \cup {Unstated} :
         \/ /\ deployment.runbook = "serve"
            /\ Step("runbook_lookup",
                    [channels EXCEPT !.source = "runbook", !.next = "end",
                        !.synthesis = [Verdict("runbook", action) EXCEPT
                                          !.confidence = confidence]])
         \/ /\ deployment.runbook = "shadow"
            /\ Step("runbook_lookup",
                    [channels EXCEPT !.source = "agent", !.next = AgentsEntry,
                        !.shadow_resolution = [action |-> action, agreed |-> FALSE,
                                               run |-> runs]])
    /\ UNCHANGED <<artifact, llm, rejections, acted>>

(* The LLM copies the logs, and may leave the banner out.                  *)
FilterLogs ==
    /\ \E logs \in {channels.logs} \cup (IF channels.logs = "gaps" THEN {"complete"}
                                                                   ELSE {}) :
          Step("filter_logs",
               [channels EXCEPT !.logs = logs, !.next = "investigate"])
    /\ UNCHANGED <<artifact, llm, rejections, acted>>

(* Any feedback makes it a retry: the prompt quotes the investigation and  *)
(* the feedback in the channels instead of the payload and the rule.       *)
Investigate ==
    /\ Step("investigate",
            [channels EXCEPT
                !.investigation =
                   [run |-> runs, quotes |-> IF channels.feedback.reply = "" THEN 0
                                             ELSE channels.investigation.run],
                !.feedback.current = FALSE, !.next = "review"])
    /\ UNCHANGED <<artifact, llm, rejections, acted>>

(* Mutated form: APPROVED anywhere in the reply.                           *)
MentionsApproved(reply) == reply \in {"approved", "not approved"}

(* The verdict must start with APPROVED.                                   *)
IsReviewerApproved(reply) == reply = "approved"

(* check_approval, on the feedback and the count the Reviewer returned.    *)
CheckApproval(reply, count) ==
    CASE IsReviewerApproved(reply) -> "synthesize"
      [] ~IsReviewerApproved(reply) /\ count >= MaxRetries -> "escalate"
      [] OTHER -> "investigate"

(* Mutated form: the count is left to the investigator.                    *)
ReviewKeepsCount ==
    /\ \E reply \in Replies :
          /\ Step("review",
                  [channels EXCEPT
                      !.feedback = [reply |-> reply, current |-> TRUE],
                      !.next = CheckApproval(reply, channels.retry_count)])
          /\ rejections' = IF reply = "approved" \/ rejections = Enough THEN rejections
                                                                        ELSE rejections + 1
    /\ UNCHANGED <<artifact, llm, acted>>

Review ==
    /\ \E reply \in Replies :
          /\ Step("review",
                  [channels EXCEPT
                      !.feedback = [reply |-> reply, current |-> TRUE],
                      !.retry_count = @ + 1,
                      !.next = CheckApproval(reply, channels.retry_count + 1)])
          /\ rejections' = IF reply = "approved" \/ rejections = Enough THEN rejections
                                                                        ELSE rejections + 1
    /\ UNCHANGED <<artifact, llm, acted>>

(* The agents did not agree: a verdict of manual review.                   *)
Escalate ==
    /\ Step("escalate",
            [channels EXCEPT !.synthesis = Verdict("escalate", "MANUAL_REVIEW"), !.next = "end"])
    /\ UNCHANGED <<artifact, llm, rejections, acted>>

----------------------------------------------------------------------------
(* The Synthesis node: an agent with the queue_for_replay tool.            *)

Conversing == running /\ channels.next = "synthesize"

(* The agent stages the packet's replay, in a conversation that may fail   *)
(* and be repeated, and whatever it answers in the end.                    *)
QueueForReplay ==
    /\ Conversing /\ acted' = TRUE
    /\ UNCHANGED <<deployment, channels, saved, running, llm, handler, fileVars, artifact,
                   runs, rejections>>

(* The first answer breaks the contract: the agent is asked to repair it.  *)
AskRepair ==
    /\ Conversing /\ llm = "first" /\ llm' = "repair"
    /\ UNCHANGED <<deployment, channels, saved, running, handler, fileVars, artifact,
                   historyVars>>

(* Mutated form: the runbook is compared with the agent's own action.      *)
CompareDraft(draft, final) ==
    IF channels.shadow_resolution.action = "none" THEN NoShadow
    ELSE [channels.shadow_resolution EXCEPT
             !.agreed = (channels.shadow_resolution.action = draft.action)]

(* What the shadowed runbook decided, and whether the verdict agrees.      *)
Compare(draft, final) ==
    IF channels.shadow_resolution.action = "none" THEN NoShadow
    ELSE [channels.shadow_resolution EXCEPT
             !.agreed = (channels.shadow_resolution.action = final.action)]

SynthesisEnds(draft, final) ==
    /\ Step("synthesize",
            [channels EXCEPT !.synthesis = final, !.source = "agent", !.next = "end",
                             !.shadow_comparison = Compare(draft, final)])
    /\ llm' = NewConversation /\ UNCHANGED <<artifact, rejections, acted>>

(* The agent's validated answer.  Nothing ties it to the replays staged.   *)
Synthesize ==
    \E action \in Actions, confidence \in Confidences :
       LET draft == [Verdict("synthesis", action) EXCEPT !.confidence = confidence]
       IN SynthesisEnds(draft, ApplyPolicy(draft, channels.logs = "gaps"))

(* The repair breaks the contract too.                                     *)
Unrepairable ==
    /\ llm = "repair"
    /\ LET escalated == Verdict("synthesis", "MANUAL_REVIEW")
       IN SynthesisEnds(escalated, escalated)

----------------------------------------------------------------------------
(* Checkpoints, failures and the casebook.                                 *)

(* The handler learns that the graph ended, if it still waits for it.      *)
Answer(filed) ==
    /\ IF handler = "awaiting"
       THEN casebook' = filed /\ inProgress' = FALSE
       ELSE UNCHANGED fileVars
    /\ running' = FALSE /\ handler' = "idle" /\ saved' = channels
    /\ llm' = NewConversation
    /\ UNCHANGED <<deployment, channels, artifact, historyVars>>

(* A node raises: a storage fault, retries exhausted, an open breaker.     *)
NodeRaises == running /\ Active(channels) /\ Answer(Failed)

(* The handler parses what the graph wrote once more.  An action outside   *)
(* the contract fails there, and so may a verdict whose texts quote a      *)
(* fenced object, which extract_json_block takes instead.                  *)
ParseOutcomes(verdict) == IF verdict.action = "invalid" THEN {FALSE} ELSE BOOLEAN

(* The casebook.  A verdict that cannot be parsed is one for a human; the  *)
(* comparison with the shadowed runbook is filed as it was made.           *)
Filed(c, parsed) ==
    [status  |-> CASE ~parsed -> "FAILED_SYNTHESIS_PARSE"
                   [] parsed /\ c.synthesis.action = "MANUAL_REVIEW"
                        -> "NEEDS_MANUAL_REVIEW"
                   [] OTHER -> "RESOLVED",
     gaps    |-> c.logs = "gaps",
     verdict |-> IF parsed THEN c.synthesis
                 ELSE [c.synthesis EXCEPT !.action = "MANUAL_REVIEW",
                          !.confidence = Unstated, !.abstained = FALSE],
     source  |-> c.source, shadow |-> c.shadow_comparison]

GraphEnds ==
    /\ running /\ ~Active(channels)
    /\ \E parsed \in ParseOutcomes(channels.synthesis) : Answer(Filed(channels, parsed))

(* The server-side budget or the consumer's own timeout files              *)
(* FAILED_TIMEOUT.  The graph thread runs on; its verdict will be dropped. *)
TimesOut ==
    /\ handler = "awaiting" /\ running
    /\ casebook' = Failed /\ inProgress' = FALSE /\ handler' = "idle"
    /\ UNCHANGED <<deployment, channels, saved, running, llm, artifact, historyVars>>

(* The API stops; its drain may file FAILED_SHUTDOWN first.  What was not  *)
(* checkpointed is lost.                                                   *)
ApiStops ==
    /\ running
    /\ \/ UNCHANGED fileVars
       \/ handler = "awaiting" /\ casebook' = Failed /\ inProgress' = FALSE
    /\ channels' = saved /\ running' = FALSE /\ handler' = "idle"
    /\ llm' = NewConversation
    /\ UNCHANGED <<deployment, saved, artifact, historyVars>>

(* prune_casesheets, days after the packet ended.                          *)
PruneCasesheet ==
    /\ casebook # NoCasebook /\ ~running /\ handler = "idle"
    /\ casebook' = NoCasebook /\ inProgress' = FALSE /\ artifact' = "none"
    /\ UNCHANGED <<deployment, channels, saved, running, llm, handler, historyVars>>

(* prune_checkpoints: the threads whose casebook exists.                   *)
PruneCheckpoint ==
    /\ casebook # NoCasebook
    /\ saved' = NoChannels
    /\ UNCHANGED <<deployment, channels, running, llm, handler, fileVars, artifact,
                   historyVars>>

NodeEnds ==
    \/ FetchLogs \/ LookupMiss \/ LookupHit \/ FilterLogs \/ Investigate \/ Review
    \/ Escalate \/ Synthesize \/ Unrepairable

Next ==
    \/ NodeEnds \/ QueueForReplay \/ AskRepair
    \/ NodeRaises \/ GraphEnds
    \/ Invoke \/ StubOverwritten \/ TimesOut \/ ApiStops
    \/ PruneCasesheet \/ PruneCheckpoint

Spec == Init /\ [][Next]_vars

(* A node's calls return or raise within their timeouts and retries.       *)
FairSpec == Spec /\ WF_vars(NodeEnds \/ GraphEnds)

----------------------------------------------------------------------------
(* Properties.                                                             *)

(* An escalation is earned in the run that files it: the Reviewer rejected *)
(* MAX_INVESTIGATION_RETRIES investigations of that run (check_approval,   *)
(* and the reset of retry_count in _investigate_packet), whatever count an *)
(* earlier run left in the checkpoint and however often it was resumed.    *)
EscalationEarned == casebook.verdict.by = "escalate" => rejections >= Enough

(* A verdict is synthesized only from an investigation of the same run     *)
(* that the Reviewer approved as it stands (is_reviewer_approved and the   *)
(* edge to synthesize), through retries, crashes and resumes.              *)
OnlyApprovedWork ==
    channels.synthesis.by = "synthesis" /\ channels.synthesis.run = runs =>
        /\ channels.investigation.run = runs
        /\ channels.feedback = [reply |-> "approved", current |-> TRUE]

(* The replay tool is called only for an approved investigation.           *)
ReplaysApproved ==
    [][acted' /\ ~acted =>
          channels.feedback = [reply |-> "approved", current |-> TRUE]]_vars

(* The casebook's verdict was reached in the run that filed it, by the     *)
(* party its resolution.source names: no channel an earlier run left       *)
(* (resolution_source, synthesis) passes for this run's result.            *)
VerdictOfThisRun ==
    casebook.verdict.by # "none" =>
        /\ casebook.verdict.run = runs
        /\ casebook.source = (IF casebook.verdict.by = "runbook" THEN "runbook"
                                                                 ELSE "agent")

(* A filed verdict of the agents respects apply_confidence_policy as a     *)
(* whole: with gaps on file its confidence is capped, and it acts only at  *)
(* the threshold or above, counted after the cap.  A served runbook's is   *)
(* excepted: the confidence it states is filed as it is.                   *)
PolicyHeld ==
    casebook.verdict.by # "runbook" /\ casebook.verdict.confidence # Unstated =>
        /\ casebook.gaps => casebook.verdict.confidence <= Ceiling
        /\ casebook.verdict.action # "MANUAL_REVIEW" /\ Threshold > 0
              => casebook.verdict.confidence >= Threshold

(* A shadow comparison made in this run says truthfully whether the filed  *)
(* action, after the policy, is the runbook's (synthesis_node): it is the  *)
(* evidence on which the runbook is promoted.  Excepted is a verdict that  *)
(* was compared and then failed the handler's parse.                       *)
ShadowTruthful ==
    /\ casebook.shadow.action # "none" /\ casebook.shadow.run = runs
    /\ casebook.status # "FAILED_SYNTHESIS_PARSE"
    => (casebook.shadow.agreed <=> casebook.shadow.action = casebook.verdict.action)

(* Every run ends: the loop of investigate and review is left.             *)
RunsEnd == running ~> ~running

(* Why they end: a run is at most 2 * Enough + 4 nodes long, and every     *)
(* node that ends leaves fewer; nothing else moves the channels of a       *)
(* running graph.                                                          *)
StepsLeft(c) ==
    LET rounds == 2 * (Enough - c.retry_count) IN
    CASE c.next = "fetch_logs"                -> rounds + 4
      [] c.next = "runbook_lookup"            -> rounds + 3
      [] c.next = "filter_logs"               -> rounds + 2
      [] c.next = "investigate"               -> rounds + 1
      [] c.next = "review"                    -> rounds
      [] c.next \in {"synthesize", "escalate"} -> 1
      [] c.next = "end"                       -> 0

LengthBounded == StepsLeft(channels) \in 0 .. 2 * Enough + 4

RunsShrink ==
    [][running /\ running' =>
          \/ ~NodeEnds /\ UNCHANGED channels
          \/ StepsLeft(channels') < StepsLeft(channels)]_vars

(* A fresh run investigates the packet, not an earlier run's findings      *)
(* (ARCHITECTURE.md:485, "reprocess from scratch").                        *)
StartsFromScratch ==
    channels.investigation.quotes \in {0, channels.investigation.run}

(* An abstention routes to manual review instead of acting                 *)
(* (confidence_threshold): its run called no replay.                       *)
AbstentionDoesNotAct == casebook.verdict.abstained => ~acted
=============================================================================
