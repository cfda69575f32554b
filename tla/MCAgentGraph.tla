---------------------------- MODULE MCAgentGraph ----------------------------
(* Instances of AgentGraph for TLC.                                        *)
EXTENDS AgentGraph

(* Every runbook mode; the log filter with the runbooks off.               *)
MCDeployments == [runbook: {"off"}, filter: {TRUE}]
                 \cup [runbook: {"shadow", "serve"}, filter: {FALSE}]
=============================================================================
