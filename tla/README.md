# Packet-CRM in TLA+

Packet-CRM takes packets that a biometric pipeline rejected, fetches their logs, has a
graph of language-model agents investigate them and stores a *casebook* per packet. It is
a handful of Python processes that meet in Kafka topics, in two JSON files per packet and
in a checkpoint database. Nothing spans those three stores in one transaction, so what is
hard about the code is what happens between two writes: a worker that outlives its
partition, a client that stops waiting, a process that dies between a file and a message.

Paths below are relative to `src/src/`.

## 1. The system

### Components

| Component | State it keeps | Operations | Correct when | Here |
|---|---|---|---|---|
| **Kafka consumer** `utils/kafkaConsumer.py`, run in four roles (fast, slow, dlt, dlt_analysis) | fetch positions, `OffsetTracker` (`_dispatched`, `_completed`), worker pool and semaphore, `_shutdown`; committed positions and group in the broker | poll loop, `_handle_one_message`, `_process_and_commit`, rebalance listener, `_commit_ready_offsets`, `_drain_and_commit` | nothing is committed past that nobody took charge of; only owners commit; no offset holds the floor for ever | modelled, except heartbeat and health server |
| **Message adapters** `utils/message_adapters.py` | none (the casebook files) | `parse`, `should_skip`, `timeout_casebook`, `save_terminal` | a finished packet is not forwarded again | verdicts modelled |
| **Publishers** `utils/dlq_publisher.py`, `utils/analysis_queue_publisher.py` | a shared producer | `publish_to_dlq`, `publish_to_analysis_queue` | a publish that returned was delivered (it need not be: section 4) | modelled by outcome: delivered, refused, or lost in silence |
| **API packet lifecycle** `api/routes.py`, `main_api.py` | `_in_flight_events`, `status.json`, `casebook.json` | `fetch_logs`, `analyze_rejection`, `_investigate_packet`, `drain_and_shutdown` | one investigation at a time, a verdict in both files, every packet settled | modelled, except rate limiter and producer health |
| **Casebook storage** `storage/*` | two files per packet, each under a file lock | `save`, `load`, `terminal_status`, `save_terminal` | a terminal `status.json` has a casebook behind it | modelled, without log artifacts |
| **Agent graph** `core/*` | LangGraph channels and their checkpoint, per `thread_id` | its nodes, the review loop, the runbook bypass, resume | the loop ends; only approved work is synthesized; a casebook holds its own run's verdict | modelled, except the proposed learning rules |
| **Synthesis contract** `models/synthesis.py` | none | `parse_synthesis`, `apply_confidence_policy` | an incomplete trace caps the confidence, a low one abstains | modelled |
| **Pruning tools** `tools/prune_*.py` | - | delete old casesheets and finished checkpoints | - | modelled with the graph |
| **Dead-letter flow** `api/dlt_routes.py`, `dlt/*` | two files and the fetched logs per case, a group record per fingerprint | `fetch_dlt_logs`, `analyze_dlt`, `record_occurrence`, `attach_recommendation`, `maybe_replay` | no case forgotten; each counted once; a score within its evidence; no replay on a guess, nor twice | modelled, except the agents' review loop |
| **Dead-letter classification** `dlt/classify.py`, `dlt/corroborate.py`, `dlt/headers.py`, ... | none | pure functions over text | - | class and verdict modelled, parsing left out |
| **Log fetching** `log_pipeline/sources/*` | circuit breakers per process, two snapshot files per packet | source chain, pod discovery, fan-out of reads under a deadline, snapshot, Elasticsearch search | "found nothing" is never said for "could not look", and what is missing is announced | modelled, except clients, query texts and the order of merged lines |
| **Log reduction** `log_pipeline/pipeline.py`, `reducer.py`, `catalog.py`, `sources/k8s/filtering.py` | a Drain3 tree and a catalog in memory and on file | streaming selection, reduction, clustering, guardrails, `build_catalog` | no evidence of the log is lost, a template has its own class | modelled, except redaction and artifacts |
| **Resilience** `utils/resilience.py`, `sources/k8s/retry.py` | breakers, attempts | `call`, `call_with_retry`, file locks | an outage of one source is no outage of the others | modelled where the log fetch uses it |
| **Tool registry and review queues** `tools/tool_registry.py`, `tools/approve_replays.py`, `tools/promote_rules.py` | two pending files, the prompt file, the rule cache | queue, approve, propose, promote, look up | a request stays until it is dealt with, and is dealt with once | modelled, except the text checks of a rule |
| **Runbooks, learning rules and outcomes** `utils/runbook_store.py`, `tools/build_runbooks.py`, `tools/promote_runbooks.py` | drafts and runbooks on file, two caches per server | lookup, draft, promote | only reviewed runbooks are served, stale ones not for long | modelled, except outcome records and which casebooks a draft is made of |
| **Operator tools, metrics** | reports, counters | - | - | not modelled: nothing depends on their state |

### How they interact

    rejections topic --> fast consumer --POST /fetch-logs--> API --> analysis-queue topic
                                                              \--> status.json = LOGS_FETCHED
    analysis-queue   --> slow consumer --POST /analyze-rejection--> API
                                                              |--> status.json = IN_PROGRESS
                                                              |--> agent graph (thread, checkpoint)
                                                              \--> casebook.json, status.json
    consumer: 2xx -> offset completed;  timeout -> FAILED_TIMEOUT files, DLQ, completed;
              any other error -> DLQ, offset abandoned

    dead-letter topic --> dlt consumer --POST /fetch-dlt-logs--> API --> dlt-analysis-queue topic
                                                                   \--> fetched_logs.txt, status.json
    dlt-analysis-queue --> dlt_analysis consumer --POST /analyze-dlt--> API
                                     |--> group.json (count, verdicts, recommendation), under a lock
                                     |--> replay request
                                     \--> casebook.json, status.json

    investigation --> source chain: Kubernetes (snapshot, discovery, pool of reads) | Elasticsearch
                  --> reduce_logs: selection, Drain3 tree (drain3_state.bin), catalog --> agents
    agents --> pending_replays.jsonl <-- approve_replays --> OIS
           --> pending_rules.jsonl   <-- promote_rules   --> InvestigatorAgent.md
    casebooks --build_runbooks--> draft --promote_runbooks--> runbook --> lookup before the agents

A consumer is one poll thread and `MAX_CONCURRENT_INVESTIGATIONS` worker threads that share
the tracker. In the API, `/fetch-logs` runs on a threadpool, `/analyze-rejection` is a
coroutine on the event loop, the graph runs on an executor thread that nobody can stop, and
the shutdown drain runs on a thread beside the loop. The consumers write the same two files
when they time out.

### What is hard

- *Out-of-order completion*: offsets finish in any order and Kafka commits a prefix.
- *Ownership*: a worker may finish after its partition went to another member.
- *Two files, five writers*: handlers, the timeout path, the fetch handler, the drain and a
  storage fault half-way, with no lock over both files.
- *Timeouts that do not stop the work*: both the client's and the handler's leave the graph
  thread running.
- *Answers that consume a message*: a duplicate is answered 200 while the first call works.
- *Crashes*: the tracker and `_in_flight_events` are in memory, the checkpoint and files are not.
- *Reads that hang*: a fetch has a deadline, its reads do not stop; what came too late must be announced, also
  by those who reuse the snapshot of the fetch, and the snapshot is two files.
- *One tree, many processes*: the template tree is loaded once per process and written back whole.
- *Files rewritten around a human*: the queue tools read, ask an operator for minutes and rewrite.
- *Two caches in a row*: a runbook and the rule it is compared with age independently.
- *A cache that acts*: a recommendation earned by one case is served to the next ones of its
  fingerprint and may replay them without a human.

The full list, each at its line, is under `hazards` in `PROJECT.json`.

## 2. Modules

| Module | Role |
|---|---|
| `OffsetTracker` | the tracker's arithmetic for one partition: what still runs, what may be committed |
| `AtLeastOnce` | abstract specification: positions only move forward, over accounted messages |
| `KafkaConsumer` | one consumer group: members, broker, DLQ, endpoint and casebooks as it sees them |
| `MCKafkaConsumer` | its instances for TLC |
| `KafkaConsumerProofs` | its theorems |
| `PacketLifecycle` | one packet through both endpoints: clients, handlers, graph threads, drain, files |
| `MCPacketLifecycle` | its instances for TLC |
| `PacketLifecycleProofs` | its theorems |
| `SynthesisPolicy` | the confidence policy as operators on a verdict |
| `AgentGraph` | one packet's investigation: graph, checkpoint, agents, casebook, over several runs |
| `MCAgentGraph` | its instances for TLC |
| `AgentGraphProofs` | its theorems |
| `DltPolicy` | the pure decisions of the dead-letter flow: class, verdict, treatment, ceilings, replay gate |
| `DltCase` | the dead letters of one failure mode: consumers, both endpoints, files, group, replays |
| `MCDltCase` | its instances for TLC |
| `DltCaseProofs` | its theorems |
| `PodDiscovery` | which pods a fetch reads, as operators on a cluster's answer |
| `Resilience` | retries and circuit breakers, as operators |
| `LookedOrSaid` | abstract specification: found, absent and could-not-look stay apart; losses are announced |
| `LogFetch` | several processes fetching logs: source chain, fan-out, snapshot, breakers |
| `MCLogFetch` | its instances for TLC |
| `LogFetchProofs` | its theorems |
| `LineSelection` | the selector that reads a pod's log once, with the windows it must keep as reference |
| `LogReduction` | what the agents are shown of a log; template trees, catalogs and their builder |
| `MCLogReduction` | its instances for TLC |
| `LogReductionProofs` | its theorems |
| `ReviewQueues` | replays and learning rules between agents and operators |
| `MCReviewQueues` | its instances for TLC |
| `ReviewQueuesProofs` | its theorems |
| `Runbooks` | drafting, promoting, caching and serving the runbooks of one reason code |
| `MCRunbooks` | its instances for TLC |
| `RunbooksProofs` | its theorems |

### `KafkaConsumer`

A member is where its poll thread stands (`main`), the partitions it believes it owns
(`assigned`), what it polled (`position`) and handed out (`next`), its tracker
(`dispatched`, `completed`) and one `job` per worker thread. The broker has `owner`,
`inGroup` (members of the current generation, whose commits it takes), `committed` and
`dlq`. What the endpoint and the storage know of a message is `answered` and `casebook`.

- The poll loop is `CommitReady`, `Poll`, `NextMessage`, `Handle...`, in the order of
  `consume_forever`; each `Handle` is one outcome of `_handle_one_message`.
- `_commit_ready_offsets` is one action: it takes the committable offsets (`Retire`) and
  commits them, and a failed commit leaves them retired, as the code does.
- A worker thread is `ForwardAnswered`, `ForwardTimeout` then `TimeoutToDlq`, or
  `ForwardError`, so that a crash or a revocation can fall between the casebook and the DLQ.
- `Revoke` runs only inside `poll()`, where kafka-python calls the listener. `Evict` is the
  broker dropping a member that polls too rarely; the member learns of it later (`LateRevoke`)
  and its commits fail until then.
- `RecordVerdict` is the API writing a verdict, at any time after a forward.
- The message's content is reduced to two sets: `Poison` (does not parse), `NotRejected`
  (skipped for its status).

Commits and polls are atomic against the worker threads of the same member: the tracker's
methods hold one lock, and between the lock and `consumer.commit` a worker can only add
completions, which commute with the commit.

`Accounted` is the notion of a message being in somebody's hands: answered 2xx, in the DLQ,
with a terminal casebook, or not a rejected packet in the first place. `NoLoss`, every message below
a committed position is accounted for, is what the repository says and does not hold (section 4). Three
history variables record why: `dropped` has the messages whose DLQ publish failed, which the log
names; `silent` those whose send was lost after `flush()`, which the log calls published, since nobody looks at its
future (`dlq_publisher.py:50`); and `interrupted` the partitions revoked from a member that had a worker on them. `Covered` is
accounted for, dropped or silent; `LossExplained` says that below the committed position of every partition
not interrupted (`Undisturbed`) all messages are covered, and `KeepsPromise` that the group implements
`AtLeastOnce` under `accounted <- Covered, void <- interrupted`. The guards read none of these variables.

### `PacketLifecycle`

One packet. `queued` counts its messages waiting on each endpoint's topic; a `Call` is one
HTTP request with its handler (`at`, `value`), its graph thread (`graph`) and the worker
thread that waits for it (`client`). The consumer's other mechanics are reduced to what
`KafkaConsumer` shows of them: a message is done with when it was answered or put in the DLQ, consumed with a
later commit (`Commit`), and until then redelivered after a crash or a rebalance (`Redeliver`; the old worker may live on).

- `/fetch-logs`: `FetchCheck`, `FetchReadStatus`, `FetchMark`, `FetchPublish`. The read of
  `status.json` and the save of `LOGS_FETCHED` are two actions, because they are two file
  operations on a thread of their own.
- `/analyze-rejection`: `AnalyzeCheck`, `AnalyzeReadStatus`, `AnalyzeDecide` (the reads of `casebook.json`, of
  `status.json` and of the checkpoint, one action each), `AnalyzeInvoke`, `AwaitEnds`,
  `Guard`, `HandlerSavesCasebook`, `HandlerSavesStatus`. It is a coroutine: `LoopFree` keeps
  two calls from interleaving between awaits, while threads and other processes may.
- The budget expiring in `AwaitEnds` leaves `graph[c] = "running"`: the thread goes on
  and advances the checkpoint under the next call.
- `save_terminal` is two steps everywhere. A storage fault can fail either
  (`SavingFails`, and a disjunct of `ClientSaves` and `DrainSteps`).
- The graph is a checkpoint (`none`, `active`, `done`) and an outcome (returned, raised).
- `Shutdown`, `DrainSteps`, `Exit`, `Crash` and `Restart` are the API process. `Die` loses
  handlers, threads and `inFlight`; files, checkpoint and topics stay.

`VERDICT` stands for all statuses of a finished investigation. `Age` lets an `IN_PROGRESS`
stub become stale only when no handler is at work: `MAX_IN_PROGRESS_AGE_SECONDS` is far
longer than the handler's budget. `lost` is history: a send to the analysis queue failed
after `flush()` and nobody looked.

### `AgentGraph` and `SynthesisPolicy`

`PacketLifecycle` reduces the graph to a checkpoint and an outcome, and lets handlers overlap;
`AgentGraph` opens the graph and lets one handler run at a time. `channels` is the `GraphState`
with the node it is about to run, `saved` the last checkpoint, `casebook` what the handler filed.
A field `run` in a channel is history: the run that wrote the value.

- One action per node, its outgoing edge included: `FetchLogs`, `LookupMiss` and `LookupHit` with
  `AgentsEntry` (`check_runbook_hit`), `FilterLogs`, `Investigate`, `Review` with `CheckApproval`,
  `Escalate`, `Synthesize` or `Unrepairable`.
- `Step` writes the channels and, perhaps, the checkpoint: LangGraph saves in the background, so
  a crash (`ApiStops`) may lose the newest one, never an older one.
- `Invoke` is `Fresh` (payload and `retry_count` are overwritten, nothing else) when no node is
  pending in the checkpoint, else `Resume`.
- The Synthesis node is a conversation (`llm`): `QueueForReplay` is its tool, called or not whatever is answered
  then; `AskRepair` is the retry decorator or the repair prompt, which start it again.
- The agents are an environment: any reply, any action in the contract, a confidence from
  `Confidences` or none, an invalid answer twice.
- The handler parses the text of the answer once more (`ParseOutcomes`), and may fail to for any verdict: `extract_json_block`
  takes a fenced object first (`synthesis.py:72`), and an agent's words or those an escalation quotes may hold one.
- `GraphEnds` files the verdict or the failed parse (`Filed`), `NodeRaises` a DLQ casebook, `TimesOut` a timeout;
  the graph thread of a handler that timed out runs on, and can still queue a replay.
- `PruneCasesheet` and `PruneCheckpoint` are the two tools, each blind to the other's store.

Logs are three values: none, complete, or opening with the evidence-gaps banner. The filter agent
may drop the banner (`FilterLogs`), after which neither the cap nor the casebook's `gaps` see the
gaps: `PolicyHeld` is about the gaps on file. A served runbook is not validated until the handler
parses it, so it may be `"invalid"`; a confidence it states is filed as it is (`routes.py:781`), since no policy is applied to it.

### `DltCase` and `DltPolicy`

A case has its files (`logs`, `casebook`, `status`), a place where its record is (`waiting`,
`carries`, `inDlq`) and a count of the replays asked for it (`replayed`); a `call` is one HTTP
request on a thread of its own (both endpoints are sync handlers), with what it has read, and `client` the
worker thread behind it. All dead letters share one `failure`, and so one record in `group`.

- `/fetch-dlt-logs`: `FetchCheck`, `FetchLogs`, `FetchRead`, `FetchPublish`, one per file operation.
- `/analyze-dlt`: `AnalyzeCheck`, `Record` (the occurrence, and the treatment decided on the record it
  returns), `Investigate`, `Attach`, `Replay`, `AnalyzeSaves` (two files). `Record` and `Attach` are
  one action each: the group's lock is held throughout. `Loads` lets a group be unreadable, which the code takes for novel.
- Both consumers use `DltAdapter`. A record of the analysis queue has no Kafka headers, so the
  adapter names it after its place (`QueueCases`) and finds no trace (`Unparsed`): see section 4. What
  then exercises the analysis of a real case is `Post`, a client that posts a fetched case to the
  endpoint, as `tests/test_dlt_analysis_replay.py` does.
- A send to either topic may be lost (`Loses`, the third outcome of `FetchPublish`): `lostSends` records it, and the call or
  the consumer goes on as if it had not been.
- The agents are an environment: any finding of `AgentFindings`, or an answer that breaks the contract twice.
- `Redeliver` lets the old worker live on or not, as in `PacketLifecycle`.

`DltPolicy` works on what the parsers report: the exception at the root, whether there is an enumerated code and what
the catalog says of it (`Failures`), and what the error lines of the logs name (`Logs`). Scores are
thousandths; `0.95 * score` is rounded down, so a model score may lie a thousandth below the code's, never above.

### `LogFetch`, `PodDiscovery`, `Resilience` and `LookedOrSaid`

A fetcher is a process that fetches for one packet at a time. `pc` is where the fetch is, `chain` the sources still to
try (the current one first), `found` what discovery returned, `read` the reads of the fan-out, `result` the `FetchResult`.
Each fetcher has `breaker`s of its own; `records` and `meta` are the two snapshot files, shared.

- Kubernetes: `FailFast` (open breaker), `ReuseSnapshot`, `Discover`, `EndRead` and `ReadRaises` (pool threads),
  `Conclude` (all reads are in, *or* the deadline passed), `SaveRecords`, `SaveMeta`, `SaveFails`, `FetchRaises`.
  A read that is queued, runs or hangs is `"pending"`; what it brings after the deadline is discarded. An oversized log is cut,
  and `ReadPodLogs` says whether the reader notices.
- Elasticsearch: `Search` (up to `LOG_MAX_DOCUMENTS` hits), `SearchRaises`, `SearchRefused`.
- The chain: `NextSource` and `Answer`, with the gap `SOURCE_FALLBACK` when a source was `abandoned`, looked or not.
- `BreakerResets` is the reset timeout; it may come at any time after the breaker opened.
- `PodDiscovery` computes the targets, gaps and losses of a discovery as set expressions: the round-robin merge is
  the order of the services' turns (`Turns`, `Precedes`) cut at the total cap. `CallWithRetry` picks the reply of
  the first attempt that is not followed by another.

`lost` in a result is history: what the answer lacks of what was asked for. `Announcement` says which gap announces which
loss; a loss in `Silent` has none in the code (see section 4). The refinement mapping shows the answer, what it lacks
and what it says of that as the variables of `LookedOrSaid`.

### `LogReduction` and `LineSelection`

`LineSelection` is `ContextWindowSelector`: `Match`, `KeepTrailing`, `Hold` are the branches of its loop over `held` (the
deque), `trailing` and the lines emitted (`kept`). `ExactlyTheWindows` is the reference definition.

- A packet is `Receive`, then one action per line (`ReadLine` for a pod, `SearchLine` for a hit of Elasticsearch,
  `ReadInstance` for the next instance of a container), then one of the paths of `reduce_logs`: `ShowNothing`, `ShowTrace`,
  `ShowErrors`, `ShowTemplates`, or `LockTimesOut`.
- `ShowTemplates` is one action because `cluster_logs` holds a thread lock and a file lock; it learns into the tree in
  memory (`miner`, loaded once) and writes that over `stateFile`. `forked` records that it did not extend the file.
- `BuildFlow`, `SkipFlow`, `SaveCatalog` are `build_catalog`. Template numbers are positions in a tree, the catalog is keyed
  by number, and `catalog` is each process's copy.
- One packet is at work at a time: only the clustering shares state, and it is locked.

### `ReviewQueues`

`file` holds the lines of the two queue files; `told` what an agent was answered; `posts` and `prompt` what was done.
An operator's tool is `pc`, the lines still to show (`left`), dealt with (`done`) and, while it rewrites, `remaining`.

- Agents: `QueueReplay`, `PostAtOnce` (with `ENABLE_AUTO_REPLAY`), `ProposeRule`, `RejectRule`, `QueueFails`.
- `approve_replays`: `OpenReplays`, then `ApproveReplay`, `PostFails`, `DiscardReplay` or `Skip` per line, then
  `Truncate` and `Write`. `promote_rules` begins with `CheckPromotion` (its lock, then `git status`) and
  `OpenRules`, and deals with a line by `PromoteRule` or `Skip`.
- The file lock is held over an append, a read, and from `Truncate` to `Write`; not while the operator thinks.
- `Dies` is a tool killed, interrupted or timed out at the file lock.
- An append that fails (`QueueFails`) may leave a part of a line (`cutOff`), to which the next entry is glued (`glued`). `OpenReplays`
  never gets past such a line, and `promote_rules` passes over it. `GitFindsNothing` is a clean directory, or a git that failed.

### `Runbooks`

One reason code. `rule` is its rows in the database, `draft` and `final` the files by enrolment type, `ruleCache` and
`bookCache` the caches of each server, `looking` the lookup a server is in. `promoting`, `offered`, `shown`, `version` are
a run of `promote_runbooks`.

- A server: `GetRunbook` (exact type before `ANY`), `CheckRule` (the fingerprint against the filtered rows), `Serve`;
  `Investigate` is an agent reading the rule through the same cache; `Restart` empties both. What is read from a file or the
  database enters its cache in another step, `CacheBook` or `CacheRule`, by when it may have been replaced (`ruleReads`).
- The operator: `StartPromotion`, `ShowDraft`, `Approve` or `Decline`, `RemoveDraft`, `CommitPromotion`, `EndPromotion`.
  Writing the runbook, removing the draft and committing are steps of their own (`PromotionDies` falls between).
- `BuildDraft` is `build_runbooks`, which writes over a draft whoever looks at it.
- `Tick` is a unit of the caches' clock; `EditRule`, `Outage`, `Recover` and `Commit` are the world.

## 3. Runs

| Run | Bounds | Shows |
|---|---|---|
| `consumer_group` | 2 members, 1 partition, 2 messages (one poison), 2 threads, 1 stop, 1 rebalance under running workers or not, a DLQ that delivers, drops or loses in silence | `TypeOK`, `LossExplained`, `OnlyOwnerCommits`, `KeepsPromise` hold in 1 623 383 states |
| `consumer_liveness` | 1 member, 3 messages, 2 threads, 1 stop, 1 rebalance; the DLQ always delivers (`DlqOutcomes = {"delivered"}`) and partitions leave idle workers only (`QuiescentRevoke`) | `NoCommitStall`, `EveryMessageAccounted` under fairness, in 90 544 states |
| `consumer_dlq_dropped` | 1 member, no stop or rebalance | a dropped DLQ publish loses its message |
| `consumer_stale_commit` | 2 members, 1 rebalance while a worker runs | the old owner commits past the new owner's messages |
| `packet_lifecycle` | 2 overlapping calls, 1 redelivered analysis, 1 client timeout, 1 storage fault, 1 stop, a send that may be lost | the safety properties of a packet and `SettlesWhileUp`, in 858 759 states |
| `agent_graph` | 2 runs of one packet, 2 retries, confidence 0.3, 0.9 or none against threshold 0.5 and ceiling 0.4, runbooks `REPLAY` and invalid, 3 deployments | the safety properties of an investigation and `RunsEnd`, in 379 852 states |
| `dlt_case` | 2 dead letters, 2 places on the analysis queue, 2 overlapping calls, `MemberCap` 1, 2 posts, mishaps or lost sends; default ceilings, threshold 0.55 | the safety properties of a dead-letter case, in 1 259 478 states |
| `log_fetch` | 2 fetchers, 1 packet, 2 services, 2 pods of 2 containers, 1 pod per service and 2 in all, 2 attempts, `FailMax` 1, 2 fetches, 1 fault, 4 answers of the cluster | `TypeOK`, `OutageIsolated`, `LooksOrSays`, and `FetchesEnd` under fairness, in 193 551 states |
| `log_reduction` | 4 lines in 3 templates, windows of 1, 2 processes and the builder, logs up to 3 lines in 2 instances, rare below 3 with 1 example, 3 reports, 1 catalog, 1 crash | `TypeOK`, `PodLinesExact`, `EvidenceKept`, `ClassesFit`, in 1 822 410 states |
| `log_template_clash` | 3 lines, logs up to 2 lines in 1 instance, no crash, otherwise the same | a template the catalog has never seen reduced as boilerplate |
| `review_queues` | 3 replays (1 automatic), 2 rules and 1 of old, 2 operators, 3 runs, 1 fault, 2 commits | `TypeOK`, `NothingLost`, `ActedOnOnce`, in 1 110 012 states |
| `runbooks` | 1 server, 1 type and `ANY`, 2 rows (1 for another type), TTL 2, 2 drafts, 2 promotions, 1 rule edit, 1 fault, 1 commit | `TypeOK`, `OnlyReviewedServed`, `StaleForLessThanTTL`, in 2 131 432 states |

Nine more configurations are kept to be run by hand. `dlt_all_logs` is `dlt_case` with logs that contradict the trace as well;
it passes, in 2 738 754 states and more time. Each of the others ends in a counterexample that section 4 describes:
`packet_stuck_after_crash`, `packet_two_investigations`, `agent_stale_feedback`, `agent_abstains_after_replay`,
`dlt_analysis_renamed`, `dlt_lost_send`, `log_silent_loss` and `log_rare_cut`. The properties of the passing runs name what these show as their exceptions.

**Why these bounds.** Two messages and two threads give every order of completion, a floor held
by the lower offset, and a third message lets the liveness run meet a full pool. Two members are
what it takes for an old and a new owner. One rebalance takes a partition from a busy or an idle member, whose
tracker would keep its entry if `forget` were missing; the stop is a second way to lose it, so that a partition
may leave and come back. Two calls are what a duplicate needs, and no
property is about three. Members are interchangeable in the initial state and in every action,
so `consumer_group` uses symmetry; the liveness runs do not.
Two runs of a packet are what it takes for one to inherit from another, and two retries for a loop
that comes back and one that ends. A ceiling below the threshold makes the cap decide the abstention;
0.9 is above both and 0.3 below both, so that a verdict abstains by its own confidence, by the cap, or not at all.
In `dlt_case` two cases let the second be served what the first earned; a member list of one evicts the first as the second is
counted, and a third count is what a second analysis would add. `MaxEvents` is two posts, mishaps or lost sends together: one
case posted twice, two cases posted, or one posted through any one mishap; the records' own way through both
queues is not counted. The threshold lies between the ceiling of an unverifiable
finding (0.5) and that of gapped logs (0.6), so that the ceilings decide on the replay. The
logs are corroborating and gapped, or a note (`dlt_all_logs` adds contradicting ones); the trace is of class A or moved to C by the catalog; the phantom cases are of class U.
In `log_fetch` two fetchers are what a shared snapshot needs, and one fetch each or two of one let the second reuse the
first's or wait for its breaker; the cluster's answers are all there, one list failing (to the rest of the fetch the same as
a closed namespace), no pods, and nothing that may be read; the pods are one new and oversized, one old, restarted, rotated and the only one that mentions the packet, so that every loss
occurs. In `log_reduction` three lines and windows of one give overlapping windows, windows cut by either end and an instance
boundary; a template that occurs twice is rare and has one example; two processes, one with an old tree, are what a fork needs.
`review_queues` lets two tools hold one line, a tool die between its act and its rewrite, and a third run find what they left; symmetry
between operators and between the two queued replays. `runbooks` with a TTL of two has a copy of each age; with the one type,
the rows the rule has for it are all of them, some of them, or none of its own (`Filter`); two drafts let one
replace the other before, while and after it is reviewed; two servers share no state.
The filter agent and the runbooks meet in no node, so `MCDeployments` varies them one at a time.

**Fairness.** The poll loop, the worker threads (whose forward carries a timeout), the
handlers, the graph threads (model calls have timeouts), the clients and the restart of a
dead process (its supervisor) are weakly fair. Assignment is strongly fair: a member is
assignable only while in `poll()`, which it leaves and enters again. Crashes, shutdowns,
redeliveries, timeouts and evictions are never fair. `WF(Handler(c))` is on the disjunction of
all steps of a handler: it does not promise any particular outcome.

In `AgentGraph` one condition is fair: a pending node or the end of the graph is reached, because every model call
has a timeout and at most three attempts; no reply is fair, nor is invoking, so `RunsEnd` rests
on the retry counter alone.

In `LogFetch` only `FetcherStep` is fair: the fetching thread goes on, and `Conclude` is among its steps because `as_completed` has a
timeout. Reads are not fair (they may hang for ever), nor are resets, faults or new fetches.

**Deadlock** is off for the packet, agent, dead-letter, log, queue and runbook runs: the life of a packet ends, and their
inputs are bounded. It is on for the consumer.

**Properties of `packet_lifecycle`**

- `StatusHasCasebook`: a terminal `status.json` has a terminal casebook behind it, whoever
  crashes, faults or times out between the files. The order of the two writes is what it rests on.
- `FilesAgree`: the files hold the same terminal status once nobody writes, as long as neither a
  consumer timeout nor a stop brought a second process or thread to the files, and no save failed when a redelivered
  rejection may have started a second investigation (then one of two outcomes may be half saved beside the other).
- `OneUnlessRefetched`: no two handlers wait for a graph of the packet at once, while the API is up, unless the *fetch* was
  redelivered or a client timed out (either may write between a handler's reads). A duplicate that arrives at any point of an
  investigation is turned away; a graph thread whose handler ran out of budget is not counted.
- `SettlesWhileUp`: while the API stays up the packet ends in a casebook or the DLQ, through
  timeouts, refusals, raised graphs and duplicates. The ways out the code leaves are named in the property (`Excused`):
  a send lost in silence, and a verdict that cannot be saved after a redelivery, whose duplicate was already answered. The DLQ counts as an
  end: a 429 or 5xx answer is neither retried nor redelivered.

**Properties of `agent_graph`**

- `EscalationEarned`: an escalated casebook follows as many rejections *in its own run*.
- `OnlyApprovedWork`, `ReplaysApproved`: a verdict is synthesized, and a replay queued, only from an
  investigation of this run that the Reviewer approved as it stands, through resumes that repeat nodes.
- `VerdictOfThisRun`: no channel of an earlier run is filed as this run's verdict or source.
- `PolicyHeld`: cap before abstention, on the verdicts of agents that are filed. `ShadowTruthful`: the comparison is with
  the action after the policy, unless the verdict then failed the handler's parse.
- `RunsEnd`: the loop of investigation and review is left.

**Properties of `dlt_case`**

- `NothingForgotten`: a record waits, is held by a consumer, is on the analysis queue, in the DLQ, or its case is
  settled -- or a send of it was lost. It rests on the order casebook, DLQ, commit, in two processes. That a fetched case waits
  on the analysis queue is all it asks: item 7 of section 4 holds beside it.
- `GroupCounts`: a case is counted once, however often it is delivered, analysed or retried, as long as the
  cases fit the member list; never too few beyond; the verdicts add up to the count.
- `ConfidenceBounded`, `CachedUndecayed`: whoever found it, a finding on file is within the ceilings of *its own* case's
  failure and verdict, and a decayed score is not cached.
- `NeverReplayedBlind`: a case whose logs were not compared with its trace is not replayed, even on a
  recommendation that other logs earned. A case whose fetch was redelivered is excepted: the second
  fetch may replace the logs by a note.
- `ReplayedOnce`: nor is it replayed twice. The exceptions are what the code leaves open: two calls at
  once (there is no in-progress guard), and a crash or fault between the replay and the casebook.

**Properties of `log_fetch`**

- `LooksOrSays`: the fetch implements `LookedOrSaid`: an answer announces what it lacks, whichever source won, whatever raised,
  hung, was capped or came from another process's snapshot. A fan-out whose reads all failed never answers "no logs"; when the
  fallback then finds nothing, the answer is "no logs" and `SOURCE_FALLBACK` announces the source that could not look.
  What is excepted is `Silent`, each member with its line in section 4.
- `OutageIsolated`: a process is refused a search only if *its own searches* have raised.
- `FetchesEnd`: the deadline, and the abandoned pool, end a fetch whose reads hang.

**Properties of `log_reduction`**

- `PodLinesExact`: one pass with a deque and a counter keeps exactly the windows, once each and in order, over instances.
- `EvidenceKept`, by path and whatever the catalog says: every error is shown. In a log with errors, what is not shown is outside
  the context of all of them, and may be neither shown nor counted. In a log without, decisions, the ends of the flow and the first
  `MaxExamples` lines of a rare template are shown and every other line is counted under its template. That rare templates are kept
  in full, as the repository says, is `RareKeptInFull`, which does not hold (item 10 of section 4).
- `ClassesFit`: numbers mean the same template to every process and catalog *as long as no process has written a tree over one
  it does not extend*; `log_template_clash` shows what happens otherwise.

**Properties of `review_queues`**

- `NothingLost`: a request that was acknowledged waits, is dealt with, or was lost with a tool killed while it rewrote the file;
  agents append between a tool's read and its rewrite. It does not say that an operator gets to see the request (section 4).
- `ActedOnOnce`: no second post or promotion, through concurrent appends and tools; the exceptions (`excused`) are a tool that died
  between its act and its rewrite, a post whose answer was lost, and two operators who had the replay before them.

**Properties of `runbooks`**

- `OnlyReviewedServed`: a draft built anew while the operator reviews it is not what gets promoted.
- `StaleForLessThanTTL`: a runbook promoted over, or whose rule has changed, is used for less than `TTL` after, although two caches of
  that age stand in a row and a copy read before the change may be cached after it, unless there were no rows to compare.

## 4. Disagreements with the repository's text

Items 1, 2 and 8 are findings of `PROJECT.json`, each with the line it contradicts; the others are shown by the
configurations that are run by hand.

1. `consumer_dlq_dropped`: `publish_to_dlq` never raises, neither when it has no producer nor when the send fails, and does not
   learn of a send lost after `flush()`, so "if the DLQ publish fails the offset
   stays dispatched" is unreachable, and the offset is retired without the message being anywhere.
2. `consumer_stale_commit`: `completed()` after `forget()` makes a new entry in the tracker's
   `defaultdict` for a partition that is gone. In later polls the member commits it. The broker
   accepts it because kafka-python names the member's *current* generation.
3. `packet_stuck_after_crash`: `already_processing_resumed` is answered without invoking the graph.
4. `packet_two_investigations`: `fetch_logs` reads and then overwrites `status.json`.
5. `agent_stale_feedback`: "from scratch" resets `retry_count` and leaves `reviewer_feedback`, which is what
   makes an investigation a retry: the prompt then quotes the previous run and has neither payload nor rule.
6. `agent_abstains_after_replay`: the policy that routes a doubtful verdict "to manual review instead of
   acting" is applied after the agent has acted.
7. `dlt_analysis_renamed`: the queue "the DLT analysis consumer forwards fetched cases" from carries a JSON
   value without headers, and its consumer reads the headers and not the value. The phantom case is filed as
   class U for manual review, and the fetched one stays `LOGS_FETCHED`. The flow's tests post to the endpoint.
8. `log_template_clash`: the lock of `cluster_logs` covers its save (`reducer.py:160`), but the tree it saves was loaded when the
   process started. Numbers are given twice, and the catalog, keyed by number, classifies a template it has never seen,
   which `catalog.py:10` rules out.
9. `log_silent_loss`: "incomplete evidence is announced" (`KUBERNETES_LOGS_PLAN.md:153`), but a read that fails other than by
   404 leaves no gap when another pod was read (`retrieval.py:305`), nor does the previous instance of a restarted container, which
   is never requested (`retrieval.py:183` opens the current one both times). Nor does a log cut at the byte cap where a line ends
   (`retrieval.py:146` reports the cap only with a part of a line in its buffer), or cut in a first read whose second one fails
   (line 311 returns before 313 adds the gap).
10. `log_rare_cut`: rare templates are "always kept in full" (`config.py:33`, `reducer.py:207`, and line 241 of `pipeline.py` tells the
   agents so). `apply_evidence_guardrails` keeps their *examples*, of which clustering stores three: of a template with four lines and
   the default threshold of five, one line is only counted.
11. `dlt_lost_send`: "Kafka redelivers rather than the case being silently dropped between stages"
   (`analysis_queue_publisher.py:93`), but the send is flushed and its future never looked at: a lost record is answered 200,
   its offset committed, and the case is nowhere but in a `status.json` that says `LOGS_FETCHED`.

Also met while modelling, with no run of their own: `take_committable`'s docstring says a failed
commit is retried (it is not; the position moves with a later completion), and `FAILED_TIMEOUT`
saved between `Guard` and `save_terminal` is overwritten by the late verdict although protected. A run whose runbook
lookup misses carries the `shadow_comparison` channel of an earlier run until its own Synthesis node
overwrites it; a served or escalated verdict is filed with it (`ShadowTruthful` therefore speaks of comparisons
made in the run). A comparison made with a verdict that then fails the handler's parse is filed beside the manual review
that replaces it. A runbook that states a confidence is filed with it, neither capped nor abstained from. A packet marked `FAILED_SHUTDOWN` is said to be redelivered (`storage/base.py:28`), but its consumer gets a
broken connection, puts the message in the DLQ and abandons the offset; this needs the server to start its lifespan
shutdown while a request is running, which uvicorn does when its graceful-shutdown timeout is
set. In the dead-letter flow: a reused recommendation keeps the `discrepancy` text of the case it was made for, although
`models/dlt_synthesis.py:67` says it is populated only for contradicted or partial logs; a redelivered fetch
reuses the artifact and publishes its gaps without those of the first fetch (`LOG_FETCH_FAILED`, `LOGS_TOO_OLD`);
`auto_replay.attempt` records "queued" whatever string the tool answers.

In the logs: the other members of `Silent` are hits beyond `LOG_MAX_DOCUMENTS`; a rotated log beside a longer one (all
pods are judged as one log); and a snapshot whose metadata is missing or another fetch's. When the deadline
passes before any read, the answer is "no logs" with the gap `TRUNCATED`. Decision lines outside the window of the errors are
not shown, although `config.py:42` says they are always forwarded. The search excludes lines that match the phrase of a
boilerplate template, so that a rare one never reaches the guardrail. `fetch_logs_for` and the database lookup swallow their exceptions under
`@retry_transient`, which therefore retries nothing (`tool_registry.py:380`).

In the tools: a runbook is served unchecked when its rule is gone or the database does not answer; a draft rebuilt while the
operator looks at the old one is removed unseen; `promote_rules` looks at `git status` before it reads the queue, which agents
may have dirtied by then, and reads only the output of git, so that a git that fails counts as clean; a failed append may leave
part of a line, after which every run of `approve_replays` raises at `json.loads` (line 46); a queue file is truncated in place, so that a tool killed in that moment loses the lines it kept.

## 5. Proofs

Everything proved holds for every value of the constants, under the modules' named assumptions
(`LogEndAssumption`, `PollAssumption`, `MessagesAssumption`, `OutcomesAssumption`, `BoundsAssumption`,
`QuiescentAssumption`, `NullsAssumption`, `CallsAssumption`, `DeploymentsAssumption`,
`ConfidencesAssumption`, `RunbookAssumption`, `PolicyAssumption`, `CeilingsAssumption`, `ReuseAssumption`, `CatalogAssumption`,
`ReplayAssumption`, `IdsAssumption`, `CapAssumption`, `InputsAssumption`, `BoundAssumption`, `DiscoveryAssumption`,
`ResilienceAssumption`, `FetchAssumption`, `SelectionAssumption`, `ReductionAssumption`, `QueueAssumption`), which give the constants their types; `ReductionAssumption` also says that a
line whose template matches the decision vocabulary matches it too, which it does because a line contains the words of its template.

**`KafkaConsumerProofs`**

- `TypeCorrect`: `Spec => []TypeOK`.
- `LossIsExplained`, `OwnersCommit`, `PromiseKept`: `LossExplained`, `OnlyOwnerCommits`, `KeepsPromise`, whatever the DLQ
  and the broker do: any revocation, eviction, crash, dropped or silently lost publish, or failed commit.
- `NothingLost`: `NoLoss` itself, assuming `KindEnvironment`: the DLQ takes what it is given, and partitions leave a member
  only while its workers are idle. It is a corollary: then `dropped`, `silent` and `interrupted` stay empty. The runs
  `consumer_dlq_dropped` and `consumer_stale_commit` show that neither half can be dropped.
- `FloorIsHeld`, `CommitsWaitForWorkOnly`: an offset the tracker counts as running has a thread that runs it, and what
  `CommitReady` leaves completed and uncommitted waits for such a thread. What is left of `NoCommitStall` is that threads end.

`LossExplained` says nothing of what will be committed next, so it is not inductive. `IInv` adds, for
each member from its start until it stops, and of the partitions that were never interrupted:

- `OwnershipAgrees`: a member of the generation owns what it believes it owns (of every partition);
- `TrackerInRange`: the tracker holds only offsets of assigned partitions that were handed out, and while
  the member may commit none below the committed position;
- `JobsHoldTheFloor`: each busy thread runs a message of its own that the tracker counts as running;
- `HandedOutCovered`: a message handed out is covered or still running.

The argument: a commit takes offsets below everything still running; by `HandedOutCovered` all offsets
up to them are covered (`CommitSafe`); a thread that finishes covers its message before it
releases the floor (`FinishKeeps`); a partition comes with an empty tracker (`AssignKeeps`). One
lemma per group of actions shows `IInv` kept, `Inductive` puts them together, and the
refinement maps every step to a step or a stutter of `AtLeastOnce`.

**`PacketLifecycleProofs`**

- `TypeCorrect`: `Spec => []TypeOK`.
- `CasebookBehindStatus`: `Spec => []StatusHasCasebook`, from `SavesInOrder`: whoever stands
  before the write of `status.json` has written `casebook.json`, a handler on its way to a save
  carries a terminal value, and a terminal casebook never turns back. No restriction on the environment.
- `FilesAgreeProved`, `OneInvestigationProved`: `Spec => []FilesAgree` and `Spec => []OneUnlessRefetched`, for any number of
  calls, redelivered analyses, restarts and faults, with the exceptions the two properties name (section 3).

Neither is inductive. `Lifecycle` adds where calls can be (`CallsFit`: one on the event loop, each in the handler of its
endpoint, none of a dead API), that a rejection delivered once is fetched before anything is analysed (`FetchedOnce`, or
a late fetch handler could write LOGS_FETCHED over IN_PROGRESS), that one call is engaged from the stub to its save and
`status.json` says so (`OneEngaged`, which lets `AnalyzeDecide` turn every duplicate away), and that a call between its two
saves holds what `casebook.json` holds (`SavesPair`).

- `NeverStranded`: `Spec => []NotStranded`: a packet is settled, waits on a topic, is carried to the DLQ or is in a handler's
  hands, or is `Excused`. `NotStranded` is not inductive, since a duplicate that finds `IN_PROGRESS` gives its message away on
  the strength of a stub. `HandedOn` adds that the stub has an investigation behind it, or one that could not save
  its verdict and whose own consumer is about to know (`StubOwned`), and that a handler has lost its consumer only to a
  redelivery (`OrphansRedelivered`). The lemmas say who keeps the packet while a call stands still (`StillHeld`), moves on
  (`MovesOn`) or hands it over, so that each action needs only its own case.

**`AgentGraphProofs`**

- `PolicyApplied`: what `ApplyPolicy` returns, for every verdict: within the policy, abstained only to manual
  review, otherwise with the action unchanged.
- `TypeCorrect`, `EscalationsEarned`, `SynthesisApproved`, `CasebookTrustworthy`, `PolicyFiled`, `ComparisonsTruthful`,
  `ReplaysAreApproved`: the invariants and the action property of the run, for any number of
  runs, any confidences and any retry bound.
- `RunsGetShorter`: `Spec => []LengthBounded /\ RunsShrink`: a run has at most `2 * Enough + 4` nodes before it, and each node
  that ends leaves fewer, whatever agents answer, also after a resume. Nothing but a node moves a running graph's channels.

The properties speak of the casebook, and a casebook is filed from channels that may come from a
checkpoint one step old. `IInv` therefore states `Sound` of the channels *and* of the checkpoint: what the values
say of the node that comes next (`OnTheWay`: `retry_count` is at most the rejections of this run; only approved
work is before `synthesize`), of a verdict of this run (`AtTheEnd`), and of values from earlier ones (`Past`).
One lemma per node shows `Sound` carried over, `MoreRejections` lets the checkpoint
lag behind the count, and `NextRun` shows that a fresh run starts sound although it keeps the
old channels.

**`DltCaseProofs`**

- `PolicySupported`: what the confidence policy returns, for every finding, failure and logs.
- `TypeCorrect`, `ScoresSupported`, `CacheUndecayed`, `ReplaysOnce`, `CasesCounted`, `NoneForgotten`: six of the invariants of the
  run, for any cases, calls, ceilings and member cap, and any number of posts and mishaps.
- `ReplaysEarned`: the seventh, assuming `UnverifiedCeiling < ReplayThreshold`. The defaults are 0.5 and 0.55, and
  both are free settings: with a threshold at or below the ceiling, a case without logs may be replayed.

Each invariant has its own strengthening, so that a reader can take one without the others:

- `Typed`: types, and that a call with a client serves the id the client asked for.
- `Evidenced`: the finding a call carries is supported by the failure and verdict of its case (`FindingsSound`), which `Record` and
  `Investigate` establish through `PolicySupported` and the later steps carry to the file.
- `FetchedOnce`: a case fetched once has one fetch at a time and its logs do not change after a call has
  read them; so what `Replay` decided on is what is on file.
- `OnceOnly`: of an undisturbed case, at most one call is past the check, and a replay lies behind a terminal casebook or
  before one call's save.
- `Counted`: while the recorded cases fit the list, each is a member and the list holds no more than them.
- `BookFirst`, `AnswersHold`: whoever is about to write a terminal `status.json` has written the casebook, and an answer a
  consumer waits for is about a settled case or one that is on the analysis queue.

The frame lemmas (`HandlerFrame`, `ConsumerFrame`, `DeliveryFrame`, `StepFrame`) say once what each group of actions leaves
alone, and `Onwards` how a handler moves its own call, so that the invariants need cases for the steps they are about only.

**`LogFetchProofs`**

- `TypeCorrect`; `OutagesIsolated`: `Spec => []OutageIsolated`; `AnswersLookOrSay`: `Spec => LooksOrSays`, for any
  fetchers, packets, chains, clusters, caps and faults.
- `FetchesGetShorter`: `Spec => FetchesShrink`: a fetch is at most five steps per source and one for the answer long, and each
  step of its fetcher leaves fewer, while nothing else moves it. So breakers, reused snapshots and raising sources make no loop.

An answer's gaps come from a discovery, a fan-out or a file that another process wrote, so `IInv` says of each that it announces
what it lacks: `FoundSays`, `ResultSays`, `SnapshotSays` (a snapshot that is whole has the gaps of its own capture;
while the metadata is being written, the records are still of that fetch, or `capture` knows they are not). The
discovery's part (`DiscoverySays`) counts pods: one over a cap is either in a service with too many or behind the total.
The refinement then has one case per step that answers; every other step stutters.

**`LogReductionProofs`**

- `TypeCorrect`, `SelectionExact`, `ReductionKeepsEvidence`, `ClassesAreTheirs`: the invariants of the run, for any lines, windows,
  thresholds, processes and numbers of crashes.
- `OnlyForksHideTemplates`: `Spec => [](forked \/ NewTemplatesKept)`: what `log_template_clash` refutes holds until a fork. A
  corollary of `ClassesAreTheirs`.

`ExactlyTheWindows` is not inductive: the selector forgets. `SelectorRight` adds what the deque and the counter still know:
`HeldNewest` (it holds the newest unkept lines of the instance, as many as a match could need) and `TrailingReaches` (how
far the last match extends). A line fed adds to the windows what the branch taken emits (`FedWindows`).
`TreesAgree` says that before a fork every tree is a beginning of the one on file and every catalog's number stands for
the template it was given to. That `Learn` gives each new template one number is shown by counting, not by induction:
ranks are a bijection between the new lines and `1..n` (`RankOnto`, through `FS_Injection`).

**`ReviewQueuesProofs`**

- `TypeCorrect`, `RequestsKept`, `RequestsActedOnOnce`: for any requests, operators and bounds.

`IInv` says who may hold a line: the tool that rewrites a file holds its lock and the file is empty (`Locked`), one tool
promotes (`Alone`), what a tool has dealt with is closed and no longer to be shown (`Dealt`), a line that is not excused is
before one tool (`OneReader`) and, once acted on, in a file only while some tool still remembers it (`Once`).

**`RunbooksProofs`**

- `TypeCorrect`, `ReviewedServed`, `StaleBounded`: for any servers, types, rules, `TTL` and bounds.

`IInv` relates each copy's age to the history: what has been read and is not cached yet is current or was replaced in this very tick
(`ReadsKnown`), a cached runbook or rule is current, or was replaced no earlier than the tick it was cached in (`CachesKnown`), so it leaves the cache before its successor is `TTL` old; a lookup carries that over to the answer (`LookupsKnown`).
`Reviewed` follows an approved draft through file, caches and lookups.

**Only model-checked**: the five liveness properties, since liveness under fairness is outside the prover's reach. For four of
them the part that is not about scheduling is proved: `CommitsWaitForWorkOnly` for `NoCommitStall`, `NeverStranded` for
`SettlesWhileUp`, `RunsGetShorter` for `RunsEnd`, `FetchesGetShorter` for `FetchesEnd`. What remains with TLC is that fair steps
come, and all of `EveryMessageAccounted`. `NotStranded`, `LengthBounded`, `RunsShrink`, `FetchesShrink`, `FloorHeld` and
`WaitsForWorkOnly` are proved and in no run: the liveness properties of the runs are what they serve.

## 6. Abstractions and limits

- Messages are pairs (partition, offset), packets are single; payloads, logs and verdict texts are left out.
- The log is bounded (`LogEnd`), and no message is produced during a run: a consumer that has read to
  the end polls nothing.
- The broker's group protocol is external: a member is in or out, and free partitions are given in any
  subset. The topics do not lose committed positions.
- `PublishOutcomes` has `"lost"` (a send whose future nobody looks at). The run enables it, and the theorems hold for it; a
  packet lost so is `Excused` by `SettlesWhileUp` and `NotStranded`, since nothing in the code finds it again.
- In `PacketLifecycle` a DLQ publish is delivered; what happens when it is dropped or lost is in `KafkaConsumer` and `DltCase`.
- The log artifacts `fetch_logs` stores beside the casebook are not modelled: no step of the lifecycle
  decides on them.
- In `AgentGraph` the database rule, the prompts' other contents and the token accounting are left out; so is a runbook
  served unverified when the rule lookup fails (its text is no property's subject).
- A checkpoint lags by at most one node, and a stub is overwritten only between runs (`PacketLifecycle` has
  the other orders).
- In `DltCase` all dead letters share a fingerprint, and the records of the analysis queue another: groups do not interact.
  The agents' review loop, the redaction and the texts are left out, and so are headers, payload and window beyond whether logs were fetched.
  A fetch that answers an error after publishing does not occur: publishing is its last step.
- The four consumer roles run one program and differ in the adapter; the model has no role.
- In `LogFetch` what a log contains is five properties of a target (mentions the packet, has restarted, begins inside the window,
  is oversized, its pod is new), fixed for a behaviour. Pool threads have no bound of their own: a read that is queued and
  one that hangs are both pending. `snapshot.load` is one step, and a process fetches for one packet at a time, so that its
  breakers meet its fetches one after another.
- In `LogReduction` the template of a line is fixed: Drain3's generalising of a template by later lines is left out, which
  changes the text behind a number and makes it mean *more* lines, never other ones. Redaction and the artifacts of a report are left out.
- In `ReviewQueues` lines are unique, as their timestamps make them, and a file is a set.
- In `Runbooks` there is one reason code, a lookup takes less than a tick from its first read to its answer (so that a copy may be
  cached after it was replaced, but in the same tick: a query that takes longer adds its own duration to the bound), malformed files are left out, casebooks decide only that
  a draft is built, `build_runbooks` reads the rule and writes the draft in one step, and nobody commits by hand while a
  promotion runs. `RUNBOOK_MODE` is in `AgentGraph`, where a served runbook replaces the agents.

**Not modelled.** `utils/outcomes.py` and `POST /outcome` (records only a report reads); the rate limiter (it sheds load before a handler
runs, and a shed request is a refusal the client models have); the producer-health cache, the heartbeat and the health server (read by
a supervisor that is not in the repository); redaction and `storage/atomic.py` (pure text; a write-and-rename that the models
take as one step); the operator tools that only read (`es_diagnostic`, `dlt_sample`, `build_log_fixture`, ...); metrics and start-up.

## 7. Plan

1. `OffsetTracker`, `AtLeastOnce`, `KafkaConsumer` and proofs, for any environment: done.
2. `PacketLifecycle` and proofs: done. Left to prove: what a stop of the API leaves behind.
3. `SynthesisPolicy`, `AgentGraph` and proofs: done.
4. `DltPolicy`, `DltCase` and proofs: done. Left: the review loop of `dlt/orchestrator.py`.
5. `PodDiscovery`, `Resilience`, `LookedOrSaid`, `LogFetch` and proofs: done.
6. `LineSelection`, `LogReduction` and proofs: done.
7. `ReviewQueues`, `Runbooks` and proofs: done. Left to prove: that a request is dealt with by a bounded number of tool steps.
8. Rate limiter, heartbeat and producer health: left out, for the reasons under *Not modelled*.
