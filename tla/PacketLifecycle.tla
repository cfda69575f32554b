-------------------------- MODULE PacketLifecycle --------------------------
(***************************************************************************)
(* One rejected packet from the rejections topic to its casebook:          *)
(* the fast consumer forwards it to POST /fetch-logs, which queues it for  *)
(* the slow consumer, which forwards it to POST /analyze-rejection, which  *)
(* runs the agent graph (src/api/routes.py).  Consumers, fetch handlers,   *)
(* the API's event loop, its graph threads and its shutdown drain meet in  *)
(* two files, casebook.json and status.json, that no lock covers together. *)
(*                                                                         *)
(* A consumer is reduced to what KafkaConsumer shows of it: a message is   *)
(* redelivered after a crash or a rebalance, and consumed once answered or *)
(* in the DLQ.  The graph is reduced to its checkpoint and its outcome.    *)
(***************************************************************************)
EXTENDS Integers, FiniteSets

CONSTANTS
    Calls,              \* HTTP calls for this packet that may overlap
    PublishOutcomes,    \* publish_to_analysis_queue: "queued", "raised", "lost"
    MaxRedeliveries,    \* bound on redeliveries, by endpoint
    MaxApiStops,        \* bound on crashes and shutdowns of the API
    MaxClientTimeouts,  \* bound on timeouts of the consumers' HTTP clients
    MaxSaveFaults       \* bound on storage faults while a terminal status is saved

Endpoints == {"fetch", "analyze"}

ASSUME CallsAssumption == IsFiniteSet(Calls)
ASSUME OutcomesAssumption == PublishOutcomes \subseteq {"queued", "raised", "lost"}
ASSUME BoundsAssumption == /\ MaxRedeliveries \in [Endpoints -> Nat]
                           /\ MaxApiStops \in Nat /\ MaxClientTimeouts \in Nat
                           /\ MaxSaveFaults \in Nat

VARIABLES
    \* Kafka
    queued,      \* messages waiting on each endpoint's topic
    lost,        \* history: a send to the analysis queue was lost in silence
    inDlq,       \* the DLQ topic has the packet
    \* the packet's files and its graph checkpoint
    casebook,    \* status in casebook.json
    status,      \* status in status.json
    stale,       \* the IN_PROGRESS stub is older than MAX_IN_PROGRESS_AGE_SECONDS
    checkpoint,  \* of thread_id = eventId: "none", "active" (state.next) or "done"
    \* the API process
    api,         \* "up", "draining" or "down"
    inFlight,    \* the packet is in _in_flight_events
    drain,       \* where drain_and_shutdown is
    endpoint,    \* of each call
    at,          \* where the handler of each call is
    value,       \* the status a handler read, or is about to save
    graph,       \* the graph thread each call started
    client,      \* of each call: what the consumer does with its message
    \* bounds
    redeliveries, apiStops, clientTimeouts, saveFaults

queueVars == <<queued, lost>>
kafkaVars == <<queueVars, inDlq>>
fileVars  == <<casebook, status, stale>>
callVars  == <<endpoint, at, value>>
boundVars == <<redeliveries, apiStops, clientTimeouts, saveFaults>>
vars == <<kafkaVars, fileVars, checkpoint, api, inFlight, drain, callVars, graph,
          client, boundVars>>

(* VERDICT stands for the statuses a finished investigation records.       *)
Terminal  == {"VERDICT", "DLQ", "FAILED_TIMEOUT", "FAILED_SHUTDOWN"}
Protected == {"FAILED_TIMEOUT", "DLQ"}
Statuses  == Terminal \cup {"none", "LOGS_FETCHED", "IN_PROGRESS"}

OnLoop   == {"checking", "deciding", "marking", "guarding", "saving_casebook", "saving_status"}
Finished == {"answered", "failed"}
Handling == OnLoop \cup {"fetching", "fetched", "publishing", "awaiting"}

TypeOK ==
    /\ queued \in [Endpoints -> Nat] /\ lost \in BOOLEAN /\ inDlq \in BOOLEAN
    /\ casebook \in Terminal \cup {"none"} /\ status \in Statuses /\ stale \in BOOLEAN
    /\ checkpoint \in {"none", "active", "done"}
    /\ api \in {"up", "draining", "down"} /\ inFlight \in BOOLEAN
    /\ drain \in {"waiting", "saving_casebook", "saving_status", "done"}
    /\ endpoint \in [Calls -> Endpoints]
    /\ at \in [Calls -> Handling \cup Finished \cup {"idle", "received"}]
    /\ value \in [Calls -> Statuses \cup {"OLD"}]
    /\ graph \in [Calls -> {"none", "running", "returned", "raised"}]
    /\ client \in [Calls -> {"none", "waiting", "saving_casebook", "saving_status",
                             "publishing", "done"}]
    /\ redeliveries \in [Endpoints -> Nat]
    /\ \A e \in Endpoints : redeliveries[e] <= MaxRedeliveries[e]
    /\ apiStops \in 0 .. MaxApiStops /\ clientTimeouts \in 0 .. MaxClientTimeouts
    /\ saveFaults \in 0 .. MaxSaveFaults

Init ==
    /\ queued = [e \in Endpoints |-> IF e = "fetch" THEN 1 ELSE 0]
    /\ lost = FALSE /\ inDlq = FALSE
    /\ casebook = "none" /\ status = "none" /\ stale = FALSE /\ checkpoint = "none"
    /\ api = "up" /\ inFlight = FALSE /\ drain = "waiting"
    /\ endpoint = [c \in Calls |-> "fetch"]
    /\ at = [c \in Calls |-> "idle"]
    /\ value = [c \in Calls |-> "none"]
    /\ graph = [c \in Calls |-> "none"]
    /\ client = [c \in Calls |-> "none"]
    /\ redeliveries = [e \in Endpoints |-> 0] /\ apiStops = 0 /\ clientTimeouts = 0
    /\ saveFaults = 0

----------------------------------------------------------------------------
(* Storage.                                                                *)

(* terminal_status: the terminal status in either file, status.json first. *)
TerminalStatus == IF status \in Terminal THEN status
                  ELSE IF casebook \in Terminal THEN casebook ELSE "none"

(* A save of a terminal status raises: file lock timeout, S3 error.        *)
SaveFaults == /\ saveFaults < MaxSaveFaults /\ saveFaults' = saveFaults + 1
              /\ UNCHANGED <<redeliveries, apiStops, clientTimeouts>>

(* save_terminal writes casebook.json, then status.json: two steps.        *)
SaveCasebook(v) == casebook' = v /\ UNCHANGED <<status, stale>>
SaveStatus(v)   == status' = v /\ stale' = FALSE /\ UNCHANGED casebook

----------------------------------------------------------------------------
(* The consumers.                                                          *)

(* Mutated form: a message is counted twice.                               *)
TakeTwo(e) == queued' = [queued EXCEPT ![e] = @ - 2] /\ UNCHANGED lost

Take(e) == queued' = [queued EXCEPT ![e] = @ - 1] /\ UNCHANGED lost

(* A worker forwards a message to the API.                                 *)
Forward(e, c) ==
    /\ queued[e] > 0 /\ casebook \notin Terminal
    /\ api = "up" /\ at[c] = "idle" /\ graph[c] = "none"
    /\ Take(e)
    /\ endpoint' = [endpoint EXCEPT ![c] = e]
    /\ at' = [at EXCEPT ![c] = "received"]
    /\ client' = [client EXCEPT ![c] = "waiting"]
    /\ UNCHANGED <<inDlq, fileVars, checkpoint, api, inFlight, drain, value, graph,
                   boundVars>>

(* should_skip: a terminal casebook.json, whatever its status.             *)
Skip(e) ==
    /\ queued[e] > 0 /\ casebook \in Terminal
    /\ Take(e)
    /\ UNCHANGED <<inDlq, fileVars, checkpoint, api, inFlight, drain, callVars,
                   graph, client, boundVars>>

(* should_skip raises, or nobody listens and the forward fails at once:    *)
(* DLQ, and the offset is abandoned.                                       *)
Refused(e) ==
    /\ queued[e] > 0
    /\ Take(e)
    /\ inDlq' = TRUE
    /\ UNCHANGED <<fileVars, checkpoint, api, inFlight, drain, callVars, graph,
                   client, boundVars>>

(* Mutated form: an error answer is not put in the DLQ.                    *)
GetAnswerOnly(c) ==
    /\ client[c] = "waiting" /\ at[c] \in Finished
    /\ client' = [client EXCEPT ![c] = "done"]
    /\ UNCHANGED <<kafkaVars, fileVars, checkpoint, api, inFlight, drain, callVars,
                   graph, boundVars>>

(* The answer arrives: 2xx completes the offset, anything else, a broken   *)
(* connection included, goes to the DLQ and abandons it.  The message is   *)
(* done with, and its offset not committed yet.                            *)
GetAnswer(c) ==
    /\ client[c] = "waiting" /\ at[c] \in Finished
    /\ inDlq' = (inDlq \/ at[c] = "failed")
    /\ client' = [client EXCEPT ![c] = "done"]
    /\ UNCHANGED <<queueVars, fileVars, checkpoint, api, inFlight, drain, callVars,
                   graph, boundVars>>

(* requests.Timeout: FAILED_TIMEOUT in both files, then the DLQ.           *)
ClientTimeout(c) ==
    /\ client[c] = "waiting" /\ at[c] \notin Finished
    /\ clientTimeouts < MaxClientTimeouts
    /\ clientTimeouts' = clientTimeouts + 1
    /\ client' = [client EXCEPT ![c] = "saving_casebook"]
    /\ UNCHANGED <<kafkaVars, fileVars, checkpoint, api, inFlight, drain, callVars,
                   graph, redeliveries, apiStops, saveFaults>>

(* A storage fault is logged and does not keep it from the DLQ.            *)
ClientSaves(c) ==
    /\ \/ /\ client[c] \in {"saving_casebook", "saving_status"}
          /\ client' = [client EXCEPT ![c] = "publishing"]
          /\ SaveFaults /\ UNCHANGED <<inDlq, fileVars>>
       \/ /\ client[c] = "saving_casebook" /\ SaveCasebook("FAILED_TIMEOUT")
          /\ client' = [client EXCEPT ![c] = "saving_status"]
          /\ UNCHANGED <<inDlq, boundVars>>
       \/ /\ client[c] = "saving_status" /\ SaveStatus("FAILED_TIMEOUT")
          /\ client' = [client EXCEPT ![c] = "publishing"]
          /\ UNCHANGED <<inDlq, boundVars>>
       \/ /\ client[c] = "publishing" /\ inDlq' = TRUE
          /\ client' = [client EXCEPT ![c] = "done"]
          /\ UNCHANGED <<fileVars, boundVars>>
    /\ UNCHANGED <<queueVars, checkpoint, api, inFlight, drain, callVars, graph>>

(* The poll loop commits past a message that is done with.                 *)
Commit(c) ==
    /\ client[c] = "done"
    /\ client' = [client EXCEPT ![c] = "none"]
    /\ UNCHANGED <<kafkaVars, fileVars, checkpoint, api, inFlight, drain, callVars,
                   graph, boundVars>>

(* The consumer is rebalanced (its threads run on) or crashes (they do     *)
(* not), and what it had not committed, done with or not, is delivered     *)
(* again.                                                                  *)
Redeliver(e) ==
    LET held == {c \in Calls : client[c] # "none" /\ endpoint[c] = e}
        gone == {c \in held : client[c] = "done"} IN
    /\ held # {} /\ redeliveries[e] < MaxRedeliveries[e]
    /\ redeliveries' = [redeliveries EXCEPT ![e] = @ + 1]
    /\ queued' = [queued EXCEPT ![e] = @ + Cardinality(held)]
    /\ \E left \in {gone, held} :
          client' = [c \in Calls |-> IF c \in left THEN "none" ELSE client[c]]
    /\ UNCHANGED <<lost, inDlq, fileVars, checkpoint, api, inFlight, drain, callVars, graph,
                   apiStops, clientTimeouts, saveFaults>>

----------------------------------------------------------------------------
(* POST /fetch-logs, on Starlette's threadpool.                            *)

GoTo(c, where) == at' = [at EXCEPT ![c] = where]

(* What the handler read or meant to save ends with it.                    *)
Forgets(c) == value' = [value EXCEPT ![c] = "none"]

(* terminal_status short-circuit; otherwise the logs are fetched.          *)
FetchCheck(c) ==
    /\ at[c] = "received" /\ endpoint[c] = "fetch"
    /\ GoTo(c, IF TerminalStatus # "none" THEN "answered" ELSE "fetching")
    /\ UNCHANGED <<kafkaVars, fileVars, checkpoint, api, inFlight, drain, endpoint,
                   value, graph, client, boundVars>>

(* load status.json ...                                                    *)
FetchReadStatus(c) ==
    /\ at[c] = "fetching"
    /\ value' = [value EXCEPT ![c] = status]
    /\ GoTo(c, "fetched")
    /\ UNCHANGED <<kafkaVars, fileVars, checkpoint, api, inFlight, drain, endpoint,
                   graph, client, boundVars>>

(* ... and save LOGS_FETCHED if it was absent or LOGS_FETCHED then.        *)
FetchMark(c) ==
    /\ at[c] = "fetched"
    /\ IF value[c] \in {"none", "LOGS_FETCHED"} THEN SaveStatus("LOGS_FETCHED")
                                                ELSE UNCHANGED fileVars
    /\ Forgets(c) /\ GoTo(c, "publishing")
    /\ UNCHANGED <<kafkaVars, checkpoint, api, inFlight, drain, endpoint, graph,
                   client, boundVars>>

(* publish_to_analysis_queue: send and flush do not look at the record's   *)
(* future, so a send that fails after its retries is lost silently.        *)
FetchPublish(c) ==
    /\ at[c] = "publishing"
    /\ \E outcome \in PublishOutcomes :
          /\ queued' = IF outcome = "queued" THEN [queued EXCEPT !["analyze"] = @ + 1]
                                             ELSE queued
          /\ lost' = (lost \/ outcome = "lost")
          /\ GoTo(c, IF outcome = "raised" THEN "failed" ELSE "answered")
    /\ UNCHANGED <<inDlq, fileVars, checkpoint, api, inFlight, drain, endpoint, value,
                   graph, client, boundVars>>

----------------------------------------------------------------------------
(* POST /analyze-rejection (_investigate_packet), a coroutine: the event   *)
(* loop runs it without interruption between awaits.                       *)

(* Mutated form: handlers on a threadpool, which run all at once.          *)
LoopAlwaysFree == TRUE

(* No other coroutine is between two awaits.                               *)
LoopFree == \A c \in Calls : at[c] \notin OnLoop

(* The response leaves, and the packet is deregistered, even while another *)
(* call has it registered.                                                 *)
Answer(c) == GoTo(c, "answered") /\ inFlight' = FALSE /\ Forgets(c)

(* Register as in flight; a terminal casebook.json ends it.                *)
AnalyzeCheck(c) ==
    /\ at[c] = "received" /\ endpoint[c] = "analyze" /\ LoopFree
    /\ IF casebook \in Terminal
       THEN Answer(c)
       ELSE GoTo(c, "checking") /\ inFlight' = TRUE /\ UNCHANGED value
    /\ UNCHANGED <<kafkaVars, fileVars, checkpoint, api, drain, endpoint, graph,
                   client, boundVars>>

(* Load status.json: an old IN_PROGRESS stub, any other IN_PROGRESS, or    *)
(* nothing that matters.                                                   *)
AnalyzeReadStatus(c) ==
    /\ at[c] = "checking"
    /\ value' = [value EXCEPT ![c] = IF status # "IN_PROGRESS" THEN "none"
                                     ELSE IF stale THEN "OLD" ELSE "IN_PROGRESS"]
    /\ GoTo(c, "deciding")
    /\ UNCHANGED <<kafkaVars, fileVars, checkpoint, api, inFlight, drain, endpoint,
                   graph, client, boundVars>>

(* Mutated form: IN_PROGRESS does not keep a duplicate out.                *)
AnalyzeDecideAnyway(c) ==
    /\ at[c] = "deciding"
    /\ GoTo(c, "marking") /\ Forgets(c)
    /\ UNCHANGED <<kafkaVars, fileVars, checkpoint, api, inFlight, drain, endpoint,
                   graph, client, boundVars>>

(* get_state: an IN_PROGRESS packet is left alone unless its stub was old  *)
(* and no checkpoint is active.                                            *)
AnalyzeDecide(c) ==
    /\ at[c] = "deciding"
    /\ IF value[c] = "IN_PROGRESS" \/ (value[c] = "OLD" /\ checkpoint = "active")
       THEN Answer(c)
       ELSE GoTo(c, "marking") /\ Forgets(c) /\ UNCHANGED inFlight
    /\ UNCHANGED <<kafkaVars, fileVars, checkpoint, api, drain, endpoint, graph,
                   client, boundVars>>

(* Write the IN_PROGRESS stub, start the graph on the executor, await it.  *)
AnalyzeInvoke(c) ==
    /\ at[c] = "marking"
    /\ SaveStatus("IN_PROGRESS")
    /\ graph' = [graph EXCEPT ![c] = "running"]
    /\ GoTo(c, "awaiting")
    /\ UNCHANGED <<kafkaVars, checkpoint, api, inFlight, drain, endpoint, value, client,
                   boundVars>>

(* The await ends: the graph returned, raised (DLQ), or ran out of budget. *)
AwaitEnds(c) ==
    /\ at[c] = "awaiting" /\ LoopFree
    /\ \/ /\ graph[c] = "returned"
          /\ GoTo(c, "guarding") /\ value' = [value EXCEPT ![c] = "VERDICT"]
          /\ graph' = [graph EXCEPT ![c] = "none"]
          /\ UNCHANGED inDlq
       \/ /\ graph[c] = "raised" /\ inDlq' = TRUE
          /\ GoTo(c, "saving_casebook") /\ value' = [value EXCEPT ![c] = "DLQ"]
          /\ graph' = [graph EXCEPT ![c] = "none"]
       \/ /\ graph[c] = "running"
          /\ GoTo(c, "saving_casebook") /\ value' = [value EXCEPT ![c] = "FAILED_TIMEOUT"]
          /\ UNCHANGED <<inDlq, graph>>
    /\ UNCHANGED <<queueVars, fileVars, checkpoint, api, inFlight, drain, endpoint, client,
                   boundVars>>

(* A protected terminal status recorded meanwhile discards the verdict.    *)
Guard(c) ==
    /\ at[c] = "guarding"
    /\ IF TerminalStatus \in Protected
       THEN Answer(c)
       ELSE GoTo(c, "saving_casebook") /\ UNCHANGED <<inFlight, value>>
    /\ UNCHANGED <<kafkaVars, fileVars, checkpoint, api, drain, endpoint, graph,
                   client, boundVars>>

(* Mutated form: status.json is saved where casebook.json should be.       *)
HandlerSavesStatusOnly(c) ==
    /\ at[c] = "saving_casebook"
    /\ SaveStatus(value[c])
    /\ GoTo(c, "saving_status")
    /\ UNCHANGED <<kafkaVars, checkpoint, api, inFlight, drain, endpoint, value, graph,
                   client, boundVars>>

HandlerSavesCasebook(c) ==
    /\ at[c] = "saving_casebook"
    /\ SaveCasebook(value[c])
    /\ GoTo(c, "saving_status")
    /\ UNCHANGED <<kafkaVars, checkpoint, api, inFlight, drain, endpoint, value, graph,
                   client, boundVars>>

HandlerSavesStatus(c) ==
    /\ at[c] = "saving_status"
    /\ SaveStatus(value[c])
    /\ Answer(c)
    /\ UNCHANGED <<kafkaVars, checkpoint, api, drain, endpoint, graph, client, boundVars>>

(* Storage or the checkpointer raises outside the handler's try: HTTP 500. *)
HandlerFails(c) ==
    /\ at[c] \in {"received", "fetching", "fetched", "checking", "deciding", "marking"}
    /\ at[c] = "received" /\ endpoint[c] = "analyze" => LoopFree
    /\ GoTo(c, "failed") /\ Forgets(c)
    /\ inFlight' = (inFlight /\ endpoint[c] = "fetch")
    /\ UNCHANGED <<kafkaVars, fileVars, checkpoint, api, drain, endpoint, graph,
                   client, boundVars>>

(* Storage raises in the guard or in save_terminal: HTTP 500, except that  *)
(* the timeout branch is inside the try whose handler sends to the DLQ and *)
(* saves that instead.                                                     *)
SavingFails(c) ==
    /\ at[c] \in {"guarding", "saving_casebook", "saving_status"}
    /\ IF value[c] = "FAILED_TIMEOUT"
       THEN /\ inDlq' = TRUE
            /\ GoTo(c, "saving_casebook") /\ value' = [value EXCEPT ![c] = "DLQ"]
            /\ UNCHANGED inFlight
       ELSE GoTo(c, "failed") /\ Forgets(c) /\ inFlight' = FALSE /\ UNCHANGED inDlq
    /\ SaveFaults
    /\ UNCHANGED <<queueVars, fileVars, checkpoint, api, drain, endpoint, graph, client>>

Handler(c) == \/ FetchCheck(c) \/ FetchReadStatus(c) \/ FetchMark(c) \/ FetchPublish(c)
              \/ AnalyzeCheck(c) \/ AnalyzeReadStatus(c) \/ AnalyzeDecide(c)
              \/ AnalyzeInvoke(c) \/ AwaitEnds(c) \/ Guard(c)
              \/ HandlerSavesCasebook(c) \/ HandlerSavesStatus(c) \/ HandlerFails(c) \/ SavingFails(c)

----------------------------------------------------------------------------
(* The graph threads.  A call that ran out of budget leaves its thread     *)
(* running; a thread that resumes finds the checkpoint active.             *)
GraphRuns(c) ==
    /\ graph[c] = "running"
    /\ \/ checkpoint # "active" /\ checkpoint' = "active" /\ UNCHANGED graph
       \/ /\ checkpoint = "active" /\ checkpoint' = "done"
          /\ graph' = [graph EXCEPT ![c] = IF at[c] = "awaiting" THEN "returned" ELSE "none"]
       \/ /\ UNCHANGED checkpoint
          /\ graph' = [graph EXCEPT ![c] = IF at[c] = "awaiting" THEN "raised" ELSE "none"]
    /\ UNCHANGED <<kafkaVars, fileVars, api, inFlight, drain, callVars, client, boundVars>>

(* A call is over once its client has gone and its graph thread ended.     *)
Recycle(c) ==
    /\ at[c] \in Finished /\ client[c] = "none" /\ graph[c] = "none"
    /\ GoTo(c, "idle") /\ endpoint' = [endpoint EXCEPT ![c] = "fetch"]
    /\ UNCHANGED <<kafkaVars, fileVars, checkpoint, api, inFlight, drain, value,
                   graph, client, boundVars>>

(* The stub outlives MAX_IN_PROGRESS_AGE_SECONDS, far beyond any budget.   *)
Age ==
    /\ status = "IN_PROGRESS" /\ ~stale
    /\ \A c \in Calls : at[c] \notin Handling
    /\ stale' = TRUE
    /\ UNCHANGED <<kafkaVars, casebook, status, checkpoint, api, inFlight, drain, callVars,
                   graph, client, boundVars>>

----------------------------------------------------------------------------
(* The API process.                                                        *)

(* Every handler and thread is gone; the consumers see broken connections. *)
Die ==
    /\ api' = "down" /\ inFlight' = FALSE /\ drain' = "waiting"
    /\ at' = [c \in Calls |-> IF at[c] = "idle" THEN "idle" ELSE
                              IF at[c] = "answered" THEN "answered" ELSE "failed"]
    /\ graph' = [c \in Calls |-> "none"]
    /\ value' = [c \in Calls |-> "none"]
    /\ UNCHANGED <<kafkaVars, fileVars, checkpoint, endpoint, client, redeliveries,
                   clientTimeouts, saveFaults>>

Crash == api # "down" /\ apiStops < MaxApiStops /\ apiStops' = apiStops + 1 /\ Die

(* SIGTERM: no new connections, and drain_and_shutdown starts.             *)
Shutdown ==
    /\ api = "up" /\ apiStops < MaxApiStops
    /\ apiStops' = apiStops + 1
    /\ api' = "draining"
    /\ UNCHANGED <<kafkaVars, fileVars, checkpoint, inFlight, drain, callVars, graph, client,
                   redeliveries, clientTimeouts, saveFaults>>

(* The budget is over: a straggler with no terminal status yet is marked   *)
(* FAILED_SHUTDOWN, by a thread beside the event loop; a storage fault is  *)
(* logged.                                                                 *)
DrainSteps ==
    /\ api = "draining"
    /\ \/ /\ drain = "waiting" /\ inFlight
          /\ drain' = IF TerminalStatus = "none" THEN "saving_casebook" ELSE "done"
          /\ UNCHANGED <<fileVars, boundVars>>
       \/ /\ drain = "saving_casebook" /\ SaveCasebook("FAILED_SHUTDOWN")
          /\ drain' = "saving_status"
          /\ UNCHANGED boundVars
       \/ /\ drain = "saving_status" /\ SaveStatus("FAILED_SHUTDOWN")
          /\ drain' = "done"
          /\ UNCHANGED boundVars
       \/ /\ drain \in {"saving_casebook", "saving_status"}
          /\ drain' = "done"
          /\ SaveFaults /\ UNCHANGED fileVars
    /\ UNCHANGED <<kafkaVars, checkpoint, api, inFlight, callVars, graph, client>>

(* Drained, or out of patience: the process ends.                          *)
Exit ==
    /\ api = "draining" /\ drain \in {"waiting", "done"} /\ (drain = "waiting" => ~inFlight)
    /\ Die
    /\ UNCHANGED apiStops

Restart ==
    /\ api = "down"
    /\ api' = "up"
    /\ UNCHANGED <<kafkaVars, fileVars, checkpoint, inFlight, drain, callVars, graph, client,
                   boundVars>>

----------------------------------------------------------------------------
Consume(e) == Skip(e) \/ Refused(e) \/ \E c \in Calls : Forward(e, c)
Client(c)  == GetAnswer(c) \/ ClientSaves(c) \/ Commit(c)
Process    == DrainSteps \/ Exit \/ Restart

Next == \/ \E e \in Endpoints : Consume(e) \/ Redeliver(e)
        \/ \E c \in Calls : Client(c) \/ ClientTimeout(c) \/ Handler(c) \/ GraphRuns(c)
                            \/ Recycle(c)
        \/ Age \/ Crash \/ Shutdown \/ Process

Spec == Init /\ [][Next]_vars

(* Consumers poll, handlers and threads run, calls to models and storage   *)
(* time out, time passes, and a dead API is restarted.                     *)
Fairness ==
    /\ \A e \in Endpoints : WF_vars(Consume(e))
    /\ \A c \in Calls : /\ WF_vars(Client(c)) /\ WF_vars(Handler(c)) /\ WF_vars(GraphRuns(c))
                        /\ WF_vars(Recycle(c))
    /\ WF_vars(Age) /\ WF_vars(Process)

FairSpec == Spec /\ Fairness

----------------------------------------------------------------------------
(* Properties.                                                             *)

(* A terminal status.json has a terminal casebook behind it, whoever       *)
(* crashes between the two writes ("a terminal status.json with no         *)
(* casebook behind it would suppress reprocessing forever").               *)
StatusHasCasebook == status \in Terminal => casebook \in Terminal

(* The inductive form: whoever is about to save a terminal status.json has *)
(* saved casebook.json, and a casebook never turns non-terminal.           *)
SavesInOrder ==
    /\ StatusHasCasebook
    /\ drain = "saving_status" => casebook \in Terminal
    /\ \A c \in Calls :
          /\ client[c] = "saving_status" => casebook \in Terminal
          /\ at[c] = "saving_status" => casebook \in Terminal
          /\ at[c] \in {"guarding", "saving_casebook", "saving_status"} => value[c] \in Terminal

(* Once both files are terminal and nobody is writing, they agree -- as    *)
(* long as only the event loop saves (no consumer timeout, no drain), and  *)
(* no save fails when a redelivered rejection may have started a second    *)
(* investigation: its half-saved verdict would stay beside the first one's.*)
Writing == \/ \E c \in Calls : \/ at[c] \in {"saving_casebook", "saving_status"}
                               \/ client[c] \in {"saving_casebook", "saving_status"}
           \/ drain \in {"saving_casebook", "saving_status"}
OnlyTheLoopSaves == clientTimeouts = 0 /\ apiStops = 0
NoHalfSaves == redeliveries["fetch"] = 0 \/ saveFaults = 0
FilesAgree ==
    OnlyTheLoopSaves /\ NoHalfSaves /\ ~Writing /\ {casebook, status} \subseteq Terminal
        => casebook = status

(* Two handlers never wait for a graph of one packet (one thread_id) at    *)
(* once, however its analysis message is redelivered: duplicates that      *)
(* arrive while an investigation is under way are turned away.  Excepted   *)
(* are a redelivered rejection, and a client timeout or a shutdown         *)
(* recorded in the middle of the checks.  A graph thread whose handler ran *)
(* out of budget runs on uncounted.                                        *)
Investigating == {c \in Calls : graph[c] = "running" /\ at[c] = "awaiting"}
OneInvestigation == Cardinality(Investigating) <= 1
OneUnlessRefetched ==
    redeliveries["fetch"] = 0 /\ clientTimeouts = 0 /\ api = "up" => OneInvestigation

(* A packet is settled once a terminal casebook or the DLQ holds it.       *)
Settled == casebook \in Terminal \/ inDlq

(* The inductive forms of the two.  Where calls are: one at a time on the  *)
(* loop, each in the handler of its endpoint, none left of a dead API.     *)
FetchActive == {c \in Calls : endpoint[c] = "fetch"
                              /\ at[c] \in {"received", "fetching", "fetched", "publishing"}}
Engaged == {c \in Calls : at[c] \in {"marking", "awaiting", "guarding", "saving_casebook",
                                     "saving_status"}}
CallsFit ==
    /\ \A c, d \in Calls : at[c] \in OnLoop /\ at[d] \in OnLoop => c = d
    /\ \A c \in Calls : /\ at[c] \in OnLoop \cup {"awaiting"} => endpoint[c] = "analyze"
                        /\ at[c] \in {"fetching", "fetched", "publishing"} => endpoint[c] = "fetch"
    /\ api = "down" => \A c \in Calls : at[c] \in Finished \cup {"idle"}
    /\ apiStops = 0 => api = "up" /\ drain = "waiting"
    /\ clientTimeouts = 0 => \A c \in Calls : client[c] \in {"none", "waiting", "done"}

(* A rejection delivered once is fetched before anything is analysed.      *)
FetchedOnce ==
    redeliveries["fetch"] = 0 =>
        /\ queued["fetch"] <= 1
        /\ queued["fetch"] = 1 => \A c \in Calls : at[c] = "idle" /\ endpoint[c] = "fetch"
        /\ queued["fetch"] = 1 \/ FetchActive # {} => queued["analyze"] = 0
        /\ \A c \in FetchActive : /\ queued["fetch"] = 0
                                  /\ \A d \in Calls \ {c} : at[d] = "idle" /\ endpoint[d] = "fetch"

(* One call is engaged in the investigation, and status.json says so until *)
(* the call saves its outcome; a call that has read otherwise is alone.    *)
OneEngaged ==
    redeliveries["fetch"] = 0 /\ clientTimeouts = 0 /\ api = "up" =>
        /\ \A c \in Engaged : /\ \A d \in Engaged : c = d
                              /\ at[c] # "marking" => status = "IN_PROGRESS" /\ ~stale
        /\ (\E c \in Calls : at[c] = "deciding" /\ value[c] # "IN_PROGRESS") => Engaged = {}

(* What is left of a saved outcome is the other file's.                    *)
SavesPair ==
    OnlyTheLoopSaves /\ NoHalfSaves =>
        /\ \A c \in Calls : at[c] = "saving_status" => casebook = value[c]
        /\ status \in Terminal /\ (\A c \in Calls : at[c] # "saving_status")
              => casebook = status

Lifecycle == CallsFit /\ FetchedOnce /\ OneEngaged /\ SavesPair

(* What may strand a packet: the API stops, a send to the analysis queue   *)
(* is lost in silence, or a verdict cannot be saved when a redelivery has  *)
(* already been answered "already_processing".                             *)
Excused == \/ apiStops > 0 \/ lost
           \/ saveFaults > 0 /\ redeliveries["analyze"] > 0

(* Somebody has the packet in hand: a message waits, a consumer's thread   *)
(* waits for an answer or carries the packet to the DLQ, or a handler is   *)
(* in the middle of an investigation whose caller may be gone.             *)
Running == {c \in Calls : at[c] \in {"awaiting", "guarding", "saving_casebook", "saving_status"}}
ToDlq   == {c \in Calls : client[c] \in {"saving_casebook", "saving_status", "publishing"}}
Pending == {c \in Calls : client[c] = "waiting" /\ at[c] \in Handling \cup {"received", "failed"}}
InHand  == (\E e \in Endpoints : queued[e] > 0) \/ Running \cup ToDlq \cup Pending # {}

(* A packet is never stranded: settled, in somebody's hands, or excused.   *)
(* In particular a duplicate that finds IN_PROGRESS leaves the packet to   *)
(* somebody who has it.                                                    *)
NotStranded == Settled \/ InHand \/ Excused

(* The inductive form: an IN_PROGRESS stub, there or just read, has an     *)
(* investigation behind it, or one that could not save its verdict and     *)
(* whose caller is about to know; a handler has lost its caller only to a  *)
(* redelivery; an idle call has none, and a message is done with only when *)
(* its call has answered or the packet is settled.                         *)
ToldOfFailure == {c \in Calls : /\ endpoint[c] = "analyze"
                                /\ c \in ToDlq \/ (c \in Pending /\ at[c] = "failed")}
Owned     == Running # {} \/ (saveFaults > 0 /\ ToldOfFailure # {})
Claimed   == \/ status = "IN_PROGRESS"
             \/ \E c \in Calls : at[c] = "deciding" /\ value[c] \in {"IN_PROGRESS", "OLD"}
StubOwned == Claimed => Settled \/ Excused \/ Owned
OrphansRedelivered ==
    \A c \in Calls : at[c] \in Handling \cup {"received"} /\ client[c] = "none" =>
        Settled \/ redeliveries[endpoint[c]] > 0
IdleUnclaimed == \A c \in Calls : at[c] = "idle" => client[c] = "none"
DoneIsOver == \A c \in Calls : client[c] = "done" => Settled \/ at[c] \in Finished

HandedOn == /\ NotStranded /\ StubOwned /\ OrphansRedelivered
            /\ IdleUnclaimed /\ DoneIsOver

(* Every packet gets settled, whatever its consumers do, unless excused.   *)
SettlesWhileUp ==
    <>(Settled \/ Excused)

(* ... and even when the API dies in the middle of an investigation: the   *)
(* redelivered message resumes the checkpoint (ARCHITECTURE.md, 1.3.4, G6: *)
(* "invoke None, continues mid-graph").                                    *)
AlwaysSettles == <>Settled
=============================================================================
