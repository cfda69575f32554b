------------------------------ MODULE DltCase ------------------------------
(***************************************************************************)
(* Dead letters of one failure mode: the DLT consumer posts each record to *)
(* /fetch-dlt-logs, which queues it for the DLT analysis consumer, which   *)
(* posts to /analyze-dlt (src/api/dlt_routes.py).  Both are sync handlers: *)
(* overlapping calls run on threads and meet in the case's files and in    *)
(* the group record of its fingerprint (src/dlt/groups.py), whose cached   *)
(* recommendation is served to later cases and may replay them.            *)
(*                                                                         *)
(* Both consumers read records with one DltAdapter, which takes the case   *)
(* id and the trace from a record's Kafka headers.  A record of the        *)
(* analysis queue has none: it is a case of its own, named after its place *)
(* on that queue.  A fetched case is analysed under its own id only when a *)
(* client of the API posts it (Post).                                      *)
(***************************************************************************)
EXTENDS Integers, Sequences, FiniteSets, DltPolicy

CONSTANTS
    Cases,          \* dead letters: case ids from their original coordinates
    QueueCases,     \* case ids of the places on the analysis queue
    Identified,     \* ids with a refId
    Calls,          \* HTTP calls that may overlap
    TracedFailures, \* what the dead letters' trace may say
    FetchedLogs,    \* what a log fetch may bring back
    AgentFindings,  \* what the analysis lane may find, discrepancy aside
    MemberCap,      \* DLT_GROUP_MEMBER_CAP
    NoId,           \* the id of a call that serves none
    MaxEvents       \* bound: posts and mishaps of one behaviour together

Ids == Cases \cup QueueCases

ASSUME IdsAssumption == IsFiniteSet(Ids) /\ Cases \cap QueueCases = {} /\ NoId \notin Ids
ASSUME CapAssumption == MemberCap \in Nat \ {0}
ASSUME InputsAssumption ==
    /\ TracedFailures \subseteq Failures
    /\ FetchedLogs \subseteq Logs
    /\ AgentFindings \subseteq [action : Actions, confidence : Scores \cup {NoScore}]
ASSUME BoundAssumption == MaxEvents \in Nat

VARIABLES
    \* Kafka
    waiting,     \* records on the dead-letter topic or the analysis queue, by id
    carries,     \* the case each place on the analysis queue carries
    inDlq,       \* ids in the DLQ topic
    lostSends,   \* history: ids of which a record the code takes for sent was lost
    \* storage
    logs,        \* fetched_logs.txt
    casebook,    \* casebook.json
    status,      \* status in status.json
    group,       \* group.json, by fingerprint
    replayed,    \* replay requests made of the OIS, by id
    \* processes
    failure,     \* what the dead letters' trace says: one fingerprint
    call,        \* the API's calls
    client,      \* the worker thread of a consumer behind each call, if any
    \* history and bounds
    recorded,    \* ids counted against each fingerprint
    refetched,   \* ids whose fetch was delivered more than once
    overlapped,  \* ids with two calls at once
    mishaps,     \* the kinds of mishap there have been
    events       \* how many posts and mishaps there have been

dlqVars     == <<inDlq, lostSends>>
kafkaVars   == <<waiting, carries, dlqVars>>
caseVars    == <<logs, casebook, status>>
historyVars == <<recorded, refetched, overlapped>>
boundVars   == <<mishaps, events>>
vars == <<kafkaVars, caseVars, group, replayed, failure, call, client, historyVars,
          boundVars>>

Mishaps == {"redelivery", "crash", "timeout", "fault", "erasure"}

Terminal     == {"COMPLETED", "NEEDS_MANUAL_REVIEW", "FAILED_TIMEOUT"}
Fingerprints == {"traced", "unparsed"}

(* The analysis queue's records have no trace, and all the same print.     *)
FailureOf(id)     == IF id \in Cases THEN failure ELSE Unparsed
FingerprintOf(id) == IF id \in Cases THEN "traced" ELSE "unparsed"

NoFinding == [FailedSynthesis EXCEPT !.confidence = NoScore]

(* The members of a group, and how often each verdict was recorded.        *)
NewGroup == [members |-> <<>>, count |-> 0, history |-> [v \in Verdicts |-> 0],
             onFile |-> FALSE, recommendation |-> NoFinding]

NoCasebook == [status |-> "none", verdict |-> "UNVERIFIABLE", finding |-> NoFinding,
               source |-> "none", replay |-> "none"]
TimeoutCasebook == [NoCasebook EXCEPT !.status = "FAILED_TIMEOUT"]

Sources == {"none", "canned", "group_reuse", "agent", "failed_synthesis"}
Replays == {"none", "queued", "failed"}

Finished == {"answered", "failed"}
Fetching == {"checking", "fetching", "reading", "publishing"}
Analysing == {"received", "recording", "investigating", "attaching", "replaying",
              "saving_casebook", "saving_status"}
Running == Fetching \cup Analysing

NoCall(id) == [id |-> id, at |-> "idle", logs |-> NoLogs("absent"), read |-> "none",
               finding |-> NoFinding, source |-> "none", replay |-> "none"]

Casebooks == [status : Terminal \cup {"none"}, verdict : Verdicts, finding : Findings,
              source : Sources, replay : Replays]
Groups == [members : Seq(Ids), count : Nat, history : [Verdicts -> Nat],
           onFile : BOOLEAN, recommendation : Findings]
CallRecords == [id : Ids \cup {NoId}, at : Running \cup Finished \cup {"idle"}, logs : Logs,
                read : Terminal \cup {"none", "LOGS_FETCHED"}, finding : Findings,
                source : Sources, replay : Replays]

TypeOK ==
    /\ waiting \in [Ids -> Nat] /\ carries \in [QueueCases -> SUBSET Cases]
    /\ inDlq \subseteq Ids /\ lostSends \subseteq Ids
    /\ logs \in [Ids -> Logs] /\ casebook \in [Ids -> Casebooks]
    /\ status \in [Ids -> Terminal \cup {"none", "LOGS_FETCHED"}]
    /\ group \in [Fingerprints -> Groups]
    /\ \A p \in Fingerprints : Len(group[p].members) <= MemberCap
    /\ replayed \in [Ids -> Nat] /\ failure \in TracedFailures
    /\ call \in [Calls -> CallRecords]
    /\ client \in [Calls -> {"none", "waiting", "saving_casebook", "saving_status",
                             "publishing"}]
    /\ recorded \in [Fingerprints -> SUBSET Ids]
    /\ refetched \subseteq Ids /\ overlapped \subseteq Ids
    /\ mishaps \subseteq Mishaps /\ events \in 0 .. MaxEvents

Init ==
    /\ waiting = [id \in Ids |-> IF id \in Cases THEN 1 ELSE 0]
    /\ carries = [q \in QueueCases |-> {}] /\ inDlq = {} /\ lostSends = {}
    /\ logs = [id \in Ids |-> NoLogs("absent")]
    /\ casebook = [id \in Ids |-> NoCasebook] /\ status = [id \in Ids |-> "none"]
    /\ group = [p \in Fingerprints |-> NewGroup]
    /\ replayed = [id \in Ids |-> 0] /\ failure \in TracedFailures
    /\ call = [k \in Calls |-> NoCall(NoId)]
    /\ client = [k \in Calls |-> "none"]
    /\ recorded = [p \in Fingerprints |-> {}] /\ refetched = {} /\ overlapped = {}
    /\ mishaps = {} /\ events = 0

----------------------------------------------------------------------------
(* Storage.                                                                *)

(* terminal_status: a terminal status in either file.                      *)
Settled(id) == status[id] \in Terminal \/ casebook[id].status \in Terminal

Another == events < MaxEvents /\ events' = events + 1
Mishap(kind) == Another /\ mishaps' = mishaps \cup {kind}

(* Storage, a lock or a model raises.                                      *)
Fault == Mishap("fault")

SaveCasebook(id, book) == casebook' = [casebook EXCEPT ![id] = book]
SaveStatus(id, value)  == status' = [status EXCEPT ![id] = value]

----------------------------------------------------------------------------
(* The two consumers, as KafkaConsumer shows them.                         *)

Take(id) == waiting[id] > 0 /\ waiting' = [waiting EXCEPT ![id] = @ - 1]

(* A call arrives at the endpoint of its topic.                            *)
Arrive(k, id, at) ==
    /\ call[k].at = "idle" /\ client[k] = "none"
    /\ call' = [call EXCEPT ![k] = [NoCall(id) EXCEPT !.at = at]]
    /\ overlapped' = overlapped \cup
          (IF \E j \in Calls : call[j].id = id /\ call[j].at \in Running THEN {id} ELSE {})
    /\ UNCHANGED <<recorded, refetched>>

(* A worker forwards a record under the id the adapter gives it.           *)
Forward(id, k) ==
    /\ Take(id) /\ casebook[id].status \notin Terminal
    /\ Arrive(k, id, IF id \in Cases THEN "checking" ELSE "received")
    /\ client' = [client EXCEPT ![k] = "waiting"]
    /\ UNCHANGED <<carries, dlqVars, caseVars, group, replayed, failure, boundVars>>

(* should_skip: a terminal casebook.json.                                  *)
Skip(id) ==
    /\ Take(id) /\ casebook[id].status \in Terminal
    /\ UNCHANGED <<carries, dlqVars, caseVars, group, replayed, failure, call, client,
                   historyVars, boundVars>>

(* publish_to_dlq never raises: a record it cannot send is dropped, with a *)
(* line in the log or, if the send fails after flush(), without one.       *)
Delivers(id) == inDlq' = inDlq \cup {id} /\ UNCHANGED lostSends
Loses(id)    == lostSends' = lostSends \cup {id} /\ UNCHANGED inDlq

PublishToDlq(id) == \/ Delivers(id) /\ UNCHANGED boundVars
                    \/ Loses(id) /\ Another /\ UNCHANGED mishaps

(* should_skip raises or nobody listens: DLQ, and the offset is abandoned. *)
Refused(id) ==
    /\ Take(id) /\ Fault
    /\ Delivers(id) \/ Loses(id)
    /\ UNCHANGED <<carries, caseVars, group, replayed, failure, call, client, historyVars>>

(* The consumer is done with a call, which goes on if it is running.       *)
ClientGone(k) ==
    /\ client' = [client EXCEPT ![k] = "none"]
    /\ call' = IF call[k].at \in Running THEN call ELSE [call EXCEPT ![k] = NoCall(NoId)]

(* Mutated form: an error answer is not put in the DLQ.                    *)
GetAnswerOnly(k) ==
    /\ client[k] = "waiting" /\ call[k].at \in Finished
    /\ ClientGone(k)
    /\ UNCHANGED <<kafkaVars, caseVars, group, replayed, failure, historyVars, boundVars>>

(* 2xx completes the offset; anything else is put in the DLQ.              *)
GetAnswer(k) ==
    /\ client[k] = "waiting" /\ call[k].at \in Finished
    /\ IF call[k].at = "failed" THEN PublishToDlq(call[k].id)
                                ELSE UNCHANGED <<dlqVars, boundVars>>
    /\ ClientGone(k)
    /\ UNCHANGED <<waiting, carries, caseVars, group, replayed, failure, historyVars>>

(* requests.Timeout: the handler runs on, and the case is FAILED_TIMEOUT.  *)
ClientTimeout(k) ==
    /\ client[k] = "waiting" /\ call[k].at \in Running
    /\ Mishap("timeout")
    /\ client' = [client EXCEPT ![k] = "saving_casebook"]
    /\ UNCHANGED <<kafkaVars, caseVars, group, replayed, failure, call, historyVars>>

(* A slot is a call again only when its timeout handling is over.          *)
ClientSaves(k) ==
    /\ \/ /\ client[k] = "saving_casebook" /\ SaveCasebook(call[k].id, TimeoutCasebook)
          /\ client' = [client EXCEPT ![k] = "saving_status"]
          /\ UNCHANGED <<dlqVars, status, call, boundVars>>
       \/ /\ client[k] = "saving_status" /\ SaveStatus(call[k].id, "FAILED_TIMEOUT")
          /\ client' = [client EXCEPT ![k] = "publishing"]
          /\ UNCHANGED <<dlqVars, casebook, call, boundVars>>
       \/ /\ client[k] \in {"saving_casebook", "saving_status"} /\ Fault
          /\ client' = [client EXCEPT ![k] = "publishing"]
          /\ UNCHANGED <<dlqVars, casebook, status, call>>
       \/ /\ client[k] = "publishing" /\ PublishToDlq(call[k].id)
          /\ ClientGone(k)
          /\ UNCHANGED <<casebook, status>>
    /\ UNCHANGED <<waiting, carries, logs, group, replayed, failure, historyVars>>

(* A rebalance (threads run on) or a crash of the consumer (they do not):  *)
(* what it holds and has not committed is delivered again.                 *)
Redeliver(k) ==
    /\ client[k] # "none"
    /\ Mishap("redelivery")
    /\ waiting' = [waiting EXCEPT ![call[k].id] = @ + 1]
    /\ refetched' = refetched \cup {call[k].id}
    /\ UNCHANGED <<call, client>> \/ ClientGone(k)
    /\ UNCHANGED <<carries, dlqVars, caseVars, group, replayed, failure, recorded, overlapped>>

(* Someone posts a fetched case to /analyze-dlt.                           *)
Post(id, k) ==
    /\ id \in Cases /\ logs[id].kind # "absent"
    /\ Another
    /\ Arrive(k, id, "received")
    /\ UNCHANGED <<kafkaVars, caseVars, group, replayed, failure, client, mishaps>>

----------------------------------------------------------------------------
(* POST /fetch-dlt-logs.                                                   *)

Goes(k, at) == call' = [call EXCEPT ![k].at = at]

(* The handler returns or raises: only a client knows of the call then.    *)
Ended(k, how) == IF client[k] = "none" THEN NoCall(NoId)
                                       ELSE [NoCall(call[k].id) EXCEPT !.at = how]
Ends(k, how) == call' = [call EXCEPT ![k] = Ended(k, how)]

(* A terminal case is left alone, a persisted artifact is reused.          *)
FetchCheck(k) ==
    /\ call[k].at = "checking"
    /\ IF Settled(call[k].id)
       THEN Ends(k, "answered")
       ELSE Goes(k, IF logs[call[k].id].kind = "absent" THEN "fetching" ELSE "reading")
    /\ UNCHANGED <<kafkaVars, caseVars, group, replayed, failure, client, historyVars,
                   boundVars>>

(* The logs, or a note why there are none (no refId, no usable timestamp,  *)
(* too old, failed): over what another fetch has saved meanwhile.          *)
FetchLogs(k) ==
    /\ call[k].at = "fetching"
    /\ \E l \in FetchedLogs \cup {NoLogs("skipped")} :
          /\ l # NoLogs("skipped") => call[k].id \in Identified
          /\ logs' = [logs EXCEPT ![call[k].id] = l]
    /\ Goes(k, "reading")
    /\ UNCHANGED <<kafkaVars, casebook, status, group, replayed, failure, client,
                   historyVars, boundVars>>

(* status.json is read ...                                                 *)
FetchRead(k) ==
    /\ call[k].at = "reading"
    /\ call' = [call EXCEPT ![k].at = "publishing", ![k].read = status[call[k].id]]
    /\ UNCHANGED <<kafkaVars, caseVars, group, replayed, failure, client, historyVars,
                   boundVars>>

(* ... LOGS_FETCHED is saved if it was absent then, and the case goes to   *)
(* the next place of the analysis queue, or publishing raises, or the send *)
(* fails unseen, whose future nobody looks at.                             *)
FetchPublish(k) ==
    /\ call[k].at = "publishing"
    /\ IF call[k].read \in {"none", "LOGS_FETCHED"}
       THEN SaveStatus(call[k].id, "LOGS_FETCHED")
       ELSE UNCHANGED status
    /\ \/ \E q \in {q \in QueueCases : carries[q] = {}} :
             /\ carries' = [carries EXCEPT ![q] = {call[k].id}]
             /\ waiting' = [waiting EXCEPT ![q] = 1]
             /\ Ends(k, "answered")
             /\ UNCHANGED <<lostSends, boundVars>>
       \/ Ends(k, "failed") /\ Fault /\ UNCHANGED <<carries, waiting, lostSends>>
       \/ /\ Ends(k, "answered") /\ Another
          /\ lostSends' = lostSends \cup {call[k].id}
          /\ UNCHANGED <<carries, waiting, mishaps>>
    /\ UNCHANGED <<inDlq, logs, casebook, group, replayed, failure, client, historyVars>>

----------------------------------------------------------------------------
(* POST /analyze-dlt.                                                      *)

Verdict(k)     == Corroborate(call[k].logs)
Class(k)       == ClassOf(FailureOf(call[k].id))
Fingerprint(k) == FingerprintOf(call[k].id)
Final(k, finding, reused) ==
    ApplyPolicy(finding, FailureOf(call[k].id), Verdict(k), call[k].logs, reused)

(* Mutated form: a terminal case is analysed again.                        *)
AnalyzeAgain(k) ==
    /\ call[k].at = "received"
    /\ call' = [call EXCEPT ![k].at = "recording", ![k].logs = logs[call[k].id]]
    /\ UNCHANGED <<kafkaVars, caseVars, group, replayed, failure, client, historyVars,
                   boundVars>>

(* A terminal case is left alone; else the logs are read and compared.     *)
AnalyzeCheck(k) ==
    /\ call[k].at = "received"
    /\ IF Settled(call[k].id)
       THEN Ends(k, "answered")
       ELSE call' = [call EXCEPT ![k].at = "recording", ![k].logs = logs[call[k].id]]
    /\ UNCHANGED <<kafkaVars, caseVars, group, replayed, failure, client, historyVars,
                   boundVars>>

(* Mutated form: a known member is counted again.                          *)
CountTwice(g, id, verdict) ==
    LET members == Append(g.members, id) IN
    [g EXCEPT !.members = SubSeq(members, Len(members) - MemberCap + 1, Len(members)),
              !.count = @ + 1, !.history[verdict] = @ + 1]

(* Mutated form: the list of members is not capped.                        *)
CountUncapped(g, id, verdict) ==
    IF \E i \in DOMAIN g.members : g.members[i] = id THEN g
    ELSE [g EXCEPT !.members = Append(@, id), !.count = @ + 1, !.history[verdict] = @ + 1]

(* One more case of this fingerprint, unless it is a member already; the   *)
(* list keeps the latest MemberCap.                                        *)
Count(g, id, verdict) ==
    IF \E i \in DOMAIN g.members : g.members[i] = id THEN g
    ELSE [g EXCEPT
            !.members = IF Len(@) < MemberCap THEN Append(@, id) ELSE Append(Tail(@), id),
            !.count = @ + 1, !.history[verdict] = @ + 1]

(* load_group under the group's lock: a group that cannot be read is taken *)
(* for novel, and saved over.                                              *)
Loads(p, g) == \/ g = group[p] /\ UNCHANGED boundVars
               \/ g = NewGroup /\ Mishap("erasure")

(* Mutated form: whatever a case got is attached to its group.             *)
OnwardAttached(choice) == IF choice = "LLM_REQUIRED" THEN "investigating" ELSE "attaching"

(* Only what an agent found is attached to the group.                      *)
Onward(choice) == IF choice = "LLM_REQUIRED" THEN "investigating" ELSE "replaying"

(* record_occurrence, and the treatment reuse.decide chooses on its result.*)
Record(k) ==
    /\ call[k].at = "recording"
    /\ \E loaded \in {group[Fingerprint(k)], NewGroup} :
         LET g == Count(loaded, call[k].id, Verdict(k))
             choice == Decide(Class(k), Verdict(k), g.onFile)
         IN /\ Loads(Fingerprint(k), loaded)
            /\ group' = [group EXCEPT ![Fingerprint(k)] = g]
            /\ call' = [call EXCEPT
                 ![k].at = Onward(choice),
                 ![k].source = CASE choice = "CANNED" -> "canned"
                                 [] choice = "REUSE_GROUP" -> "group_reuse"
                                 [] OTHER -> "none",
                 ![k].finding = CASE choice = "CANNED" ->
                                       Final(k, Canned(Class(k), Verdict(k)), FALSE)
                                  [] choice = "REUSE_GROUP" -> Final(k, g.recommendation, TRUE)
                                  [] OTHER -> NoFinding]
    /\ recorded' = [recorded EXCEPT ![Fingerprint(k)] = @ \cup {call[k].id}]
    /\ UNCHANGED <<kafkaVars, caseVars, replayed, failure, client, refetched, overlapped>>

(* The investigate - review - synthesise graph: an agent states a          *)
(* discrepancy when the logs show one, as its prompt says.                 *)
Investigate(k) ==
    /\ call[k].at = "investigating"
    /\ \/ \E f \in AgentFindings :
             call' = [call EXCEPT
                ![k].at = "attaching", ![k].source = "agent",
                ![k].finding = Final(k, [action |-> f.action, confidence |-> f.confidence,
                                         discrepancy |-> Discrepant(Verdict(k)),
                                         ceilings |-> {}], FALSE)]
       \/ call' = [call EXCEPT
             ![k].at = "replaying", ![k].source = "failed_synthesis",
             ![k].finding = Final(k, FailedSynthesis, FALSE)]
    /\ UNCHANGED <<kafkaVars, caseVars, group, replayed, failure, client, historyVars,
                   boundVars>>

(* attach_recommendation: what an agent found is the group's from now on.  *)
Attach(k) ==
    /\ call[k].at = "attaching"
    /\ \E loaded \in {group[Fingerprint(k)], NewGroup} :
          /\ Loads(Fingerprint(k), loaded)
          /\ group' = [group EXCEPT ![Fingerprint(k)] =
                [loaded EXCEPT !.onFile = TRUE, !.recommendation = call[k].finding]]
    /\ Goes(k, "replaying")
    /\ UNCHANGED <<kafkaVars, caseVars, replayed, failure, client, historyVars>>

(* maybe_replay: what is queued, or merely said to be (queue_for_replay    *)
(* answers a failure with a string), or failed.                            *)
Replay(k) ==
    /\ call[k].at = "replaying"
    /\ IF ShouldReplay(call[k].finding, call[k].id \in Identified)
       THEN \/ /\ replayed' = [replayed EXCEPT ![call[k].id] = @ + 1]
               /\ call' = [call EXCEPT ![k].at = "saving_casebook", ![k].replay = "queued"]
               /\ UNCHANGED boundVars
            \/ /\ Fault /\ UNCHANGED replayed
               /\ \E r \in {"queued", "failed"} :
                     call' = [call EXCEPT ![k].at = "saving_casebook", ![k].replay = r]
       ELSE Goes(k, "saving_casebook") /\ UNCHANGED <<replayed, boundVars>>
    /\ UNCHANGED <<kafkaVars, caseVars, group, failure, client, historyVars>>

(* save_terminal, whatever has been recorded meanwhile.                    *)
CaseStatus(finding) == IF finding.action = "NO_ACTION" THEN "COMPLETED"
                                                       ELSE "NEEDS_MANUAL_REVIEW"

AnalyzeSaves(k) ==
    /\ \/ /\ call[k].at = "saving_casebook"
          /\ SaveCasebook(call[k].id,
                [status |-> CaseStatus(call[k].finding), verdict |-> Verdict(k),
                 finding |-> call[k].finding, source |-> call[k].source,
                 replay |-> call[k].replay])
          /\ Goes(k, "saving_status") /\ UNCHANGED status
       \/ /\ call[k].at = "saving_status"
          /\ SaveStatus(call[k].id, CaseStatus(call[k].finding))
          /\ Ends(k, "answered") /\ UNCHANGED casebook
    /\ UNCHANGED <<kafkaVars, logs, group, replayed, failure, client, historyVars, boundVars>>

(* Storage, the group's lock or a model raises: HTTP 500.                  *)
HandlerFails(k) ==
    /\ call[k].at \in Running \ {"replaying"}
    /\ Ends(k, "failed") /\ Fault
    /\ UNCHANGED <<kafkaVars, caseVars, group, replayed, failure, client, historyVars>>

(* The API process dies; what its calls have not saved is lost.            *)
Crash ==
    /\ Mishap("crash")
    /\ call' = [k \in Calls |-> IF call[k].at \in Running THEN Ended(k, "failed")
                                                         ELSE call[k]]
    /\ UNCHANGED <<kafkaVars, caseVars, group, replayed, failure, client, historyVars>>

----------------------------------------------------------------------------
Handler(k) == \/ FetchCheck(k) \/ FetchLogs(k) \/ FetchRead(k) \/ FetchPublish(k)
              \/ AnalyzeCheck(k) \/ Record(k) \/ Investigate(k) \/ Attach(k) \/ Replay(k)
              \/ AnalyzeSaves(k) \/ HandlerFails(k)

Consumer(k) == GetAnswer(k) \/ ClientTimeout(k) \/ ClientSaves(k) \/ Redeliver(k)

Next == \/ \E id \in Ids : Skip(id) \/ Refused(id)
        \/ \E id \in Ids, k \in Calls : Forward(id, k) \/ Post(id, k)
        \/ \E k \in Calls : Consumer(k) \/ Handler(k)
        \/ Crash

Spec == Init /\ [][Next]_vars

----------------------------------------------------------------------------
(* Properties.                                                             *)

(* The occurrence count of a fingerprint counts every case, redelivered,   *)
(* analysed twice or retried, once -- as long as the cases fit the member  *)
(* list, and never too few ("so two workers cannot lose an increment") --  *)
(* and the verdicts on record add up to it, unless a group was unreadable. *)
Total(history) == history["CORROBORATED"] + history["PARTIAL"]
                  + history["CONTRADICTED"] + history["UNVERIFIABLE"]
GroupCounts ==
    \A p \in Fingerprints :
       /\ group[p].count = Total(group[p].history)
       /\ "erasure" \notin mishaps =>
             /\ group[p].count >= Cardinality(recorded[p])
             /\ Cardinality(recorded[p]) <= MemberCap =>
                   group[p].count = Cardinality(recorded[p])

(* A casebook names every ceiling its failure and its verdict call for,    *)
(* and its score is within each it names, whoever found it: a canned, new  *)
(* or cached finding.                                                      *)
Supported(finding) == \A label \in finding.ceilings : finding.confidence <= Limit[label]
ConfidenceBounded ==
    \A id \in Ids : casebook[id].source # "none" =>
       /\ Supported(casebook[id].finding)
       /\ Applied(FailureOf(id), casebook[id].verdict, NoLogs("lines"))
             \subseteq casebook[id].finding.ceilings

(* The recommendation of a group is an agent's: a score decayed by reuse   *)
(* is never cached, and so never decayed again.                            *)
CachedUndecayed ==
    \A p \in Fingerprints : "reuse_decay" \notin group[p].recommendation.ceilings

(* No case is replayed automatically whose logs were not compared with its *)
(* trace, or whose finding is canned, even on a cached recommendation that *)
(* other logs earned -- unless its logs were fetched again meanwhile.      *)
NeverReplayedBlind ==
    \A id \in Ids : replayed[id] > 0 /\ id \notin refetched =>
       ClassOf(FailureOf(id)) = "A" /\ Corroborate(logs[id]) # "UNVERIFIABLE"

(* Nor is a case replayed twice, however often it is posted, but for calls *)
(* that overlap, and a crash or a fault before the casebook is saved.      *)
ReplayedOnce ==
    \A id \in Ids :
       mishaps \cap {"crash", "fault"} = {} /\ id \notin overlapped => replayed[id] <= 1

(* No record is forgotten: until its case has a terminal casebook or is in *)
(* the DLQ, it waits, or a consumer holds it, or the analysis queue has it *)
(* -- unless a send of it to the DLQ or to the analysis queue was lost.    *)
Held(id) == \E k \in Calls : call[k].id = id /\ client[k] # "none"
Accounted(id) ==
    \/ id \in inDlq \/ Settled(id) \/ waiting[id] > 0 \/ Held(id)
    \/ id \in Cases /\ \E q \in QueueCases : id \in carries[q]
    \/ id \in QueueCases /\ carries[id] = {}
NothingForgotten == \A id \in Ids : Accounted(id) \/ id \in lostSends

(* A fetched case that could not be queued comes back "rather than the     *)
(* case being silently dropped between stages"                             *)
(* (publish_to_dlt_analysis_queue).                                        *)
NotSilentlyDropped ==
    \A id \in Cases : status[id] = "LOGS_FETCHED" => Accounted(id)

(* What the analysis consumer forwards has been fetched ("Endpoint the DLT *)
(* analysis consumer forwards fetched cases to", api/dlt_routes.py).       *)
ForwardsFetchedCases ==
    \A k \in Calls : client[k] = "waiting" /\ call[k].at \in Analysing =>
       logs[call[k].id].kind # "absent"
=============================================================================
