------------------------------ MODULE LogFetch ------------------------------
(***************************************************************************)
(* How the logs of a packet are fetched (src/log_pipeline/sources).  A     *)
(* chain of sources is tried in order: Kubernetes discovers pods and reads *)
(* them on a thread pool under a deadline, and snapshots what it read;     *)
(* Elasticsearch is searched.  Each has its circuit breaker.                *)
(*                                                                         *)
(* A fetcher is a process (API replica or tool) with breakers of its own,  *)
(* fetching for one packet at a time; fetchers share the casebook storage. *)
(***************************************************************************)
EXTENDS PodDiscovery, Resilience

CONSTANTS
    Fetchers,
    Keys,          \* identifiers fetched for
    Chains,        \* values of LOG_SOURCE
    Clusters,      \* what the cluster may answer to a discovery
    Mentions,      \* targets whose log has lines with the identifier
    Restarted,     \* targets whose container has restarted
    Rotated,       \* targets whose log begins inside the window that is searched
    NewPods,       \* pods started inside that window
    Oversized,     \* targets whose log is over K8S_MAX_BYTES_PER_POD
    Replies,       \* statuses a log read may meet
    MaxDocuments,  \* LOG_MAX_DOCUMENTS
    ReuseEnabled,  \* LOG_SNAPSHOT_REUSE
    NoKey,         \* the key of a fetcher that fetches for none
    NoFetcher,     \* who saved a snapshot that is not there
    MaxFetches,    \* bound: fetches of one behaviour
    MaxFaults      \* bound: crashes, storage faults and other exceptions of one

Sources  == {"kubernetes", "elastic"}

ASSUME FetchAssumption ==
    /\ Chains \subseteq Seq(Sources) /\ <<>> \notin Chains
    /\ Clusters \subseteq AllClusters
    /\ Mentions \subseteq Target /\ Restarted \subseteq Target
    /\ Rotated \subseteq Target /\ Oversized \subseteq Target
    /\ NewPods \subseteq Pods
    /\ MaxDocuments \in Nat \ {0}
    /\ ReuseEnabled \in BOOLEAN
    /\ NoKey \notin Keys /\ NoFetcher \notin Fetchers
    /\ MaxFetches \in Nat /\ MaxFaults \in Nat

VARIABLES
    \* of each fetcher
    pc,        \* where its fetch is
    key,       \* identifier it fetches for
    chain,     \* sources still to try, the current one first
    abandoned, \* sources tried without success, and whether each could look
    found,     \* what discovery found
    read,      \* the reads of the fan-out, by target
    result,    \* FetchResult of the current source, or the answer
    breaker,   \* its circuit breakers
    \* in storage
    records,   \* raw_logs_k8s.jsonl: the origins of its lines
    meta,      \* the gaps in log_snapshot_meta.json
    \* history and bounds
    capture,       \* what records lacks, who saved it, and whether with its meta
    elasticRaised, \* fetchers whose Elasticsearch search has raised
    fetches, faults

fetchVars   == <<key, chain, abandoned>>
fanoutVars  == <<found, read>>
storageVars == <<records, meta, capture>>
boundVars   == <<fetches, faults>>
vars == <<pc, fetchVars, fanoutVars, result, breaker, storageVars, elasticRaised, boundVars>>

(* A FetchResult: whether the source could look, whose lines it brings and *)
(* the gaps; or the exception a source raised.  lost is history: what the  *)
(* result lacks, "everything" when its source could not look.              *)
Origins == Target \cup {"elastic"}
Results == [raised : BOOLEAN, ok : BOOLEAN, lines : SUBSET Origins, gaps : SUBSET GapTypes,
            source : Sources, lost : SUBSET Losses]
FetchResult(src, ok, lines, announced, lost) ==
    [raised |-> FALSE, ok |-> ok, lines |-> lines, gaps |-> announced, source |-> src,
     lost |-> lost]
Failure(src, announced, lost) == FetchResult(src, FALSE, {}, announced, lost)
NotLooked(src)            == Failure(src, {}, {"everything"})
Raised(src)               == [NotLooked(src) EXCEPT !.raised = TRUE]
NoResult                  == Raised("elastic")
Attempts                  == [source : Sources, looked : BOOLEAN]

(* Whether it found logs, found that there are none, or could not look.    *)
Told(r) == IF ~r.ok THEN "blind" ELSE IF r.lines = {} THEN "absent" ELSE "found"

(* A read: pending (queued, running or hung), or in with its result: its   *)
(* outcome, or the exception it raised.                                    *)
Steps    == {"pending", "done", "raised"}
Reads    == [step : Steps, ok : BOOLEAN, seen : BOOLEAN, lines : BOOLEAN,
             truncated : BOOLEAN, cut : BOOLEAN, vanished : BOOLEAN]
NewRead  == [step |-> "pending", ok |-> FALSE, seen |-> FALSE, lines |-> FALSE,
             truncated |-> FALSE, cut |-> FALSE, vanished |-> FALSE]

Targets(f)   == found[f].targets
Collected(f) == {t \in Targets(f) : read[f][t].step # "pending"}
Discoveries == {DiscoverTargets(c) : c \in Clusters}
NothingFound == [ok |-> FALSE, targets |-> {}, gaps |-> {}, losses |-> {}]

(* read_pod_logs.  A restarted container is read twice, first for its      *)
(* previous instance, and a failure of that read is no failure.  But the   *)
(* stream that is opened is that of the current instance both times.  When *)
(* the second read fails, 404 is a vanished pod and anything else leaves   *)
(* no gap; the lines of the first read stay.  A log over the byte cap is   *)
(* cut; the reader notices if a part of a line is left in its buffer, and  *)
(* reports what it noticed unless the second read fails.                   *)
ReadPodLogs(target, first, noticed, reply) ==
    LET ok        == reply = Success
        seen      == ok \/ (target \in Restarted /\ first)
        truncated == ok /\ noticed /\ target \in Oversized
    IN  [step |-> "done", ok |-> ok, seen |-> seen, lines |-> seen /\ target \in Mentions,
         truncated |-> truncated, cut |-> seen /\ target \in Oversized /\ ~truncated,
         vanished |-> reply = 404]
ReadGaps(r) == When(r.truncated, "TRUNCATED") \cup When(r.vanished, "POD_VANISHED")

(* What the reads of a pod may come to after call_with_retry.              *)
FinalReplies == {CallWithRetry(r) : r \in [1..MaxAttempts -> Replies]}

(* read_all and the rest of _fetch: what the collected reads add up to.    *)
Failed(f) == {t \in Collected(f) : ~read[f][t].ok}
Lines(f)  == {t \in Collected(f) : read[f][t].lines}
IsOld(t)  == t[1] \notin NewPods
Seen(f)   == {t \in Collected(f) : read[f][t].seen}

(* detect_rotation_gap: the oldest line of all is inside the window, and   *)
(* some pod is older than that.  It takes the logs of all pods as one.     *)
IsRotated(f) ==
    /\ Seen(f) # {} /\ \A t \in Seen(f) : t \in Rotated \/ ~IsOld(t)
    /\ \E t \in Collected(f) : read[f][t].step = "done" /\ IsOld(t)

FetchGaps(f) ==
    found[f].gaps
    \cup (UNION {ReadGaps(read[f][t]) : t \in Collected(f)})
    \cup When(IsRotated(f), "LOG_ROTATION")
    \cup When(\E t \in Targets(f) : ~IsOld(t), "POD_REPLACED")
    \cup When(~(Targets(f) \subseteq Collected(f)), "TRUNCATED")

AllFailed(f) == Collected(f) # {} /\ Failed(f) = Collected(f)

FetchLosses(f) ==
    found[f].losses
    \cup When(\E t \in Collected(f) : read[f][t].truncated, "bytes")
    \cup When(\E t \in Collected(f) : read[f][t].cut, "cut")
    \cup When(\E t \in Seen(f) : t \in Rotated, "rotated")
    \cup When(~(Targets(f) \subseteq Collected(f)), "deadline")
    \cup When(\E t \in Failed(f) : read[f][t].vanished, "vanished")
    \cup When(\E t \in Failed(f) : ~read[f][t].vanished, "failed")
    \cup When(AllFailed(f) /\ Lines(f) = {}, "everything")
    \cup When(Collected(f) \cap Restarted # {}, "previous")

(* Mutated form: a raised read counts as failed but not as queried.       *)
OutcomeRaisedUnqueried(f) ==
    LET queried == {t \in Collected(f) : read[f][t].step = "done"}
    IN  IF queried # {} /\ Failed(f) = queried /\ Lines(f) = {}
        THEN Failure("kubernetes", FetchGaps(f), FetchLosses(f))
        ELSE FetchResult("kubernetes", TRUE, Lines(f), FetchGaps(f), FetchLosses(f))

(* Could not look, or looked and found these lines.                        *)
Outcome(f) ==
    IF AllFailed(f) /\ Lines(f) = {}
    THEN Failure("kubernetes", FetchGaps(f), FetchLosses(f))
    ELSE FetchResult("kubernetes", TRUE, Lines(f), FetchGaps(f), FetchLosses(f))

-----------------------------------------------------------------------------

NewBreakers == [s \in Sources |-> NewBreaker]
NoReads     == [t \in Target |-> NewRead]

Init ==
    /\ pc = [f \in Fetchers |-> "idle"]
    /\ key = [f \in Fetchers |-> NoKey]
    /\ chain = [f \in Fetchers |-> <<>>]
    /\ abandoned = [f \in Fetchers |-> {}]
    /\ found = [f \in Fetchers |-> NothingFound]
    /\ read = [f \in Fetchers |-> NoReads]
    /\ result = [f \in Fetchers |-> NoResult]
    /\ breaker = [f \in Fetchers |-> NewBreakers]
    /\ records = [k \in Keys |-> {}]
    /\ meta = [k \in Keys |-> {}]
    /\ capture = [k \in Keys |-> [lost |-> {}, by |-> NoFetcher, whole |-> TRUE]]
    /\ elasticRaised = {}
    /\ fetches = 0 /\ faults = 0

Goto(f, step) == pc' = [pc EXCEPT ![f] = step]
Fault == faults < MaxFaults /\ faults' = faults + 1 /\ UNCHANGED fetches

At(f, source) == pc[f] = "source" /\ Head(chain[f]) = source
Admitted(f, source) == At(f, source) /\ ~Refuses(breaker[f][source])

(* The source comes back to the chain, and to the breaker that guards it.  *)
Return(f, r) == Goto(f, "returned") /\ result' = [result EXCEPT ![f] = r]
Pass(f, source)  == breaker' = [breaker EXCEPT ![f][source] = AfterReturn(@)]
(* Mutated form: one breaker around the whole chain (G10).                 *)
CountForAll(f, source) == breaker' = [breaker EXCEPT ![f] = [s \in Sources |-> AfterRaise(@[s])]]
Count(f, source) == breaker' = [breaker EXCEPT ![f][source] = AfterRaise(@)]

(* reduce_logs, with the chain LOG_SOURCE names at the time.               *)
StartFetch(f, k) ==
    /\ pc[f] = "idle" /\ fetches < MaxFetches
    /\ \E c \in Chains : chain' = [chain EXCEPT ![f] = c]
    /\ key' = [key EXCEPT ![f] = k]
    /\ fetches' = fetches + 1
    /\ Goto(f, "source")
    /\ UNCHANGED <<abandoned, fanoutVars, result, breaker, storageVars, elasticRaised, faults>>

-----------------------------------------------------------------------------
(* Kubernetes.                                                             *)

(* An open breaker is a failure of this source, not an exception.          *)
FailFast(f) ==
    /\ At(f, "kubernetes") /\ Refuses(breaker[f].kubernetes)
    /\ Return(f, NotLooked("kubernetes"))
    /\ UNCHANGED <<fetchVars, fanoutVars, breaker, storageVars, elasticRaised, boundVars>>

(* _fetch raises before it reads anything: a malformed setting.  The call  *)
(* that trips the breaker is a failure, like those the breaker refuses.    *)
FetchRaises(f) ==
    /\ Admitted(f, "kubernetes") /\ Fault
    /\ Return(f, IF Refuses(AfterRaise(breaker[f].kubernetes))
                 THEN NotLooked("kubernetes") ELSE Raised("kubernetes"))
    /\ Count(f, "kubernetes")
    /\ UNCHANGED <<fetchVars, fanoutVars, storageVars, elasticRaised>>

(* snapshot.load: records without metadata have no gaps.                   *)
ReuseSnapshot(f) ==
    /\ Admitted(f, "kubernetes") /\ ReuseEnabled /\ records[key[f]] # {}
    /\ LET c == capture[key[f]]
       IN  Return(f, FetchResult("kubernetes", TRUE, records[key[f]], meta[key[f]],
                                 IF c.whole THEN c.lost ELSE {"metadata"}))
    /\ Pass(f, "kubernetes")
    /\ UNCHANGED <<fetchVars, fanoutVars, storageVars, elasticRaised, boundVars>>

(* No snapshot, or one that cannot be read: the cluster is asked.  Failures *)
(* of discovery come back as a value, without discovery's gaps.            *)
Discover(f, d) ==
    /\ Admitted(f, "kubernetes")
    /\ IF ReuseEnabled /\ records[key[f]] # {} THEN Fault ELSE UNCHANGED boundVars
    /\ \/ /\ ~d.ok
          /\ Return(f, NotLooked("kubernetes"))
          /\ Pass(f, "kubernetes") /\ UNCHANGED fanoutVars
       \/ /\ d.ok /\ d.targets = {}
          /\ Return(f, FetchResult("kubernetes", TRUE, {}, d.gaps, d.losses))
          /\ Pass(f, "kubernetes") /\ UNCHANGED fanoutVars
       \/ /\ d.ok /\ d.targets # {}
          /\ Goto(f, "reading")
          /\ found' = [found EXCEPT ![f] = d]
          /\ UNCHANGED <<read, result, breaker>>
    /\ UNCHANGED <<fetchVars, storageVars, elasticRaised>>

(* read_all: a pool of threads reads the targets, and as_completed yields  *)
(* them as they finish.                                                    *)
ReadEnds(f, t, r) ==
    /\ pc[f] = "reading" /\ t \in Targets(f) \ Collected(f)
    /\ read' = [read EXCEPT ![f][t] = r]
    /\ UNCHANGED <<pc, fetchVars, found, result, breaker, storageVars, elasticRaised>>

EndRead(f, t) ==
    /\ \E first, noticed \in BOOLEAN, reply \in FinalReplies :
          ReadEnds(f, t, ReadPodLogs(t, first, noticed, reply))
    /\ UNCHANGED boundVars

(* Something else in the read raises.                                      *)
ReadRaises(f, t) ==
    /\ Fault
    /\ ReadEnds(f, t, [NewRead EXCEPT !.step = "raised"])

(* Mutated form: the pool is a with block, whose end waits for every read. *)
ConcludeWhenAllEnd(f) ==
    /\ pc[f] = "reading" /\ Targets(f) \subseteq Collected(f)
    /\ found' = [found EXCEPT ![f] = NothingFound]
    /\ read' = [read EXCEPT ![f] = NoReads]
    /\ result' = [result EXCEPT ![f] = Outcome(f)]
    /\ IF Lines(f) = {} THEN Goto(f, "returned") /\ Pass(f, "kubernetes")
                        ELSE Goto(f, "saving") /\ UNCHANGED breaker
    /\ UNCHANGED <<fetchVars, storageVars, elasticRaised, boundVars>>

(* All reads are in, or the deadline passes: then nobody waits for the     *)
(* reads that are pending, and what they still bring is discarded.         *)
Conclude(f) ==
    /\ pc[f] = "reading"
    /\ found' = [found EXCEPT ![f] = NothingFound]
    /\ read' = [read EXCEPT ![f] = NoReads]
    /\ result' = [result EXCEPT ![f] = Outcome(f)]
    /\ IF Lines(f) = {} THEN Goto(f, "returned") /\ Pass(f, "kubernetes")
                        ELSE Goto(f, "saving") /\ UNCHANGED breaker
    /\ UNCHANGED <<fetchVars, storageVars, elasticRaised, boundVars>>

(* snapshot.save: the records, then their metadata; a failure is swallowed. *)
SaveRecords(f) ==
    /\ pc[f] = "saving"
    /\ records' = [records EXCEPT ![key[f]] = result[f].lines]
    /\ capture' = [capture EXCEPT ![key[f]] =
                      [lost |-> result[f].lost, by |-> f, whole |-> FALSE]]
    /\ Goto(f, "savingMeta")
    /\ UNCHANGED <<fetchVars, fanoutVars, result, breaker, meta, elasticRaised,
                   boundVars>>

SaveMeta(f) ==
    /\ pc[f] = "savingMeta"
    /\ meta' = [meta EXCEPT ![key[f]] = result[f].gaps]
    /\ capture' = [capture EXCEPT ![key[f]].whole = (capture[key[f]].by = f)]
    /\ Goto(f, "returned") /\ Pass(f, "kubernetes")
    /\ UNCHANGED <<fetchVars, fanoutVars, result, records, elasticRaised, boundVars>>

SaveFails(f) ==
    /\ pc[f] \in {"saving", "savingMeta"} /\ Fault
    /\ Goto(f, "returned") /\ Pass(f, "kubernetes")
    /\ UNCHANGED <<fetchVars, fanoutVars, result, storageVars, elasticRaised>>

-----------------------------------------------------------------------------
(* Elasticsearch.  fetch_logs pages through the hits up to MaxDocuments,   *)
(* and says nothing of the rest.                                           *)
Search(f) ==
    /\ Admitted(f, "elastic")
    /\ \E hits \in {0, 1, MaxDocuments, MaxDocuments + 1} :
          Return(f, FetchResult("elastic", TRUE, IF hits = 0 THEN {} ELSE {"elastic"}, {},
                                When(hits > MaxDocuments, "documents")))
    /\ Pass(f, "elastic")
    /\ UNCHANGED <<fetchVars, fanoutVars, storageVars, elasticRaised, boundVars>>

SearchRaises(f) ==
    /\ Admitted(f, "elastic") /\ Fault
    /\ Return(f, Raised("elastic"))
    /\ Count(f, "elastic")
    /\ elasticRaised' = elasticRaised \cup {f}
    /\ UNCHANGED <<fetchVars, fanoutVars, storageVars>>

(* Here an open breaker is an exception.                                   *)
SearchRefused(f) ==
    /\ At(f, "elastic") /\ Refuses(breaker[f].elastic)
    /\ Return(f, Raised("elastic"))
    /\ UNCHANGED <<fetchVars, fanoutVars, breaker, storageVars, elasticRaised, boundVars>>

(* The reset timeout of a breaker is over.                                 *)
BreakerResets(f, source) ==
    /\ Refuses(breaker[f][source])
    /\ breaker' = [breaker EXCEPT ![f][source] = AfterTimeout(@)]
    /\ UNCHANGED <<pc, fetchVars, fanoutVars, result, storageVars, elasticRaised, boundVars>>

-----------------------------------------------------------------------------
(* fetch_with_fallback: the first source with lines wins.                  *)
Wins(r)    == r.ok /\ r.lines # {}
IsLast(f)  == Len(chain[f]) = 1
Attempt(f) == [source |-> Head(chain[f]), looked |-> "everything" \notin result[f].lost]

(* Mutated form: the chain is followed past its end.                       *)
NextSourceAlways(f) ==
    /\ pc[f] = "returned" /\ ~Wins(result[f])
    /\ abandoned' = [abandoned EXCEPT ![f] = @ \cup {Attempt(f)}]
    /\ chain' = [chain EXCEPT ![f] = Tail(@)]
    /\ Goto(f, "source")
    /\ UNCHANGED <<key, fanoutVars, result, breaker, storageVars, elasticRaised, boundVars>>
NextSource(f) ==
    /\ pc[f] = "returned" /\ ~Wins(result[f]) /\ ~IsLast(f)
    /\ abandoned' = [abandoned EXCEPT ![f] = @ \cup {Attempt(f)}]
    /\ chain' = [chain EXCEPT ![f] = Tail(@)]
    /\ Goto(f, "source")
    /\ UNCHANGED <<key, fanoutVars, result, breaker, storageVars, elasticRaised, boundVars>>

(* The winner's answer, or the last source's: an exception of the last     *)
(* source becomes None, and there is no other try.                         *)
Answer(f) ==
    /\ pc[f] = "returned" /\ (Wins(result[f]) \/ IsLast(f))
    /\ LET reports == ~result[f].raised
                         /\ (abandoned[f] # {} \/ ~result[f].ok)
       IN  result' = [result EXCEPT
                         ![f].gaps = @ \cup When(reports, "SOURCE_FALLBACK"),
                         ![f].lost = @ \cup When(abandoned[f] # {}, "source")
                                       \cup When(\E a \in abandoned[f] : ~a.looked, "unlooked")]
    /\ Goto(f, "answered")
    /\ UNCHANGED <<fetchVars, fanoutVars, breaker, storageVars, elasticRaised, boundVars>>

(* The fetcher is done with the packet, or its process dies.               *)
Forget(f) ==
    /\ Goto(f, "idle")
    /\ key' = [key EXCEPT ![f] = NoKey]
    /\ chain' = [chain EXCEPT ![f] = <<>>]
    /\ abandoned' = [abandoned EXCEPT ![f] = {}]
    /\ found' = [found EXCEPT ![f] = NothingFound]
    /\ read' = [read EXCEPT ![f] = NoReads]
    /\ result' = [result EXCEPT ![f] = NoResult]
    /\ UNCHANGED <<records, meta, capture, elasticRaised>>

(* The answer goes to the caller.                                          *)
Deliver(f) ==
    /\ pc[f] = "answered"
    /\ Forget(f)
    /\ UNCHANGED <<breaker, boundVars>>

Crash(f) ==
    /\ pc[f] # "idle" /\ Fault
    /\ breaker' = [breaker EXCEPT ![f] = NewBreakers]
    /\ Forget(f)

FetcherStep(f) ==
    \/ FailFast(f) \/ ReuseSnapshot(f) \/ (\E d \in Discoveries : Discover(f, d))
    \/ Conclude(f)
    \/ SaveRecords(f) \/ SaveMeta(f)
    \/ Search(f) \/ SearchRefused(f)
    \/ NextSource(f) \/ Answer(f) \/ Deliver(f)

Next ==
    \E f \in Fetchers :
        \/ \E k \in Keys : StartFetch(f, k)
        \/ FetcherStep(f)
        \/ \E t \in Target : EndRead(f, t) \/ ReadRaises(f, t)
        \/ \E source \in Sources : BreakerResets(f, source)
        \/ FetchRaises(f) \/ SaveFails(f) \/ SearchRaises(f)
        \/ Crash(f)

(* A fetch goes on and the deadline comes; a read may hang for ever.       *)
Spec == Init /\ [][Next]_vars /\ \A f \in Fetchers : WF_vars(FetcherStep(f))

-----------------------------------------------------------------------------
Readings == [Target -> Reads]

TypeOK ==
    /\ pc \in [Fetchers -> {"idle", "source", "reading", "saving", "savingMeta", "returned",
                            "answered"}]
    /\ key \in [Fetchers -> Keys \cup {NoKey}]
    /\ chain \in [Fetchers -> Seq(Sources)]
    /\ \A f \in Fetchers : (key[f] = NoKey <=> pc[f] = "idle") /\ (chain[f] = <<>> <=> pc[f] = "idle")
    /\ abandoned \in [Fetchers -> SUBSET Attempts]
    /\ found \in [Fetchers -> DiscoveryResult]
    /\ read \in [Fetchers -> Readings]
    /\ result \in [Fetchers -> Results]
    /\ breaker \in [Fetchers -> [Sources -> Breakers]]
    /\ records \in [Keys -> SUBSET Origins]
    /\ meta \in [Keys -> SUBSET GapTypes]
    /\ capture \in [Keys -> [lost : SUBSET Losses, by : Fetchers \cup {NoFetcher},
                            whole : BOOLEAN]]
    /\ elasticRaised \subseteq Fetchers
    /\ fetches \in 0..MaxFetches /\ faults \in 0..MaxFaults

(* The refinement: what an answer lacks, what it announces of that, and    *)
(* which of the three outcomes it is.                                      *)
Announcement(loss) ==
    CASE loss = "service"                       -> {"SERVICE_UNAVAILABLE"}
      [] loss \in {"pods", "bytes", "deadline"} -> {"TRUNCATED"}
      [] loss = "rotated"                       -> {"LOG_ROTATION"}
      [] loss = "vanished"                      -> {"POD_VANISHED"}
      [] loss \in {"source", "unlooked"}        -> {"SOURCE_FALLBACK"}
      [] OTHER                                  -> {}
Said(r) == {l \in Losses : Announcement(l) \cap r.gaps # {}}

Answered(f) == pc[f] = "answered"
Silent == {"failed", "previous", "rotated", "cut", "documents", "metadata"}

AnswerLost == [f \in Fetchers |-> IF Answered(f) THEN result[f].lost ELSE {}]
AnswerSaid == [f \in Fetchers |-> IF Answered(f) THEN Said(result[f]) ELSE {}]
AnswerTold == [f \in Fetchers |-> IF Answered(f) THEN Told(result[f]) ELSE "none"]

Promise == INSTANCE LookedOrSaid
    WITH Fetches <- Fetchers, lost <- AnswerLost, said <- AnswerSaid, told <- AnswerTold

(* An answer is found, absent or could-not-look as the abstract fetch has  *)
(* it.  A source whose reads all failed never answers "no logs"; when a    *)
(* later source does, the answer says that another was tried before it.    *)
(* And an answer announces its losses, those of Silent excepted, also when *)
(* it comes from another fetch's snapshot or after the deadline.           *)
LooksOrSays == Promise!Spec

(* KUBERNETES_LOGS_PLAN.md:153, principle 2: incomplete evidence is        *)
(* announced.  The code does not announce the losses of Silent.            *)
IncompleteIsAnnounced ==
    \A f \in Fetchers :
        Answered(f) /\ result[f].ok /\ result[f].lines # {} => result[f].lost \subseteq Said(result[f])

(* The search is refused only to a fetcher whose own searches have raised: *)
(* an outage of the cluster does not open the breaker of Elasticsearch.    *)
OutageIsolated ==
    \A f \in Fetchers : Refuses(breaker[f].elastic) => f \in elasticRaised

(* A fetch ends although its reads may hang: the deadline bounds the       *)
(* fan-out, and nobody waits for the reads that still run.                 *)
FetchesEnd == \A f \in Fetchers : pc[f] # "idle" ~> pc[f] = "idle"

(* Why it ends: at most 5 steps per source and one for the answer, and     *)
(* every step of the fetcher leaves fewer; whatever else happens, the      *)
(* fetch is not taken back, nor its chain followed anew.                   *)
StepsOn(f) ==
    CASE pc[f] = "source"     -> 6
      [] pc[f] = "reading"    -> 5
      [] pc[f] = "saving"     -> 4
      [] pc[f] = "savingMeta" -> 3
      [] pc[f] = "returned"   -> 2
      [] pc[f] = "answered"   -> 1
      [] pc[f] = "idle"       -> 0
StepsLeft(f) == IF pc[f] \in {"answered", "idle"} THEN StepsOn(f)
                ELSE StepsOn(f) + 5 * (Len(chain[f]) - 1)

FetchesShrink ==
    [][\A f \in Fetchers : pc[f] # "idle" =>
          \/ ~FetcherStep(f) /\ UNCHANGED <<pc[f], chain[f]>>
          \/ StepsLeft(f)' \in 0 .. StepsLeft(f) - 1]_vars
=============================================================================
