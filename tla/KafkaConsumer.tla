--------------------------- MODULE KafkaConsumer ---------------------------
(***************************************************************************)
(* The consumer processes of src/utils/kafkaConsumer.py: one group of      *)
(* Members reading the Partitions of one topic.  Each member runs a poll   *)
(* loop (main), a pool of worker threads (Slots) and an OffsetTracker; the *)
(* broker keeps the committed positions, the group and the DLQ topic; the  *)
(* storage keeps at most one terminal casebook per message.                *)
(*                                                                         *)
(* Each of the four roles (fast, slow, dlt, dlt_analysis) runs this code;  *)
(* they differ only in the adapter, whose verdicts on a message are the    *)
(* sets Poison and NotRejected and the casebook variable.                  *)
(***************************************************************************)
EXTENDS OffsetTracker, FiniteSets

CONSTANTS
    Members,          \* consumer processes of the group
    Partitions,       \* partitions of the topic
    LogEnd,           \* bound: messages 0 .. LogEnd - 1 are in each partition
    Slots,            \* worker threads of a member = permits of its semaphore
    MaxPollRecords,   \* max_poll_records
    Poison,           \* messages parse() refuses
    NotRejected,      \* messages should_skip() skips for their packetStatus
    DlqOutcomes,      \* what publish_to_dlq may do: "delivered", "dropped", "lost"
    CommitOutcomes,   \* what consumer.commit may do: "ok", "failed"
    QuiescentRevoke,  \* TRUE: partitions are revoked only when no worker runs
    MaxStops,         \* bound on crashes and shutdown signals
    MaxRebalances,    \* bound on voluntary rebalances and evictions
    NoMember,         \* no owner
    NoJob             \* an idle worker thread

Messages == Partitions \X (0 .. LogEnd - 1)

ASSUME LogEndAssumption == LogEnd \in Nat
ASSUME PollAssumption == MaxPollRecords \in Nat \ {0}
ASSUME MessagesAssumption == Poison \subseteq Messages /\ NotRejected \subseteq Messages
ASSUME OutcomesAssumption == /\ DlqOutcomes \subseteq {"delivered", "dropped", "lost"}
                             /\ CommitOutcomes \subseteq {"ok", "failed"}
ASSUME BoundsAssumption == MaxStops \in Nat /\ MaxRebalances \in Nat
ASSUME QuiescentAssumption == QuiescentRevoke \in BOOLEAN
ASSUME NullsAssumption ==
    /\ NoMember \notin Members
    /\ NoJob \notin [msg : Messages, at : {"forwarding", "timed_out"}]

VARIABLES
    \* the broker
    owner,       \* the member the group gave each partition to
    inGroup,     \* members of the current generation: their commits are taken
    committed,   \* committed position of each partition
    dlq,         \* messages in the DLQ topic
    dropped,     \* history: messages whose DLQ publish failed with an error logged
    silent,      \* history: messages lost by a DLQ publish logged as published
    \* the endpoint and the casebook storage
    forwarded,   \* messages POSTed to the endpoint at least once
    answered,    \* messages the endpoint answered with a 2xx
    casebook,    \* terminal casebook: "none", "timeout" or "verdict"
    \* each member's poll loop
    main,        \* where the poll thread is
    shutdown,    \* _shutdown is set
    assigned,    \* partitions this process believes it owns
    position,    \* fetch position: the offset after the last polled message
    next,        \* next polled message to hand out (position: batch done)
    \* each member's OffsetTracker and worker pool
    dispatched, completed,
    job,         \* what each worker thread is doing
    \* history: partitions revoked from a member while one of its threads was
    \* running a message of theirs
    interrupted,
    \* bounds
    stops, rebalances

dlqVars     == <<dlq, dropped, silent>>
brokerVars  == <<owner, inGroup, committed, dlqVars>>
storageVars == <<forwarded, answered, casebook>>
mainVars    == <<main, shutdown, assigned, position, next>>
trackerVars == <<dispatched, completed>>
historyVars == <<interrupted, stops, rebalances>>
vars == <<brokerVars, storageVars, mainVars, trackerVars, job, historyVars>>

MainStates == {"committing", "polling", "handling", "acquiring", "draining",
               "stopped", "down"}
Jobs == [msg : Messages, at : {"forwarding", "timed_out"}]

TypeOK ==
    /\ owner \in [Partitions -> Members \cup {NoMember}]
    /\ inGroup \subseteq Members
    /\ committed \in [Partitions -> 0 .. LogEnd]
    /\ dlq \subseteq Messages
    /\ dropped \subseteq Messages
    /\ silent \subseteq Messages
    /\ forwarded \subseteq Messages
    /\ answered \subseteq Messages
    /\ casebook \in [Messages -> {"none", "timeout", "verdict"}]
    /\ main \in [Members -> MainStates]
    /\ shutdown \in [Members -> BOOLEAN]
    /\ assigned \in [Members -> SUBSET Partitions]
    /\ position \in [Members -> [Partitions -> 0 .. LogEnd]]
    /\ next \in [Members -> [Partitions -> 0 .. LogEnd]]
    /\ dispatched \in [Members -> [Partitions -> SUBSET (0 .. LogEnd - 1)]]
    /\ completed \in [Members -> [Partitions -> SUBSET (0 .. LogEnd - 1)]]
    /\ job \in [Members -> [Slots -> Jobs \cup {NoJob}]]
    /\ interrupted \subseteq Partitions
    /\ stops \in 0 .. MaxStops
    /\ rebalances \in 0 .. MaxRebalances

Init ==
    /\ owner = [tp \in Partitions |-> NoMember]
    /\ inGroup = Members
    /\ committed = [tp \in Partitions |-> 0]
    /\ dlq = {}
    /\ dropped = {}
    /\ silent = {}
    /\ forwarded = {}
    /\ answered = {}
    /\ casebook = [msg \in Messages |-> "none"]
    /\ main = [m \in Members |-> "committing"]
    /\ shutdown = [m \in Members |-> FALSE]
    /\ assigned = [m \in Members |-> {}]
    /\ position = [m \in Members |-> [tp \in Partitions |-> 0]]
    /\ next = [m \in Members |-> [tp \in Partitions |-> 0]]
    /\ dispatched = [m \in Members |-> [tp \in Partitions |-> {}]]
    /\ completed = [m \in Members |-> [tp \in Partitions |-> {}]]
    /\ job = [m \in Members |-> [s \in Slots |-> NoJob]]
    /\ interrupted = {}
    /\ stops = 0
    /\ rebalances = 0

----------------------------------------------------------------------------
(* Mutated form: the DLQ is skipped.                                       *)
PublishNothing(msg) == UNCHANGED dlqVars

(* publish_to_dlq: delivered to the topic; dropped with an error logged     *)
(* (no producer, or send/flush raised inside its try); or lost in silence: *)
(* flush() waits for the send without looking at its future, so a record   *)
(* the broker never took is logged as published.  It never raises.         *)
PublishToDlq(msg) ==
    \/ /\ "delivered" \in DlqOutcomes
       /\ dlq' = dlq \cup {msg} /\ UNCHANGED <<dropped, silent>>
    \/ /\ "dropped" \in DlqOutcomes
       /\ dropped' = dropped \cup {msg} /\ UNCHANGED <<dlq, silent>>
    \/ /\ "lost" \in DlqOutcomes
       /\ silent' = silent \cup {msg} /\ UNCHANGED <<dlq, dropped>>

(* OffsetTracker.completed                                                 *)
Complete(m, msg) ==
    /\ completed' = [completed EXCEPT ![m][msg[1]] = @ \cup {msg[2]}]
    /\ UNCHANGED dispatched

(* Mutated form: an abandoned offset is left dispatched (G1).              *)
AbandonNothing(m, msg) == UNCHANGED trackerVars

(* OffsetTracker.abandoned                                                 *)
Abandon(m, msg) ==
    /\ dispatched' = [dispatched EXCEPT ![m][msg[1]] = @ \ {msg[2]}]
    /\ completed' = [completed EXCEPT ![m][msg[1]] = @ \ {msg[2]}]

(* The offsets take_committable / committable_for would commit for tp.     *)
Ready(m, tp) == Committable(dispatched[m][tp], completed[m][tp])

(* Take the safe floor of the partitions in S, retiring what it covers.    *)
Retire(m, S) ==
    /\ dispatched' = [dispatched EXCEPT ![m] =
          [tp \in Partitions |-> IF tp \in S THEN @[tp] \ Ready(m, tp) ELSE @[tp]]]
    /\ completed' = [completed EXCEPT ![m] =
          [tp \in Partitions |-> IF tp \in S THEN @[tp] \ Ready(m, tp) ELSE @[tp]]]

(* The positions after member m commits the floors of S in one request.    *)
FloorsOf(m, S) ==
    {c \in [Partitions -> 0 .. LogEnd] :
        \A tp \in Partitions :
            IF tp \in S /\ Ready(m, tp) # {}
            THEN c[tp] - 1 \in Highest(Ready(m, tp))
            ELSE c[tp] = committed[tp]}

(* Mutated form: an evicted member's commit is taken.                      *)
CommitFromAnyone(m, S) == committed' \in FloorsOf(m, S)

(* consumer.commit: the broker takes it from any member of the current     *)
(* generation, for whatever partitions it names; a failure is logged and   *)
(* swallowed, with the offsets already retired.                            *)
Commit(m, S) ==
    \E outcome \in CommitOutcomes :
        IF outcome = "ok" /\ m \in inGroup
        THEN \E c \in FloorsOf(m, S) : committed' = c
        ELSE UNCHANGED committed

(* Mutated form: revoked partitions keep their tracker entries.            *)
ForgetNothing(m, S) == UNCHANGED trackerVars

(* OffsetTracker.forget                                                    *)
Forget(m, S) ==
    /\ dispatched' = [dispatched EXCEPT ![m] =
          [tp \in Partitions |-> IF tp \in S THEN {} ELSE @[tp]]]
    /\ completed' = [completed EXCEPT ![m] =
          [tp \in Partitions |-> IF tp \in S THEN {} ELSE @[tp]]]

(* The member leaves the group: its partitions have no owner.              *)
Release(m) == owner' = [tp \in Partitions |-> IF owner[tp] = m THEN NoMember
                                                               ELSE owner[tp]]

(* The client drops its fetch state of partitions it no longer has.        *)
DropPositions(m) ==
    /\ position' = [position EXCEPT ![m] = [tp \in Partitions |-> 0]]
    /\ next' = [next EXCEPT ![m] = [tp \in Partitions |-> 0]]

(* Idle threads; which of them takes a job makes no difference.            *)
IdleSlots(m) == {s \in Slots : job[m][s] = NoJob}
IdleSlot(m) == CHOOSE s \in IdleSlots(m) : TRUE

(* Threads of m running a message of tp.                                   *)
Busy(m, tp) == {s \in Slots : job[m][s] # NoJob /\ job[m][s].msg[1] = tp}

(* Partitions with polled messages not handed out yet.                     *)
BatchLeft(m) == {tp \in Partitions : next[m][tp] < position[m][tp]}

----------------------------------------------------------------------------
(* The poll loop (consume_forever).                                        *)

(* while not _shutdown: _commit_ready_offsets()                            *)
CommitReady(m) ==
    /\ main[m] = "committing" /\ ~shutdown[m]
    /\ Commit(m, Partitions)
    /\ Retire(m, Partitions)
    /\ main' = [main EXCEPT ![m] = "polling"]
    /\ UNCHANGED <<owner, inGroup, dlqVars, storageVars, shutdown, assigned, position,
                   next, job, historyVars>>

(* ... the loop ends: finally _drain_and_commit()                          *)
LoopEnds(m) ==
    /\ main[m] = "committing" /\ shutdown[m]
    /\ main' = [main EXCEPT ![m] = "draining"]
    /\ UNCHANGED <<brokerVars, storageVars, shutdown, assigned, position, next,
                   trackerVars, job, historyVars>>

(* The messages between the positions p and q of the partitions.           *)
Between(p, q) == {msg \in Messages : p[msg[1]] <= msg[2] /\ msg[2] < q[msg[1]]}

(* consumer.poll() returns at most MaxPollRecords records, in offset order *)
(* from the fetch position; none when nothing is there to read, or when    *)
(* the fetch does not come back within the poll's timeout.                 *)
Poll(m) ==
    /\ main[m] = "polling" /\ m \in inGroup
    /\ \E p \in [Partitions -> 0 .. LogEnd] :
          /\ \A tp \in Partitions : /\ p[tp] >= position[m][tp]
                                    /\ tp \notin assigned[m] => p[tp] = position[m][tp]
          /\ Cardinality(Between(position[m], p)) <= MaxPollRecords
          /\ position' = [position EXCEPT ![m] = p]
          /\ main' = [main EXCEPT ![m] = IF p = position[m] THEN "committing"
                                                           ELSE "handling"]
    /\ UNCHANGED <<brokerVars, storageVars, shutdown, assigned, next, trackerVars,
                   job, historyVars>>

(* The head of the inner loops: stop on shutdown (the rest of the batch is *)
(* dropped), go round when the batch is done, or take a permit.            *)
NextMessage(m) ==
    /\ main[m] = "handling"
    /\ main' = [main EXCEPT ![m] = IF shutdown[m] THEN "draining"
                                   ELSE IF BatchLeft(m) = {} THEN "committing"
                                   ELSE "acquiring"]
    /\ UNCHANGED <<brokerVars, storageVars, shutdown, assigned, position, next,
                   trackerVars, job, historyVars>>

(* _handle_one_message, with a permit, on the next message of tp: each     *)
(* outcome below first registers the offset as dispatched.                 *)
TakeMessage(m, tp) ==
    /\ main[m] = "acquiring" /\ tp \in BatchLeft(m) /\ IdleSlots(m) # {}
    /\ next' = [next EXCEPT ![m][tp] = @ + 1]
    /\ main' = [main EXCEPT ![m] = "handling"]
    /\ UNCHANGED <<owner, inGroup, committed, answered, casebook, shutdown, assigned,
                   position, historyVars>>

(* Mutated form: registers the position to commit, not the offset.         *)
DispatchCompleteNext(m, tp, o) ==
    /\ dispatched' = [dispatched EXCEPT ![m][tp] = @ \cup {o + 1}]
    /\ completed' = [completed EXCEPT ![m][tp] = @ \cup {o + 1}]

(* Dispatched and completed before the poll thread moves on.               *)
DispatchComplete(m, tp, o) ==
    /\ dispatched' = [dispatched EXCEPT ![m][tp] = @ \cup {o}]
    /\ completed' = [completed EXCEPT ![m][tp] = @ \cup {o}]

(* parse() finds a poison pill: publish_to_dlq, then completed.            *)
HandlePoison(m, tp) ==
    LET msg == <<tp, next[m][tp]>> IN
    /\ TakeMessage(m, tp)
    /\ msg \in Poison
    /\ PublishToDlq(msg)
    /\ DispatchComplete(m, tp, msg[2])
    /\ UNCHANGED <<forwarded, job>>

(* should_skip(): not a rejected packet, or a terminal casebook exists.    *)
HandleSkip(m, tp) ==
    LET msg == <<tp, next[m][tp]>> IN
    /\ TakeMessage(m, tp)
    /\ msg \notin Poison
    /\ msg \in NotRejected \/ casebook[msg] # "none"
    /\ DispatchComplete(m, tp, msg[2])
    /\ UNCHANGED <<dlqVars, forwarded, job>>

(* _worker_pool.submit(_process_and_commit, ...)                           *)
HandleSubmit(m, tp) ==
    LET msg == <<tp, next[m][tp]>> IN
    /\ TakeMessage(m, tp)
    /\ msg \notin Poison \cup NotRejected
    /\ casebook[msg] = "none"
    /\ dispatched' = [dispatched EXCEPT ![m][tp] = @ \cup {msg[2]}]
    /\ job' = [job EXCEPT ![m][IdleSlot(m)] = [msg |-> msg, at |-> "forwarding"]]
    /\ forwarded' = forwarded \cup {msg}
    /\ UNCHANGED <<dlqVars, completed>>

(* The dedupe check raises (lock timeout, storage error): DLQ, abandon.    *)
HandleFault(m, tp) ==
    LET msg == <<tp, next[m][tp]>> IN
    /\ TakeMessage(m, tp)
    /\ msg \notin Poison \cup NotRejected
    /\ PublishToDlq(msg)
    /\ Abandon(m, msg)
    /\ UNCHANGED <<forwarded, job>>

(* One message handled, whichever way.                                     *)
Handle(m) ==
    \E tp \in Partitions : \/ HandlePoison(m, tp) \/ HandleSkip(m, tp)
                           \/ HandleSubmit(m, tp) \/ HandleFault(m, tp)

----------------------------------------------------------------------------
(* The worker threads (_process_and_commit).                               *)

FreeSlot(m, s) == job' = [job EXCEPT ![m][s] = NoJob]

(* The forward returns a 2xx: the offset is completed.                     *)
ForwardAnswered(m, s) ==
    /\ job[m][s] # NoJob /\ job[m][s].at = "forwarding"
    /\ answered' = answered \cup {job[m][s].msg}
    /\ Complete(m, job[m][s].msg)
    /\ FreeSlot(m, s)
    /\ UNCHANGED <<brokerVars, forwarded, casebook, mainVars, historyVars>>

(* requests.Timeout: FAILED_TIMEOUT is written, best effort, over whatever *)
(* casebook is there.                                                      *)
ForwardTimeout(m, s) ==
    /\ job[m][s] # NoJob /\ job[m][s].at = "forwarding"
    /\ job' = [job EXCEPT ![m][s] = [msg |-> job[m][s].msg, at |-> "timed_out"]]
    /\ \/ casebook' = [casebook EXCEPT ![job[m][s].msg] = "timeout"]
       \/ UNCHANGED casebook
    /\ UNCHANGED <<brokerVars, forwarded, answered, mainVars, trackerVars, historyVars>>

(* ... then the DLQ publish, and the offset is completed.                  *)
TimeoutToDlq(m, s) ==
    /\ job[m][s] # NoJob /\ job[m][s].at = "timed_out"
    /\ PublishToDlq(job[m][s].msg)
    /\ Complete(m, job[m][s].msg)
    /\ FreeSlot(m, s)
    /\ UNCHANGED <<owner, inGroup, committed, storageVars, mainVars, historyVars>>

(* Any other forward error: DLQ, then the offset is abandoned.             *)
ForwardError(m, s) ==
    /\ job[m][s] # NoJob /\ job[m][s].at = "forwarding"
    /\ PublishToDlq(job[m][s].msg)
    /\ Abandon(m, job[m][s].msg)
    /\ FreeSlot(m, s)
    /\ UNCHANGED <<owner, inGroup, committed, storageVars, mainVars, historyVars>>

Work(m, s) == \/ ForwardAnswered(m, s) \/ ForwardTimeout(m, s)
              \/ TimeoutToDlq(m, s) \/ ForwardError(m, s)

(* The endpoint, whose caller may be gone: it records a verdict, which a   *)
(* terminal casebook already there keeps out.                              *)
RecordVerdict(msg) ==
    /\ msg \in forwarded /\ casebook[msg] = "none"
    /\ casebook' = [casebook EXCEPT ![msg] = "verdict"]
    /\ UNCHANGED <<brokerVars, forwarded, answered, mainVars, trackerVars, job, historyVars>>

----------------------------------------------------------------------------
(* The group and the rebalance listener, which runs inside poll().         *)

(* The member outlives max_poll_interval_ms between two polls: the group   *)
(* drops it and frees its partitions; the process does not know yet.       *)
Evict(m) ==
    /\ rebalances < MaxRebalances
    /\ m \in inGroup /\ main[m] \in {"handling", "acquiring"}
    /\ inGroup' = inGroup \ {m}
    /\ Release(m)
    /\ rebalances' = rebalances + 1
    /\ UNCHANGED <<committed, dlqVars, storageVars, mainVars, trackerVars, job, interrupted,
                   stops>>

(* on_partitions_revoked: commit the safe floors, forget, rejoin.          *)
Revoke(m) ==
    /\ main[m] = "polling" /\ assigned[m] # {}
    /\ QuiescentRevoke => IdleSlots(m) = Slots
    /\ Commit(m, assigned[m])
    /\ Forget(m, assigned[m])
    /\ assigned' = [assigned EXCEPT ![m] = {}]
    /\ interrupted' = interrupted \cup {tp \in assigned[m] : Busy(m, tp) # {}}
    /\ inGroup' = inGroup \cup {m}
    /\ Release(m)
    /\ DropPositions(m)
    /\ UNCHANGED <<dlqVars, storageVars, main, shutdown, job, stops>>

(* A member comes or goes, so the group asks everyone to rejoin.           *)
VoluntaryRevoke(m) ==
    /\ m \in inGroup /\ rebalances < MaxRebalances
    /\ rebalances' = rebalances + 1
    /\ Revoke(m)

(* An evicted member learns of it at its next poll.                        *)
LateRevoke(m) == m \notin inGroup /\ UNCHANGED rebalances /\ Revoke(m)

(* on_partitions_assigned: drop stale state, fetch from the committed      *)
(* positions.                                                              *)
Assign(m) ==
    /\ main[m] = "polling" /\ m \in inGroup /\ assigned[m] = {}
    /\ \E S \in SUBSET {tp \in Partitions : owner[tp] = NoMember} \ {{}} :
          /\ owner' = [tp \in Partitions |-> IF tp \in S THEN m ELSE owner[tp]]
          /\ assigned' = [assigned EXCEPT ![m] = S]
          /\ Forget(m, S)
          /\ position' = [position EXCEPT ![m] =
                 [tp \in Partitions |-> IF tp \in S THEN committed[tp] ELSE @[tp]]]
          /\ next' = [next EXCEPT ![m] =
                 [tp \in Partitions |-> IF tp \in S THEN committed[tp] ELSE @[tp]]]
    /\ UNCHANGED <<inGroup, committed, dlqVars, storageVars, main, shutdown, job, historyVars>>

----------------------------------------------------------------------------
(* Shutdown, crash, restart.                                               *)

(* request_shutdown, from SIGTERM or SIGINT.                               *)
RequestShutdown(m) ==
    /\ stops < MaxStops
    /\ main[m] \notin {"stopped", "down"} /\ ~shutdown[m]
    /\ shutdown' = [shutdown EXCEPT ![m] = TRUE]
    /\ stops' = stops + 1
    /\ UNCHANGED <<brokerVars, storageVars, main, assigned, position, next,
                   trackerVars, job, interrupted, rebalances>>

(* _drain_and_commit: nothing in flight, or the deadline passed; commit    *)
(* what finished and close.  Worker threads may still be running.          *)
Drain(m) ==
    /\ main[m] = "draining"
    /\ Commit(m, Partitions)
    /\ Retire(m, Partitions)
    /\ main' = [main EXCEPT ![m] = "stopped"]
    /\ assigned' = [assigned EXCEPT ![m] = {}]
    /\ inGroup' = inGroup \ {m}
    /\ Release(m)
    /\ DropPositions(m)
    /\ UNCHANGED <<dlqVars, storageVars, shutdown, job, historyVars>>

(* The process dies where it stands; the group drops it.                   *)
Crash(m) ==
    /\ stops < MaxStops
    /\ main[m] \notin {"stopped", "down"}
    /\ stops' = stops + 1
    /\ main' = [main EXCEPT ![m] = "down"]
    /\ assigned' = [assigned EXCEPT ![m] = {}]
    /\ inGroup' = inGroup \ {m}
    /\ Release(m)
    /\ DropPositions(m)
    /\ Forget(m, Partitions)
    /\ job' = [job EXCEPT ![m] = [s \in Slots |-> NoJob]]
    /\ UNCHANGED <<committed, dlqVars, storageVars, shutdown, interrupted, rebalances>>

(* A new process takes its place, with an empty tracker.                   *)
Restart(m) ==
    /\ main[m] \in {"stopped", "down"}
    /\ main' = [main EXCEPT ![m] = "committing"]
    /\ shutdown' = [shutdown EXCEPT ![m] = FALSE]
    /\ inGroup' = inGroup \cup {m}
    /\ Forget(m, Partitions)
    /\ DropPositions(m)
    /\ job' = [job EXCEPT ![m] = [s \in Slots |-> NoJob]]
    /\ UNCHANGED <<owner, committed, dlqVars, storageVars, assigned, historyVars>>

----------------------------------------------------------------------------
PollLoop(m) == \/ CommitReady(m) \/ LoopEnds(m) \/ Poll(m) \/ NextMessage(m)
               \/ Handle(m) \/ LateRevoke(m) \/ Drain(m)

Next ==
    \/ \E m \in Members : \/ PollLoop(m) \/ \E s \in Slots : Work(m, s)
                          \/ Evict(m) \/ VoluntaryRevoke(m) \/ Assign(m)
                          \/ RequestShutdown(m) \/ Crash(m) \/ Restart(m)
    \/ \E msg \in Messages : RecordVerdict(msg)

Spec == Init /\ [][Next]_vars

(* The poll loop keeps running, a forward returns or times out, a process  *)
(* that went away is restarted, the group keeps assigning and the broker   *)
(* keeps answering fetches: a member is in poll() again and again, and one *)
(* poll may always come back empty, so those two need strong fairness.     *)
FetchSome(m) == Poll(m) /\ position' # position
Fairness ==
    \A m \in Members : /\ WF_vars(PollLoop(m))
                       /\ SF_vars(FetchSome(m))
                       /\ \A s \in Slots : WF_vars(Work(m, s))
                       /\ WF_vars(Restart(m))
                       /\ SF_vars(Assign(m))

FairSpec == Spec /\ Fairness

----------------------------------------------------------------------------
(* Properties.                                                             *)

(* A message is accounted for when the endpoint took it, a terminal        *)
(* casebook or the DLQ holds it, or it never needed work.                  *)
Accounted ==
    {msg \in Messages : msg \in answered \cup dlq \cup NotRejected \/ casebook[msg] # "none"}

(* No message below a committed position exists nowhere (F3, and the       *)
(* docstring of _dlq_and_abandon): restarting the group from the committed *)
(* positions never skips a message nobody took charge of.                  *)
NoLoss ==
    \A tp \in Partitions : \A o \in 0 .. committed[tp] - 1 : <<tp, o>> \in Accounted

(* Partitions no member ever lost while it was still working on them.      *)
Undisturbed == Partitions \ interrupted

(* Accounted for, or lost by its own DLQ publish: with an error logged, or *)
(* behind a line that says it was published.                               *)
Covered == Accounted \cup dropped \cup silent

(* A message is lost in one of three ways only: its DLQ publish failed and *)
(* an error was logged, its DLQ publish was logged as done and never       *)
(* reached the topic, or its partition was revoked from a member that was  *)
(* still working on it.  Crashes, evictions, failed commits, retries and   *)
(* clean rebalances lose nothing.                                          *)
LossExplained ==
    \A tp \in Undisturbed : \A o \in 0 .. committed[tp] - 1 : <<tp, o>> \in Covered

(* The parts of the inductive invariant behind LossExplained and           *)
(* KeepsPromise, of one member, from its start until it stops.             *)
Live(m) == main[m] \notin {"stopped", "down"}

(* A member of the generation owns what it believes it owns; a process     *)
(* that stopped is out of the group and holds nothing.                     *)
OwnershipAgrees(m) ==
    /\ m \in inGroup => \A tp \in assigned[m] : owner[tp] = m
    /\ ~Live(m) => m \notin inGroup /\ assigned[m] = {}

(* The tracker holds offsets of assigned partitions only, of messages      *)
(* handed out and, while the member may commit, not committed past.        *)
TrackerInRange(m) ==
    Live(m) =>
        \A tp \in Undisturbed :
            /\ next[m][tp] <= position[m][tp]
            /\ next[m][tp] # position[m][tp] => tp \in assigned[m]
            /\ m \in inGroup /\ tp \in assigned[m] => committed[tp] <= next[m][tp]
            /\ \A o \in dispatched[m][tp] \cup completed[m][tp] :
                  /\ tp \in assigned[m]
                  /\ o < next[m][tp]
                  /\ m \in inGroup => committed[tp] <= o

(* Each busy thread runs a message of its own that the tracker still       *)
(* counts as running, so that the floor waits for it.                      *)
JobsHoldTheFloor(m) ==
    Live(m) =>
        \A tp \in Undisturbed : \A s \in Busy(m, tp) :
            /\ job[m][s].msg[2] \in StillRunning(dispatched[m][tp], completed[m][tp])
            /\ \A t \in Busy(m, tp) \ {s} : job[m][t].msg # job[m][s].msg

(* A message handed out is covered, or still running.                      *)
HandedOutCovered(m) ==
    Live(m) =>
        \A tp \in assigned[m] \cap Undisturbed : \A o \in 0 .. next[m][tp] - 1 :
            \/ <<tp, o>> \in Covered
            \/ o \in StillRunning(dispatched[m][tp], completed[m][tp])

MemberOK(m) == /\ OwnershipAgrees(m) /\ TrackerInRange(m)
               /\ JobsHoldTheFloor(m) /\ HandedOutCovered(m)

IInv == TypeOK /\ LossExplained /\ \A m \in Members : MemberOK(m)

(* The environment in which nothing is lost at all: the DLQ takes what it  *)
(* is given, and partitions leave a member only while its workers are idle.*)
KindEnvironment == DlqOutcomes \subseteq {"delivered"} /\ QuiescentRevoke

(* Only the partition's owner, by a step of its poll loop, moves its       *)
(* committed position (G7, the docstring of OffsetTracker.forget), until   *)
(* the partition is revoked under a running worker.                        *)
OnlyOwnerCommits ==
    [][\A tp \in Undisturbed : committed'[tp] # committed[tp] =>
          \E m \in Members :
              /\ owner[tp] = m
              /\ <<main'[m], assigned'[m]>> # <<main[m], assigned[m]>>]_vars

(* The committed positions and what is covered behave as the promise in    *)
(* AtLeastOnce: forward only, over covered messages only, but for the      *)
(* partitions interrupted, of which nothing is promised any more.          *)
Promise == INSTANCE AtLeastOnce WITH accounted <- Covered, void <- interrupted
KeepsPromise == Promise!Spec

(* No offset stays in the tracker as running without a thread that runs    *)
(* it: whatever the environment does, the floor waits for work, never for  *)
(* an offset nobody will finish (G1).                                      *)
FloorHeld ==
    \A m \in Members, tp \in Partitions :
        StillRunning(dispatched[m][tp], completed[m][tp])
            \subseteq {job[m][s].msg[2] : s \in Busy(m, tp)}

(* What a poll loop leaves completed and not committed, it leaves for a    *)
(* thread of its own that is running an earlier message of the partition.  *)
WaitsForWorkOnly ==
    [][\A m \in Members, tp \in Partitions : CommitReady(m) =>
          \A o \in completed'[m][tp] : \E s \in Busy(m, tp) : job[m][s].msg[2] < o]_vars

(* Every message of the topic is accounted for in the end, through         *)
(* crashes, restarts, evictions, failed commits and forwards.              *)
EveryMessageAccounted == \A msg \in Messages : <>(msg \in Accounted)

(* No commit stall (G1): a completed offset does not wait forever behind   *)
(* the floor of a poll loop that keeps running.                            *)
Waiting(m, tp, o) == o \in completed[m][tp] /\ main[m] # "stopped"
NoCommitStall ==
    \A m \in Members, tp \in Partitions, o \in 0 .. LogEnd - 1 :
        Waiting(m, tp, o) ~> ~Waiting(m, tp, o)
=============================================================================
